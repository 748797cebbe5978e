-------------------------- MODULE CompilePoolProofs --------------------------
(***************************************************************************)
(* The compile pool keeps its invariant, for every number of contexts,     *)
(* shader objects, texts, nodes, workers, failures and calls.              *)
(*                                                                         *)
(* The argument: a node is created with one ticket (a post of its own, or  *)
(* the edge of the link it follows), and a step passes the ticket on or    *)
(* uses it up, so a node is in one place at a time: with one thread, in    *)
(* the queue, or handed over.  A slot is taken with a node put in `handed` *)
(* and returned by the worker that took it out.  A compile is held by the  *)
(* objects of one context only, so between the test that finds an object   *)
(* to be its last holder and the cancel that follows nobody takes it up.   *)
(*                                                                         *)
(* The inductive invariant, PoolInv, comes first, part by part, with what  *)
(* a step must do to keep each part.  Most steps replace the head of one   *)
(* thread's list of tasks (Puts); the lemmas of the form Keeps... reduce a *)
(* part of the invariant after such a step to conditions on the tasks it   *)
(* puts there and on the variables it changes.  Then come the steps: first *)
(* those that only give a thread something to do, then those that settle,  *)
(* queue, hand over, adopt and make nodes.                                 *)
(***************************************************************************)
EXTENDS CompilePool, FiniteSetTheorems, SequenceTheorems, TLAPS

NodeOps == {"cancel", "run", "finish", "return", "post", "dep"}
PlainOps == {"unlock", "resume", "stop", "join", "publish", "publishB"}
Links == {Link(i) : i \in 1 .. MaxLinks}
Task == (NodeOps \X Node) \cup ({"edge"} \X [dep : CompileNode, link : Links])
        \cup ({"pull"} \X Shaders) \cup ({"link"} \X SUBSET Shaders)
        \cup ({"budget"} \X (1 .. Cardinality(Workers))) \cup (PlainOps \X {None})
Compiled == CompileNode \cup {None}

(* What the variables range over; `remaining` may be any integer here.     *)
Types ==
    /\ state \in [Node -> {"none", "Pending", "Running", "Complete", "Canceled"}]
    /\ cancelReq \in [Node -> BOOLEAN] /\ conts \in [Node -> Seq(Node)]
    /\ remaining \in [1 .. MaxLinks -> Int] /\ snap \in [1 .. MaxLinks -> SUBSET Compiled]
    /\ queue \in Seq(Node) /\ handed \subseteq Node
    /\ inFlight \in Int /\ budget \in 1 .. Cardinality(Workers)
    /\ src \in [Shaders -> Texts] /\ compiled \in [Shaders -> Compiled]
    /\ adopters \in [CompileNode -> Int] /\ pinned \in [CompileNode -> BOOLEAN]
    /\ index \in [GL -> [Texts -> Compiled]]
    /\ pendingLink \in [GL -> 0 .. MaxLinks] /\ pendingSpirv \in [GL -> 0 .. MaxLinks]
    /\ work \in [Threads -> Seq(Task)]
    /\ failures \in Nat

(* Nodes are made in order, a link with its SPIR-V job, and only nodes that *)
(* are made settle.                                                        *)
MadeInv ==
    /\ \E m \in 0 .. MaxCompiles : \A k \in 1 .. MaxCompiles :
         state[<<"compile", k>>] = "none" <=> k > m
    /\ \E m \in 0 .. MaxLinks : \A i \in 1 .. MaxLinks : state[Link(i)] = "none" <=> i > m
    /\ \A i \in 1 .. MaxLinks : state[Spirv(i)] = "none" <=> state[Link(i)] = "none"
    /\ \A t \in Threads : \A k \in DOMAIN work[t] :
         work[t][k][1] = "finish" => state[work[t][k][2]] # "none"

(* A stopped pool has no queue, and only StopAndDrain's caller joins it.   *)
DrainInv ==
    /\ stopped => queue = <<>> /\ ~hasPool
    /\ drained => stopped /\ WorkersDone
    /\ \A t \in Threads : \A k \in DOMAIN work[t] : work[t][k][1] = "join" => stopped

(* Holders are counted, a compile belongs to one context, and a link pins  *)
(* its snapshot.                                                           *)
Contexts(n) == {s[1] : s \in Holders(n)} \cup {g \in GL : \E x \in Texts : index[g][x] = n}
HolderInv ==
    /\ HoldersCounted
    /\ \A n \in CompileNode : /\ \A g, h \in Contexts(n) : g = h
                              /\ state[n] = "none" => Contexts(n) = {} /\ ~pinned[n]
    /\ \A i \in 1 .. MaxLinks : \A n \in CompileNode : n \in snap[i] => pinned[n]

(* Nobody has asked, or is about to ask, a needed compile to stop; who is  *)
(* about to ask is the only context that could take it up again.           *)
Excused == stopped \/ failures > 0
Asks(t, n) == \E k \in DOMAIN work[t] : work[t][k] = <<"cancel", n>>
CancelInv ==
    /\ \A n \in CompileNode : cancelReq[n] => Excused \/ (~Needed(n) /\ state[n] # "none")
    /\ \A t \in Threads, n \in CompileNode : Asks(t, n) =>
         Excused \/ (~Needed(n) /\ state[n] # "none" /\ Contexts(n) \subseteq {t})

(* A node is in one place from its creation until its body has run.        *)
Ticket(c, n) == \/ c = <<"post", n>> \/ c = <<"run", n>> \/ c = <<"finish", n>>
                \/ n[1] = "spirv" /\ c = <<"dep", n>>
Holds(t, n) == \E k \in DOMAIN work[t] : Ticket(work[t][k], n)
Queued(n) == \E k \in DOMAIN queue : queue[k] = n
OnItsWay(n) == (\E t \in Threads : Holds(t, n)) \/ Queued(n) \/ n \in handed
OnceInv ==
    /\ \A n \in Node, t, u \in Threads : \A j \in DOMAIN work[t], k \in DOMAIN work[u] :
         Ticket(work[t][j], n) /\ Ticket(work[u][k], n) => t = u /\ j = k
    /\ \A n \in Node : (\E t \in Threads : Holds(t, n)) => ~Queued(n) /\ n \notin handed
    /\ \A j, k \in DOMAIN queue : queue[j] = queue[k] => j = k
    /\ \A k \in DOMAIN queue : queue[k] \notin handed

(* What gives a node its place does so once.                               *)
SourceInv ==
    /\ \A n \in Node : state[n] = "none" => ~OnItsWay(n)
    /\ \A i \in 1 .. MaxLinks : /\ OnItsWay(Link(i)) => remaining[i] <= 0
                                /\ state[Link(i)] = "none" => remaining[i] <= 0 /\ conts[Link(i)] = <<>>
                                /\ OnItsWay(Spirv(i)) => conts[Link(i)] = <<>>
                                /\ conts[Link(i)] \in {<<>>, <<Spirv(i)>>}
                                /\ conts[Spirv(i)] = <<>>
    /\ \A n \in CompileNode : \A k \in DOMAIN conts[n] : conts[n][k] \in Links

(* Slots are held by what was handed over and by busy workers, and a       *)
(* worker's last task is to return its own.                                *)
SlotInv ==
    /\ SlotsHeld
    /\ inFlight <= Cardinality(Workers)
    /\ ~hasPool => queue = <<>>
    /\ ~stopped /\ queue # <<>> => inFlight >= budget
    /\ \A t \in Threads : \A k \in DOMAIN work[t] :
         work[t][k][1] = "return" => t \in Workers /\ k = Len(work[t])

PoolInv ==
    /\ Types /\ MadeInv /\ DrainInv /\ HolderInv /\ CancelInv /\ OnceInv /\ SourceInv
    /\ SlotInv
-----------------------------------------------------------------------------
(* Tasks and lists of them *)

LEMMA TaskParts ==
    ASSUME NEW c \in Task
    PROVE  /\ c[1] \in NodeOps => c[2] \in Node
           /\ c[1] = "edge" => c[2].dep \in CompileNode /\ c[2].link \in Links
           /\ c[1] = "pull" => c[2] \in Shaders
           /\ c[1] = "link" => c[2] \in SUBSET Shaders
           /\ c[1] = "budget" => c[2] \in 1 .. Cardinality(Workers)
           /\ c = <<c[1], c[2]>>
<1>1. CASE c \in NodeOps \X Node
  BY <1>1 DEF NodeOps
<1>2. CASE c \in {"edge"} \X [dep : CompileNode, link : Links]
  BY <1>2 DEF NodeOps
<1>3. CASE c \in {"pull"} \X Shaders
  BY <1>3 DEF NodeOps
<1>4. CASE c \in {"link"} \X SUBSET Shaders
  BY <1>4 DEF NodeOps
<1>5. CASE c \in {"budget"} \X (1 .. Cardinality(Workers))
  BY <1>5 DEF NodeOps
<1>6. CASE c \in PlainOps \X {None}
  BY <1>6 DEF NodeOps, PlainOps
<1>7. QED
  BY <1>1, <1>2, <1>3, <1>4, <1>5, <1>6 DEF Task

LEMMA NodeTask ==
    ASSUME NEW op \in NodeOps, NEW n \in Node
    PROVE  <<op, n>> \in Task
BY DEF Task

LEMMA NodeKinds ==
    /\ \A n \in CompileNode : n \in Node /\ n[1] = "compile" /\ n # None
    /\ \A i \in 1 .. MaxLinks : /\ Link(i) \in Node /\ Spirv(i) \in Node /\ Link(i) \in Links
                                /\ Link(i)[1] = "link" /\ Link(i)[2] = i
                                /\ Spirv(i)[1] = "spirv" /\ Spirv(i)[2] = i
    /\ \A n \in Node : /\ n[1] = "compile" => n \in CompileNode
                       /\ n[1] = "link" => n[2] \in 1 .. MaxLinks /\ n = Link(n[2])
                       /\ n[1] = "spirv" => n[2] \in 1 .. MaxLinks /\ n = Spirv(n[2])
                       /\ n[1] \in {"compile", "link", "spirv"}
    /\ Links \subseteq Node
<1>1. \A n \in CompileNode : n \in Node /\ n[1] = "compile" /\ n # None
  BY NoneAssumption DEF CompileNode, Node
<1>2. \A i \in 1 .. MaxLinks : /\ Link(i) \in Node /\ Spirv(i) \in Node /\ Link(i) \in Links
                               /\ Link(i)[1] = "link" /\ Link(i)[2] = i
                               /\ Spirv(i)[1] = "spirv" /\ Spirv(i)[2] = i
  BY DEF Node, Links, Link, Spirv
<1>3. ASSUME NEW n \in Node
      PROVE  /\ n[1] = "compile" => n \in CompileNode
             /\ n[1] = "link" => n[2] \in 1 .. MaxLinks /\ n = Link(n[2])
             /\ n[1] = "spirv" => n[2] \in 1 .. MaxLinks /\ n = Spirv(n[2])
             /\ n[1] \in {"compile", "link", "spirv"}
  <2>1. CASE n \in CompileNode
    BY <1>1, <2>1
  <2>2. ASSUME NEW i \in 1 .. MaxLinks, n = Link(i) PROVE <1>3!2
    BY <1>2, <2>2
  <2>3. ASSUME NEW i \in 1 .. MaxLinks, n = Spirv(i) PROVE <1>3!2
    BY <1>2, <2>3
  <2>4. QED
    BY <1>3, <2>1, <2>2, <2>3 DEF Node
<1>4. Links \subseteq Node
  BY DEF Links, Node
<1>5. QED
  BY <1>1, <1>2, <1>3, <1>4

(* What a thread has to do after a step: the tasks of the step, and what   *)
(* was behind its task.                                                    *)
Rest(t) == IF work[t] = <<>> THEN <<>> ELSE Tail(work[t])
Puts(t, tasks) == work' = [work EXCEPT ![t] = tasks \o Rest(t)]

LEMMA RestOf ==
    ASSUME NEW t \in Threads, work \in [Threads -> Seq(Task)]
    PROVE  /\ Rest(t) \in Seq(Task) /\ Len(work[t]) \in Nat /\ Len(Rest(t)) \in Nat
           /\ DOMAIN work[t] = 1 .. Len(work[t]) /\ DOMAIN Rest(t) = 1 .. Len(Rest(t))
           /\ work[t] = <<>> => Len(Rest(t)) = 0 /\ Len(work[t]) = 0
           /\ work[t] # <<>> => Len(Rest(t)) = Len(work[t]) - 1 /\ Len(work[t]) > 0
           /\ \A k \in DOMAIN Rest(t) : k + 1 \in DOMAIN work[t] /\ Rest(t)[k] = work[t][k + 1]
<1>1. work[t] \in Seq(Task)
  OBVIOUS
<1>2. CASE work[t] = <<>>
  BY <1>2 DEF Rest
<1>3. CASE work[t] # <<>>
  <2>1. Rest(t) = Tail(work[t])
    BY <1>3 DEF Rest
  <2>2. QED
    BY <1>1, <1>3, <2>1
<1>4. QED
  BY <1>2, <1>3

LEMMA Joined ==
    ASSUME NEW S, NEW a \in Seq(S), NEW b \in Seq(S)
    PROVE  /\ a \o b \in Seq(S) /\ Len(a) \in Nat /\ Len(b) \in Nat
           /\ Len(a \o b) = Len(a) + Len(b) /\ DOMAIN (a \o b) = 1 .. Len(a) + Len(b)
           /\ DOMAIN a = 1 .. Len(a) /\ DOMAIN b = 1 .. Len(b)
           /\ \A k \in 1 .. Len(a) : (a \o b)[k] = a[k]
           /\ \A k \in 1 .. Len(b) : (a \o b)[Len(a) + k] = b[k]
OBVIOUS

LEMMA Behind ==
    ASSUME NEW S, NEW a \in Seq(S), NEW b \in Seq(S), NEW c, c = a \o b
    PROVE  /\ Len(c) \in Nat /\ DOMAIN c = 1 .. Len(c)
           /\ \A k \in DOMAIN a : k \in DOMAIN c /\ c[k] = a[k]
           /\ \A k \in DOMAIN c : k \in DOMAIN a \/ (/\ k > Len(a) /\ k - Len(a) \in DOMAIN b
                                                 /\ c[k] = b[k - Len(a)])
           /\ \A k \in DOMAIN b : Len(a) + k \in DOMAIN c /\ c[Len(a) + k] = b[k]
<1>1. /\ Len(a) \in Nat /\ Len(b) \in Nat
      /\ Len(c) = Len(a) + Len(b) /\ DOMAIN c = 1 .. Len(a) + Len(b)
      /\ DOMAIN a = 1 .. Len(a) /\ DOMAIN b = 1 .. Len(b)
      /\ \A k \in 1 .. Len(a) : c[k] = a[k]
      /\ \A k \in 1 .. Len(b) : c[Len(a) + k] = b[k]
  BY Joined
<1>2. PICK m \in Nat, n \in Nat : m = Len(a) /\ n = Len(b)
  BY <1>1
<1>3. \A k \in 1 .. m + n : k \in 1 .. m \/ (/\ k > m /\ k - m \in 1 .. n /\ m + (k - m) = k)
  OBVIOUS
<1>4. \A k \in DOMAIN c : k \in DOMAIN a \/ (/\ k > m /\ k - m \in 1 .. n /\ m + (k - m) = k)
  BY <1>1, <1>2, <1>3
<1>5. \A k \in DOMAIN c : k \in DOMAIN a \/ (/\ k > m /\ k - m \in DOMAIN b /\ c[k] = b[k - m])
  BY <1>1, <1>2, <1>4
<1>6. \A k \in 1 .. n : m + k \in 1 .. m + n
  OBVIOUS
<1>7. \A k \in 1 .. m : k \in 1 .. m + n
  OBVIOUS
<1>8. Len(c) \in Nat /\ DOMAIN c = 1 .. Len(c)
  BY <1>1, <1>2
<1>9. \A k \in DOMAIN a : k \in DOMAIN c /\ c[k] = a[k]
  BY <1>1, <1>2, <1>7
<1>10. \A k \in DOMAIN b : Len(a) + k \in DOMAIN c /\ c[Len(a) + k] = b[k]
  BY <1>1, <1>2, <1>6
<1>11. QED
  BY <1>2, <1>5, <1>8, <1>9, <1>10

LEMMA PutsWork ==
    ASSUME work \in [Threads -> Seq(Task)], NEW t \in Threads, NEW tasks \in Seq(Task),
           Puts(t, tasks)
    PROVE  /\ work' \in [Threads -> Seq(Task)]
           /\ \A u \in Threads \ {t} : work'[u] = work[u]
           /\ Len(tasks) \in Nat /\ DOMAIN tasks = 1 .. Len(tasks)
           /\ Len(work[t]) \in Nat /\ DOMAIN work[t] = 1 .. Len(work[t])
           /\ Len(work'[t]) \in Nat /\ DOMAIN work'[t] = 1 .. Len(work'[t])
           /\ work[t] = <<>> => Len(work'[t]) = Len(tasks) /\ Len(work[t]) = 0
           /\ work[t] # <<>> => Len(work'[t]) = Len(tasks) + Len(work[t]) - 1
           /\ \A k \in DOMAIN tasks : k \in DOMAIN work'[t] /\ work'[t][k] = tasks[k]
           /\ \A k \in DOMAIN work'[t] :
                \/ k \in DOMAIN tasks /\ work'[t][k] = tasks[k]
                \/ /\ k > Len(tasks) /\ k - Len(tasks) + 1 \in DOMAIN work[t]
                   /\ work'[t][k] = work[t][k - Len(tasks) + 1]
           /\ \A j \in DOMAIN work[t] : j > 1 =>
                /\ Len(tasks) + j - 1 \in DOMAIN work'[t]
                /\ work'[t][Len(tasks) + j - 1] = work[t][j]
<1>1. /\ Rest(t) \in Seq(Task) /\ Len(work[t]) \in Nat /\ Len(Rest(t)) \in Nat
      /\ DOMAIN work[t] = 1 .. Len(work[t]) /\ DOMAIN Rest(t) = 1 .. Len(Rest(t))
      /\ work[t] = <<>> => Len(Rest(t)) = 0 /\ Len(work[t]) = 0
      /\ work[t] # <<>> => Len(Rest(t)) = Len(work[t]) - 1 /\ Len(work[t]) > 0
      /\ \A k \in DOMAIN Rest(t) : k + 1 \in DOMAIN work[t] /\ Rest(t)[k] = work[t][k + 1]
  BY RestOf
<1>2. PICK rest \in Seq(Task) : rest = Rest(t)
  BY <1>1
<1>3. /\ work' \in [Threads -> Seq(Task)] /\ work'[t] = tasks \o rest
      /\ \A u \in Threads \ {t} : work'[u] = work[u]
  <2>1. tasks \o rest \in Seq(Task)
    BY Joined
  <2>2. QED
    BY <1>2, <2>1 DEF Puts
<1>4. PICK all : all = work'[t]
  OBVIOUS
<1>5. /\ Len(tasks) \in Nat /\ DOMAIN tasks = 1 .. Len(tasks) /\ Len(all) = Len(tasks) + Len(rest)
  BY <1>3, <1>4, Joined
<1>6. /\ Len(all) \in Nat /\ DOMAIN all = 1 .. Len(all)
      /\ \A k \in DOMAIN tasks : k \in DOMAIN all /\ all[k] = tasks[k]
      /\ \A k \in DOMAIN all : k \in DOMAIN tasks \/ (/\ k > Len(tasks)
                                                      /\ k - Len(tasks) \in DOMAIN rest
                                                      /\ all[k] = rest[k - Len(tasks)])
      /\ \A k \in DOMAIN rest : Len(tasks) + k \in DOMAIN all /\ all[Len(tasks) + k] = rest[k]
  BY <1>3, <1>4, Behind
<1>7. ASSUME NEW j \in DOMAIN work[t], j > 1
      PROVE  /\ Len(tasks) + j - 1 \in DOMAIN all
             /\ all[Len(tasks) + j - 1] = work[t][j]
  <2>0. PICK m \in Nat : m = Len(work[t])
    BY <1>1
  <2>1. work[t] # <<>> /\ j \in 1 .. m
    <3>1. j \in 1 .. m
      BY <1>1, <1>7, <2>0
    <3>2. work[t] = <<>> => m = 0
      BY <1>1, <2>0
    <3>3. m # 0
      BY <3>1
    <3>4. QED
      BY <3>1, <3>2, <3>3
  <2>2. j - 1 \in 1 .. Len(rest) /\ (j - 1) + 1 = j
    BY <1>1, <1>2, <1>7, <2>0, <2>1
  <2>3. Len(tasks) + (j - 1) = Len(tasks) + j - 1
    BY <1>5, <2>1
  <2>4. j - 1 \in DOMAIN rest
    BY <1>1, <1>2, <2>2
  <2>5. rest[j - 1] = work[t][j]
    BY <1>1, <1>2, <2>2, <2>4
  <2>6. QED
    BY <1>6, <2>3, <2>4, <2>5
<1>8. \A k \in DOMAIN all :
        \/ k \in DOMAIN tasks /\ all[k] = tasks[k]
        \/ /\ k > Len(tasks) /\ k - Len(tasks) + 1 \in DOMAIN work[t]
           /\ all[k] = work[t][k - Len(tasks) + 1]
  BY <1>1, <1>2, <1>6
<1>9. /\ work[t] = <<>> => Len(all) = Len(tasks) /\ Len(work[t]) = 0
      /\ work[t] # <<>> => Len(all) = Len(tasks) + Len(work[t]) - 1
  <2>1. PICK a \in Nat, b \in Nat, c \in Nat : a = Len(tasks) /\ b = Len(rest) /\ c = Len(work[t])
    BY <1>1, <1>2, <1>5
  <2>2. Len(all) = a + b
    BY <1>5, <2>1
  <2>3. work[t] = <<>> => b = 0 /\ c = 0
    BY <1>1, <1>2, <2>1
  <2>4. work[t] # <<>> => b = c - 1
    BY <1>1, <1>2, <2>1
  <2>5. b = 0 => a + b = a
    OBVIOUS
  <2>6. b = c - 1 => a + b = a + c - 1
    OBVIOUS
  <2>7. QED
    BY <2>1, <2>2, <2>3, <2>4, <2>5, <2>6
<1>10. QED
  BY <1>1, <1>3, <1>4, <1>5, <1>6, <1>7, <1>8, <1>9
LEMMA FromWork ==
    ASSUME work \in [Threads -> Seq(Task)], NEW t \in Threads, NEW tasks \in Seq(Task),
           Puts(t, tasks)
    PROVE  \A u \in Threads : \A k \in DOMAIN work'[u] :
             \/ \E j \in DOMAIN work[u] : work'[u][k] = work[u][j]
             \/ u = t /\ k \in DOMAIN tasks /\ work'[u][k] = tasks[k]
<1>1. ASSUME NEW u \in Threads, NEW k \in DOMAIN work'[u]
      PROVE  \/ \E j \in DOMAIN work[u] : work'[u][k] = work[u][j]
             \/ u = t /\ k \in DOMAIN tasks /\ work'[u][k] = tasks[k]
  <2>1. CASE u = t
    BY <1>1, <2>1, PutsWork
  <2>2. CASE u # t
    <3>1. work'[u] = work[u]
      BY <2>2, PutsWork
    <3>2. QED
      BY <1>1, <3>1
  <2>3. QED
    BY <2>1, <2>2
<1>2. QED
  BY <1>1

LEMMA WorkTasks ==
    ASSUME work \in [Threads -> Seq(Task)], NEW t \in Threads
    PROVE  \A k \in DOMAIN work[t] : work[t][k] \in Task
<1>1. work[t] \in Seq(Task)
  OBVIOUS
<1>2. PICK s \in Seq(Task) : s = work[t]
  BY <1>1
<1>3. \A k \in DOMAIN s : s[k] \in Task
  OBVIOUS
<1>4. QED
  BY <1>2, <1>3

LEMMA SeqElements ==
    ASSUME NEW S, NEW s \in Seq(S)
    PROVE  /\ Len(s) \in Nat /\ DOMAIN s = 1 .. Len(s) /\ (s = <<>> <=> Len(s) = 0)
           /\ \A k \in DOMAIN s : s[k] \in S
OBVIOUS

LEMMA AtTask ==
    ASSUME work \in [Threads -> Seq(Task)], NEW t \in Threads, NEW op, At(t, op)
    PROVE  /\ work[t] # <<>> /\ 1 \in DOMAIN work[t] /\ Head(work[t]) = work[t][1]
           /\ work[t][1] \in Task /\ work[t][1] = <<op, Arg(t)>>
           /\ work[t][1][1] = op /\ work[t][1][2] = Arg(t)
<1>1. work[t] \in Seq(Task) /\ work[t] # <<>>
  BY DEF At
<1>2. PICK s \in Seq(Task) : s = work[t]
  BY <1>1
<1>3. s # <<>> => 1 \in DOMAIN s /\ Head(s) = s[1] /\ s[1] \in Task
  OBVIOUS
<1>4. 1 \in DOMAIN work[t] /\ Head(work[t]) = work[t][1] /\ work[t][1] \in Task
  BY <1>1, <1>2, <1>3
<1>5. work[t][1][1] = op /\ work[t][1][2] = Arg(t)
  BY <1>4 DEF At, Arg
<1>6. work[t][1] = <<work[t][1][1], work[t][1][2]>>
  BY <1>4, TaskParts
<1>7. QED
  BY <1>1, <1>4, <1>5, <1>6

LEMMA NodeArg ==
    ASSUME Types, NEW t \in Threads, NEW op \in NodeOps, At(t, op)
    PROVE  /\ Arg(t) \in Node /\ work[t] # <<>> /\ 1 \in DOMAIN work[t]
           /\ work[t][1] = <<op, Arg(t)>> /\ work[t][1][1] = op
<1>1. work \in [Threads -> Seq(Task)]
  BY DEF Types
<1>2. /\ work[t] # <<>> /\ 1 \in DOMAIN work[t] /\ work[t][1] \in Task
      /\ work[t][1] = <<op, Arg(t)>> /\ work[t][1][1] = op /\ work[t][1][2] = Arg(t)
  BY <1>1, AtTask
<1>3. Arg(t) \in Node
  BY <1>2, TaskParts
<1>4. QED
  BY <1>2, <1>3

LEMMA IntoPuts ==
    ASSUME NEW t \in Threads, work[t] # <<>>, NEW tasks, Into(t, tasks)
    PROVE  Puts(t, tasks)
BY DEF Into, Puts, Rest

LEMMA BeginPuts ==
    ASSUME NEW t \in Threads, work[t] = <<>>, NEW tasks \in Seq(Task), Begin(t, tasks)
    PROVE  Puts(t, tasks)
<1>1. tasks \o <<>> = tasks
  BY ConcatEmptySeq
<1>2. QED
  BY <1>1 DEF Begin, Puts, Rest

-----------------------------------------------------------------------------
(* What each part of the invariant needs of a step *)

FinishOk(tasks) == \A k \in DOMAIN tasks : tasks[k][1] = "finish" => state'[tasks[k][2]] # "none"
MadeKept == \A n \in Node : state'[n] = "none" <=> state[n] = "none"
StaysMade == \A n \in Node : state'[n] = "none" => state[n] = "none"

LEMMA KeepsFinish ==
    ASSUME Types, MadeInv, NEW t \in Threads, NEW tasks \in Seq(Task), Puts(t, tasks),
           StaysMade, FinishOk(tasks)
    PROVE  \A u \in Threads : \A k \in DOMAIN work'[u] :
             work'[u][k][1] = "finish" => state'[work'[u][k][2]] # "none"
<1>1. ASSUME NEW u \in Threads, NEW k \in DOMAIN work'[u], work'[u][k][1] = "finish"
      PROVE  state'[work'[u][k][2]] # "none"
  <2>1. CASE \E j \in DOMAIN work[u] : work'[u][k] = work[u][j]
    <3>1. PICK j \in DOMAIN work[u] : work'[u][k] = work[u][j]
      BY <2>1
    <3>2. work[u][j] \in Task
      BY WorkTasks DEF Types
    <3>3. work[u][j][2] \in Node
      BY <1>1, <3>1, <3>2, TaskParts DEF NodeOps
    <3>4. state[work[u][j][2]] # "none"
      BY <1>1, <3>1 DEF MadeInv
    <3>5. QED
      BY <3>1, <3>3, <3>4 DEF StaysMade
  <2>2. CASE u = t /\ k \in DOMAIN tasks /\ work'[u][k] = tasks[k]
    BY <1>1, <2>2 DEF FinishOk
  <2>3. QED
    BY <2>1, <2>2, FromWork DEF Types
<1>2. QED
  BY <1>1

LEMMA KeepsMade ==
    ASSUME Types, MadeInv, NEW t \in Threads, NEW tasks \in Seq(Task), Puts(t, tasks),
           MadeKept, FinishOk(tasks)
    PROVE  MadeInv'
<1>1. /\ \A k \in 1 .. MaxCompiles : <<"compile", k>> \in Node
      /\ \A i \in 1 .. MaxLinks : Link(i) \in Node /\ Spirv(i) \in Node
  BY NodeKinds DEF CompileNode
<1>2. \E m \in 0 .. MaxCompiles : \A k \in 1 .. MaxCompiles :
        state'[<<"compile", k>>] = "none" <=> k > m
  BY <1>1 DEF MadeInv, MadeKept
<1>3. \E m \in 0 .. MaxLinks : \A i \in 1 .. MaxLinks : state'[Link(i)] = "none" <=> i > m
  BY <1>1 DEF MadeInv, MadeKept
<1>4. \A i \in 1 .. MaxLinks : state'[Spirv(i)] = "none" <=> state'[Link(i)] = "none"
  BY <1>1 DEF MadeInv, MadeKept
<1>5. \A u \in Threads : \A k \in DOMAIN work'[u] :
        work'[u][k][1] = "finish" => state'[work'[u][k][2]] # "none"
  BY KeepsFinish DEF MadeKept, StaysMade
<1>6. QED
  BY <1>2, <1>3, <1>4, <1>5 DEF MadeInv, Link, Spirv

JoinOk(tasks) == \A k \in DOMAIN tasks : tasks[k][1] = "join" => stopped'

LEMMA KeepsDrain ==
    ASSUME Types, DrainInv, NEW t \in Threads, NEW tasks \in Seq(Task), Puts(t, tasks),
           JoinOk(tasks), stopped => stopped', stopped' => queue' = <<>> /\ ~hasPool',
           drained' => drained /\ handed' = {} /\ t \notin Workers
    PROVE  DrainInv'
<1>1. ASSUME drained' PROVE stopped' /\ WorkersDone'
  <2>1. stopped /\ \A w \in Workers : work[w] = <<>>
    BY <1>1 DEF DrainInv, WorkersDone
  <2>2. \A w \in Workers : work'[w] = work[w]
    <3>1. \A u \in Threads \ {t} : work'[u] = work[u]
      BY PutsWork DEF Types
    <3>2. QED
      BY <1>1, <3>1 DEF Threads
  <2>3. QED
    BY <1>1, <2>1, <2>2 DEF WorkersDone
<1>2. ASSUME NEW u \in Threads, NEW k \in DOMAIN work'[u], work'[u][k][1] = "join"
      PROVE  stopped'
  <2>1. CASE \E j \in DOMAIN work[u] : work'[u][k] = work[u][j]
    BY <1>2, <2>1 DEF DrainInv
  <2>2. CASE u = t /\ k \in DOMAIN tasks /\ work'[u][k] = tasks[k]
    BY <1>2, <2>2 DEF JoinOk
  <2>3. QED
    BY <2>1, <2>2, FromWork DEF Types
<1>3. QED
  BY <1>1, <1>2 DEF DrainInv

HoldersUnmoved == UNCHANGED <<compiled, adopters, pinned, index, snap>>

LEMMA KeepsHolders ==
    ASSUME Types, HolderInv, HoldersUnmoved, MadeKept
    PROVE  HolderInv' /\ \A n \in CompileNode : Contexts(n)' = Contexts(n)
<1>1. \A n \in CompileNode : Contexts(n)' = Contexts(n) /\ Holders(n)' = Holders(n)
  BY DEF HoldersUnmoved, Contexts, Holders
<1>2. HoldersCounted'
  BY <1>1 DEF HolderInv, HoldersCounted, HoldersUnmoved
<1>3. \A n \in CompileNode : state'[n] = "none" <=> state[n] = "none"
  BY NodeKinds DEF MadeKept
<1>4. QED
  BY <1>1, <1>2, <1>3 DEF HolderInv, HoldersUnmoved

CancelOk(tasks) == \A k \in DOMAIN tasks :
    tasks[k][1] = "cancel" /\ tasks[k][2] \in CompileNode => Excused'
SettledKept == \A i \in 1 .. MaxLinks : /\ Terminal(Link(i)) => Terminal(Link(i))'
                                        /\ cancelReq[Link(i)] => cancelReq'[Link(i)]
AskedKept(t) == \A n \in CompileNode : cancelReq'[n] => cancelReq[n] \/ Asks(t, n)

LEMMA KeepsCancel ==
    ASSUME Types, HolderInv, CancelInv, NEW t \in Threads, NEW tasks \in Seq(Task), Puts(t, tasks),
           HoldersUnmoved, MadeKept, CancelOk(tasks), SettledKept, AskedKept(t),
           Excused => Excused'
    PROVE  CancelInv'
<1>1. ASSUME NEW n \in CompileNode, Needed(n)' PROVE Needed(n)
  <2>1. CASE \E s \in Shaders : compiled'[s] = n
    BY <2>1 DEF Needed, HoldersUnmoved
  <2>2. ASSUME NEW i \in 1 .. MaxLinks, n \in snap'[i], ~Terminal(Link(i))', ~cancelReq'[Link(i)]
        PROVE  Needed(n)
    BY <2>2 DEF Needed, HoldersUnmoved, SettledKept
  <2>3. QED
    BY <1>1, <2>1, <2>2 DEF Needed, Terminal, Link
<1>2. \A n \in CompileNode : (state'[n] = "none" <=> state[n] = "none") /\ Contexts(n)' = Contexts(n)
  BY KeepsHolders, NodeKinds DEF MadeKept
<1>3. ASSUME NEW n \in CompileNode, cancelReq'[n]
      PROVE  Excused' \/ (~Needed(n)' /\ state'[n] # "none")
  BY <1>1, <1>2, <1>3 DEF CancelInv, AskedKept
<1>4. ASSUME NEW u \in Threads, NEW n \in CompileNode, Asks(u, n)'
      PROVE  Excused' \/ (~Needed(n)' /\ state'[n] # "none" /\ Contexts(n)' \subseteq {u})
  <2>1. PICK k \in DOMAIN work'[u] : work'[u][k] = <<"cancel", n>>
    BY <1>4 DEF Asks
  <2>2. CASE \E j \in DOMAIN work[u] : work'[u][k] = work[u][j]
    <3>1. Asks(u, n)
      BY <2>1, <2>2 DEF Asks
    <3>2. QED
      BY <1>1, <1>2, <3>1 DEF CancelInv
  <2>3. CASE u = t /\ k \in DOMAIN tasks /\ work'[u][k] = tasks[k]
    BY <2>1, <2>3 DEF CancelOk
  <2>4. QED
    BY <2>2, <2>3, FromWork DEF Types
<1>5. QED
  BY <1>3, <1>4 DEF CancelInv
Given(tasks, n) == \E k \in DOMAIN tasks : Ticket(tasks[k], n)
TicketsOk(t, tasks) == \A n \in Node :
    /\ \A j, k \in DOMAIN tasks : Ticket(tasks[j], n) /\ Ticket(tasks[k], n) => j = k
    /\ Given(tasks, n) => \A u \in Threads : \A j \in DOMAIN work[u] :
                           Ticket(work[u][j], n) => u = t /\ j = 1
Unique == \A n \in Node, t, u \in Threads : \A j \in DOMAIN work[t], k \in DOMAIN work[u] :
    Ticket(work[t][j], n) /\ Ticket(work[u][k], n) => t = u /\ j = k

LEMMA KeepsTickets ==
    ASSUME Types, Unique, NEW t \in Threads, NEW tasks \in Seq(Task), Puts(t, tasks),
           TicketsOk(t, tasks)
    PROVE  /\ Unique'
           /\ \A n \in Node, u \in Threads : Holds(u, n)' => Holds(u, n) \/ Given(tasks, n)
           /\ \A n \in Node : /\ 1 \in DOMAIN work[t] /\ Ticket(work[t][1], n) /\ ~Given(tasks, n)
                             => \A u \in Threads : ~Holds(u, n)'
<1> DEFINE Old(u, k, j) == /\ j \in DOMAIN work[u] /\ work'[u][k] = work[u][j]
                           /\ u = t => k > Len(tasks) /\ j = k - Len(tasks) + 1 /\ j > 1
                           /\ u # t => j = k
           New(u, k) == u = t /\ k \in DOMAIN tasks /\ work'[u][k] = tasks[k]
<1>1. Len(tasks) \in Nat /\ \A u \in Threads : \A k \in DOMAIN work'[u] : k \in Int
  <2>1. Len(tasks) \in Nat /\ work' \in [Threads -> Seq(Task)]
    BY PutsWork DEF Types
  <2>2. ASSUME NEW u \in Threads PROVE \A k \in DOMAIN work'[u] : k \in Int
    <3>1. PICK s \in Seq(Task) : s = work'[u]
      BY <2>1
    <3>2. DOMAIN s = 1 .. Len(s) /\ Len(s) \in Nat
      BY SeqElements
    <3>3. QED
      BY <3>1, <3>2
  <2>3. QED
    BY <2>1, <2>2
<1>2. ASSUME NEW u \in Threads, NEW k \in DOMAIN work'[u]
      PROVE  New(u, k) \/ \E j : Old(u, k, j)
  <2>1. CASE u # t
    <3>1. work'[u] = work[u]
      BY <2>1, PutsWork DEF Types
    <3>2. Old(u, k, k)
      BY <1>2, <2>1, <3>1
    <3>3. QED
      BY <3>2
  <2>2. CASE u = t
    <3>1. \/ k \in DOMAIN tasks /\ work'[t][k] = tasks[k]
          \/ /\ k > Len(tasks) /\ k - Len(tasks) + 1 \in DOMAIN work[t]
             /\ work'[t][k] = work[t][k - Len(tasks) + 1]
      BY <1>2, <2>2, PutsWork DEF Types
    <3>2. CASE k \in DOMAIN tasks /\ work'[t][k] = tasks[k]
      BY <2>2, <3>2
    <3>3. CASE /\ k > Len(tasks) /\ k - Len(tasks) + 1 \in DOMAIN work[t]
               /\ work'[t][k] = work[t][k - Len(tasks) + 1]
      <4>1. k - Len(tasks) + 1 > 1
        BY <1>1, <1>2, <3>3
      <4>2. Old(u, k, k - Len(tasks) + 1)
        BY <2>2, <3>3, <4>1
      <4>3. QED
        BY <4>2
    <3>4. QED
      BY <3>1, <3>2, <3>3
  <2>3. QED
    BY <2>1, <2>2
<1>3. ASSUME NEW n \in Node, NEW u \in Threads, NEW v \in Threads, NEW k \in DOMAIN work'[u],
             NEW l \in DOMAIN work'[v], Ticket(work'[u][k], n), Ticket(work'[v][l], n),
             New(u, k)
      PROVE  u = v /\ k = l
  <2>1. Given(tasks, n) /\ Ticket(tasks[k], n)
    BY <1>3 DEF Given
  <2>2. CASE New(v, l)
    BY <1>3, <2>1, <2>2 DEF TicketsOk
  <2>3. ASSUME NEW j, Old(v, l, j) PROVE FALSE
    <3>1. Ticket(work[v][j], n) /\ j \in DOMAIN work[v]
      BY <1>3, <2>3
    <3>2. v = t /\ j = 1
      BY <2>1, <3>1 DEF TicketsOk
    <3>3. QED
      BY <2>3, <3>2
  <2>4. QED
    BY <1>2, <2>2, <2>3
<1>4. ASSUME NEW n \in Node, NEW u \in Threads, NEW v \in Threads, NEW k \in DOMAIN work'[u],
             NEW l \in DOMAIN work'[v], Ticket(work'[u][k], n), Ticket(work'[v][l], n)
      PROVE  u = v /\ k = l
  <2>1. CASE New(u, k)
    BY <1>3, <1>4, <2>1
  <2>2. CASE New(v, l)
    <3>1. v = u /\ l = k
      BY <1>3, <1>4, <2>2
    <3>2. QED
      BY <3>1
  <2>3. ASSUME NEW i, NEW j, Old(u, k, i), Old(v, l, j) PROVE u = v /\ k = l
    <3>1. /\ Ticket(work[u][i], n) /\ i \in DOMAIN work[u]
          /\ Ticket(work[v][j], n) /\ j \in DOMAIN work[v]
      BY <1>4, <2>3
    <3>2. u = v /\ i = j
      BY <3>1 DEF Unique
    <3>3. CASE u # t
      BY <2>3, <3>2, <3>3
    <3>4. CASE u = t
      <4>1. k - Len(tasks) + 1 = l - Len(tasks) + 1 /\ k \in Int /\ l \in Int
        BY <1>1, <1>4, <2>3, <3>2, <3>4
      <4>2. QED
        BY <1>1, <3>2, <4>1
    <3>5. QED
      BY <3>3, <3>4
  <2>4. CASE ~New(u, k) /\ ~New(v, l)
    <3>1. PICK i : Old(u, k, i)
      BY <1>2, <1>4, <2>4
    <3>2. PICK j : Old(v, l, j)
      BY <1>2, <1>4, <2>4
    <3>3. QED
      BY <2>3, <3>1, <3>2
  <2>5. QED
    BY <2>1, <2>2, <2>4
<1>5. ASSUME NEW n \in Node, NEW u \in Threads, Holds(u, n)', ~Given(tasks, n)
      PROVE  \E j \in DOMAIN work[u] : Ticket(work[u][j], n) /\ (u = t => j > 1)
  <2>1. PICK k \in DOMAIN work'[u] : Ticket(work'[u][k], n)
    BY <1>5 DEF Holds
  <2>2. ~New(u, k)
    BY <1>5, <2>1 DEF Given
  <2>3. PICK j : Old(u, k, j)
    BY <1>2, <2>1, <2>2
  <2>4. QED
    BY <2>1, <2>3
<1> HIDE DEF Old, New
<1>6. Unique'
  BY <1>4 DEF Unique, Ticket
<1>7. \A n \in Node, u \in Threads : Holds(u, n)' => Holds(u, n) \/ Given(tasks, n)
  BY <1>5 DEF Holds
<1>8. ASSUME NEW n \in Node, 1 \in DOMAIN work[t], Ticket(work[t][1], n), ~Given(tasks, n),
             NEW u \in Threads, Holds(u, n)'
      PROVE  FALSE
  <2>1. PICK j \in DOMAIN work[u] : Ticket(work[u][j], n) /\ (u = t => j > 1)
    BY <1>5, <1>8
  <2>2. u = t /\ j = 1
    BY <1>8, <2>1 DEF Unique
  <2>3. QED
    BY <2>1, <2>2
<1>9. QED
  BY <1>6, <1>7, <1>8

LEMMA KeepsOnce ==
    ASSUME Types, OnceInv, NEW t \in Threads, NEW tasks \in Seq(Task), Puts(t, tasks),
           TicketsOk(t, tasks), UNCHANGED <<queue, handed>>,
           \A n \in Node : Given(tasks, n) => ~Queued(n) /\ n \notin handed
    PROVE  /\ OnceInv'
           /\ \A n \in Node : OnItsWay(n)' => OnItsWay(n) \/ Given(tasks, n)
<1>1. Unique
  BY DEF OnceInv, Unique
<1>2. Unique' /\ \A n \in Node, u \in Threads : Holds(u, n)' => Holds(u, n) \/ Given(tasks, n)
  BY <1>1, KeepsTickets
<1>3. \A n : Queued(n)' = Queued(n) /\ (n \in handed' <=> n \in handed)
  BY DEF Queued
<1>4. ASSUME NEW n \in Node, NEW u \in Threads, Holds(u, n)'
      PROVE  ~Queued(n)' /\ n \notin handed'
  <2>1. CASE Holds(u, n)
    BY <1>3, <2>1 DEF OnceInv
  <2>2. CASE Given(tasks, n)
    BY <1>3, <2>2
  <2>3. QED
    BY <1>2, <1>4, <2>1, <2>2
<1>5. OnceInv'
  <2>1. \A n \in Node : (\E u \in Threads : Holds(u, n)') => ~Queued(n)' /\ n \notin handed'
    BY <1>4
  <2>2. QED
    BY <1>2, <2>1 DEF OnceInv, Unique
<1>6. \A n \in Node : OnItsWay(n)' => OnItsWay(n) \/ Given(tasks, n)
  BY <1>2, <1>3 DEF OnItsWay
<1>7. QED
  BY <1>5, <1>6

SourcesKept == \A i \in 1 .. MaxLinks : /\ remaining'[i] <= remaining[i]
                                        /\ conts'[Link(i)] \in {<<>>, conts[Link(i)]}
                                        /\ conts'[Spirv(i)] = <<>>
LinksOnly == \A n \in CompileNode : \A k \in DOMAIN conts[n] : conts[n][k] \in Links
Sourced(n) == /\ state[n] # "none"
              /\ \A i \in 1 .. MaxLinks : /\ n = Link(i) => remaining[i] <= 0
                                          /\ n = Spirv(i) => conts[Link(i)] = <<>>

LEMMA KeepsSource ==
    ASSUME Types, Types', SourceInv, StaysMade, SourcesKept, LinksOnly', NEW tasks,
           \A n \in Node : OnItsWay(n)' => OnItsWay(n) \/ Given(tasks, n),
           \A n \in Node : Given(tasks, n) => Sourced(n)'
    PROVE  SourceInv'
<1>1. \A n \in Node : state'[n] = "none" => ~OnItsWay(n)'
  BY DEF SourceInv, StaysMade, Sourced
<1>2. ASSUME NEW i \in 1 .. MaxLinks
      PROVE  /\ OnItsWay(Link(i))' => remaining'[i] <= 0
             /\ state'[Link(i)] = "none" => remaining'[i] <= 0 /\ conts'[Link(i)] = <<>>
             /\ OnItsWay(Spirv(i))' => conts'[Link(i)] = <<>>
             /\ conts'[Link(i)] \in {<<>>, <<Spirv(i)>>}
             /\ conts'[Spirv(i)] = <<>>
  <2>1. Link(i) \in Node /\ Spirv(i) \in Node
    BY NodeKinds
  <2>2. remaining[i] \in Int /\ remaining'[i] \in Int /\ remaining'[i] <= remaining[i]
    BY DEF Types, SourcesKept
  <2>3. OnItsWay(Link(i))' => remaining'[i] <= 0
    <3>1. CASE OnItsWay(Link(i))
      <4>1. remaining[i] <= 0
        BY <3>1 DEF SourceInv
      <4>2. QED
        BY <2>2, <4>1
    <3>2. CASE Given(tasks, Link(i))
      BY <2>1, <3>2 DEF Sourced
    <3>3. QED
      BY <2>1, <3>1, <3>2
  <2>4. OnItsWay(Spirv(i))' => conts'[Link(i)] = <<>>
    <3>1. CASE OnItsWay(Spirv(i))
      BY <3>1 DEF SourceInv, SourcesKept
    <3>2. CASE Given(tasks, Spirv(i))
      BY <2>1, <3>2 DEF Sourced
    <3>3. QED
      BY <2>1, <3>1, <3>2
  <2>5. state'[Link(i)] = "none" => remaining'[i] <= 0 /\ conts'[Link(i)] = <<>>
    <3>1. state'[Link(i)] = "none" => remaining[i] <= 0 /\ conts[Link(i)] = <<>>
      BY <2>1 DEF StaysMade, SourceInv
    <3>2. conts[Link(i)] = <<>> => conts'[Link(i)] = <<>>
      BY DEF SourcesKept
    <3>3. QED
      BY <2>2, <3>1, <3>2
  <2>6. QED
    BY <2>3, <2>4, <2>5 DEF SourceInv, SourcesKept
<1>3. QED
  BY <1>1, <1>2 DEF SourceInv, LinksOnly, Link, Spirv

ReturnOk(t, tasks) == /\ \A k \in DOMAIN tasks : tasks[k][1] # "return"
                      /\ work[t] # <<>> => work[t][1][1] # "return"
ReturnsLast == \A t \in Threads : \A k \in DOMAIN work[t] :
    work[t][k][1] = "return" => t \in Workers /\ k = Len(work[t])

LEMMA KeepsBusy ==
    ASSUME Types, ReturnsLast, NEW t \in Threads, NEW tasks \in Seq(Task), Puts(t, tasks),
           \A k \in DOMAIN tasks : tasks[k][1] # "return"
    PROVE  /\ ReturnsLast'
           /\ \A w \in Workers \ {t} : w \in Busy' <=> w \in Busy
           /\ ReturnOk(t, tasks) => Busy' = Busy
           /\ work[t] # <<>> /\ work[t][1][1] = "return" => t \notin Busy'
<1>0. /\ work' \in [Threads -> Seq(Task)]
      /\ \A u \in Threads \ {t} : work'[u] = work[u]
      /\ Len(tasks) \in Nat /\ DOMAIN tasks = 1 .. Len(tasks)
      /\ Len(work[t]) \in Nat /\ DOMAIN work[t] = 1 .. Len(work[t])
      /\ Len(work'[t]) \in Nat /\ DOMAIN work'[t] = 1 .. Len(work'[t])
      /\ work[t] = <<>> => Len(work'[t]) = Len(tasks) /\ Len(work[t]) = 0
      /\ work[t] # <<>> => Len(work'[t]) = Len(tasks) + Len(work[t]) - 1
  BY PutsWork DEF Types
<1>a. PICK a \in Nat, b \in Nat, c \in Nat :
        a = Len(tasks) /\ b = Len(work[t]) /\ c = Len(work'[t])
  BY <1>0
<1>b. /\ \A k \in DOMAIN work'[t] : k \in 1 .. c /\ k \in Int
      /\ \A k \in DOMAIN work[t] : k \in 1 .. b /\ k \in Int
      /\ work[t] = <<>> => b = 0
  <2>1. \A k \in DOMAIN work'[t] : k \in 1 .. c
    BY <1>0, <1>a
  <2>2. \A k \in DOMAIN work[t] : k \in 1 .. b
    BY <1>0, <1>a
  <2>3. work[t] = <<>> => Len(work[t]) = 0
    BY <1>0
  <2>4. QED
    BY <1>a, <2>1, <2>2, <2>3
<1>c. work[t] # <<>> => c = a + b - 1
  <2>1. ASSUME work[t] # <<>> PROVE Len(work'[t]) = Len(tasks) + Len(work[t]) - 1
    BY <1>0, <2>1
  <2>2. QED
    BY <1>a, <2>1
<1>1. ASSUME NEW k \in DOMAIN work'[t], work'[t][k][1] = "return"
      PROVE  /\ k > Len(tasks) /\ k - Len(tasks) + 1 \in DOMAIN work[t]
             /\ work[t][k - Len(tasks) + 1][1] = "return"
  BY <1>1, PutsWork DEF Types
<1>2. ASSUME NEW u \in Threads, NEW k \in DOMAIN work'[u], work'[u][k][1] = "return"
      PROVE  u \in Workers /\ k = Len(work'[u])
  <2>1. CASE u # t
    BY <1>0, <1>2, <2>1 DEF ReturnsLast
  <2>2. CASE u = t
    <3>1. /\ k > Len(tasks) /\ k - Len(tasks) + 1 \in DOMAIN work[t]
          /\ work[t][k - Len(tasks) + 1][1] = "return"
      BY <1>1, <1>2, <2>2
    <3>2. t \in Workers /\ k - Len(tasks) + 1 = Len(work[t])
      BY <3>1 DEF ReturnsLast
    <3>3. k \in 1 .. c /\ k - a + 1 \in 1 .. b /\ k - a + 1 = b
      BY <1>2, <1>a, <1>b, <2>2, <3>1, <3>2
    <3>4. work[t] # <<>>
      BY <1>b, <3>3
    <3>5. k = c
      BY <1>c, <3>3, <3>4
    <3>6. QED
      BY <1>a, <2>2, <3>2, <3>5
  <2>3. QED
    BY <2>1, <2>2
<1>3. \A w \in Workers : /\ w \in Busy <=> \E k \in DOMAIN work[w] : work[w][k][1] = "return"
                         /\ w \in Busy' <=> \E k \in DOMAIN work'[w] : work'[w][k][1] = "return"
  <2>1. ASSUME NEW w \in Workers PROVE DOMAIN work[w] = 1 .. Len(work[w]) /\ DOMAIN work'[w] = 1 .. Len(work'[w])
    <3>1. PICK r \in Seq(Task), s \in Seq(Task) : r = work[w] /\ s = work'[w]
      BY <1>0 DEF Types, Threads
    <3>2. DOMAIN r = 1 .. Len(r) /\ DOMAIN s = 1 .. Len(s)
      BY SeqElements
    <3>3. QED
      BY <3>1, <3>2
  <2>2. QED
    BY <2>1 DEF Busy
<1>4. \A w \in Workers \ {t} : w \in Busy' <=> w \in Busy
  BY <1>0, <1>3 DEF Threads
<1>5. ASSUME work[t] # <<>>, work[t][1][1] = "return" PROVE t \notin Busy'
  <2>1. SUFFICES ASSUME t \in Busy' PROVE FALSE
    OBVIOUS
  <2>2. t \in Workers
    BY <2>1 DEF Busy
  <2>3. PICK k \in DOMAIN work'[t] : work'[t][k][1] = "return"
    BY <1>3, <2>1, <2>2
  <2>4. /\ k > Len(tasks) /\ k - Len(tasks) + 1 \in DOMAIN work[t]
        /\ work[t][k - Len(tasks) + 1][1] = "return"
    BY <1>1, <2>3
  <2>5. 1 \in DOMAIN work[t]
    <3>1. PICK s \in Seq(Task) : s = work[t]
      BY DEF Types
    <3>2. s # <<>> => 1 \in DOMAIN s
      OBVIOUS
    <3>3. QED
      BY <1>5, <3>1, <3>2
  <2>6. k - Len(tasks) + 1 = Len(work[t]) /\ 1 = Len(work[t])
    BY <1>5, <2>4, <2>5 DEF ReturnsLast
  <2>7. k \in Int /\ k > a /\ k - a + 1 = 1
    BY <1>a, <1>b, <2>3, <2>4, <2>6
  <2>8. QED
    BY <2>7
<1>6. ASSUME ReturnOk(t, tasks), t \in Workers PROVE t \in Busy' <=> t \in Busy
  <2>1. ASSUME t \in Busy' PROVE t \in Busy
    <3>1. PICK k \in DOMAIN work'[t] : work'[t][k][1] = "return"
      BY <1>3, <1>6, <2>1
    <3>2. QED
      BY <1>1, <1>3, <1>6, <3>1
  <2>2. ASSUME t \in Busy PROVE t \in Busy'
    <3>1. PICK k \in DOMAIN work[t] : work[t][k][1] = "return"
      BY <1>3, <1>6, <2>2
    <3>2. work[t] # <<>> /\ k \in 1 .. b
      BY <1>b, <3>1
    <3>3. k > 1
      <4>1. k # 1
        BY <1>6, <3>1, <3>2 DEF ReturnOk
      <4>2. QED
        BY <3>2, <4>1
    <3>4. /\ Len(tasks) + k - 1 \in DOMAIN work'[t]
          /\ work'[t][Len(tasks) + k - 1] = work[t][k]
      BY <3>1, <3>3, PutsWork DEF Types
    <3>5. QED
      BY <1>3, <1>6, <3>1, <3>4
  <2>3. QED
    BY <2>1, <2>2
<1>7. ASSUME ReturnOk(t, tasks) PROVE Busy' = Busy
  <2>1. Busy' \subseteq Workers /\ Busy \subseteq Workers
    BY DEF Busy
  <2>2. ASSUME NEW w \in Workers PROVE w \in Busy' <=> w \in Busy
    <3>1. CASE w = t
      BY <1>6, <1>7, <2>2, <3>1
    <3>2. CASE w # t
      BY <1>4, <2>2, <3>2
    <3>3. QED
      BY <3>1, <3>2
  <2>3. QED
    BY <2>1, <2>2
<1>8. QED
  BY <1>2, <1>4, <1>5, <1>7 DEF ReturnsLast

LEMMA KeepsSlots ==
    ASSUME Types, SlotInv, NEW t \in Threads, NEW tasks \in Seq(Task), Puts(t, tasks),
           ReturnOk(t, tasks), UNCHANGED <<queue, handed, inFlight, budget>>,
           ~hasPool' => ~hasPool \/ queue = <<>>, stopped => stopped'
    PROVE  SlotInv'
<1>1. ReturnsLast
  BY DEF SlotInv, ReturnsLast
<1>2. ReturnsLast' /\ Busy' = Busy
  BY <1>1, KeepsBusy DEF ReturnOk
<1>3. QED
  BY <1>2 DEF SlotInv, SlotsHeld, ReturnsLast
(* A step that moves no node, slot or holder.                              *)
TasksOk(t, tasks) ==
    /\ FinishOk(tasks) /\ JoinOk(tasks) /\ CancelOk(tasks) /\ ReturnOk(t, tasks)
    /\ TicketsOk(t, tasks)
    /\ \A n \in Node : Given(tasks, n) => ~Queued(n) /\ n \notin handed /\ Sourced(n)'
Inner(t, tasks) ==
    /\ Puts(t, tasks) /\ TasksOk(t, tasks)
    /\ MadeKept /\ HoldersUnmoved /\ SettledKept /\ AskedKept(t) /\ SourcesKept /\ LinksOnly'
    /\ UNCHANGED <<queue, handed, inFlight, budget, stopped, drained>>
    /\ hasPool' = hasPool \/ (hasPool' = TRUE /\ ~stopped)
    /\ failures' >= failures
    /\ t \in Workers => work[t] # <<>>

LEMMA InnerKeeps ==
    ASSUME PoolInv, Types', NEW t \in Threads, NEW tasks \in Seq(Task), Inner(t, tasks)
    PROVE  PoolInv'
<1>1. Types /\ MadeInv /\ DrainInv /\ HolderInv /\ CancelInv /\ OnceInv /\ SourceInv /\ SlotInv
  BY DEF PoolInv
<1>2. Puts(t, tasks) /\ UNCHANGED <<queue, handed, inFlight, budget, stopped, drained>>
  BY DEF Inner
<1>3. MadeInv'
  BY <1>1, KeepsMade DEF Inner, TasksOk
<1>4. DrainInv'
  <2>1. stopped' => queue' = <<>> /\ ~hasPool'
    BY <1>1, <1>2 DEF Inner, DrainInv
  <2>2. drained' => drained /\ handed' = {} /\ t \notin Workers
    BY <1>1, <1>2 DEF Inner, DrainInv, WorkersDone
  <2>3. JoinOk(tasks)
    BY DEF Inner, TasksOk
  <2>4. QED
    BY <1>1, <1>2, <2>1, <2>2, <2>3, KeepsDrain
<1>5. HolderInv'
  BY <1>1, KeepsHolders DEF Inner
<1>6. CancelInv'
  <2>1. Excused => Excused'
    BY <1>1, <1>2 DEF Excused, Inner, Types
  <2>2. CancelOk(tasks)
    BY DEF Inner, TasksOk
  <2>3. QED
    BY <1>1, <2>1, <2>2, KeepsCancel DEF Inner
<1>7. OnceInv' /\ \A n \in Node : OnItsWay(n)' => OnItsWay(n) \/ Given(tasks, n)
  BY <1>1, <1>2, KeepsOnce DEF Inner, TasksOk
<1>8. SourceInv'
  <2>1. \A n \in Node : Given(tasks, n) => Sourced(n)'
    BY DEF Inner, TasksOk
  <2>2. QED
    BY <1>1, <1>7, <2>1, KeepsSource DEF Inner, MadeKept, StaysMade
<1>9. SlotInv'
  <2>1. (~hasPool' => ~hasPool \/ queue = <<>>) /\ ReturnOk(t, tasks)
    BY DEF Inner, TasksOk
  <2>2. QED
    BY <1>1, <1>2, <2>1, KeepsSlots
<1>10. QED
  BY <1>3, <1>4, <1>5, <1>6, <1>7, <1>8, <1>9 DEF PoolInv

(* Tasks that are none of those the invariant watches.                     *)
Harmless(tasks) == \A k \in DOMAIN tasks :
    /\ tasks[k][1] \notin {"run", "finish", "join", "return", "post"}
    /\ tasks[k][1] = "dep" => tasks[k][2][1] = "link"
    /\ tasks[k][1] = "cancel" => tasks[k][2][1] # "compile"

LEMMA HarmlessTasks ==
    ASSUME NEW t \in Threads, NEW tasks \in Seq(Task), Harmless(tasks),
           work[t] # <<>> => work[t][1][1] # "return"
    PROVE  TasksOk(t, tasks) /\ \A n \in Node : ~Given(tasks, n)
<1>1. FinishOk(tasks) /\ JoinOk(tasks) /\ ReturnOk(t, tasks)
  BY DEF FinishOk, JoinOk, ReturnOk, Harmless
<1>2. CancelOk(tasks)
  BY NodeKinds DEF CancelOk, Harmless
<1>3. ASSUME NEW n \in Node, NEW k \in DOMAIN tasks, Ticket(tasks[k], n) PROVE FALSE
  <2>1. PICK x : x = tasks[k]
    OBVIOUS
  <2>2. Ticket(x, n) /\ x[1] \notin {"run", "finish", "post"} /\ (x[1] = "dep" => x[2][1] = "link")
    BY <1>3, <2>1 DEF Harmless
  <2>3. QED
    BY <2>2 DEF Ticket
<1>4. \A n \in Node : ~Given(tasks, n)
  BY <1>3 DEF Given
<1>5. TicketsOk(t, tasks)
  BY <1>3, <1>4 DEF TicketsOk
<1>6. QED
  BY <1>1, <1>2, <1>4, <1>5 DEF TasksOk

(* A step inside a call, and a call, that leave everything but the tasks.  *)
Still == UNCHANGED <<state, cancelReq, conts, remaining, snap, queue, handed, inFlight, budget,
                     stopped, hasPool, drained, compiled, adopters, pinned, index, src, failures>>

LEMMA StillInner ==
    ASSUME PoolInv, NEW t \in Threads, NEW tasks \in Seq(Task), Puts(t, tasks), Still,
           TasksOk(t, tasks), t \in Workers => work[t] # <<>>
    PROVE  Inner(t, tasks)
<1>1. MadeKept /\ HoldersUnmoved /\ AskedKept(t)
  BY DEF Still, MadeKept, HoldersUnmoved, AskedKept
<1>2. SettledKept
  BY DEF Still, SettledKept, Terminal
<1>3. SourcesKept /\ LinksOnly'
  <2>1. \A i \in 1 .. MaxLinks : remaining[i] \in Int
    BY DEF PoolInv, Types
  <2>2. QED
    BY <2>1 DEF Still, SourcesKept, LinksOnly, PoolInv, SourceInv
<1>4. failures' >= failures /\ hasPool' = hasPool
  BY DEF Still, PoolInv, Types
<1>5. QED
  BY <1>1, <1>2, <1>3, <1>4 DEF Inner, Still

LEMMA StillTypes ==
    ASSUME Types, NEW t \in Threads, NEW tasks \in Seq(Task), Puts(t, tasks), Still,
           pendingLink' \in [GL -> 0 .. MaxLinks], pendingSpirv' \in [GL -> 0 .. MaxLinks]
    PROVE  Types'
<1>1. work' \in [Threads -> Seq(Task)]
  BY PutsWork DEF Types
<1>2. QED
  BY <1>1 DEF Types, Still

LEMMA StillKeeps ==
    ASSUME PoolInv, NEW t \in Threads, NEW tasks \in Seq(Task), Puts(t, tasks), Still,
           pendingLink' \in [GL -> 0 .. MaxLinks], pendingSpirv' \in [GL -> 0 .. MaxLinks],
           TasksOk(t, tasks), t \in Workers => work[t] # <<>>
    PROVE  PoolInv'
<1>1. Types'
  BY StillTypes DEF PoolInv
<1>2. QED
  BY <1>1, StillInner, InnerKeeps
LEMMA NoTask == <<>> \in Seq(Task) /\ Harmless(<<>>)
BY DEF Harmless

LEMMA OneTask ==
    ASSUME NEW c \in Task
    PROVE  /\ <<c>> \in Seq(Task) /\ \A k \in DOMAIN <<c>> : k = 1 /\ <<c>>[k] = c
           /\ 1 \in DOMAIN <<c>> /\ <<c>>[1] = c
OBVIOUS

(* A task that takes the place of the node its thread's own task held.     *)
LEMMA PassedOn ==
    ASSUME OnceInv, SourceInv, NEW t \in Threads, NEW n \in Node, 1 \in DOMAIN work[t],
           Ticket(work[t][1], n), NEW c \in Task, \A m \in Node : Ticket(c, m) => m = n,
           NEW tasks, tasks = <<c>>
    PROVE  /\ TicketsOk(t, tasks) /\ \A m \in Node : Given(tasks, m) => m = n
           /\ ~Queued(n) /\ n \notin handed /\ Sourced(n)
<1>1. \A k \in DOMAIN tasks : k = 1 /\ tasks[k] = c
  BY OneTask
<1>2. \A m \in Node : Given(tasks, m) => m = n
  BY <1>1 DEF Given
<1>3. /\ OnItsWay(n) /\ ~Queued(n) /\ n \notin handed
      /\ \A u \in Threads : \A j \in DOMAIN work[u] : Ticket(work[u][j], n) => u = t /\ j = 1
  BY DEF OnItsWay, OnceInv, Holds
<1>4. TicketsOk(t, tasks)
  BY <1>1, <1>2, <1>3 DEF TicketsOk
<1>5. Sourced(n)
  BY <1>3 DEF Sourced, SourceInv
<1>6. QED
  BY <1>2, <1>3, <1>4, <1>5

HarmlessTask(c) == /\ c[1] \notin {"run", "finish", "join", "return", "post"}
                   /\ c[1] = "dep" => c[2][1] = "link"
                   /\ c[1] = "cancel" => c[2][1] # "compile"

LEMMA HarmlessOne ==
    ASSUME NEW c \in Task, HarmlessTask(c)
    PROVE  <<c>> \in Seq(Task) /\ Harmless(<<c>>)
BY OneTask DEF Harmless, HarmlessTask

LEMMA HarmlessTwo ==
    ASSUME NEW c \in Task, NEW d \in Task, HarmlessTask(c), HarmlessTask(d)
    PROVE  <<c, d>> \in Seq(Task) /\ Harmless(<<c, d>>)
<1>1. /\ <<c, d>> \in Seq(Task)
      /\ \A k \in DOMAIN <<c, d>> : <<c, d>>[k] = c \/ <<c, d>>[k] = d
  OBVIOUS
<1>2. QED
  BY <1>1 DEF Harmless, HarmlessTask

LEMMA HarmlessJoin ==
    ASSUME NEW a \in Seq(Task), NEW b \in Seq(Task), Harmless(a), Harmless(b)
    PROVE  a \o b \in Seq(Task) /\ Harmless(a \o b)
<1>1. PICK c : c = a \o b
  OBVIOUS
<1>2. c \in Seq(Task)
  BY <1>1, Joined
<1>3. \A k \in DOMAIN c : \/ k \in DOMAIN a /\ c[k] = a[k]
                          \/ k - Len(a) \in DOMAIN b /\ c[k] = b[k - Len(a)]
  BY <1>1, Behind
<1>4. Harmless(c)
  BY <1>3 DEF Harmless
<1>5. QED
  BY <1>1, <1>2, <1>4

LEMMA PlainTask ==
    ASSUME NEW op \in PlainOps, op # "join"
    PROVE  <<op, None>> \in Task /\ HarmlessTask(<<op, None>>)
BY DEF Task, HarmlessTask, PlainOps

LEMMA GLThread ==
    ASSUME NEW g \in GL
    PROVE  g \in Threads /\ g \notin Workers
BY PoolAssumption DEF Threads

(* A call that only gives its thread something to do.                      *)
LEMMA CallKeeps ==
    ASSUME PoolInv, NEW g \in GL, NEW tasks \in Seq(Task), Idle(g), Begin(g, tasks), Still,
           Harmless(tasks),
           pendingLink' \in [GL -> 0 .. MaxLinks], pendingSpirv' \in [GL -> 0 .. MaxLinks]
    PROVE  PoolInv'
<1>1. g \in Threads /\ g \notin Workers /\ work[g] = <<>>
  BY GLThread DEF Idle
<1>2. Puts(g, tasks)
  BY <1>1, BeginPuts
<1>3. TasksOk(g, tasks)
  BY <1>1, HarmlessTasks
<1>4. QED
  BY <1>1, <1>2, <1>3, StillKeeps

(* A step inside a call that only replaces its task.                       *)
LEMMA StepKeeps ==
    ASSUME PoolInv, NEW t \in Threads, NEW op, At(t, op), op # "return",
           NEW tasks \in Seq(Task), Into(t, tasks), Still, Harmless(tasks),
           pendingLink' \in [GL -> 0 .. MaxLinks], pendingSpirv' \in [GL -> 0 .. MaxLinks]
    PROVE  PoolInv'
<1>1. work[t] # <<>> /\ work[t][1][1] = op
  BY AtTask DEF PoolInv, Types
<1>2. Puts(t, tasks)
  BY <1>1, IntoPuts
<1>3. TasksOk(t, tasks)
  BY <1>1, HarmlessTasks
<1>4. QED
  BY <1>1, <1>2, <1>3, StillKeeps

LEMMA PendingTypes ==
    ASSUME Types
    PROVE  /\ pendingLink \in [GL -> 0 .. MaxLinks] /\ pendingSpirv \in [GL -> 0 .. MaxLinks]
           /\ MaxLinks \in Nat /\ 0 \in 0 .. MaxLinks
           /\ \A g \in GL : pendingLink[g] # 0 => pendingLink[g] \in 1 .. MaxLinks
           /\ \A g \in GL : pendingSpirv[g] # 0 => pendingSpirv[g] \in 1 .. MaxLinks
BY PoolAssumption DEF Types

LEMMA CancelLinkTasks ==
    ASSUME Types, NEW g \in GL
    PROVE  CancelLink(g) \in Seq(Task) /\ Harmless(CancelLink(g))
<1> DEFINE a == IF pendingSpirv[g] = 0 THEN <<>> ELSE Cancel(Spirv(pendingSpirv[g]))
           b == IF pendingLink[g] = 0 THEN <<>> ELSE Cancel(Link(pendingLink[g]))
<1>1. a \in Seq(Task) /\ Harmless(a)
  <2>1. CASE pendingSpirv[g] = 0
    BY <2>1, NoTask
  <2>2. CASE pendingSpirv[g] # 0
    <3>1. PICK n \in Node : n = Spirv(pendingSpirv[g]) /\ n[1] = "spirv"
      BY <2>2, PendingTypes, NodeKinds
    <3>2. <<"cancel", n>> \in Task /\ HarmlessTask(<<"cancel", n>>)
      BY <3>1, NodeTask DEF NodeOps, HarmlessTask
    <3>3. QED
      BY <2>2, <3>1, <3>2, HarmlessOne DEF Cancel
  <2>3. QED
    BY <2>1, <2>2
<1>2. b \in Seq(Task) /\ Harmless(b)
  <2>1. CASE pendingLink[g] = 0
    BY <2>1, NoTask
  <2>2. CASE pendingLink[g] # 0
    <3>1. PICK n \in Node : n = Link(pendingLink[g]) /\ n[1] = "link"
      BY <2>2, PendingTypes, NodeKinds
    <3>2. <<"cancel", n>> \in Task /\ HarmlessTask(<<"cancel", n>>)
      BY <3>1, NodeTask DEF NodeOps, HarmlessTask
    <3>3. QED
      BY <2>2, <3>1, <3>2, HarmlessOne DEF Cancel
  <2>3. QED
    BY <2>1, <2>2
<1> HIDE DEF a, b
<1>3. a \o b \in Seq(Task) /\ Harmless(a \o b)
  BY <1>1, <1>2, HarmlessJoin
<1>4. QED
  BY <1>3 DEF CancelLink, a, b

LEMMA SuspendTasks ==
    ASSUME NEW g \in GL, NEW ks \in SUBSET (1 .. PerContext), NEW e \in InOrder(ks)
    PROVE  /\ << <<"publish", None>>, <<"publishB", None>> >> \o Pulls(g, ks, e) \in Seq(Task)
           /\ Harmless(<< <<"publish", None>>, <<"publishB", None>> >> \o Pulls(g, ks, e))
<1>1. /\ << <<"publish", None>>, <<"publishB", None>> >> \in Seq(Task)
      /\ Harmless(<< <<"publish", None>>, <<"publishB", None>> >>)
  BY PlainTask, HarmlessTwo DEF PlainOps
<1>2. PICK n \in Nat : n = Cardinality(ks)
  <2>1. PerContext \in Nat
    BY PoolAssumption
  <2>2. IsFiniteSet(1 .. PerContext)
    BY <2>1, FS_Interval
  <2>3. IsFiniteSet(ks)
    BY <2>2, FS_Subset
  <2>4. QED
    BY <2>3, FS_CardinalityType
<1>3. \A k \in 1 .. n : e[k] \in 1 .. PerContext
  BY <1>2 DEF InOrder
<1>4. \A k \in 1 .. n : <<"pull", <<g, e[k]>> >> \in Task /\ HarmlessTask(<<"pull", <<g, e[k]>> >>)
  <2>1. ASSUME NEW s \in Shaders PROVE <<"pull", s>> \in Task /\ HarmlessTask(<<"pull", s>>)
    BY DEF Task, HarmlessTask
  <2>2. \A k \in 1 .. n : <<g, e[k]>> \in Shaders
    BY <1>3 DEF Shaders
  <2>3. QED
    BY <2>1, <2>2
<1>5. PICK p : p = [k \in 1 .. n |-> <<"pull", <<g, e[k]>> >>]
  OBVIOUS
<1>6. p \in Seq(Task) /\ Harmless(p)
  <2>1. p \in [1 .. n -> Task] /\ \A k \in 1 .. n : p[k] = <<"pull", <<g, e[k]>> >>
    BY <1>4, <1>5
  <2>2. p \in Seq(Task) /\ DOMAIN p = 1 .. n
    BY <2>1, SeqDef
  <2>3. \A k \in DOMAIN p : HarmlessTask(p[k])
    BY <1>4, <2>1, <2>2
  <2>4. QED
    BY <2>2, <2>3 DEF Harmless, HarmlessTask
<1>7. p = Pulls(g, ks, e)
  BY <1>2, <1>5 DEF Pulls
<1>8. QED
  BY <1>1, <1>6, <1>7, HarmlessJoin

-----------------------------------------------------------------------------
(* Calls and steps that only give a thread something to do *)

LEMMA JoinCompileKeeps ==
    ASSUME PoolInv, NEW g \in GL, NEW s \in Own(g), JoinCompile(g, s)
    PROVE  PoolInv'
<1>1. s \in Shaders
  BY DEF Own, Shaders
<1>2. <<"pull", s>> \in Task /\ HarmlessTask(<<"pull", s>>)
  BY <1>1 DEF Task, HarmlessTask
<1>3. << <<"pull", s>> >> \in Seq(Task) /\ Harmless(<< <<"pull", s>> >>)
  BY <1>2, HarmlessOne
<1>4. Idle(g) /\ Begin(g, << <<"pull", s>> >>) /\ Still /\ UNCHANGED progVars
  BY DEF JoinCompile, Still, nodeVars, linkVars, poolVars, modeVars, shaderVars
<1>5. QED
  BY <1>3, <1>4, CallKeeps, PendingTypes DEF progVars, PoolInv

LEMMA LinkProgramKeeps ==
    ASSUME PoolInv, NEW g \in GL, NEW Q \in SUBSET Own(g), LinkProgram(g, Q)
    PROVE  PoolInv'
<1>1. <<"link", Q>> \in Task /\ HarmlessTask(<<"link", Q>>)
  BY DEF Own, Shaders, Task, HarmlessTask
<1>2. << <<"link", Q>> >> \in Seq(Task) /\ Harmless(<< <<"link", Q>> >>)
  BY <1>1, HarmlessOne
<1>3. CancelLink(g) \in Seq(Task) /\ Harmless(CancelLink(g))
  BY CancelLinkTasks DEF PoolInv
<1>4. PICK tasks : tasks = CancelLink(g) \o << <<"link", Q>> >>
  OBVIOUS
<1>5. tasks \in Seq(Task) /\ Harmless(tasks)
  BY <1>2, <1>3, <1>4, HarmlessJoin
<1>6. Idle(g) /\ Begin(g, tasks) /\ Still
  BY <1>4 DEF LinkProgram, Still, nodeVars, linkVars, poolVars, modeVars, shaderVars
<1>7. pendingLink' \in [GL -> 0 .. MaxLinks] /\ pendingSpirv' \in [GL -> 0 .. MaxLinks]
  BY PendingTypes DEF LinkProgram, DropPending, PoolInv
<1>8. QED
  BY <1>5, <1>6, <1>7, CallKeeps

LEMMA AbandonProgramKeeps ==
    ASSUME PoolInv, NEW g \in GL, AbandonProgram(g)
    PROVE  PoolInv'
<1>1. CancelLink(g) \in Seq(Task) /\ Harmless(CancelLink(g))
  BY CancelLinkTasks DEF PoolInv
<1>2. Idle(g) /\ Begin(g, CancelLink(g)) /\ Still
  BY DEF AbandonProgram, Still, nodeVars, linkVars, poolVars, modeVars, shaderVars
<1>3. pendingLink' \in [GL -> 0 .. MaxLinks] /\ pendingSpirv' \in [GL -> 0 .. MaxLinks]
  BY PendingTypes DEF AbandonProgram, DropPending, PoolInv
<1>4. QED
  BY <1>1, <1>2, <1>3, CallKeeps

LEMMA JoinLinkKeeps ==
    ASSUME PoolInv, NEW g \in GL, JoinLink(g) \/ JoinSpirv(g)
    PROVE  PoolInv'
<1>1. /\ << <<"publish", None>> >> \in Seq(Task) /\ Harmless(<< <<"publish", None>> >>)
      /\ << <<"publish", None>>, <<"publishB", None>> >> \in Seq(Task)
      /\ Harmless(<< <<"publish", None>>, <<"publishB", None>> >>)
  BY PlainTask, HarmlessOne, HarmlessTwo DEF PlainOps
<1>2. Idle(g) /\ Still /\ UNCHANGED progVars
  BY DEF JoinLink, JoinSpirv, Still, nodeVars, linkVars, poolVars, modeVars, shaderVars
<1>3. \/ Begin(g, << <<"publish", None>> >>)
      \/ Begin(g, << <<"publish", None>>, <<"publishB", None>> >>)
  BY DEF JoinLink, JoinSpirv
<1>4. pendingLink' \in [GL -> 0 .. MaxLinks] /\ pendingSpirv' \in [GL -> 0 .. MaxLinks]
  BY <1>2, PendingTypes DEF progVars, PoolInv
<1>5. QED
  BY <1>1, <1>2, <1>3, <1>4, CallKeeps

LEMMA StopKeeps ==
    ASSUME PoolInv, NEW g \in GL, Stop(g)
    PROVE  PoolInv'
<1>1. << <<"stop", None>> >> \in Seq(Task) /\ Harmless(<< <<"stop", None>> >>)
  BY PlainTask, HarmlessOne DEF PlainOps
<1>2. Idle(g) /\ Begin(g, << <<"stop", None>> >>) /\ Still /\ UNCHANGED progVars
  BY DEF Stop, Still, nodeVars, linkVars, poolVars, modeVars, shaderVars
<1>3. QED
  BY <1>1, <1>2, CallKeeps, PendingTypes DEF progVars, PoolInv

LEMMA SetThreadsKeeps ==
    ASSUME PoolInv, NEW g \in GL, NEW k \in 1 .. Cardinality(Workers), SetThreads(g, k)
    PROVE  PoolInv'
<1>1. <<"budget", k>> \in Task /\ HarmlessTask(<<"budget", k>>)
  BY DEF Task, HarmlessTask
<1>2. <<"resume", None>> \in Task /\ HarmlessTask(<<"resume", None>>)
  BY PlainTask DEF PlainOps
<1>3. /\ << <<"budget", k>>, <<"resume", None>> >> \in Seq(Task)
      /\ Harmless(<< <<"budget", k>>, <<"resume", None>> >>)
  BY <1>1, <1>2, HarmlessTwo
<1>4. /\ Idle(g) /\ Begin(g, << <<"budget", k>>, <<"resume", None>> >>) /\ Still
      /\ UNCHANGED progVars
  BY DEF SetThreads, Still, nodeVars, linkVars, poolVars, modeVars, shaderVars
<1>5. QED
  BY <1>3, <1>4, CallKeeps, PendingTypes DEF progVars, PoolInv

LEMMA SuspendKeeps ==
    ASSUME PoolInv, NEW g \in GL, Suspend(g)
    PROVE  PoolInv'
<1>0. PICK ks : /\ ks = {k \in 1 .. PerContext : compiled[<<g, k>>] # None}
                /\ \E e \in InOrder(ks) :
                     Begin(g, << <<"publish", None>>, <<"publishB", None>> >> \o Pulls(g, ks, e))
  BY DEF Suspend
<1>1. PICK e \in InOrder(ks) :
        Begin(g, << <<"publish", None>>, <<"publishB", None>> >> \o Pulls(g, ks, e))
  BY <1>0
<1>2. PICK tasks : tasks = << <<"publish", None>>, <<"publishB", None>> >> \o Pulls(g, ks, e)
  OBVIOUS
<1>3. tasks \in Seq(Task) /\ Harmless(tasks)
  BY <1>0, <1>2, SuspendTasks
<1>4. Idle(g) /\ Still /\ UNCHANGED progVars
  BY DEF Suspend, Still, nodeVars, linkVars, poolVars, modeVars, shaderVars
<1>5. Begin(g, tasks)
  BY <1>1, <1>2
<1>6. QED
  BY <1>3, <1>4, <1>5, CallKeeps, PendingTypes DEF progVars, PoolInv

LEMMA PublishKeeps ==
    ASSUME PoolInv, NEW g \in GL, Publish(g) \/ PublishB(g)
    PROVE  PoolInv'
<1>1. PICK op : op # "return" /\ At(g, op) /\ Into(g, <<>>)
  BY DEF Publish, PublishB
<1>2. Still
  BY DEF Publish, PublishB, Still, nodeVars, linkVars, poolVars, modeVars, shaderVars, boundVars
<1>3. pendingLink' \in [GL -> 0 .. MaxLinks] /\ pendingSpirv' \in [GL -> 0 .. MaxLinks]
  BY PendingTypes DEF Publish, PublishB, PoolInv
<1>4. QED
  BY <1>1, <1>2, <1>3, GLThread, NoTask, StepKeeps

LEMMA UnlockKeeps ==
    ASSUME PoolInv, NEW t \in Threads, Unlock(t) \/ Resume(t)
    PROVE  PoolInv'
<1>1. PICK op : op # "return" /\ At(t, op) /\ Into(t, <<>>)
  BY DEF Unlock, Resume
<1>2. Still /\ UNCHANGED progVars
  BY DEF Unlock, Resume, Still, nodeVars, linkVars, poolVars, modeVars, shaderVars, boundVars
<1>3. QED
  BY <1>1, <1>2, NoTask, StepKeeps, PendingTypes DEF progVars, PoolInv

LEMMA PostStoppedKeeps ==
    ASSUME PoolInv, NEW t \in Threads, PostStopped(t)
    PROVE  PoolInv'
<1>0. Types /\ OnceInv /\ SourceInv
  BY DEF PoolInv
<1>1. At(t, "post") /\ Into(t, << <<"run", Arg(t)>> >>) /\ Still /\ UNCHANGED progVars
  BY DEF PostStopped, Still, nodeVars, linkVars, poolVars, modeVars, shaderVars, boundVars
<1>2. PICK n \in Node : n = Arg(t)
  BY <1>0, <1>1, NodeArg DEF NodeOps
<1>3. work[t] # <<>> /\ 1 \in DOMAIN work[t] /\ work[t][1] = <<"post", n>> /\ work[t][1][1] = "post"
  BY <1>0, <1>1, <1>2, NodeArg DEF NodeOps
<1>4. PICK c \in Task : c = <<"run", n>>
  BY NodeTask DEF NodeOps
<1>5. PICK tasks \in Seq(Task) : tasks = <<c>> /\ \A k \in DOMAIN tasks : k = 1 /\ tasks[k] = c
  BY OneTask
<1>6. Puts(t, tasks)
  BY <1>1, <1>2, <1>3, <1>4, <1>5, IntoPuts
<1>7. /\ TicketsOk(t, tasks) /\ \A m \in Node : Given(tasks, m) => m = n
      /\ ~Queued(n) /\ n \notin handed /\ Sourced(n)
  <2>1. Ticket(work[t][1], n) /\ \A m \in Node : Ticket(c, m) => m = n
    BY <1>3, <1>4 DEF Ticket
  <2>2. QED
    BY <1>0, <1>3, <1>5, <2>1, PassedOn
<1>8. Sourced(n)'
  BY <1>1, <1>7 DEF Sourced, Still
<1>9. FinishOk(tasks) /\ JoinOk(tasks) /\ CancelOk(tasks) /\ ReturnOk(t, tasks)
  BY <1>3, <1>4, <1>5 DEF FinishOk, JoinOk, CancelOk, ReturnOk
<1>10. TasksOk(t, tasks)
  BY <1>7, <1>8, <1>9 DEF TasksOk
<1>11. pendingLink' \in [GL -> 0 .. MaxLinks] /\ pendingSpirv' \in [GL -> 0 .. MaxLinks]
  BY <1>0, <1>1 DEF progVars, Types
<1>12. QED
  BY <1>1, <1>3, <1>6, <1>10, <1>11, StillKeeps
-----------------------------------------------------------------------------
(* Steps of a job node *)

LEMMA ContinuationTasks ==
    ASSUME Types, NEW n \in Node
    PROVE  /\ Continuations(n) \in Seq(Task)
           /\ \A k \in DOMAIN Continuations(n) : /\ k \in DOMAIN conts[n] /\ conts[n][k] \in Node
                                                 /\ Continuations(n)[k] = <<"dep", conts[n][k]>>
<1>1. PICK c \in Seq(Node) : c = conts[n]
  BY DEF Types
<1>2. PICK m \in Nat : m = Len(c)
  BY SeqElements
<1>3. DOMAIN c = 1 .. m /\ \A k \in 1 .. m : c[k] \in Node
  BY <1>2, SeqElements
<1>4. \A k \in 1 .. m : <<"dep", c[k]>> \in Task
  BY <1>3, NodeTask DEF NodeOps
<1>5. PICK p : p = [k \in 1 .. m |-> <<"dep", c[k]>>]
  OBVIOUS
<1>6. p \in [1 .. m -> Task] /\ DOMAIN p = 1 .. m /\ \A k \in 1 .. m : p[k] = <<"dep", c[k]>>
  BY <1>4, <1>5
<1>7. p \in Seq(Task)
  BY <1>6, SeqDef
<1>8. Continuations(n) = p
  BY <1>1, <1>2, <1>5 DEF Continuations
<1>9. QED
  BY <1>1, <1>3, <1>6, <1>7, <1>8

LEMMA ContinuationsOk ==
    ASSUME PoolInv, NEW t \in Threads, NEW n \in Node, state[n] # "none", StaysMade,
           work[t] # <<>> => work[t][1][1] # "return",
           conts' = [conts EXCEPT ![n] = <<>>], UNCHANGED <<queue, handed, remaining>>
    PROVE  TasksOk(t, Continuations(n))
<1>0. Types /\ SourceInv
  BY DEF PoolInv
<1>1. PICK tasks \in Seq(Task) : tasks = Continuations(n)
  BY <1>0, ContinuationTasks
<1>2. \A k \in DOMAIN tasks : /\ k \in DOMAIN conts[n] /\ conts[n][k] \in Node
                              /\ tasks[k] = <<"dep", conts[n][k]>>
  BY <1>0, <1>1, ContinuationTasks
<1>3. CASE \A k \in DOMAIN tasks : conts[n][k][1] = "link"
  <2>1. Harmless(tasks)
    BY <1>2, <1>3 DEF Harmless
  <2>2. QED
    BY <1>1, <2>1, HarmlessTasks
<1>4. CASE n \in CompileNode
  <2>1. \A k \in DOMAIN tasks : conts[n][k] \in Links
    BY <1>0, <1>2, <1>4 DEF SourceInv
  <2>2. \A k \in DOMAIN tasks : conts[n][k][1] = "link"
    BY <2>1 DEF Links, Link
  <2>3. QED
    BY <1>3, <2>2
<1>5. ASSUME NEW i \in 1 .. MaxLinks, n = Spirv(i)
      PROVE  TasksOk(t, Continuations(n))
  <2>1. conts[n] = <<>>
    BY <1>0, <1>5 DEF SourceInv
  <2>2. \A k \in DOMAIN tasks : FALSE
    BY <1>2, <2>1
  <2>3. QED
    BY <1>3, <2>2
<1>6. ASSUME NEW i \in 1 .. MaxLinks, n = Link(i), conts[n] = <<Spirv(i)>>
      PROVE  TasksOk(t, Continuations(n))
  <2>1. Spirv(i) \in Node /\ Spirv(i)[1] = "spirv"
    BY NodeKinds
  <2>2. \A k \in DOMAIN tasks : k = 1 /\ tasks[k] = <<"dep", Spirv(i)>>
    BY <1>2, <1>6
  <2>3. FinishOk(tasks) /\ JoinOk(tasks) /\ CancelOk(tasks) /\ ReturnOk(t, tasks)
    BY <2>2 DEF FinishOk, JoinOk, CancelOk, ReturnOk
  <2>4. \A m \in Node : Given(tasks, m) => m = Spirv(i)
    BY <2>2 DEF Given, Ticket
  <2>5. ~OnItsWay(Spirv(i))
    BY <1>0, <1>6 DEF SourceInv
  <2>6. /\ \A u \in Threads : ~Holds(u, Spirv(i))
        /\ ~Queued(Spirv(i)) /\ Spirv(i) \notin handed
    BY <2>5 DEF OnItsWay
  <2>7. TicketsOk(t, tasks)
    BY <2>2, <2>4, <2>6 DEF TicketsOk, Holds
  <2>8. state'[Spirv(i)] # "none"
    BY <1>6, <2>1, NodeKinds DEF StaysMade, MadeInv, PoolInv
  <2>9. conts'[Link(i)] = <<>>
    BY <1>0, <1>6, NodeKinds DEF Types
  <2>10. Sourced(Spirv(i))'
    BY <2>8, <2>9 DEF Sourced, Spirv, Link
  <2>11. QED
    BY <1>1, <2>3, <2>4, <2>6, <2>7, <2>10 DEF TasksOk
<1>7. ASSUME NEW i \in 1 .. MaxLinks, n = Link(i), conts[n] = <<>>
      PROVE  TasksOk(t, Continuations(n))
  <2>1. \A k \in DOMAIN tasks : FALSE
    BY <1>2, <1>7
  <2>2. QED
    BY <1>3, <2>1
<1>8. \A i \in 1 .. MaxLinks : conts[Link(i)] \in {<<>>, <<Spirv(i)>>}
  BY <1>0 DEF SourceInv
<1>9. QED
  BY <1>4, <1>5, <1>6, <1>7, <1>8 DEF Node

(* A step that settles a node, and runs what waited for it.                *)
Apart == UNCHANGED <<remaining, snap, queue, handed, inFlight, budget, stopped, hasPool, drained,
                     compiled, adopters, pinned, index, src, pendingLink, pendingSpirv>>

LEMMA SettleKeeps ==
    ASSUME PoolInv, NEW t \in Threads, NEW op \in NodeOps, op # "return", At(t, op),
           NEW to \in {"Canceled", "Complete"}, Transition(t, Arg(t), to), Apart,
           state[Arg(t)] # "none",
           \/ cancelReq' = cancelReq
           \/ op = "cancel" /\ cancelReq' = [cancelReq EXCEPT ![Arg(t)] = TRUE],
           failures' \in Nat, failures' >= failures
    PROVE  PoolInv'
<1>0. Types /\ MadeInv /\ SourceInv
  BY DEF PoolInv
<1>1. PICK n \in Node : n = Arg(t)
  BY <1>0, NodeArg
<1>2. work[t] # <<>> /\ 1 \in DOMAIN work[t] /\ work[t][1] = <<op, n>> /\ work[t][1][1] = op
  BY <1>0, <1>1, NodeArg
<1>3. /\ state' = [state EXCEPT ![n] = to] /\ conts' = [conts EXCEPT ![n] = <<>>]
      /\ Puts(t, Continuations(n))
  BY <1>1, <1>2, IntoPuts DEF Transition
<1>4. Continuations(n) \in Seq(Task)
  BY <1>0, ContinuationTasks
<1>5. MadeKept /\ StaysMade
  BY <1>0, <1>1, <1>3 DEF MadeKept, StaysMade, Types
<1>6. TasksOk(t, Continuations(n))
  BY <1>1, <1>2, <1>3, <1>5, ContinuationsOk DEF Apart
<1>7. SettledKept
  <2>1. ASSUME NEW i \in 1 .. MaxLinks
        PROVE  /\ Terminal(Link(i)) => Terminal(Link(i))'
               /\ cancelReq[Link(i)] => cancelReq'[Link(i)]
    <3>1. Link(i) \in Node
      BY NodeKinds
    <3>2. Terminal(Link(i)) => state'[Link(i)] \in {"Complete", "Canceled"}
      BY <1>0, <1>3, <3>1 DEF Terminal, Types
    <3>3. cancelReq[Link(i)] => cancelReq'[Link(i)]
      BY <1>0, <1>1, <3>1 DEF Types
    <3>4. QED
      BY <3>2, <3>3 DEF Terminal, Link
  <2>2. QED
    BY <2>1 DEF SettledKept
<1>8. AskedKept(t)
  <2>1. ASSUME NEW m \in CompileNode, cancelReq'[m], ~cancelReq[m] PROVE Asks(t, m)
    <3>1. m \in Node
      BY NodeKinds
    <3>2. m = n /\ op = "cancel"
      BY <1>0, <1>1, <2>1, <3>1 DEF Types
    <3>3. QED
      BY <1>2, <3>2 DEF Asks
  <2>2. QED
    BY <2>1 DEF AskedKept
<1>9. SourcesKept /\ LinksOnly'
  <2>1. \A m \in Node : conts'[m] \in {<<>>, conts[m]}
    BY <1>0, <1>3 DEF Types
  <2>2. \A i \in 1 .. MaxLinks : remaining'[i] <= remaining[i]
    <3>1. remaining' = remaining /\ \A i \in 1 .. MaxLinks : remaining[i] \in Int
      BY <1>0 DEF Apart, Types
    <3>2. QED
      BY <3>1
  <2>3. SourcesKept
    BY <1>0, <2>1, <2>2, NodeKinds DEF SourcesKept, SourceInv
  <2>4. LinksOnly'
    BY <1>0, <2>1, NodeKinds DEF LinksOnly, SourceInv
  <2>5. QED
    BY <2>3, <2>4
<1>10. Types'
  <2>1. work' \in [Threads -> Seq(Task)]
    BY <1>0, <1>3, <1>4, PutsWork DEF Types
  <2>2. /\ state' \in [Node -> {"none", "Pending", "Running", "Complete", "Canceled"}]
        /\ cancelReq' \in [Node -> BOOLEAN]
    BY <1>0, <1>3 DEF Types
  <2>3. conts' \in [Node -> Seq(Node)]
    <3>1. <<>> \in Seq(Node)
      OBVIOUS
    <3>2. QED
      BY <1>0, <1>3, <3>1 DEF Types
  <2>4. QED
    BY <1>0, <2>1, <2>2, <2>3 DEF Types, Apart
<1>11. HoldersUnmoved
  BY DEF Apart, HoldersUnmoved
<1>12. Inner(t, Continuations(n))
  BY <1>2, <1>3, <1>5, <1>6, <1>7, <1>8, <1>9, <1>11 DEF Inner, Apart
<1>13. QED
  BY <1>4, <1>10, <1>12, InnerKeeps

LEMMA CancelNodeKeeps ==
    ASSUME PoolInv, NEW t \in Threads, CancelNode(t)
    PROVE  PoolInv'
<1>0. Types /\ MadeInv /\ SourceInv
  BY DEF PoolInv
<1>1. At(t, "cancel") /\ cancelReq' = [cancelReq EXCEPT ![Arg(t)] = TRUE] /\ Apart
  BY DEF CancelNode, Apart, linkVars, poolVars, modeVars, shaderVars, progVars
<1>2. failures' \in Nat /\ failures' >= failures /\ failures' = failures
  <2>1. failures' = failures /\ failures \in Nat
    BY <1>0 DEF CancelNode, boundVars, Types
  <2>2. QED
    BY <2>1
<1>3. CASE state[Arg(t)] = "Pending"
  <2>1. Transition(t, Arg(t), "Canceled")
    BY <1>3 DEF CancelNode
  <2>2. state[Arg(t)] # "none"
    BY <1>3
  <2>3. QED
    BY <1>1, <1>2, <2>1, <2>2, SettleKeeps DEF NodeOps
<1>4. CASE state[Arg(t)] # "Pending"
  <2>1. Into(t, <<>>) /\ UNCHANGED <<state, conts>>
    BY <1>4 DEF CancelNode
  <2>2. PICK n \in Node : n = Arg(t)
    BY <1>0, <1>1, NodeArg DEF NodeOps
  <2>3. /\ work[t] # <<>> /\ 1 \in DOMAIN work[t] /\ work[t][1] = <<"cancel", n>>
        /\ work[t][1][1] = "cancel"
    BY <1>0, <1>1, <2>2, NodeArg DEF NodeOps
  <2>4. Puts(t, <<>>)
    BY <2>1, <2>3, IntoPuts
  <2>5. TasksOk(t, <<>>)
    BY <2>3, NoTask, HarmlessTasks
  <2>6. cancelReq' \in [Node -> BOOLEAN] /\ \A m \in Node : cancelReq'[m] <=> cancelReq[m] \/ m = n
    BY <1>0, <1>1, <2>2 DEF Types
  <2>7. MadeKept /\ HoldersUnmoved
    BY <1>1, <2>1 DEF MadeKept, HoldersUnmoved, Apart
  <2>8. SettledKept
    BY <2>1, <2>6, NodeKinds DEF SettledKept, Terminal
  <2>9. AskedKept(t)
    BY <2>3, <2>6, NodeKinds DEF AskedKept, Asks
  <2>10. SourcesKept /\ LinksOnly'
    <3>1. remaining' = remaining /\ \A i \in 1 .. MaxLinks : remaining[i] \in Int
      BY <1>0, <1>1 DEF Apart, Types
    <3>2. \A i \in 1 .. MaxLinks : remaining'[i] <= remaining[i]
      BY <3>1
    <3>3. QED
      BY <1>0, <2>1, <3>2 DEF SourcesKept, LinksOnly, SourceInv
  <2>11. Inner(t, <<>>)
    BY <1>1, <1>2, <2>3, <2>4, <2>5, <2>7, <2>8, <2>9, <2>10 DEF Inner, Apart
  <2>12. Types'
    <3>1. work' \in [Threads -> Seq(Task)]
      BY <1>0, <2>4, NoTask, PutsWork DEF Types
    <3>2. QED
      BY <1>0, <1>1, <1>2, <2>1, <2>6, <3>1 DEF Types, Apart
  <2>13. QED
    BY <2>11, <2>12, NoTask, InnerKeeps
<1>5. QED
  BY <1>3, <1>4

LEMMA RunKeeps ==
    ASSUME PoolInv, NEW t \in Threads, Run(t)
    PROVE  PoolInv'
<1>0. Types /\ MadeInv /\ OnceInv /\ SourceInv
  BY DEF PoolInv
<1>1. At(t, "run") /\ cancelReq' = cancelReq /\ Apart
  BY DEF Run, Apart, linkVars, poolVars, modeVars, shaderVars, progVars
<1>2. failures' \in Nat /\ failures' >= failures /\ failures' = failures
  <2>1. failures' = failures /\ failures \in Nat
    BY <1>0 DEF Run, boundVars, Types
  <2>2. QED
    BY <2>1
<1>3. PICK n \in Node : n = Arg(t)
  BY <1>0, <1>1, NodeArg DEF NodeOps
<1>4. /\ work[t] # <<>> /\ 1 \in DOMAIN work[t] /\ work[t][1] = <<"run", n>>
      /\ work[t][1][1] = "run"
  BY <1>0, <1>1, <1>3, NodeArg DEF NodeOps
<1>5. CASE state[n] # "Pending"
  <2>1. Into(t, <<>>) /\ UNCHANGED <<state, conts>>
    BY <1>3, <1>5 DEF Run
  <2>2. Still
    BY <1>1, <1>2, <2>1 DEF Still, Apart
  <2>3. pendingLink' \in [GL -> 0 .. MaxLinks] /\ pendingSpirv' \in [GL -> 0 .. MaxLinks]
    BY <1>0, <1>1 DEF Apart, Types
  <2>4. QED
    BY <1>1, <2>1, <2>2, <2>3, NoTask, StepKeeps
<1>6. CASE state[n] = "Pending" /\ cancelReq[n]
  <2>1. Transition(t, Arg(t), "Canceled")
    BY <1>3, <1>6 DEF Run
  <2>2. state[Arg(t)] # "none"
    BY <1>3, <1>6
  <2>3. QED
    BY <1>1, <1>2, <2>1, <2>2, SettleKeeps DEF NodeOps
<1>7. CASE state[n] = "Pending" /\ ~cancelReq[n]
  <2>1. /\ state' = [state EXCEPT ![n] = "Running"] /\ conts' = conts
        /\ Into(t, << <<"finish", n>> >>)
    BY <1>3, <1>7 DEF Run
  <2>2. PICK c \in Task : c = <<"finish", n>>
    BY NodeTask DEF NodeOps
  <2>3. PICK tasks \in Seq(Task) : tasks = <<c>> /\ \A k \in DOMAIN tasks : k = 1 /\ tasks[k] = c
    BY OneTask
  <2>4. Puts(t, tasks)
    BY <1>4, <2>1, <2>2, <2>3, IntoPuts
  <2>5. \A m \in Node : state'[m] = IF m = n THEN "Running" ELSE state[m]
    BY <1>0, <2>1 DEF Types
  <2>6. MadeKept
    BY <1>7, <2>5 DEF MadeKept
  <2>7. TasksOk(t, tasks)
    <3>1. FinishOk(tasks)
      BY <2>2, <2>3, <2>5 DEF FinishOk
    <3>2. JoinOk(tasks) /\ CancelOk(tasks) /\ ReturnOk(t, tasks)
      BY <1>4, <2>2, <2>3 DEF JoinOk, CancelOk, ReturnOk
    <3>3. Ticket(work[t][1], n) /\ \A m \in Node : Ticket(c, m) => m = n
      BY <1>4, <2>2 DEF Ticket
    <3>4. /\ TicketsOk(t, tasks) /\ \A m \in Node : Given(tasks, m) => m = n
          /\ ~Queued(n) /\ n \notin handed /\ Sourced(n)
      BY <1>0, <1>4, <2>3, <3>3, PassedOn
    <3>5. Sourced(n)'
      <4>1. state'[n] # "none" /\ UNCHANGED <<remaining, conts>>
        BY <1>1, <2>1, <2>5 DEF Apart
      <4>2. QED
        BY <3>4, <4>1 DEF Sourced
    <3>6. QED
      BY <3>1, <3>2, <3>4, <3>5 DEF TasksOk
  <2>8. SettledKept
    <3>1. ASSUME NEW i \in 1 .. MaxLinks, Terminal(Link(i)) PROVE Terminal(Link(i))'
      <4>1. Link(i) \in Node /\ Link(i) # n
        BY <1>7, <3>1, NodeKinds DEF Terminal
      <4>2. state'[Link(i)] = state[Link(i)]
        BY <2>5, <4>1
      <4>3. QED
        BY <3>1, <4>2 DEF Terminal, Link
    <3>2. QED
      BY <1>1, <3>1 DEF SettledKept
  <2>9. HoldersUnmoved /\ AskedKept(t)
    BY <1>1 DEF HoldersUnmoved, Apart, AskedKept
  <2>10. SourcesKept /\ LinksOnly'
    <3>1. remaining' = remaining /\ \A i \in 1 .. MaxLinks : remaining[i] \in Int
      BY <1>0, <1>1 DEF Apart, Types
    <3>2. \A i \in 1 .. MaxLinks : remaining'[i] <= remaining[i]
      BY <3>1
    <3>3. QED
      BY <1>0, <2>1, <3>2 DEF SourcesKept, LinksOnly, SourceInv
  <2>11. Inner(t, tasks)
    BY <1>1, <1>2, <1>4, <2>4, <2>6, <2>7, <2>8, <2>9, <2>10 DEF Inner, Apart
  <2>12. Types'
    <3>1. work' \in [Threads -> Seq(Task)]
      BY <1>0, <2>4, PutsWork DEF Types
    <3>2. state' \in [Node -> {"none", "Pending", "Running", "Complete", "Canceled"}]
      BY <1>0, <2>1 DEF Types
    <3>3. QED
      BY <1>0, <1>1, <1>2, <2>1, <3>1, <3>2 DEF Types, Apart
  <2>13. QED
    BY <2>11, <2>12, InnerKeeps
<1>8. QED
  BY <1>5, <1>6, <1>7

LEMMA FinishKeeps ==
    ASSUME PoolInv, NEW t \in Threads, Finish(t)
    PROVE  PoolInv'
<1>0. Types /\ MadeInv
  BY DEF PoolInv
<1>1. At(t, "finish") /\ cancelReq' = cancelReq /\ Apart
  BY DEF Finish, Apart, poolVars, modeVars, shaderVars, progVars
<1>2. PICK throws \in {0, 1} :
        /\ failures' = failures + throws
        /\ Transition(t, Arg(t), IF throws = 1 \/ cancelReq[Arg(t)] THEN "Canceled" ELSE "Complete")
  BY DEF Finish
<1>3. failures' \in Nat /\ failures' >= failures
  BY <1>0, <1>2 DEF Types
<1>4. PICK to \in {"Canceled", "Complete"} : Transition(t, Arg(t), to)
  BY <1>2
<1>5. state[Arg(t)] # "none"
  <2>1. /\ work[t] # <<>> /\ 1 \in DOMAIN work[t] /\ work[t][1] = <<"finish", Arg(t)>>
    BY <1>0, <1>1, NodeArg DEF NodeOps
  <2>2. QED
    BY <1>0, <2>1 DEF MadeInv
<1>6. QED
  BY <1>1, <1>3, <1>4, <1>5, SettleKeeps DEF NodeOps

LEMMA DepSettledKeeps ==
    ASSUME PoolInv, NEW t \in Threads, DepSettled(t)
    PROVE  PoolInv'
<1>0. Types /\ MadeInv /\ SourceInv
  BY DEF PoolInv
<1>1. /\ At(t, "dep") /\ Arg(t)[1] = "link"
      /\ remaining' = [remaining EXCEPT ![Arg(t)[2]] = @ - 1]
      /\ UNCHANGED <<state, cancelReq, conts, snap, queue, handed, inFlight, budget, stopped,
                     hasPool, drained, compiled, adopters, pinned, index, src, failures,
                     pendingLink, pendingSpirv>>
  BY DEF DepSettled, nodeVars, poolVars, modeVars, shaderVars, progVars, boundVars
<1>2. PICK i \in 1 .. MaxLinks : Arg(t) = Link(i) /\ Arg(t)[2] = i
  <2>1. Arg(t) \in Node
    BY <1>0, <1>1, NodeArg DEF NodeOps
  <2>2. QED
    BY <1>1, <2>1, NodeKinds
<1>3. /\ work[t] # <<>> /\ 1 \in DOMAIN work[t] /\ work[t][1][1] = "dep"
      /\ Link(i) \in Node
  BY <1>0, <1>1, NodeArg, NodeKinds DEF NodeOps
<1>4. /\ remaining' \in [1 .. MaxLinks -> Int] /\ remaining'[i] = remaining[i] - 1
      /\ \A j \in 1 .. MaxLinks : remaining'[j] <= remaining[j]
  <2>1. /\ remaining \in [1 .. MaxLinks -> Int]
        /\ remaining' = [remaining EXCEPT ![i] = remaining[i] - 1]
    BY <1>0, <1>1, <1>2 DEF Types
  <2>2. \A j \in 1 .. MaxLinks : remaining'[j] = IF j = i THEN remaining[i] - 1 ELSE remaining[j]
    BY <2>1
  <2>3. remaining' \in [1 .. MaxLinks -> Int]
    BY <2>1
  <2>4. \A j \in 1 .. MaxLinks : remaining[j] \in Int
    BY <2>1
  <2>5. QED
    BY <2>2, <2>3, <2>4
<1>5. PICK tasks : tasks = IF remaining[i] = 1 THEN << <<"post", Link(i)>> >> ELSE <<>>
  OBVIOUS
<1>6. Puts(t, tasks)
  BY <1>2, <1>3, <1>5, IntoPuts DEF DepSettled
<1>7. tasks \in Seq(Task) /\ TasksOk(t, tasks)
  <2>1. CASE remaining[i] = 1
    <3>1. PICK c \in Task : c = <<"post", Link(i)>>
      BY <1>3, NodeTask DEF NodeOps
    <3>2. tasks \in Seq(Task) /\ \A k \in DOMAIN tasks : k = 1 /\ tasks[k] = c
      BY <1>5, <2>1, <3>1, OneTask
    <3>3. FinishOk(tasks) /\ JoinOk(tasks) /\ CancelOk(tasks) /\ ReturnOk(t, tasks)
      BY <1>3, <3>1, <3>2 DEF FinishOk, JoinOk, CancelOk, ReturnOk
    <3>4. \A m \in Node : Given(tasks, m) => m = Link(i)
      BY <3>1, <3>2 DEF Given, Ticket
    <3>5. ~OnItsWay(Link(i)) /\ state[Link(i)] # "none"
      BY <1>0, <2>1 DEF SourceInv
    <3>6. /\ \A u \in Threads : ~Holds(u, Link(i))
          /\ ~Queued(Link(i)) /\ Link(i) \notin handed
      BY <3>5 DEF OnItsWay
    <3>7. TicketsOk(t, tasks)
      BY <3>2, <3>4, <3>6 DEF TicketsOk, Holds
    <3>8. Sourced(Link(i))'
      <4>1. ASSUME NEW j \in 1 .. MaxLinks, Link(i) = Link(j) PROVE remaining'[j] <= 0
        <5>1. j = i
          BY <4>1, NodeKinds
        <5>2. QED
          BY <1>4, <2>1, <5>1
      <4>2. \A j \in 1 .. MaxLinks : Link(i) # Spirv(j)
        BY DEF Link, Spirv
      <4>3. QED
        BY <1>1, <3>5, <4>1, <4>2 DEF Sourced, Link, Spirv
    <3>9. QED
      BY <3>2, <3>3, <3>4, <3>6, <3>7, <3>8 DEF TasksOk
  <2>2. CASE remaining[i] # 1
    BY <1>3, <1>5, <2>2, NoTask, HarmlessTasks
  <2>3. QED
    BY <2>1, <2>2
<1>8. MadeKept /\ HoldersUnmoved /\ AskedKept(t)
  BY <1>1 DEF MadeKept, HoldersUnmoved, AskedKept
<1>9. SettledKept
  BY <1>1 DEF SettledKept, Terminal
<1>10. SourcesKept /\ LinksOnly'
  BY <1>0, <1>1, <1>4 DEF SourcesKept, LinksOnly, SourceInv
<1>11. failures' >= failures
  BY <1>0, <1>1 DEF Types
<1>12. Inner(t, tasks)
  BY <1>1, <1>3, <1>6, <1>7, <1>8, <1>9, <1>10, <1>11 DEF Inner
<1>13. Types'
  <2>1. work' \in [Threads -> Seq(Task)]
    BY <1>0, <1>6, <1>7, PutsWork DEF Types
  <2>2. QED
    BY <1>0, <1>1, <1>4, <2>1 DEF Types
<1>14. QED
  BY <1>7, <1>12, <1>13, InnerKeeps

LEMMA ChainKeeps ==
    ASSUME PoolInv, NEW t \in Threads, Chain(t)
    PROVE  PoolInv'
<1>0. Types /\ OnceInv /\ SourceInv
  BY DEF PoolInv
<1>1. At(t, "dep") /\ Arg(t)[1] = "spirv" /\ Still /\ UNCHANGED progVars
  BY DEF Chain, Still, nodeVars, linkVars, poolVars, modeVars, shaderVars, boundVars
<1>2. PICK i \in 1 .. MaxLinks : Arg(t) = Spirv(i) /\ Arg(t)[2] = i
  <2>1. Arg(t) \in Node
    BY <1>0, <1>1, NodeArg DEF NodeOps
  <2>2. QED
    BY <1>1, <2>1, NodeKinds
<1>3. /\ work[t] # <<>> /\ 1 \in DOMAIN work[t] /\ work[t][1] = <<"dep", Spirv(i)>>
      /\ work[t][1][1] = "dep" /\ Spirv(i) \in Node /\ Spirv(i)[1] = "spirv"
  BY <1>0, <1>1, <1>2, NodeArg, NodeKinds DEF NodeOps
<1>4. PICK op \in {"post", "cancel"} : Into(t, << <<op, Spirv(i)>> >>)
  BY <1>2 DEF Chain, Cancel
<1>5. PICK c \in Task : c = <<op, Spirv(i)>>
  BY <1>3, NodeTask DEF NodeOps
<1>6. PICK tasks \in Seq(Task) : tasks = <<c>> /\ \A k \in DOMAIN tasks : k = 1 /\ tasks[k] = c
  BY OneTask
<1>7. Puts(t, tasks)
  BY <1>3, <1>4, <1>5, <1>6, IntoPuts
<1>8. FinishOk(tasks) /\ JoinOk(tasks) /\ ReturnOk(t, tasks)
  BY <1>3, <1>5, <1>6 DEF FinishOk, JoinOk, ReturnOk
<1>9. CancelOk(tasks)
  BY <1>3, <1>5, <1>6, NodeKinds DEF CancelOk
<1>10. \A m \in Node : Given(tasks, m) => m = Spirv(i)
  BY <1>3, <1>5, <1>6 DEF Given, Ticket
<1>11. Ticket(work[t][1], Spirv(i))
  BY <1>3 DEF Ticket
<1>12. /\ OnItsWay(Spirv(i)) /\ ~Queued(Spirv(i)) /\ Spirv(i) \notin handed
       /\ \A u \in Threads : \A j \in DOMAIN work[u] : Ticket(work[u][j], Spirv(i)) => u = t /\ j = 1
  BY <1>0, <1>3, <1>11 DEF OnItsWay, OnceInv, Holds
<1>13. TicketsOk(t, tasks)
  BY <1>6, <1>10, <1>12 DEF TicketsOk
<1>14. Sourced(Spirv(i))'
  <2>1. state[Spirv(i)] # "none" /\ conts[Link(i)] = <<>>
    BY <1>0, <1>3, <1>12 DEF SourceInv
  <2>2. ASSUME NEW j \in 1 .. MaxLinks, Spirv(i) = Spirv(j) PROVE conts'[Link(j)] = <<>>
    <3>1. j = i
      BY <2>2, NodeKinds
    <3>2. QED
      BY <1>1, <2>1, <3>1 DEF Still
  <2>3. \A j \in 1 .. MaxLinks : Spirv(i) # Link(j)
    BY DEF Link, Spirv
  <2>4. QED
    BY <1>1, <2>1, <2>2, <2>3 DEF Sourced, Link, Spirv, Still
<1>15. TasksOk(t, tasks)
  BY <1>8, <1>9, <1>10, <1>12, <1>13, <1>14 DEF TasksOk
<1>16. pendingLink' \in [GL -> 0 .. MaxLinks] /\ pendingSpirv' \in [GL -> 0 .. MaxLinks]
  BY <1>0, <1>1 DEF progVars, Types
<1>17. QED
  BY <1>1, <1>3, <1>7, <1>15, <1>16, StillKeeps

LEMMA Appended ==
    ASSUME NEW S, NEW s \in Seq(S), NEW x \in S
    PROVE  /\ Append(s, x) \in Seq(S)
           /\ \A k \in DOMAIN Append(s, x) : /\ k \in 1 .. Len(s) + 1
                                             /\ k = Len(s) + 1 => Append(s, x)[k] = x
                                             /\ k # Len(s) + 1 => k \in DOMAIN s /\ Append(s, x)[k] = s[k]
OBVIOUS

LEMMA EdgeKeeps ==
    ASSUME PoolInv, NEW t \in Threads, Edge(t)
    PROVE  PoolInv'
<1>0. Types /\ MadeInv /\ SourceInv
  BY DEF PoolInv
<1>1. /\ At(t, "edge")
      /\ UNCHANGED <<state, cancelReq, remaining, snap, queue, handed, inFlight, budget, stopped,
                     hasPool, drained, compiled, adopters, pinned, index, src, failures,
                     pendingLink, pendingSpirv>>
  BY DEF Edge, linkVars, poolVars, modeVars, shaderVars, progVars, boundVars
<1>2. /\ work[t] # <<>> /\ work[t][1] \in Task /\ work[t][1][1] = "edge"
      /\ work[t][1][2] = Arg(t)
  <2>1. work \in [Threads -> Seq(Task)]
    BY <1>0 DEF Types
  <2>2. QED
    BY <1>1, <2>1, AtTask
<1>3. PICK dep \in CompileNode, link \in Links : dep = Arg(t).dep /\ link = Arg(t).link
  BY <1>2, TaskParts
<1>4. dep \in Node /\ link \in Node /\ link[1] = "link" /\ dep[1] = "compile"
  <2>1. link[1] = "link"
    BY DEF Links, Link
  <2>2. QED
    BY <2>1, NodeKinds
<1>5. CASE Terminal(dep)
  <2>1. Into(t, << <<"dep", link>> >>) /\ conts' = conts
    BY <1>3, <1>5 DEF Edge
  <2>2. <<"dep", link>> \in Task /\ HarmlessTask(<<"dep", link>>)
    BY <1>4, NodeTask DEF NodeOps, HarmlessTask
  <2>3. << <<"dep", link>> >> \in Seq(Task) /\ Harmless(<< <<"dep", link>> >>)
    BY <2>2, HarmlessOne
  <2>4. Still
    BY <1>1, <2>1 DEF Still
  <2>5. pendingLink' \in [GL -> 0 .. MaxLinks] /\ pendingSpirv' \in [GL -> 0 .. MaxLinks]
    BY <1>0, <1>1 DEF Types
  <2>6. QED
    BY <1>1, <2>1, <2>3, <2>4, <2>5, StepKeeps
<1>6. CASE ~Terminal(dep)
  <2>1. Into(t, <<>>) /\ conts' = [conts EXCEPT ![dep] = Append(@, link)]
    BY <1>3, <1>6 DEF Edge
  <2>2. Puts(t, <<>>)
    BY <1>2, <2>1, IntoPuts
  <2>3. TasksOk(t, <<>>)
    BY <1>2, NoTask, HarmlessTasks
  <2>4. PICK c \in Seq(Node) : c = conts[dep]
    BY <1>0, <1>4 DEF Types
  <2>5. /\ Append(c, link) \in Seq(Node)
        /\ \A k \in DOMAIN Append(c, link) : Append(c, link)[k] = link
                                             \/ (k \in DOMAIN c /\ Append(c, link)[k] = c[k])
    <3>1. /\ Append(c, link) \in Seq(Node)
          /\ \A k \in DOMAIN Append(c, link) :
               /\ k = Len(c) + 1 => Append(c, link)[k] = link
               /\ k # Len(c) + 1 => k \in DOMAIN c /\ Append(c, link)[k] = c[k]
      BY <1>4, Appended
    <3>2. QED
      BY <3>1
  <2>6. /\ conts' \in [Node -> Seq(Node)] /\ conts'[dep] = Append(c, link)
        /\ \A m \in Node \ {dep} : conts'[m] = conts[m]
    BY <1>0, <1>4, <2>1, <2>4, <2>5 DEF Types
  <2>7. LinksOnly'
    <3>1. \A k \in DOMAIN conts'[dep] : conts'[dep][k] \in Links
      BY <1>0, <2>4, <2>5, <2>6 DEF SourceInv
    <3>2. \A m \in CompileNode \ {dep} : \A k \in DOMAIN conts'[m] : conts'[m][k] \in Links
      BY <1>0, <2>6, NodeKinds DEF SourceInv
    <3>3. QED
      BY <3>1, <3>2 DEF LinksOnly
  <2>8. SourcesKept
    <3>1. remaining' = remaining /\ \A i \in 1 .. MaxLinks : remaining[i] \in Int
      BY <1>0, <1>1 DEF Types
    <3>2. \A i \in 1 .. MaxLinks : Link(i) \in Node \ {dep} /\ Spirv(i) \in Node \ {dep}
      BY <1>4, NodeKinds
    <3>3. \A i \in 1 .. MaxLinks : conts'[Link(i)] = conts[Link(i)] /\ conts'[Spirv(i)] = <<>>
      BY <1>0, <2>6, <3>2 DEF SourceInv
    <3>4. \A i \in 1 .. MaxLinks : remaining'[i] <= remaining[i]
      BY <3>1
    <3>5. QED
      BY <3>3, <3>4 DEF SourcesKept
  <2>9. MadeKept /\ HoldersUnmoved /\ AskedKept(t)
    BY <1>1 DEF MadeKept, HoldersUnmoved, AskedKept
  <2>10. SettledKept
    BY <1>1 DEF SettledKept, Terminal
  <2>11. failures' >= failures
    BY <1>0, <1>1 DEF Types
  <2>12. Inner(t, <<>>)
    BY <1>1, <1>2, <2>2, <2>3, <2>7, <2>8, <2>9, <2>10, <2>11 DEF Inner
  <2>13. Types'
    <3>1. work' \in [Threads -> Seq(Task)]
      BY <1>0, <2>2, NoTask, PutsWork DEF Types
    <3>2. QED
      BY <1>0, <1>1, <2>6, <3>1 DEF Types
  <2>14. QED
    BY <2>12, <2>13, NoTask, InnerKeeps
<1>7. QED
  BY <1>5, <1>6

-----------------------------------------------------------------------------
(* Steps of the pool *)

(* Requests, all of them excused, and the release of the mutex.            *)
Requests(tasks) == \A k \in DOMAIN tasks : tasks[k][1] \in {"cancel", "unlock"}

LEMMA RequestsGive ==
    ASSUME NEW tasks, Requests(tasks)
    PROVE  /\ \A n \in Node : ~Given(tasks, n)
           /\ FinishOk(tasks) /\ JoinOk(tasks) /\ \A t \in Threads : TicketsOk(t, tasks)
           /\ \A k \in DOMAIN tasks : tasks[k][1] # "return"
<1>1. ASSUME NEW n \in Node, NEW k \in DOMAIN tasks, Ticket(tasks[k], n) PROVE FALSE
  <2>1. PICK x : x = tasks[k]
    OBVIOUS
  <2>2. Ticket(x, n) /\ x[1] \in {"cancel", "unlock"}
    BY <1>1, <2>1 DEF Requests
  <2>3. QED
    BY <2>2 DEF Ticket
<1>2. \A n \in Node : ~Given(tasks, n)
  BY <1>1 DEF Given
<1>3. \A t \in Threads : TicketsOk(t, tasks)
  BY <1>1, <1>2 DEF TicketsOk
<1>4. FinishOk(tasks) /\ JoinOk(tasks) /\ \A k \in DOMAIN tasks : tasks[k][1] # "return"
  BY DEF FinishOk, JoinOk, Requests
<1>5. QED
  BY <1>2, <1>3, <1>4

LEMMA PostThrowsKeeps ==
    ASSUME PoolInv, NEW t \in Threads, PostThrows(t)
    PROVE  PoolInv'
<1>0. Types /\ MadeInv /\ SourceInv
  BY DEF PoolInv
<1>1. /\ At(t, "post") /\ failures' = failures + 1 /\ ~stopped
      /\ hasPool' \in {hasPool, TRUE} /\ Into(t, << <<"cancel", Arg(t)>> >>)
      /\ UNCHANGED <<state, cancelReq, conts, remaining, snap, queue, handed, inFlight, budget,
                     stopped, drained, compiled, adopters, pinned, index, src,
                     pendingLink, pendingSpirv>>
  BY DEF PostThrows, Accepting, Cancel, nodeVars, linkVars, modeVars, shaderVars, progVars
<1>2. PICK n \in Node : n = Arg(t)
  BY <1>0, <1>1, NodeArg DEF NodeOps
<1>3. work[t] # <<>> /\ 1 \in DOMAIN work[t] /\ work[t][1][1] = "post"
  BY <1>0, <1>1, NodeArg DEF NodeOps
<1>4. PICK c \in Task : c = <<"cancel", n>>
  BY NodeTask DEF NodeOps
<1>5. PICK tasks \in Seq(Task) : tasks = <<c>> /\ \A k \in DOMAIN tasks : k = 1 /\ tasks[k] = c
  BY OneTask
<1>6. Puts(t, tasks)
  BY <1>1, <1>2, <1>3, <1>4, <1>5, IntoPuts
<1>7. failures' \in Nat /\ failures' >= failures /\ Excused'
  BY <1>0, <1>1 DEF Types, Excused
<1>8. TasksOk(t, tasks)
  <2>1. Requests(tasks)
    BY <1>4, <1>5 DEF Requests
  <2>2. /\ \A m \in Node : ~Given(tasks, m)
        /\ FinishOk(tasks) /\ JoinOk(tasks) /\ TicketsOk(t, tasks)
        /\ \A k \in DOMAIN tasks : tasks[k][1] # "return"
    BY <2>1, RequestsGive
  <2>3. ReturnOk(t, tasks)
    BY <1>3, <2>2 DEF ReturnOk
  <2>4. CancelOk(tasks)
    BY <1>7 DEF CancelOk
  <2>5. QED
    BY <2>2, <2>3, <2>4 DEF TasksOk
<1>9. MadeKept /\ HoldersUnmoved /\ AskedKept(t)
  BY <1>1 DEF MadeKept, HoldersUnmoved, AskedKept
<1>10. SettledKept
  BY <1>1 DEF SettledKept, Terminal
<1>11. SourcesKept /\ LinksOnly'
  <2>1. remaining' = remaining /\ \A i \in 1 .. MaxLinks : remaining[i] \in Int
    BY <1>0, <1>1 DEF Types
  <2>2. \A i \in 1 .. MaxLinks : remaining'[i] <= remaining[i]
    BY <2>1
  <2>3. QED
    BY <1>0, <1>1, <2>2 DEF SourcesKept, LinksOnly, SourceInv
<1>12. Inner(t, tasks)
  BY <1>1, <1>3, <1>6, <1>7, <1>8, <1>9, <1>10, <1>11 DEF Inner
<1>13. Types'
  <2>1. work' \in [Threads -> Seq(Task)]
    BY <1>0, <1>6, PutsWork DEF Types
  <2>2. QED
    BY <1>0, <1>1, <1>7, <2>1 DEF Types
<1>14. QED
  BY <1>12, <1>13, InnerKeeps

(* A step that only moves nodes on their way to a worker.                  *)
LEMMA KeepsPlaces ==
    ASSUME Types, OnceInv, NEW t \in Threads, NEW tasks \in Seq(Task), Puts(t, tasks),
           \A n \in Node : ~Given(tasks, n),
           \A n \in Node : Queued(n)' \/ n \in handed' =>
             Queued(n) \/ n \in handed \/ (1 \in DOMAIN work[t] /\ Ticket(work[t][1], n)),
           \A j, k \in DOMAIN queue' : queue'[j] = queue'[k] => j = k,
           \A k \in DOMAIN queue' : queue'[k] \notin handed'
    PROVE  /\ OnceInv'
           /\ \A n \in Node : OnItsWay(n)' => OnItsWay(n)
<1>1. Unique
  BY DEF OnceInv, Unique
<1>2. TicketsOk(t, tasks)
  BY DEF TicketsOk, Given
<1>3. /\ Unique'
      /\ \A n \in Node, u \in Threads : Holds(u, n)' => Holds(u, n)
      /\ \A n \in Node : 1 \in DOMAIN work[t] /\ Ticket(work[t][1], n)
                         => \A u \in Threads : ~Holds(u, n)'
  BY <1>1, <1>2, KeepsTickets
<1>4. ASSUME NEW n \in Node, NEW u \in Threads, Holds(u, n)', Queued(n)' \/ n \in handed'
      PROVE  FALSE
  <2>1. Holds(u, n) /\ ~(1 \in DOMAIN work[t] /\ Ticket(work[t][1], n))
    BY <1>3, <1>4
  <2>2. Queued(n) \/ n \in handed
    BY <1>4, <2>1
  <2>3. QED
    BY <2>1, <2>2 DEF OnceInv
<1>5. OnceInv'
  <2>1. \A n \in Node : (\E u \in Threads : Holds(u, n)') => ~Queued(n)' /\ n \notin handed'
    BY <1>4
  <2>2. QED
    BY <1>3, <2>1 DEF OnceInv, Unique
<1>6. ASSUME NEW n \in Node, OnItsWay(n)' PROVE OnItsWay(n)
  <2>1. CASE \E u \in Threads : Holds(u, n)'
    BY <1>3, <2>1 DEF OnItsWay
  <2>2. CASE Queued(n)' \/ n \in handed'
    <3>1. CASE 1 \in DOMAIN work[t] /\ Ticket(work[t][1], n)
      BY <3>1 DEF OnItsWay, Holds
    <3>2. CASE Queued(n) \/ n \in handed
      BY <3>2 DEF OnItsWay
    <3>3. QED
      BY <2>2, <3>1, <3>2
  <2>3. QED
    BY <1>6, <2>1, <2>2 DEF OnItsWay
<1>7. QED
  BY <1>5, <1>6

NodesUnmoved == UNCHANGED <<state, cancelReq, conts, remaining, compiled, adopters, pinned, index, snap>>

LEMMA MovesKeep ==
    ASSUME PoolInv, Types', NEW t \in Threads, NEW tasks \in Seq(Task), Puts(t, tasks),
           FinishOk(tasks), CancelOk(tasks), NodesUnmoved, Excused => Excused',
           OnceInv', \A n \in Node : OnItsWay(n)' => OnItsWay(n), DrainInv', SlotInv'
    PROVE  PoolInv'
<1>1. Types /\ MadeInv /\ HolderInv /\ CancelInv /\ OnceInv /\ SourceInv
  BY DEF PoolInv
<1>2. MadeKept /\ StaysMade /\ HoldersUnmoved /\ AskedKept(t)
  BY DEF NodesUnmoved, MadeKept, StaysMade, HoldersUnmoved, AskedKept
<1>3. SettledKept
  BY DEF NodesUnmoved, SettledKept, Terminal
<1>4. SourcesKept /\ LinksOnly'
  <2>1. remaining' = remaining /\ \A i \in 1 .. MaxLinks : remaining[i] \in Int
    BY <1>1 DEF NodesUnmoved, Types
  <2>2. \A i \in 1 .. MaxLinks : remaining'[i] <= remaining[i]
    BY <2>1
  <2>3. QED
    BY <1>1, <2>2 DEF NodesUnmoved, SourcesKept, LinksOnly, SourceInv
<1>5. MadeInv'
  BY <1>1, <1>2, KeepsMade
<1>6. HolderInv'
  BY <1>1, <1>2, KeepsHolders
<1>7. CancelInv'
  BY <1>1, <1>2, <1>3, KeepsCancel
<1>8. SourceInv'
  <2>1. \A n \in Node : ~Given(<<>>, n)
    BY DEF Given
  <2>2. QED
    BY <1>1, <1>2, <1>4, <2>1, KeepsSource
<1>9. QED
  BY <1>5, <1>6, <1>7, <1>8 DEF PoolInv

LEMMA PoolStepKeeps ==
    ASSUME PoolInv, Types', NEW t \in Threads, NEW tasks \in Seq(Task), Puts(t, tasks),
           \A n \in Node : ~Given(tasks, n), FinishOk(tasks), CancelOk(tasks), NodesUnmoved,
           Excused => Excused',
           \A n \in Node : Queued(n)' \/ n \in handed' =>
             Queued(n) \/ n \in handed \/ (1 \in DOMAIN work[t] /\ Ticket(work[t][1], n)),
           \A j, k \in DOMAIN queue' : queue'[j] = queue'[k] => j = k,
           \A k \in DOMAIN queue' : queue'[k] \notin handed',
           DrainInv', SlotInv'
    PROVE  PoolInv'
<1>1. OnceInv' /\ \A n \in Node : OnItsWay(n)' => OnItsWay(n)
  BY KeepsPlaces DEF PoolInv
<1>2. QED
  BY <1>1, MovesKeep

LEMMA Images ==
    ASSUME NEW S, IsFiniteSet(S), NEW f, NEW T, T = {f[x] : x \in S}
    PROVE  /\ IsFiniteSet(T)
           /\ (\A x, y \in S : f[x] = f[y] => x = y) => Cardinality(T) = Cardinality(S)
<1>1. PICK h : h = [x \in S |-> f[x]]
  OBVIOUS
<1>2. h \in Surjection(S, T)
  BY <1>1 DEF Surjection
<1>3. (\A x, y \in S : f[x] = f[y] => x = y) => h \in Injection(S, T)
  BY <1>1 DEF Injection, IsInjective
<1>4. IsFiniteSet(T) /\ (h \in Injection(S, T) => Cardinality(T) = Cardinality(S))
  BY <1>2, FS_Surjection
<1>5. QED
  BY <1>3, <1>4

LEMMA CountGrows ==
    ASSUME NEW S, IsFiniteSet(S), NEW G, IsFiniteSet(G), NEW q, NEW T,
           \A y : y \in T <=> y \in S \/ \E x \in G : y = q[x],
           \A x, y \in G : q[x] = q[y] => x = y, \A x \in G : q[x] \notin S
    PROVE  Cardinality(T) = Cardinality(S) + Cardinality(G)
<1>1. PICK I : I = {q[x] : x \in G}
  OBVIOUS
<1>2. IsFiniteSet(I) /\ Cardinality(I) = Cardinality(G)
  BY <1>1, Images
<1>3. S \cap I = {} /\ T = S \cup I
  BY <1>1
<1>4. Cardinality(T) = Cardinality(S) + Cardinality(I) - Cardinality(S \cap I)
  BY <1>2, <1>3, FS_Union
<1>5. Cardinality(S \cap I) = 0 /\ Cardinality(S) \in Nat /\ Cardinality(I) \in Nat
  BY <1>2, <1>3, FS_EmptySet, FS_CardinalityType
<1>6. Cardinality(T) = Cardinality(S) + Cardinality(I)
  BY <1>4, <1>5
<1>7. QED
  BY <1>2, <1>6

LEMMA NodesFinite ==
    /\ IsFiniteSet(Node) /\ IsFiniteSet(Shaders) /\ IsFiniteSet(CompileNode)
    /\ Cardinality(Workers) \in Nat
<1>1. /\ MaxCompiles \in Nat /\ MaxLinks \in Nat /\ PerContext \in Nat
      /\ IsFiniteSet(GL) /\ IsFiniteSet(Workers)
  BY PoolAssumption
<1>2. IsFiniteSet(1 .. MaxCompiles) /\ IsFiniteSet(1 .. MaxLinks) /\ IsFiniteSet(1 .. PerContext)
  BY <1>1, FS_Interval
<1>3. IsFiniteSet({"compile"})
  BY FS_Singleton
<1>4. IsFiniteSet(CompileNode) /\ IsFiniteSet(Shaders)
  BY <1>1, <1>2, <1>3, FS_Product DEF CompileNode, Shaders
<1>5. PICK f, h : f = [i \in 1 .. MaxLinks |-> Link(i)] /\ h = [i \in 1 .. MaxLinks |-> Spirv(i)]
  OBVIOUS
<1>6. IsFiniteSet({f[i] : i \in 1 .. MaxLinks}) /\ IsFiniteSet({h[i] : i \in 1 .. MaxLinks})
  BY <1>2, Images
<1>7. /\ {f[i] : i \in 1 .. MaxLinks} = {Link(i) : i \in 1 .. MaxLinks}
      /\ {h[i] : i \in 1 .. MaxLinks} = {Spirv(i) : i \in 1 .. MaxLinks}
  BY <1>5
<1>8. IsFiniteSet(Node)
  BY <1>4, <1>6, <1>7, FS_Union DEF Node
<1>9. Cardinality(Workers) \in Nat
  BY <1>1, FS_CardinalityType
<1>10. QED
  BY <1>4, <1>8, <1>9

(* What DispatchLocked does to the queue q: its first k nodes leave it, and *)
(* those of them at the places `given` are handed over.                    *)
Dispatched(t, q, slots, limit, k, given, tasks) ==
    /\ given \subseteq 1 .. k /\ IsFiniteSet(given)
    /\ inFlight' = slots + Cardinality(given)
    /\ queue' = SubSeq(q, k + 1, Len(q)) /\ handed' = handed \cup {q[j] : j \in given}
    /\ given # {} => inFlight' <= limit
    /\ inFlight' < limit => k = Len(q)
    /\ failures' \in Nat /\ failures' >= failures
    /\ Into(t, tasks) /\ Requests(tasks)
    /\ \A j \in DOMAIN tasks : tasks[j][1] = "cancel" => failures' > 0

LEMMA DispatchParts ==
    ASSUME Types, NEW t \in Threads, NEW q \in Seq(Node), NEW slots \in Int, NEW limit \in Int,
           Dispatch(t, q, slots, limit)
    PROVE  \E k \in 0 .. Len(q), given \in SUBSET (1 .. Len(q)), tasks \in Seq(Task) :
             Dispatched(t, q, slots, limit, k, given, tasks)
<1>1. PICK k \in 0 .. Len(q), F \in SUBSET (1 .. Len(q)) :
        LET given == {j \in 1 .. k : j \notin F}
            taken == slots + Cardinality(given)
        IN  /\ F \subseteq 1 .. k /\ failures + Cardinality(F) <= MaxFailures
            /\ given # {} => taken <= limit
            /\ taken < limit => k = Len(q)
            /\ taken >= limit => k \notin F /\ (given = {} => k = 0)
            /\ inFlight' = taken
            /\ queue' = SubSeq(q, k + 1, Len(q))
            /\ handed' = handed \cup {q[j] : j \in given}
            /\ failures' = failures + Cardinality(F)
            /\ \E e \in InOrder(F) : Leaving(t, [j \in 1 .. Cardinality(F) |-> <<"cancel", q[e[j]]>>])
  BY DEF Dispatch
<1>2. PICK given : given = {j \in 1 .. k : j \notin F}
  OBVIOUS
<1>3. /\ given # {} => inFlight' <= limit
      /\ inFlight' = slots + Cardinality(given)
      /\ inFlight' < limit => k = Len(q)
      /\ queue' = SubSeq(q, k + 1, Len(q)) /\ handed' = handed \cup {q[j] : j \in given}
      /\ failures' = failures + Cardinality(F)
  BY <1>1, <1>2
<1>4. PICK e \in InOrder(F) : Leaving(t, [j \in 1 .. Cardinality(F) |-> <<"cancel", q[e[j]]>>])
  BY <1>1
<1>5. PICK n \in Nat, m \in Nat : n = Len(q) /\ m = Cardinality(F)
  <2>1. Len(q) \in Nat
    BY SeqElements
  <2>2. IsFiniteSet(1 .. Len(q))
    BY <2>1, FS_Interval
  <2>3. Cardinality(F) \in Nat
    BY <2>2, FS_Subset, FS_CardinalityType
  <2>4. QED
    BY <2>1, <2>3
<1>6. given \subseteq 1 .. k /\ given \in SUBSET (1 .. n) /\ IsFiniteSet(given)
  <2>1. k \in 0 .. n
    BY <1>5
  <2>2. given \subseteq 1 .. k /\ given \subseteq 1 .. n
    BY <1>2, <2>1
  <2>3. IsFiniteSet(1 .. n)
    BY FS_Interval
  <2>4. IsFiniteSet(given)
    BY <2>2, <2>3, FS_Subset
  <2>5. QED
    BY <2>2, <2>4
<1>7. failures' \in Nat /\ failures' >= failures /\ (m > 0 => failures' > 0)
  <2>1. failures \in Nat /\ failures' = failures + m
    BY <1>3, <1>5 DEF Types
  <2>2. QED
    BY <2>1
<1>8. \A j \in 1 .. m : e[j] \in 1 .. n
  BY <1>5 DEF InOrder
<1>9. \A j \in 1 .. m : q[e[j]] \in Node
  BY <1>5, <1>8, SeqElements
<1>10. PICK c : c = [j \in 1 .. m |-> <<"cancel", q[e[j]]>>]
  OBVIOUS
<1>11. /\ c \in Seq(Task) /\ DOMAIN c = 1 .. m
       /\ \A j \in DOMAIN c : c[j][1] = "cancel" /\ failures' > 0
  <2>1. \A j \in 1 .. m : <<"cancel", q[e[j]]>> \in Task
    BY <1>9, NodeTask DEF NodeOps
  <2>2. c \in [1 .. m -> Task] /\ DOMAIN c = 1 .. m /\ \A j \in 1 .. m : c[j] = <<"cancel", q[e[j]]>>
    BY <1>10, <2>1
  <2>3. c \in Seq(Task)
    BY <2>2, SeqDef
  <2>4. \A j \in 1 .. m : m > 0
    OBVIOUS
  <2>5. QED
    BY <1>7, <2>2, <2>3, <2>4
<1>12. PICK u \in Seq(Task) : u = << <<"unlock", None>> >> /\ \A j \in DOMAIN u : u[j][1] = "unlock"
  <2>1. <<"unlock", None>> \in Task
    BY PlainTask DEF PlainOps
  <2>2. << <<"unlock", None>> >> \in Seq(Task)
    BY <2>1, OneTask
  <2>3. \A j \in DOMAIN << <<"unlock", None>> >> : << <<"unlock", None>> >>[j][1] = "unlock"
    OBVIOUS
  <2>4. QED
    BY <2>2, <2>3
<1>13. \E tasks \in Seq(Task) : /\ Into(t, tasks) /\ Requests(tasks)
                                /\ \A j \in DOMAIN tasks : tasks[j][1] = "cancel" => failures' > 0
  <2>1. CASE c = <<>>
    <3>1. Into(t, <<>>)
      BY <1>4, <1>5, <1>10, <2>1 DEF Leaving
    <3>2. Requests(<<>>) /\ \A j \in DOMAIN <<>> : FALSE
      BY DEF Requests
    <3>3. QED
      BY <3>1, <3>2, NoTask
  <2>2. CASE c # <<>>
    <3>1. PICK tasks : tasks = u \o c
      OBVIOUS
    <3>2. Into(t, tasks)
      BY <1>4, <1>5, <1>10, <1>12, <2>2, <3>1 DEF Leaving
    <3>3. tasks \in Seq(Task)
      BY <3>1, <1>11, <1>12, Joined
    <3>4. \A j \in DOMAIN tasks : \/ j \in DOMAIN u /\ tasks[j] = u[j]
                                  \/ j - Len(u) \in DOMAIN c /\ tasks[j] = c[j - Len(u)]
      BY <3>1, <1>11, <1>12, Behind
    <3>5. \A j \in DOMAIN tasks : \/ tasks[j][1] = "unlock"
                                  \/ tasks[j][1] = "cancel" /\ failures' > 0
      BY <1>11, <1>12, <3>4
    <3>6. Requests(tasks) /\ \A j \in DOMAIN tasks : tasks[j][1] = "cancel" => failures' > 0
      BY <3>5 DEF Requests
    <3>7. QED
      BY <3>2, <3>3, <3>6
  <2>3. QED
    BY <2>1, <2>2
<1>14. PICK tasks \in Seq(Task) : /\ Into(t, tasks) /\ Requests(tasks)
                                  /\ \A j \in DOMAIN tasks : tasks[j][1] = "cancel" => failures' > 0
  BY <1>13
<1>15. Dispatched(t, q, slots, limit, k, given, tasks)
  BY <1>3, <1>6, <1>7, <1>14 DEF Dispatched
<1>16. QED
  BY <1>5, <1>6, <1>14, <1>15

LEMMA Shifted ==
    ASSUME NEW q \in Seq(Node), NEW k \in 0 .. Len(q)
    PROVE  /\ SubSeq(q, k + 1, Len(q)) \in Seq(Node)
           /\ \A j \in DOMAIN SubSeq(q, k + 1, Len(q)) :
                /\ j \in Nat /\ j > 0 /\ k + j \in DOMAIN q
                /\ SubSeq(q, k + 1, Len(q))[j] = q[k + j]
           /\ k = Len(q) => SubSeq(q, k + 1, Len(q)) = <<>>
<1>1. PICK n \in Nat : n = Len(q) /\ DOMAIN q = 1 .. n
  BY SeqElements
<1>2. k \in 0 .. n /\ k + 1 \in Int /\ n \in Int
  BY <1>1
<1>3. \A i \in k + 1 .. n : q[i] \in Node
  <2>1. \A i \in k + 1 .. n : i \in DOMAIN q
    BY <1>1, <1>2
  <2>2. QED
    BY <2>1, SeqElements
<1>4. PICK r : r = SubSeq(q, k + 1, n)
  OBVIOUS
<1>5. /\ r \in Seq(Node)
      /\ Len(r) = IF k + 1 <= n THEN n - (k + 1) + 1 ELSE 0
      /\ \A i \in 1 .. n - (k + 1) + 1 : r[i] = q[(k + 1) + i - 1]
  BY <1>2, <1>3, <1>4, SubSeqProperties
<1>6. Len(r) = n - k /\ \A i \in 1 .. n - k : r[i] = q[k + i]
  <2>1. n - (k + 1) + 1 = n - k /\ (~(k + 1 <= n) => n - k = 0)
    BY <1>2
  <2>2. \A i \in 1 .. n - k : (k + 1) + i - 1 = k + i
    BY <1>2
  <2>3. Len(r) = n - k
    BY <1>5, <2>1
  <2>4. \A i \in 1 .. n - k : r[i] = q[(k + 1) + i - 1]
    BY <1>5, <2>1
  <2>5. QED
    BY <2>2, <2>3, <2>4
<1>7. DOMAIN r = 1 .. n - k /\ (n - k = 0 => r = <<>>)
  BY <1>5, <1>6, SeqElements
<1>8. \A j \in 1 .. n - k : j \in Nat /\ j > 0 /\ k + j \in 1 .. n
  BY <1>2
<1>9. k = n => n - k = 0
  BY <1>2
<1>10. QED
  BY <1>1, <1>4, <1>5, <1>6, <1>7, <1>8, <1>9

LEMMA DispatchKeeps ==
    ASSUME PoolInv, NEW t \in Threads, NEW op \in {"post", "return", "budget"}, At(t, op),
           NEW q \in Seq(Node), NEW slots \in Int, NEW limit \in Int,
           Dispatch(t, q, slots, limit), NodesUnmoved,
           UNCHANGED <<stopped, drained, src, pendingLink, pendingSpirv>>,
           budget' \in 1 .. Cardinality(Workers),
           \A j, k \in DOMAIN q : q[j] = q[k] => j = k,
           \A k \in DOMAIN q : q[k] \notin handed,
           \A k \in DOMAIN q : Queued(q[k]) \/ (op = "post" /\ q[k] = Arg(t)),
           slots = Cardinality(handed) + Cardinality(IF op = "return" THEN Busy \ {t} ELSE Busy),
           slots <= Cardinality(Workers), limit <= Cardinality(Workers),
           stopped \/ ~hasPool' => q = <<>>, stopped => ~hasPool', ~stopped => limit = budget'
    PROVE  PoolInv'
<1>0. Types /\ DrainInv /\ OnceInv /\ SlotInv
  BY DEF PoolInv
<1>1. PICK k \in 0 .. Len(q), given \in SUBSET (1 .. Len(q)), tasks \in Seq(Task) :
        Dispatched(t, q, slots, limit, k, given, tasks)
  BY <1>0, DispatchParts
<1>2. /\ work[t] # <<>> /\ 1 \in DOMAIN work[t] /\ work[t][1] = <<op, Arg(t)>> /\ work[t][1][1] = op
  <2>1. work \in [Threads -> Seq(Task)]
    BY <1>0 DEF Types
  <2>2. QED
    BY <2>1, AtTask
<1>3. Puts(t, tasks) /\ Requests(tasks)
  BY <1>1, <1>2, IntoPuts DEF Dispatched
<1>4. PICK n \in Nat : n = Len(q) /\ DOMAIN q = 1 .. n /\ (q = <<>> => n = 0)
  BY SeqElements
<1>5. k \in 0 .. n /\ given \subseteq 1 .. k /\ IsFiniteSet(given)
  BY <1>1, <1>4 DEF Dispatched
<1>6. /\ queue' \in Seq(Node)
      /\ \A j \in DOMAIN queue' : j \in Nat /\ j > 0 /\ k + j \in DOMAIN q /\ queue'[j] = q[k + j]
      /\ k = n => queue' = <<>>
  <2>1. queue' = SubSeq(q, k + 1, Len(q))
    BY <1>1 DEF Dispatched
  <2>2. QED
    BY <1>4, <2>1, Shifted
<1>7. handed' = handed \cup {q[j] : j \in given} /\ \A j \in given : j \in DOMAIN q /\ q[j] \in Node
  <2>1. \A j \in given : j \in DOMAIN q
    BY <1>4, <1>5
  <2>2. \A j \in DOMAIN q : q[j] \in Node
    BY SeqElements
  <2>3. QED
    BY <1>1, <2>1, <2>2 DEF Dispatched
<1>8. ASSUME NEW m \in Node, Queued(m)' \/ m \in handed'
      PROVE  Queued(m) \/ m \in handed \/ (1 \in DOMAIN work[t] /\ Ticket(work[t][1], m))
  <2>1. m \in handed \/ \E j \in DOMAIN q : m = q[j]
    BY <1>6, <1>7, <1>8 DEF Queued
  <2>2. ASSUME NEW j \in DOMAIN q, m = q[j]
        PROVE  Queued(m) \/ (1 \in DOMAIN work[t] /\ Ticket(work[t][1], m))
    BY <1>2, <2>2 DEF Ticket
  <2>3. QED
    BY <2>1, <2>2
<1>9. \A i, j \in DOMAIN queue' : queue'[i] = queue'[j] => i = j
  <2>1. ASSUME NEW i \in DOMAIN queue', NEW j \in DOMAIN queue', queue'[i] = queue'[j]
        PROVE  i = j
    <3>1. i \in Nat /\ j \in Nat /\ k + i = k + j
      BY <1>6, <2>1
    <3>2. QED
      BY <1>5, <3>1
  <2>2. QED
    BY <2>1
<1>10. ASSUME NEW j \in DOMAIN queue', queue'[j] \in handed' PROVE FALSE
  <2>1. j \in Nat /\ j > 0 /\ k + j \in DOMAIN q /\ queue'[j] = q[k + j]
    BY <1>6
  <2>2. PICK i \in given : q[k + j] = q[i]
    BY <1>7, <1>10, <2>1
  <2>3. k + j = i
    BY <1>7, <2>1, <2>2
  <2>4. QED
    BY <1>5, <2>1, <2>3
<1>11. /\ \A m \in Node : ~Given(tasks, m)
       /\ FinishOk(tasks) /\ JoinOk(tasks) /\ \A j \in DOMAIN tasks : tasks[j][1] # "return"
  BY <1>3, RequestsGive
<1>12. failures' \in Nat /\ failures' >= failures /\ failures \in Nat
  BY <1>0, <1>1 DEF Dispatched, Types
<1>13. CancelOk(tasks) /\ (Excused => Excused')
  <2>1. CancelOk(tasks)
    BY <1>1 DEF Dispatched, CancelOk, Excused
  <2>2. failures > 0 => failures' > 0
    BY <1>12
  <2>3. QED
    BY <2>1, <2>2 DEF Excused
<1>14. ReturnsLast' /\ Busy' = IF op = "return" THEN Busy \ {t} ELSE Busy
  <2>1. ReturnsLast
    BY <1>0 DEF SlotInv, ReturnsLast
  <2>2. /\ ReturnsLast'
        /\ \A w \in Workers \ {t} : w \in Busy' <=> w \in Busy
        /\ ReturnOk(t, tasks) => Busy' = Busy
        /\ work[t] # <<>> /\ work[t][1][1] = "return" => t \notin Busy'
    BY <1>0, <1>3, <1>11, <2>1, KeepsBusy
  <2>3. CASE op = "return"
    <3>1. t \notin Busy'
      BY <1>2, <2>2, <2>3
    <3>2. Busy' \subseteq Workers /\ Busy \subseteq Workers
      BY DEF Busy
    <3>3. QED
      BY <2>2, <2>3, <3>1, <3>2
  <2>4. CASE op # "return"
    <3>1. ReturnOk(t, tasks)
      BY <1>2, <1>11, <2>4 DEF ReturnOk
    <3>2. QED
      BY <2>2, <2>4, <3>1
  <2>5. QED
    BY <2>3, <2>4
<1>15. Cardinality(handed') = Cardinality(handed) + Cardinality(given)
  <2>1. (\A x, y \in given : q[x] = q[y] => x = y) /\ \A x \in given : q[x] \notin handed
    BY <1>7
  <2>2. IsFiniteSet(handed)
    <3>1. handed \in SUBSET Node
      BY <1>0 DEF Types
    <3>2. QED
      BY <3>1, NodesFinite, FS_Subset
  <2>3. \A y : y \in handed' <=> y \in handed \/ \E x \in given : y = q[x]
    BY <1>7
  <2>4. QED
    BY <1>5, <2>1, <2>2, <2>3, CountGrows
<1>16. Cardinality(given) \in Nat /\ Cardinality(handed) \in Nat /\ Cardinality(Busy') \in Nat
  <2>1. handed \in SUBSET Node /\ Busy' \in SUBSET Workers
    BY <1>0 DEF Types, Busy
  <2>2. IsFiniteSet(Workers)
    BY PoolAssumption
  <2>3. IsFiniteSet(handed) /\ IsFiniteSet(Busy')
    BY <2>1, <2>2, NodesFinite, FS_Subset
  <2>4. QED
    BY <1>5, <2>3, FS_CardinalityType
<1>17. SlotsHeld' /\ inFlight' \in Int
  <2>1. /\ inFlight' = slots + Cardinality(given)
        /\ slots = Cardinality(handed) + Cardinality(Busy')
    BY <1>1, <1>14 DEF Dispatched
  <2>2. inFlight' = Cardinality(handed') + Cardinality(Busy')
    BY <1>15, <1>16, <2>1
  <2>3. inFlight' \in Int
    BY <1>16, <2>1
  <2>4. QED
    BY <2>2, <2>3 DEF SlotsHeld
<1>18. inFlight' <= Cardinality(Workers)
  <2>1. CASE given = {}
    <3>1. Cardinality(given) = 0
      BY <2>1, FS_EmptySet
    <3>2. inFlight' = slots
      BY <1>1, <3>1 DEF Dispatched
    <3>3. QED
      BY <3>2
  <2>2. CASE given # {}
    <3>1. inFlight' <= limit
      BY <1>1, <2>2 DEF Dispatched
    <3>2. QED
      BY <1>17, <3>1, NodesFinite
  <2>3. QED
    BY <2>1, <2>2
<1>19. ~stopped' /\ queue' # <<>> => inFlight' >= budget'
  <2>1. SUFFICES ASSUME ~stopped', queue' # <<>> PROVE inFlight' >= budget'
    OBVIOUS
  <2>2. limit = budget' /\ k # n
    BY <1>6, <2>1
  <2>3. ~(inFlight' < limit)
    BY <1>1, <1>4, <2>2 DEF Dispatched
  <2>4. QED
    BY <1>17, <2>2, <2>3
<1>20. stopped \/ ~hasPool' => queue' = <<>>
  <2>1. SUFFICES ASSUME stopped \/ ~hasPool' PROVE queue' = <<>>
    OBVIOUS
  <2>2. n = 0
    BY <1>4, <2>1
  <2>3. k = n
    BY <1>5, <2>2
  <2>4. QED
    BY <1>6, <2>3
<1>21. SlotInv'
  BY <1>14, <1>17, <1>18, <1>19, <1>20 DEF SlotInv, ReturnsLast
<1>22. DrainInv'
  <2>1. drained' => drained /\ handed' = {} /\ t \notin Workers
    <3>1. SUFFICES ASSUME drained PROVE handed' = {} /\ t \notin Workers
      OBVIOUS
    <3>2. stopped /\ handed = {} /\ \A w \in Workers : work[w] = <<>>
      BY <1>0, <3>1 DEF DrainInv, WorkersDone
    <3>3. n = 0
      BY <1>4, <3>2
    <3>4. given = {}
      BY <1>5, <3>3
    <3>5. QED
      BY <1>2, <1>7, <3>2, <3>4
  <2>2. stopped' => queue' = <<>> /\ ~hasPool'
    BY <1>20
  <2>3. stopped => stopped'
    OBVIOUS
  <2>4. QED
    BY <1>0, <1>3, <1>11, <2>1, <2>2, <2>3, KeepsDrain
<1>23. Types'
  <2>1. work' \in [Threads -> Seq(Task)]
    BY <1>0, <1>3, PutsWork DEF Types
  <2>2. handed' \subseteq Node
    BY <1>0, <1>7 DEF Types
  <2>3. QED
    BY <1>0, <1>6, <1>12, <1>17, <2>1, <2>2 DEF Types, NodesUnmoved
<1>24. QED
  BY <1>3, <1>8, <1>9, <1>10, <1>11, <1>13, <1>21, <1>22, <1>23, PoolStepKeeps

LEMMA PostKeeps ==
    ASSUME PoolInv, NEW t \in Threads, Post(t)
    PROVE  PoolInv'
<1>0. Types /\ DrainInv /\ OnceInv /\ SlotInv
  BY DEF PoolInv
<1>1. /\ At(t, "post") /\ ~stopped /\ hasPool' = TRUE
      /\ Dispatch(t, Append(queue, Arg(t)), inFlight, budget)
      /\ NodesUnmoved /\ UNCHANGED <<budget, stopped, drained, src, pendingLink, pendingSpirv>>
  BY DEF Post, Accepting, NodesUnmoved, nodeVars, linkVars, modeVars, shaderVars, progVars
<1>2. PICK n \in Node : n = Arg(t)
  BY <1>0, <1>1, NodeArg DEF NodeOps
<1>3. PICK s \in Seq(Node) : s = queue
  BY <1>0 DEF Types
<1>4. PICK q : q = Append(s, n)
  OBVIOUS
<1>5. PICK m \in Nat : m = Len(s) /\ DOMAIN s = 1 .. m
  BY SeqElements
<1>6. /\ q \in Seq(Node)
      /\ \A k \in DOMAIN q : /\ k \in 1 .. m + 1
                             /\ k = m + 1 => q[k] = n
                             /\ k # m + 1 => k \in DOMAIN s /\ q[k] = s[k]
  BY <1>4, <1>5, Appended
<1>7. ~Queued(n) /\ n \notin handed
  <2>1. 1 \in DOMAIN work[t] /\ Ticket(work[t][1], n)
    BY <1>0, <1>1, <1>2, NodeArg DEF NodeOps, Ticket
  <2>2. Holds(t, n)
    BY <2>1 DEF Holds
  <2>3. QED
    BY <1>0, <2>2 DEF OnceInv
<1>8. \A k \in DOMAIN s : s[k] # n /\ Queued(s[k]) /\ s[k] \notin handed
  BY <1>0, <1>3, <1>7 DEF Queued, OnceInv
<1>9. ASSUME NEW j \in DOMAIN q, NEW k \in DOMAIN q, q[j] = q[k] PROVE j = k
  <2>1. CASE j = m + 1
    <3>1. q[k] = n
      BY <1>6, <1>9, <2>1
    <3>2. k = m + 1
      BY <1>6, <1>8, <3>1
    <3>3. QED
      BY <2>1, <3>2
  <2>2. CASE j # m + 1
    <3>1. j \in DOMAIN s /\ q[j] = s[j] /\ q[j] # n
      BY <1>6, <1>8, <2>2
    <3>2. k # m + 1
      BY <1>6, <1>9, <3>1
    <3>3. k \in DOMAIN s /\ s[j] = s[k]
      BY <1>6, <1>9, <3>1, <3>2
    <3>4. QED
      BY <1>0, <1>3, <3>1, <3>3 DEF OnceInv
  <2>3. QED
    BY <2>1, <2>2
<1>10. \A k \in DOMAIN q : q[k] \notin handed
  BY <1>6, <1>7, <1>8
<1>11. \A k \in DOMAIN q : Queued(q[k]) \/ ("post" = "post" /\ q[k] = Arg(t))
  BY <1>2, <1>6, <1>8
<1>12. /\ inFlight \in Int /\ budget \in Int /\ budget' \in 1 .. Cardinality(Workers)
       /\ inFlight = Cardinality(handed) + Cardinality(Busy)
       /\ inFlight <= Cardinality(Workers) /\ budget <= Cardinality(Workers)
  BY <1>0, <1>1, NodesFinite DEF Types, SlotInv, SlotsHeld
<1>13. Dispatch(t, q, inFlight, budget)
  BY <1>1, <1>2, <1>3, <1>4
<1>14. QED
  BY <1>1, <1>6, <1>9, <1>10, <1>11, <1>12, <1>13, DispatchKeeps

LEMMA OldQueue ==
    ASSUME Types, OnceInv
    PROVE  /\ queue \in Seq(Node)
           /\ \A j, k \in DOMAIN queue : queue[j] = queue[k] => j = k
           /\ \A k \in DOMAIN queue : queue[k] \notin handed
           /\ \A k \in DOMAIN queue : Queued(queue[k])
BY DEF Types, OnceInv, Queued

LEMMA ReturnSlotKeeps ==
    ASSUME PoolInv, NEW t \in Threads, ReturnSlot(t)
    PROVE  PoolInv'
<1>0. Types /\ DrainInv /\ OnceInv /\ SlotInv
  BY DEF PoolInv
<1>1. /\ At(t, "return") /\ NodesUnmoved
      /\ Dispatch(t, queue, inFlight - 1, IF stopped THEN 0 ELSE budget)
      /\ UNCHANGED <<budget, stopped, hasPool, drained, src, pendingLink, pendingSpirv>>
  BY DEF ReturnSlot, NodesUnmoved, nodeVars, linkVars, modeVars, shaderVars, progVars
<1>2. PICK limit : limit = IF stopped THEN 0 ELSE budget
  OBVIOUS
<1>3. t \in Busy
  <2>1. work[t] \in Seq(Task) /\ 1 \in DOMAIN work[t] /\ work[t][1][1] = "return"
    BY <1>0, <1>1, NodeArg DEF NodeOps, Types
  <2>2. t \in Workers
    BY <1>0, <2>1 DEF SlotInv
  <2>3. 1 \in 1 .. Len(work[t])
    BY <2>1, SeqElements
  <2>4. QED
    BY <2>1, <2>2, <2>3 DEF Busy
<1>4. Cardinality(Busy \ {t}) = Cardinality(Busy) - 1
  <2>1. Busy \in SUBSET Workers /\ IsFiniteSet(Workers)
    BY PoolAssumption DEF Busy
  <2>2. IsFiniteSet(Busy)
    BY <2>1, FS_Subset
  <2>3. QED
    BY <1>3, <2>2, FS_RemoveElement
<1>5. /\ inFlight \in Int /\ budget \in Int /\ budget' \in 1 .. Cardinality(Workers)
      /\ inFlight = Cardinality(handed) + Cardinality(Busy)
      /\ inFlight <= Cardinality(Workers) /\ budget <= Cardinality(Workers)
      /\ Cardinality(Workers) \in Nat
  BY <1>0, <1>1, NodesFinite DEF Types, SlotInv, SlotsHeld
<1>6. inFlight - 1 \in Int /\ inFlight - 1 <= Cardinality(Workers)
  BY <1>5
<1>7. limit \in Int /\ limit <= Cardinality(Workers)
  BY <1>2, <1>5
<1>8. inFlight - 1 = Cardinality(handed) + Cardinality(IF "return" = "return" THEN Busy \ {t} ELSE Busy)
  <2>1. Cardinality(handed) \in Nat /\ Cardinality(Busy) \in Nat
    <3>1. handed \in SUBSET Node /\ Busy \in SUBSET Workers /\ IsFiniteSet(Workers)
      BY <1>0, PoolAssumption DEF Types, Busy
    <3>2. IsFiniteSet(handed) /\ IsFiniteSet(Busy)
      BY <3>1, NodesFinite, FS_Subset
    <3>3. QED
      BY <3>2, FS_CardinalityType
  <2>2. inFlight - 1 = Cardinality(handed) + (Cardinality(Busy) - 1)
    BY <1>5, <2>1
  <2>3. QED
    BY <1>4, <2>2
<1>9. /\ stopped \/ ~hasPool' => queue = <<>>
      /\ stopped => ~hasPool'
      /\ ~stopped => limit = budget'
  BY <1>0, <1>1, <1>2 DEF DrainInv, SlotInv
<1>10. \A k \in DOMAIN queue : Queued(queue[k]) \/ ("return" = "post" /\ queue[k] = Arg(t))
  BY <1>0, OldQueue
<1>11. /\ Dispatch(t, queue, inFlight - 1, limit) /\ queue \in Seq(Node)
       /\ \A j, k \in DOMAIN queue : queue[j] = queue[k] => j = k
       /\ \A k \in DOMAIN queue : queue[k] \notin handed
  BY <1>0, <1>1, <1>2, OldQueue
<1>12. QED
  BY <1>1, <1>5, <1>6, <1>7, <1>8, <1>9, <1>10, <1>11, DispatchKeeps

LEMMA SetBudgetKeeps ==
    ASSUME PoolInv, NEW t \in Threads, SetBudget(t)
    PROVE  PoolInv'
<1>0. Types /\ DrainInv /\ OnceInv /\ SlotInv
  BY DEF PoolInv
<1>1. /\ At(t, "budget") /\ NodesUnmoved /\ budget' = Arg(t)
      /\ UNCHANGED <<stopped, hasPool, drained, src, pendingLink, pendingSpirv>>
  BY DEF SetBudget, NodesUnmoved, nodeVars, linkVars, modeVars, shaderVars, progVars
<1>2. /\ budget' \in 1 .. Cardinality(Workers)
      /\ work[t] # <<>> /\ 1 \in DOMAIN work[t] /\ work[t][1][1] = "budget"
  <2>1. work \in [Threads -> Seq(Task)]
    BY <1>0 DEF Types
  <2>2. /\ work[t] # <<>> /\ 1 \in DOMAIN work[t] /\ work[t][1] \in Task /\ work[t][1][1] = "budget"
        /\ work[t][1][2] = Arg(t)
    BY <1>1, <2>1, AtTask
  <2>3. QED
    BY <1>1, <2>2, TaskParts
<1>3. /\ inFlight \in Int /\ budget' \in Int /\ inFlight = Cardinality(handed) + Cardinality(Busy)
      /\ inFlight <= Cardinality(Workers) /\ budget' <= Cardinality(Workers)
  BY <1>0, <1>2, NodesFinite DEF Types, SlotInv, SlotsHeld
<1>4. CASE hasPool
  <2>1. Dispatch(t, queue, inFlight, budget')
    BY <1>4 DEF SetBudget
  <2>2. ~stopped /\ hasPool'
    BY <1>0, <1>1, <1>4 DEF DrainInv
  <2>3. \A k \in DOMAIN queue : Queued(queue[k]) \/ ("budget" = "post" /\ queue[k] = Arg(t))
    BY <1>0, OldQueue
  <2>4. /\ queue \in Seq(Node)
        /\ \A j, k \in DOMAIN queue : queue[j] = queue[k] => j = k
        /\ \A k \in DOMAIN queue : queue[k] \notin handed
    BY <1>0, OldQueue
  <2>5. inFlight = Cardinality(handed) + Cardinality(IF "budget" = "return" THEN Busy \ {t} ELSE Busy)
    BY <1>3
  <2>6. PICK limit \in Int : limit = budget'
    BY <1>3
  <2>7. Dispatch(t, queue, inFlight, limit) /\ limit <= Cardinality(Workers)
    BY <1>3, <2>1, <2>6
  <2>8. QED
    BY <1>1, <1>2, <1>3, <2>2, <2>3, <2>4, <2>5, <2>6, <2>7, DispatchKeeps
<1>5. CASE ~hasPool
  <2>1. Into(t, <<>>) /\ UNCHANGED <<lock, queue, handed, inFlight, failures>>
    BY <1>5 DEF SetBudget
  <2>2. Puts(t, <<>>) /\ <<>> \in Seq(Task)
    BY <1>2, <2>1, IntoPuts, NoTask
  <2>3. Requests(<<>>) /\ CancelOk(<<>>) /\ ReturnOk(t, <<>>) /\ JoinOk(<<>>)
    BY <1>2 DEF Requests, CancelOk, ReturnOk, JoinOk
  <2>4. \A m \in Node : ~Given(<<>>, m) /\ FinishOk(<<>>)
    BY <2>3, RequestsGive
  <2>5. FinishOk(<<>>)
    BY DEF FinishOk
  <2>6. queue = <<>>
    BY <1>0, <1>5 DEF SlotInv
  <2>7. SlotInv'
    <3>1. ReturnsLast
      BY <1>0 DEF SlotInv, ReturnsLast
    <3>2. ReturnsLast' /\ Busy' = Busy
      BY <1>0, <2>2, <2>3, <3>1, KeepsBusy DEF ReturnOk
    <3>3. QED
      BY <1>0, <1>1, <2>1, <2>6, <3>2 DEF SlotInv, SlotsHeld, ReturnsLast
  <2>8. DrainInv'
    <3>1. drained' => drained /\ handed' = {} /\ t \notin Workers
      BY <1>0, <1>1, <1>2, <2>1 DEF DrainInv, WorkersDone
    <3>2. (stopped' => queue' = <<>> /\ ~hasPool') /\ (stopped => stopped')
      BY <1>0, <1>1, <2>1 DEF DrainInv
    <3>3. QED
      BY <1>0, <2>2, <2>3, <3>1, <3>2, KeepsDrain
  <2>9. Types'
    <3>1. work' \in [Threads -> Seq(Task)]
      BY <1>0, <2>2, PutsWork DEF Types
    <3>2. QED
      BY <1>0, <1>1, <1>2, <2>1, <3>1 DEF Types, NodesUnmoved
  <2>10. Excused => Excused'
    BY <1>1, <2>1 DEF Excused
  <2>11. /\ \A n \in Node : Queued(n)' \/ n \in handed' => Queued(n) \/ n \in handed
         /\ \A j, k \in DOMAIN queue' : queue'[j] = queue'[k] => j = k
         /\ \A k \in DOMAIN queue' : queue'[k] \notin handed'
    BY <1>0, <2>1, OldQueue DEF Queued
  <2>12. QED
    BY <1>1, <2>2, <2>3, <2>4, <2>5, <2>7, <2>8, <2>9, <2>10, <2>11, PoolStepKeeps
<1>6. QED
  BY <1>4, <1>5

LEMMA StopPoolKeeps ==
    ASSUME PoolInv, NEW t \in Threads, StopPool(t)
    PROVE  PoolInv'
<1>0. Types /\ DrainInv /\ OnceInv /\ SlotInv
  BY DEF PoolInv
<1>1. /\ At(t, "stop") /\ NodesUnmoved /\ stopped' = TRUE /\ hasPool' = FALSE /\ queue' = <<>>
      /\ Into(t, CancelAll(queue) \o << <<"join", None>> >>)
      /\ UNCHANGED <<handed, inFlight, budget, drained, src, pendingLink, pendingSpirv, failures>>
  BY DEF StopPool, NodesUnmoved, nodeVars, linkVars, modeVars, shaderVars, progVars, boundVars
<1>2. work[t] # <<>> /\ 1 \in DOMAIN work[t] /\ work[t][1][1] = "stop"
  <2>1. work \in [Threads -> Seq(Task)]
    BY <1>0 DEF Types
  <2>2. QED
    BY <1>1, <2>1, AtTask
<1>3. PICK s \in Seq(Node), n \in Nat : s = queue /\ n = Len(s) /\ DOMAIN s = 1 .. n
  <2>1. PICK s \in Seq(Node) : s = queue
    BY <1>0 DEF Types
  <2>2. QED
    BY <2>1, SeqElements
<1>4. PICK c \in Seq(Task) : c = CancelAll(queue) /\ \A k \in DOMAIN c : c[k][1] = "cancel"
  <2>1. \A k \in 1 .. n : s[k] \in Node
    BY <1>3, SeqElements
  <2>2. \A k \in 1 .. n : <<"cancel", s[k]>> \in Task
    BY <2>1, NodeTask DEF NodeOps
  <2>3. PICK c : c = [k \in 1 .. n |-> <<"cancel", s[k]>>]
    OBVIOUS
  <2>4. c \in [1 .. n -> Task] /\ DOMAIN c = 1 .. n /\ \A k \in 1 .. n : c[k] = <<"cancel", s[k]>>
    BY <2>2, <2>3
  <2>5. c \in Seq(Task)
    BY <2>4, SeqDef
  <2>6. c = CancelAll(queue)
    BY <1>3, <2>3 DEF CancelAll
  <2>7. QED
    BY <2>4, <2>5, <2>6
<1>5. PICK d \in Seq(Task) : d = << <<"join", None>> >> /\ \A k \in DOMAIN d : d[k][1] = "join"
  <2>1. <<"join", None>> \in Task
    BY DEF Task, PlainOps
  <2>2. << <<"join", None>> >> \in Seq(Task)
    BY <2>1, OneTask
  <2>3. \A k \in DOMAIN << <<"join", None>> >> : << <<"join", None>> >>[k][1] = "join"
    OBVIOUS
  <2>4. QED
    BY <2>2, <2>3
<1>6. PICK tasks : tasks = c \o d
  OBVIOUS
<1>7. tasks \in Seq(Task) /\ \A k \in DOMAIN tasks : tasks[k][1] \in {"cancel", "join"}
  <2>1. tasks \in Seq(Task)
    BY <1>6, Joined
  <2>2. \A k \in DOMAIN tasks : \/ k \in DOMAIN c /\ tasks[k] = c[k]
                                \/ k - Len(c) \in DOMAIN d /\ tasks[k] = d[k - Len(c)]
    BY <1>6, Behind
  <2>3. QED
    BY <1>4, <1>5, <2>1, <2>2
<1>8. Puts(t, tasks)
  BY <1>1, <1>2, <1>4, <1>5, <1>6, IntoPuts
<1>9. /\ FinishOk(tasks) /\ JoinOk(tasks) /\ CancelOk(tasks) /\ ReturnOk(t, tasks) /\ Excused'
  BY <1>1, <1>2, <1>7 DEF FinishOk, JoinOk, CancelOk, ReturnOk, Excused
<1>10. \A m \in Node : ~Given(tasks, m)
  <2>1. ASSUME NEW m \in Node, NEW k \in DOMAIN tasks, Ticket(tasks[k], m) PROVE FALSE
    <3>1. PICK x : x = tasks[k]
      OBVIOUS
    <3>2. x[1] \in {"cancel", "join"} /\ Ticket(x, m)
      BY <1>7, <2>1, <3>1
    <3>3. QED
      BY <3>2 DEF Ticket
  <2>2. QED
    BY <2>1 DEF Given
<1>11. SlotInv'
  <2>1. ReturnsLast
    BY <1>0 DEF SlotInv, ReturnsLast
  <2>2. ReturnsLast' /\ Busy' = Busy
    BY <1>0, <1>7, <1>8, <1>9, <2>1, KeepsBusy DEF ReturnOk
  <2>3. QED
    BY <1>0, <1>1, <2>2 DEF SlotInv, SlotsHeld, ReturnsLast
<1>12. DrainInv'
  <2>1. drained' => drained /\ handed' = {} /\ t \notin Workers
    BY <1>0, <1>1, <1>2 DEF DrainInv, WorkersDone
  <2>2. (stopped' => queue' = <<>> /\ ~hasPool') /\ (stopped => stopped')
    BY <1>1
  <2>3. QED
    BY <1>0, <1>7, <1>8, <1>9, <2>1, <2>2, KeepsDrain
<1>13. Types'
  <2>1. work' \in [Threads -> Seq(Task)]
    BY <1>0, <1>7, <1>8, PutsWork DEF Types
  <2>2. queue' \in Seq(Node)
    BY <1>1
  <2>3. QED
    BY <1>0, <1>1, <2>1, <2>2 DEF Types, NodesUnmoved
<1>14. /\ \A m \in Node : Queued(m)' \/ m \in handed' => Queued(m) \/ m \in handed
       /\ \A j, k \in DOMAIN queue' : queue'[j] = queue'[k] => j = k
       /\ \A k \in DOMAIN queue' : queue'[k] \notin handed'
  BY <1>1 DEF Queued
<1>15. QED
  BY <1>1, <1>7, <1>8, <1>9, <1>10, <1>11, <1>12, <1>13, <1>14, PoolStepKeeps

LEMMA JoinPoolKeeps ==
    ASSUME PoolInv, NEW t \in Threads, JoinPool(t)
    PROVE  PoolInv'
<1>0. Types /\ DrainInv /\ OnceInv /\ SlotInv
  BY DEF PoolInv
<1>1. /\ At(t, "join") /\ WorkersDone /\ inFlight' = 0 /\ NodesUnmoved /\ Into(t, <<>>)
      /\ UNCHANGED <<queue, handed, budget, stopped, hasPool, src, pendingLink, pendingSpirv, failures>>
  BY DEF JoinPool, NodesUnmoved, nodeVars, linkVars, shaderVars, progVars, boundVars
<1>2. work[t] # <<>> /\ 1 \in DOMAIN work[t] /\ work[t][1][1] = "join"
  <2>1. work \in [Threads -> Seq(Task)]
    BY <1>0 DEF Types
  <2>2. QED
    BY <1>1, <2>1, AtTask
<1>3. Puts(t, <<>>) /\ <<>> \in Seq(Task)
  BY <1>1, <1>2, IntoPuts, NoTask
<1>4. stopped /\ queue = <<>> /\ ~hasPool /\ handed = {} /\ t \notin Workers
  BY <1>0, <1>1, <1>2 DEF DrainInv, WorkersDone
<1>5. /\ FinishOk(<<>>) /\ CancelOk(<<>>) /\ ReturnOk(t, <<>>)
      /\ \A m \in Node : ~Given(<<>>, m)
  BY <1>2 DEF FinishOk, CancelOk, ReturnOk, Given
<1>6. SlotInv'
  <2>1. ReturnsLast
    BY <1>0 DEF SlotInv, ReturnsLast
  <2>2. ReturnsLast' /\ Busy' = Busy
    BY <1>0, <1>3, <1>5, <2>1, KeepsBusy DEF ReturnOk
  <2>3. Busy = {}
    <3>1. \A w \in Workers : work[w] = <<>>
      BY <1>1 DEF WorkersDone
    <3>2. \A w \in Workers : Len(work[w]) = 0
      BY <3>1
    <3>3. 1 .. 0 = {}
      OBVIOUS
    <3>4. QED
      BY <3>2, <3>3 DEF Busy
  <2>4. SlotsHeld'
    <3>1. Cardinality(handed') = 0 /\ Cardinality(Busy') = 0
      BY <1>1, <1>4, <2>2, <2>3, FS_EmptySet
    <3>2. QED
      BY <1>1, <3>1 DEF SlotsHeld
  <2>5. 0 <= Cardinality(Workers)
    BY NodesFinite
  <2>6. QED
    BY <1>1, <1>4, <2>2, <2>4, <2>5 DEF SlotInv, ReturnsLast
<1>7. DrainInv'
  <2>1. ASSUME NEW u \in Threads, NEW k \in DOMAIN work'[u], work'[u][k][1] = "join"
        PROVE  stopped'
    BY <1>1, <1>4
  <2>2. \A w \in Workers : work'[w] = <<>>
    <3>1. \A u \in Threads \ {t} : work'[u] = work[u]
      BY <1>0, <1>3, PutsWork DEF Types
    <3>2. QED
      BY <1>1, <1>4, <3>1 DEF WorkersDone, Threads
  <2>3. QED
    BY <1>1, <1>4, <2>1, <2>2 DEF DrainInv, WorkersDone
<1>8. Types'
  <2>1. work' \in [Threads -> Seq(Task)]
    BY <1>0, <1>3, PutsWork DEF Types
  <2>2. QED
    BY <1>0, <1>1, <2>1 DEF Types, NodesUnmoved
<1>9. /\ \A m \in Node : Queued(m)' \/ m \in handed' => Queued(m) \/ m \in handed
      /\ \A j, k \in DOMAIN queue' : queue'[j] = queue'[k] => j = k
      /\ \A k \in DOMAIN queue' : queue'[k] \notin handed'
  BY <1>0, <1>1, OldQueue DEF Queued
<1>10. Excused => Excused'
  BY <1>1 DEF Excused
<1>11. QED
  BY <1>1, <1>3, <1>5, <1>6, <1>7, <1>8, <1>9, <1>10, PoolStepKeeps

LEMMA TakeKeeps ==
    ASSUME PoolInv, NEW w \in Workers, Take(w)
    PROVE  PoolInv'
<1>0. Types /\ DrainInv /\ OnceInv /\ SlotInv
  BY DEF PoolInv
<1>1. /\ work[w] = <<>> /\ w \in Threads /\ NodesUnmoved
      /\ UNCHANGED <<queue, inFlight, budget, stopped, hasPool, drained, src, pendingLink, pendingSpirv,
                     failures>>
  BY DEF Take, IdleWorkers, Threads, NodesUnmoved, nodeVars, linkVars, modeVars, shaderVars, progVars,
         boundVars
<1>2. PICK n \in handed : /\ handed' = handed \ {n}
                          /\ work' = [work EXCEPT ![w] = (IF stopped THEN Cancel(n) ELSE <<>>)
                                                         \o << <<"run", n>>, <<"return", n>> >>]
  BY DEF Take
<1>3. n \in Node
  BY <1>0 DEF Types
<1>4. <<"cancel", n>> \in Task /\ <<"run", n>> \in Task /\ <<"return", n>> \in Task
  BY <1>3, NodeTask DEF NodeOps
<1>5. PICK a \in Seq(Task) : /\ a = IF stopped THEN Cancel(n) ELSE <<>>
                             /\ \A k \in DOMAIN a : a[k][1] = "cancel" /\ stopped
  <2>1. CASE stopped
    <3>1. << <<"cancel", n>> >> \in Seq(Task)
      BY <1>4, OneTask
    <3>2. \A k \in DOMAIN << <<"cancel", n>> >> : << <<"cancel", n>> >>[k][1] = "cancel"
      OBVIOUS
    <3>3. QED
      BY <2>1, <3>1, <3>2 DEF Cancel
  <2>2. CASE ~stopped
    <3>1. <<>> \in Seq(Task) /\ \A k \in DOMAIN <<>> : FALSE
      BY NoTask
    <3>2. QED
      BY <2>2, <3>1
  <2>3. QED
    BY <2>1, <2>2
<1>6. PICK b \in Seq(Task) : /\ b = << <<"run", n>>, <<"return", n>> >> /\ Len(b) = 2
                             /\ \A k \in DOMAIN b : \/ k = 1 /\ b[k] = <<"run", n>>
                                                    \/ k = 2 /\ b[k][1] = "return"
                             /\ 2 \in DOMAIN b /\ b[2][1] = "return"
  <2>1. /\ << <<"run", n>>, <<"return", n>> >> \in Seq(Task)
    BY <1>4
  <2>2. /\ Len(<< <<"run", n>>, <<"return", n>> >>) = 2
        /\ \A k \in DOMAIN << <<"run", n>>, <<"return", n>> >> :
             \/ k = 1 /\ << <<"run", n>>, <<"return", n>> >>[k] = <<"run", n>>
             \/ k = 2 /\ << <<"run", n>>, <<"return", n>> >>[k][1] = "return"
        /\ 2 \in DOMAIN << <<"run", n>>, <<"return", n>> >>
        /\ << <<"run", n>>, <<"return", n>> >>[2][1] = "return"
    OBVIOUS
  <2>3. QED
    BY <2>1, <2>2
<1>7. PICK tasks : tasks = a \o b
  OBVIOUS
<1>8. /\ tasks \in Seq(Task) /\ Len(tasks) \in Nat /\ Len(a) \in Nat /\ Len(tasks) = Len(a) + 2
      /\ DOMAIN tasks = 1 .. Len(tasks)
      /\ \A k \in DOMAIN tasks : \/ k \in DOMAIN a /\ tasks[k] = a[k]
                                 \/ k - Len(a) \in DOMAIN b /\ tasks[k] = b[k - Len(a)]
      /\ Len(a) + 2 \in DOMAIN tasks /\ tasks[Len(a) + 2] = b[2]
  <2>1. /\ tasks \in Seq(Task) /\ Len(a) \in Nat /\ Len(tasks) = Len(a) + Len(b)
    BY <1>7, Joined
  <2>2. /\ Len(tasks) \in Nat /\ DOMAIN tasks = 1 .. Len(tasks)
        /\ \A k \in DOMAIN tasks : \/ k \in DOMAIN a /\ tasks[k] = a[k]
                                   \/ k - Len(a) \in DOMAIN b /\ tasks[k] = b[k - Len(a)]
        /\ \A k \in DOMAIN b : Len(a) + k \in DOMAIN tasks /\ tasks[Len(a) + k] = b[k]
    BY <1>7, Behind
  <2>3. QED
    BY <1>6, <2>1, <2>2
<1>9. \A k \in DOMAIN tasks : /\ tasks[k][1] \in {"cancel", "run", "return"}
                              /\ tasks[k][1] = "cancel" => stopped
                              /\ tasks[k][1] = "return" => k = Len(tasks)
                              /\ tasks[k][1] = "run" => k = Len(a) + 1 /\ tasks[k] = <<"run", n>>
  <2>1. ASSUME NEW k \in DOMAIN tasks
        PROVE  /\ tasks[k][1] \in {"cancel", "run", "return"}
               /\ tasks[k][1] = "cancel" => stopped
               /\ tasks[k][1] = "return" => k = Len(tasks)
               /\ tasks[k][1] = "run" => k = Len(a) + 1 /\ tasks[k] = <<"run", n>>
    <3>1. CASE k \in DOMAIN a /\ tasks[k] = a[k]
      BY <1>5, <3>1
    <3>2. CASE k - Len(a) \in DOMAIN b /\ tasks[k] = b[k - Len(a)]
      <4>1. \/ k - Len(a) = 1 /\ tasks[k] = <<"run", n>>
            \/ k - Len(a) = 2 /\ tasks[k][1] = "return"
        BY <1>6, <3>2
      <4>2. (k - Len(a) = 2 => k = Len(tasks)) /\ (k - Len(a) = 1 => k = Len(a) + 1)
        BY <1>8, <2>1
      <4>3. CASE k - Len(a) = 1 /\ tasks[k] = <<"run", n>>
        <5>1. tasks[k][1] = "run"
          BY <4>3
        <5>2. QED
          BY <4>2, <4>3, <5>1
      <4>4. QED
        BY <4>1, <4>2, <4>3
    <3>3. QED
      BY <1>8, <2>1, <3>1, <3>2
  <2>2. QED
    BY <2>1
<1>10. /\ Puts(w, tasks) /\ work'[w] = tasks
  <2>1. work' = [work EXCEPT ![w] = tasks]
    BY <1>2, <1>5, <1>6, <1>7
  <2>2. tasks \o <<>> = tasks
    BY <1>8, ConcatEmptySeq
  <2>3. QED
    BY <1>0, <1>1, <2>1, <2>2 DEF Puts, Rest, Types
<1>11. /\ FinishOk(tasks) /\ JoinOk(tasks) /\ CancelOk(tasks)
  <2>1. FinishOk(tasks) /\ JoinOk(tasks)
    BY <1>9 DEF FinishOk, JoinOk
  <2>2. CancelOk(tasks)
    BY <1>1, <1>9 DEF CancelOk, Excused
  <2>3. QED
    BY <2>1, <2>2
<1>12. /\ work' \in [Threads -> Seq(Task)] /\ \A u \in Threads \ {w} : work'[u] = work[u]
  BY <1>0, <1>1, <1>8, <1>10, PutsWork DEF Types
<1>13. w \notin Busy /\ Busy' = Busy \cup {w}
  <2>1. w \notin Busy
    <3>1. Len(work[w]) = 0 /\ 1 .. 0 = {}
      BY <1>1
    <3>2. QED
      BY <3>1 DEF Busy
  <2>2. \A v \in Workers \ {w} : work'[v] = work[v]
    BY <1>12 DEF Threads
  <2>3. \E k \in 1 .. Len(work'[w]) : work'[w][k][1] = "return"
    BY <1>6, <1>8, <1>10
  <2>4. QED
    BY <2>1, <2>2, <2>3 DEF Busy
<1>14. SlotInv'
  <2>1. ASSUME NEW u \in Threads, NEW k \in DOMAIN work'[u], work'[u][k][1] = "return"
        PROVE  u \in Workers /\ k = Len(work'[u])
    <3>1. CASE u = w
      BY <1>9, <1>10, <2>1, <3>1
    <3>2. CASE u # w
      BY <1>0, <1>12, <2>1, <3>2 DEF SlotInv
    <3>3. QED
      BY <3>1, <3>2
  <2>2. SlotsHeld'
    <3>1. handed \in SUBSET Node /\ Busy \in SUBSET Workers /\ IsFiniteSet(Workers)
      BY <1>0, PoolAssumption DEF Types, Busy
    <3>2. IsFiniteSet(handed) /\ IsFiniteSet(Busy)
      BY <3>1, NodesFinite, FS_Subset
    <3>3. Cardinality(handed) \in Nat /\ Cardinality(Busy) \in Nat
      BY <3>2, FS_CardinalityType
    <3>4. Cardinality(handed') = Cardinality(handed) - 1
      BY <1>2, <3>2, FS_RemoveElement
    <3>5. Cardinality(Busy') = Cardinality(Busy) + 1
      BY <1>13, <3>2, FS_AddElement
    <3>6. inFlight = Cardinality(handed) + Cardinality(Busy)
      BY <1>0 DEF SlotInv, SlotsHeld
    <3>7. inFlight' = Cardinality(handed') + Cardinality(Busy')
      BY <1>1, <3>3, <3>4, <3>5, <3>6
    <3>8. QED
      BY <3>7 DEF SlotsHeld
  <2>3. QED
    BY <1>0, <1>1, <2>1, <2>2 DEF SlotInv
<1>15. DrainInv'
  <2>1. ~drained
    BY <1>0, <1>2 DEF DrainInv, WorkersDone
  <2>2. drained' => drained /\ handed' = {} /\ w \notin Workers
    BY <1>1, <2>1
  <2>3. (stopped' => queue' = <<>> /\ ~hasPool') /\ (stopped => stopped')
    BY <1>0, <1>1 DEF DrainInv
  <2>4. QED
    BY <1>0, <1>1, <1>8, <1>10, <1>11, <2>2, <2>3, KeepsDrain
<1>16. Types'
  BY <1>0, <1>1, <1>2, <1>12 DEF Types, NodesUnmoved
<1>17. ASSUME NEW m \in Node, NEW k \in DOMAIN tasks, Ticket(tasks[k], m)
       PROVE  m = n /\ k = Len(a) + 1
  <2>1. PICK x : x = tasks[k]
    OBVIOUS
  <2>2. x[1] \in {"cancel", "run", "return"} /\ (x[1] = "run" => k = Len(a) + 1 /\ x = <<"run", n>>)
    BY <1>9, <2>1
  <2>3. Ticket(x, m)
    BY <1>17, <2>1
  <2>4. QED
    BY <2>2, <2>3 DEF Ticket
<1>18. /\ \A u \in Threads : ~Holds(u, n)
       /\ ~Queued(n) /\ OnItsWay(n)
  BY <1>0, <1>3 DEF OnceInv, Queued, OnItsWay
<1>19. TicketsOk(w, tasks) /\ \A m \in Node : Given(tasks, m) => m = n
  BY <1>17, <1>18 DEF TicketsOk, Given, Holds
<1>20. Unique' /\ \A m \in Node, u \in Threads : Holds(u, m)' => Holds(u, m) \/ m = n
  <2>1. Unique
    BY <1>0 DEF OnceInv, Unique
  <2>2. QED
    BY <1>0, <1>1, <1>8, <1>10, <1>19, <2>1, KeepsTickets
<1>21. /\ \A m : Queued(m)' = Queued(m)
       /\ \A m \in Node : m \in handed' => m \in handed /\ m # n
  BY <1>1, <1>2 DEF Queued
<1>22. \A m \in Node : OnItsWay(m)' => OnItsWay(m)
  BY <1>18, <1>20, <1>21 DEF OnItsWay
<1>23. OnceInv'
  <2>1. \A m \in Node : (\E u \in Threads : Holds(u, m)') => ~Queued(m)' /\ m \notin handed'
    BY <1>0, <1>18, <1>20, <1>21 DEF OnceInv
  <2>2. /\ \A j, k \in DOMAIN queue' : queue'[j] = queue'[k] => j = k
        /\ \A k \in DOMAIN queue' : queue'[k] \notin handed'
    BY <1>0, <1>1, <1>2, OldQueue
  <2>3. QED
    BY <1>20, <2>1, <2>2 DEF OnceInv, Unique
<1>24. Excused => Excused'
  BY <1>1 DEF Excused
<1>25. QED
  BY <1>1, <1>8, <1>10, <1>11, <1>14, <1>15, <1>16, <1>22, <1>23, <1>24, MovesKeep

-----------------------------------------------------------------------------
(* Calls and steps that change what a shader object holds *)

LEMMA MovedCounts ==
    ASSUME Types, HoldersCounted, NEW s \in Shaders, NEW new \in Compiled,
           adopters' = Moved(compiled[s], new), compiled' = [compiled EXCEPT ![s] = new]
    PROVE  HoldersCounted' /\ adopters' \in [CompileNode -> Int]
<1>1. /\ compiled \in [Shaders -> Compiled] /\ adopters \in [CompileNode -> Int]
      /\ \A u \in Shaders : compiled'[u] = IF u = s THEN new ELSE compiled[u]
  BY DEF Types
<1>2. ASSUME NEW n \in CompileNode
      PROVE  adopters'[n] \in Int /\ adopters'[n] = Cardinality(Holders(n)')
  <2>1. adopters[n] = Cardinality(Holders(n)) /\ adopters[n] \in Int
    BY <1>1 DEF HoldersCounted
  <2>2. adopters'[n] = adopters[n] - (IF n = compiled[s] THEN 1 ELSE 0) + (IF n = new THEN 1 ELSE 0)
    BY DEF Moved
  <2>3. IsFiniteSet(Holders(n))
    <3>1. Holders(n) \in SUBSET Shaders
      BY DEF Holders
    <3>2. QED
      BY <3>1, NodesFinite, FS_Subset
  <2>4. \A u \in Shaders : /\ u \in Holders(n) <=> compiled[u] = n
                           /\ u \in Holders(n)' <=> compiled'[u] = n
    BY DEF Holders
  <2>5. Holders(n) \subseteq Shaders /\ Holders(n)' \subseteq Shaders
    BY DEF Holders
  <2>6. CASE n = compiled[s] /\ n = new
    <3>1. Holders(n)' = Holders(n)
      BY <1>1, <2>4, <2>5, <2>6
    <3>2. adopters'[n] = adopters[n]
      BY <2>1, <2>2, <2>6
    <3>3. QED
      BY <2>1, <3>1, <3>2
  <2>7. CASE n = compiled[s] /\ n # new
    <3>1. Holders(n)' = Holders(n) \ {s} /\ s \in Holders(n)
      BY <1>1, <2>4, <2>5, <2>7
    <3>2. Cardinality(Holders(n) \ {s}) = Cardinality(Holders(n)) - 1
      BY <2>3, <3>1, FS_RemoveElement
    <3>3. adopters'[n] = adopters[n] - 1
      BY <2>1, <2>2, <2>7
    <3>4. QED
      BY <2>1, <3>1, <3>2, <3>3
  <2>8. CASE n # compiled[s] /\ n = new
    <3>1. Holders(n)' = Holders(n) \cup {s} /\ s \notin Holders(n)
      BY <1>1, <2>4, <2>5, <2>8
    <3>2. Cardinality(Holders(n) \cup {s}) = Cardinality(Holders(n)) + 1
      BY <2>3, <3>1, FS_AddElement
    <3>3. adopters'[n] = adopters[n] + 1
      BY <2>1, <2>2, <2>8
    <3>4. QED
      BY <2>1, <3>1, <3>2, <3>3
  <2>9. CASE n # compiled[s] /\ n # new
    <3>1. Holders(n)' = Holders(n)
      BY <1>1, <2>4, <2>5, <2>9
    <3>2. adopters'[n] = adopters[n]
      BY <2>1, <2>2, <2>9
    <3>3. QED
      BY <2>1, <3>1, <3>2
  <2>10. QED
    BY <2>6, <2>7, <2>8, <2>9
<1>3. adopters' \in [CompileNode -> Int]
  <2>1. adopters' = [n \in CompileNode |-> adopters'[n]]
    BY DEF Moved
  <2>2. QED
    BY <1>2, <2>1
<1>4. QED
  BY <1>2, <1>3 DEF HoldersCounted

(* The object s of the context g takes the node `new`, or none.            *)
Asking(tasks, n) == \E k \in DOMAIN tasks : tasks[k] = <<"cancel", n>>
Takes(g, s, new) ==
    /\ adopters' = Moved(compiled[s], new) /\ compiled' = [compiled EXCEPT ![s] = new]
    /\ \A h \in GL, x \in Texts : index'[h][x] = index[h][x] \/ (h = g /\ index'[h][x] = new)
    /\ StaysMade /\ SettledKept /\ UNCHANGED <<cancelReq, pinned, snap>> /\ (Excused => Excused')
MayTake(g, new) == new \in CompileNode =>
    /\ state'[new] # "none" /\ Contexts(new) \subseteq {g}
    /\ Excused \/ (~cancelReq[new] /\ \A u \in Threads : ~Asks(u, new))
Drops(g, tasks) == \A n \in CompileNode : Asking(tasks, n) =>
    Excused' \/ (state[n] # "none" /\ ~Needed(n)' /\ Contexts(n)' \subseteq {g})

LEMMA TakesKeeps ==
    ASSUME Types, HolderInv, CancelInv, NEW g \in GL, NEW s \in Shaders, NEW new \in Compiled,
           new \in CompileNode => s[1] = g,
           NEW tasks \in Seq(Task), Puts(g, tasks), Takes(g, s, new), MayTake(g, new), Drops(g, tasks)
    PROVE  HolderInv' /\ CancelInv' /\ adopters' \in [CompileNode -> Int]
<1>0. g \in Threads
  BY GLThread
<1>1. HoldersCounted' /\ adopters' \in [CompileNode -> Int]
  BY <1>0, MovedCounts DEF Takes, HolderInv
<1>2. \A u \in Shaders : compiled'[u] = IF u = s THEN new ELSE compiled[u]
  BY DEF Takes, Types
<1>3. ASSUME NEW n \in CompileNode, NEW h \in Contexts(n)' PROVE h \in Contexts(n) \/ (n = new /\ h = g)
  <2>1. CASE \E u \in Shaders : compiled'[u] = n /\ h = u[1]
    BY <1>0, <1>2, <2>1 DEF Contexts, Holders
  <2>2. CASE h \in GL /\ \E x \in Texts : index'[h][x] = n
    BY <2>2 DEF Contexts, Takes
  <2>3. QED
    BY <1>3, <2>1, <2>2 DEF Contexts, Holders
<1>4. ASSUME NEW n \in CompileNode
      PROVE  /\ \A h, f \in Contexts(n)' : h = f
             /\ state'[n] = "none" => Contexts(n)' = {} /\ ~pinned'[n]
  <2>1. CASE n = new
    <3>1. Contexts(n) \subseteq {g} /\ state'[n] # "none"
      BY <1>4, <2>1 DEF MayTake
    <3>2. \A h \in Contexts(n)' : h = g
      BY <1>3, <3>1
    <3>3. QED
      BY <3>1, <3>2
  <2>2. CASE n # new
    <3>1. Contexts(n)' \subseteq Contexts(n)
      BY <1>3, <2>2
    <3>2. state'[n] = "none" => state[n] = "none"
      BY NodeKinds DEF Takes, StaysMade
    <3>3. QED
      BY <3>1, <3>2 DEF HolderInv, Takes
  <2>3. QED
    BY <2>1, <2>2
<1>5. HolderInv'
  BY <1>1, <1>4 DEF HolderInv, Takes
<1>6. ASSUME NEW n \in CompileNode, Needed(n)', n # new PROVE Needed(n)
  <2>1. CASE \E u \in Shaders : compiled'[u] = n
    BY <1>2, <1>6, <2>1 DEF Needed
  <2>2. ASSUME NEW i \in 1 .. MaxLinks, n \in snap'[i], ~Terminal(Link(i))', ~cancelReq'[Link(i)]
        PROVE  Needed(n)
    <3>1. n \in snap[i] /\ ~Terminal(Link(i)) /\ ~cancelReq[Link(i)]
      BY <2>2 DEF Takes, SettledKept
    <3>2. QED
      BY <3>1 DEF Needed
  <2>3. QED
    BY <1>6, <2>1, <2>2 DEF Needed, Terminal, Link
<1>7. ASSUME NEW n \in CompileNode, cancelReq'[n]
      PROVE  Excused' \/ (~Needed(n)' /\ state'[n] # "none")
  <2>1. cancelReq[n] /\ (state'[n] = "none" => state[n] = "none") /\ (Excused => Excused')
    BY <1>7, NodeKinds DEF Takes, StaysMade
  <2>2. Excused \/ (~Needed(n) /\ state[n] # "none")
    BY <2>1 DEF CancelInv
  <2>3. n = new => Excused
    BY <1>7, <2>1 DEF MayTake
  <2>4. QED
    BY <1>6, <2>1, <2>2, <2>3
<1>8. ASSUME NEW u \in Threads, NEW n \in CompileNode, Asks(u, n)'
      PROVE  Excused' \/ (~Needed(n)' /\ state'[n] # "none" /\ Contexts(n)' \subseteq {u})
  <2>0. (state'[n] = "none" => state[n] = "none") /\ (Excused => Excused')
    BY NodeKinds DEF Takes, StaysMade
  <2>1. PICK k \in DOMAIN work'[u] : work'[u][k] = <<"cancel", n>>
    BY <1>8 DEF Asks
  <2>2. CASE \E j \in DOMAIN work[u] : work'[u][k] = work[u][j]
    <3>1. Asks(u, n)
      BY <2>1, <2>2 DEF Asks
    <3>2. Excused \/ (~Needed(n) /\ state[n] # "none" /\ Contexts(n) \subseteq {u})
      BY <3>1 DEF CancelInv
    <3>3. n = new => Excused
      BY <3>1 DEF MayTake
    <3>4. n # new => Contexts(n)' \subseteq Contexts(n)
      BY <1>3
    <3>5. QED
      BY <1>6, <2>0, <3>2, <3>3, <3>4
  <2>3. CASE u = g /\ k \in DOMAIN tasks /\ work'[u][k] = tasks[k]
    <3>1. Asking(tasks, n)
      BY <2>1, <2>3 DEF Asking
    <3>2. QED
      BY <2>0, <2>3, <3>1 DEF Drops
  <2>4. QED
    BY <1>0, <2>2, <2>3, FromWork DEF Types
<1>9. CancelInv'
  BY <1>7, <1>8 DEF CancelInv
<1>10. QED
  BY <1>1, <1>5, <1>9

(* The rest of the invariant, of a step that moves no node or slot.        *)
LEMMA RestKeeps ==
    ASSUME PoolInv, Types', NEW g \in GL, NEW tasks \in Seq(Task), Puts(g, tasks),
           JoinOk(tasks), ReturnOk(g, tasks), TicketsOk(g, tasks),
           \A n \in Node : Given(tasks, n) => ~Queued(n) /\ n \notin handed,
           UNCHANGED <<queue, handed, inFlight, budget, stopped, hasPool, drained>>,
           MadeInv', HolderInv', CancelInv',
           (\A n \in Node : OnItsWay(n)' => OnItsWay(n) \/ Given(tasks, n)) => SourceInv'
    PROVE  PoolInv'
<1>0. g \in Threads /\ g \notin Workers
  BY GLThread
<1>1. Types /\ DrainInv /\ OnceInv /\ SlotInv
  BY DEF PoolInv
<1>2. DrainInv'
  <2>1. drained' => drained /\ handed' = {} /\ g \notin Workers
    BY <1>0, <1>1 DEF DrainInv, WorkersDone
  <2>2. (stopped' => queue' = <<>> /\ ~hasPool') /\ (stopped => stopped')
    BY <1>1 DEF DrainInv
  <2>3. QED
    BY <1>0, <1>1, <2>1, <2>2, KeepsDrain
<1>3. OnceInv' /\ \A n \in Node : OnItsWay(n)' => OnItsWay(n) \/ Given(tasks, n)
  BY <1>0, <1>1, KeepsOnce
<1>4. SlotInv'
  BY <1>0, <1>1, KeepsSlots
<1>5. QED
  BY <1>2, <1>3, <1>4 DEF PoolInv

LEMMA HoldStep ==
    ASSUME PoolInv, NEW g \in GL, NEW s \in Shaders, NEW new \in Compiled,
           new \in CompileNode => s[1] = g,
           NEW tasks \in Seq(Task), Puts(g, tasks), Requests(tasks),
           work[g] # <<>> => work[g][1][1] # "return",
           Takes(g, s, new), MayTake(g, new), Drops(g, tasks), src' \in [Shaders -> Texts],
           UNCHANGED <<state, conts, remaining, queue, handed, inFlight, budget, stopped, hasPool,
                       drained, failures, pendingLink, pendingSpirv, index>>
    PROVE  PoolInv'
<1>0. Types /\ MadeInv /\ HolderInv /\ CancelInv /\ SourceInv /\ g \in Threads
  BY GLThread DEF PoolInv
<1>1. HolderInv' /\ CancelInv' /\ adopters' \in [CompileNode -> Int]
  BY <1>0, TakesKeeps
<1>2. /\ \A n \in Node : ~Given(tasks, n)
      /\ FinishOk(tasks) /\ JoinOk(tasks) /\ TicketsOk(g, tasks)
      /\ \A k \in DOMAIN tasks : tasks[k][1] # "return"
  BY <1>0, RequestsGive
<1>3. ReturnOk(g, tasks)
  BY <1>2 DEF ReturnOk
<1>4. MadeKept /\ StaysMade
  BY DEF MadeKept, StaysMade
<1>5. MadeInv'
  BY <1>0, <1>2, <1>4, KeepsMade
<1>6. SourcesKept /\ LinksOnly'
  <2>1. remaining' = remaining /\ \A i \in 1 .. MaxLinks : remaining[i] \in Int
    BY <1>0 DEF Types
  <2>2. \A i \in 1 .. MaxLinks : remaining'[i] <= remaining[i]
    BY <2>1
  <2>3. QED
    BY <1>0, <2>2 DEF SourcesKept, LinksOnly, SourceInv
<1>7. Types'
  <2>1. work' \in [Threads -> Seq(Task)]
    BY <1>0, PutsWork DEF Types
  <2>2. compiled' \in [Shaders -> Compiled]
    BY <1>0 DEF Types, Takes
  <2>3. UNCHANGED <<cancelReq, pinned, snap>>
    BY DEF Takes
  <2>4. QED
    BY <1>0, <1>1, <2>1, <2>2, <2>3 DEF Types
<1>8. (\A n \in Node : OnItsWay(n)' => OnItsWay(n) \/ Given(tasks, n)) => SourceInv'
  BY <1>0, <1>2, <1>4, <1>6, <1>7, KeepsSource
<1>9. QED
  BY <1>1, <1>2, <1>3, <1>5, <1>7, <1>8, RestKeeps

LEMMA PullKeeps ==
    ASSUME PoolInv, NEW g \in GL, Pull(g)
    PROVE  PoolInv'
<1>0. Types /\ g \in Threads
  BY GLThread DEF PoolInv
<1>1. /\ At(g, "pull") /\ Into(g, <<>>)
      /\ UNCHANGED <<state, cancelReq, conts, remaining, snap, queue, handed, inFlight, budget, stopped,
                     hasPool, drained, pinned, index, src, failures, pendingLink, pendingSpirv>>
  BY DEF Pull, nodeVars, linkVars, poolVars, modeVars, progVars, boundVars
<1>2. work[g] # <<>> /\ work[g][1][1] = "pull" /\ Arg(g) \in Shaders
  <2>1. work \in [Threads -> Seq(Task)]
    BY <1>0 DEF Types
  <2>2. /\ work[g] # <<>> /\ work[g][1] \in Task /\ work[g][1][1] = "pull"
        /\ work[g][1][2] = Arg(g)
    BY <1>0, <1>1, <2>1, AtTask
  <2>3. QED
    BY <2>2, TaskParts
<1>3. PICK s \in Shaders : s = Arg(g)
  BY <1>2
<1>4. CASE state[compiled[s]] = "Canceled"
  <2>1. adopters' = Moved(compiled[s], None) /\ compiled' = [compiled EXCEPT ![s] = None]
    BY <1>3, <1>4 DEF Pull
  <2>2. None \in Compiled /\ None \notin CompileNode
    BY NoneAssumption DEF Compiled
  <2>3. StaysMade /\ SettledKept /\ (Excused => Excused')
    BY <1>1 DEF StaysMade, SettledKept, Terminal, Excused
  <2>4. Takes(g, s, None)
    BY <1>1, <2>1, <2>3 DEF Takes
  <2>5. MayTake(g, None) /\ Drops(g, <<>>) /\ Requests(<<>>)
    BY <2>2 DEF MayTake, Drops, Asking, Requests
  <2>6. Puts(g, <<>>) /\ <<>> \in Seq(Task)
    BY <1>0, <1>1, <1>2, IntoPuts, NoTask
  <2>7. src' \in [Shaders -> Texts] /\ (work[g] # <<>> => work[g][1][1] # "return")
    BY <1>0, <1>1, <1>2 DEF Types
  <2>8. QED
    BY <1>1, <2>2, <2>4, <2>5, <2>6, <2>7, HoldStep
<1>5. CASE state[compiled[s]] # "Canceled"
  <2>1. adopters' = adopters /\ compiled' = compiled
    BY <1>3, <1>5 DEF Pull
  <2>2. Still
    BY <1>1, <2>1 DEF Still
  <2>3. pendingLink' \in [GL -> 0 .. MaxLinks] /\ pendingSpirv' \in [GL -> 0 .. MaxLinks]
    BY <1>0, <1>1 DEF Types
  <2>4. QED
    BY <1>0, <1>1, <2>2, <2>3, NoTask, StepKeeps
<1>6. QED
  BY <1>4, <1>5

LEMMA LastHolder ==
    ASSUME Types, HolderInv, NEW s \in Shaders, NEW n \in CompileNode, compiled[s] = n, MayCancel(n)
    PROVE  /\ \A u \in Shaders : compiled[u] = n => u = s
           /\ \A i \in 1 .. MaxLinks : n \notin snap[i]
           /\ state[n] # "none" /\ Contexts(n) \subseteq {s[1]}
<1>1. IsFiniteSet(Holders(n)) /\ Cardinality(Holders(n)) = 1
  <2>1. Holders(n) \in SUBSET Shaders
    BY DEF Holders
  <2>2. adopters[n] = 1 /\ adopters[n] = Cardinality(Holders(n))
    BY DEF MayCancel, HolderInv, HoldersCounted
  <2>3. QED
    BY <2>1, <2>2, NodesFinite, FS_Subset
<1>2. PICK u : Holders(n) = {u}
  BY <1>1, FS_Singleton
<1>3. s \in Holders(n)
  BY DEF Holders
<1>4. \A v \in Shaders : compiled[v] = n => v = s
  BY <1>2, <1>3 DEF Holders
<1>5. \A i \in 1 .. MaxLinks : n \notin snap[i]
  BY DEF MayCancel, HolderInv
<1>6. s[1] \in Contexts(n)
  BY <1>3 DEF Contexts
<1>7. state[n] # "none" /\ Contexts(n) \subseteq {s[1]}
  BY <1>6 DEF HolderInv
<1>8. QED
  BY <1>4, <1>5, <1>7

LEMMA LetGoKeeps ==
    ASSUME PoolInv, NEW g \in GL, NEW s \in Own(g), NEW x \in Texts, LetGo(g, s, x)
    PROVE  PoolInv'
<1>0. Types /\ HolderInv /\ g \in Threads /\ s \in Shaders /\ s[1] = g
  BY GLThread DEF PoolInv, Own, Shaders
<1>1. /\ work[g] = <<>> /\ compiled[s] # None
      /\ Begin(g, Release(compiled[s]))
      /\ adopters' = Moved(compiled[s], None) /\ compiled' = [compiled EXCEPT ![s] = None]
      /\ src' = [src EXCEPT ![s] = x]
      /\ UNCHANGED <<state, cancelReq, conts, remaining, snap, queue, handed, inFlight, budget, stopped,
                     hasPool, drained, pinned, index, failures, pendingLink, pendingSpirv>>
  BY DEF LetGo, Idle, Hold, nodeVars, linkVars, poolVars, modeVars, progVars
<1>2. PICK old \in CompileNode : old = compiled[s]
  BY <1>0, <1>1 DEF Types, Compiled
<1>3. old \in Node /\ <<"cancel", old>> \in Task
  BY NodeKinds, NodeTask DEF NodeOps
<1>4. PICK tasks \in Seq(Task) : /\ tasks = Release(old) /\ Requests(tasks)
                                 /\ \A k \in DOMAIN tasks : tasks[k] = <<"cancel", old>> /\ MayCancel(old)
  <2>1. CASE MayCancel(old)
    <3>1. Release(old) = << <<"cancel", old>> >>
      BY <1>1, <1>2, <2>1 DEF Release, Cancel
    <3>2. PICK c \in Task : c = <<"cancel", old>>
      BY <1>3
    <3>3. <<c>> \in Seq(Task) /\ \A k \in DOMAIN <<c>> : <<c>>[k] = c
      BY OneTask
    <3>4. Requests(<<c>>)
      BY <3>2, <3>3 DEF Requests
    <3>5. QED
      BY <2>1, <3>1, <3>2, <3>3, <3>4
  <2>2. CASE ~MayCancel(old)
    <3>1. Release(old) = <<>>
      BY <2>2 DEF Release
    <3>2. <<>> \in Seq(Task) /\ Requests(<<>>) /\ \A k \in DOMAIN <<>> : FALSE
      BY NoTask DEF Requests
    <3>3. QED
      BY <3>1, <3>2
  <2>3. QED
    BY <2>1, <2>2
<1>5. Puts(g, tasks)
  BY <1>0, <1>1, <1>2, <1>4, BeginPuts
<1>6. None \in Compiled /\ None \notin CompileNode
  BY NoneAssumption DEF Compiled
<1>7. StaysMade /\ SettledKept /\ (Excused => Excused')
  BY <1>1 DEF StaysMade, SettledKept, Terminal, Excused
<1>8. Takes(g, s, None) /\ MayTake(g, None)
  BY <1>1, <1>6, <1>7 DEF Takes, MayTake
<1>9. Drops(g, tasks)
  <2>1. ASSUME NEW n \in CompileNode, Asking(tasks, n)
        PROVE  state[n] # "none" /\ ~Needed(n)' /\ Contexts(n)' \subseteq {g}
    <3>1. n = old /\ MayCancel(old)
      BY <1>4, <2>1 DEF Asking
    <3>2. /\ \A u \in Shaders : compiled[u] = n => u = s
          /\ \A i \in 1 .. MaxLinks : n \notin snap[i]
          /\ state[n] # "none" /\ Contexts(n) \subseteq {g}
      BY <1>0, <1>2, <3>1, LastHolder
    <3>3. \A u \in Shaders : compiled'[u] = IF u = s THEN None ELSE compiled[u]
      BY <1>0, <1>1 DEF Types
    <3>4. \A u \in Shaders : compiled'[u] # n
      BY <1>6, <3>2, <3>3
    <3>5. ~Needed(n)'
      BY <1>1, <3>2, <3>4 DEF Needed
    <3>6. Contexts(n)' \subseteq Contexts(n)
      BY <1>1, <3>4 DEF Contexts, Holders
    <3>7. QED
      BY <3>2, <3>5, <3>6
  <2>2. QED
    BY <2>1 DEF Drops
<1>10. src' \in [Shaders -> Texts]
  BY <1>0, <1>1 DEF Types
<1>11. QED
  BY <1>0, <1>1, <1>4, <1>5, <1>6, <1>8, <1>9, <1>10, HoldStep

LEMMA AdoptKeeps ==
    ASSUME PoolInv, NEW g \in GL, NEW s \in Own(g), Adopt(g, s)
    PROVE  PoolInv'
<1>0. Types /\ HolderInv /\ CancelInv /\ g \in Threads /\ s \in Shaders /\ s[1] = g
  BY GLThread DEF PoolInv, Own, Shaders
<1>1. /\ work[g] = <<>> /\ Begin(g, <<>>) /\ Adoptable(g, src[s])
      /\ adopters' = Moved(compiled[s], index[g][src[s]])
      /\ compiled' = [compiled EXCEPT ![s] = index[g][src[s]]]
      /\ UNCHANGED <<state, cancelReq, conts, remaining, snap, queue, handed, inFlight, budget, stopped,
                     hasPool, drained, pinned, index, src, failures, pendingLink, pendingSpirv>>
  BY DEF Adopt, Idle, Hold, nodeVars, linkVars, poolVars, modeVars, progVars
<1>2. PICK x \in Texts : x = src[s]
  BY <1>0 DEF Types
<1>3. PICK new \in CompileNode : new = index[g][x] /\ ~cancelReq[new]
  <2>1. index[g][x] \in Compiled
    BY <1>0 DEF Types
  <2>2. index[g][x] # None /\ ~cancelReq[index[g][x]]
    BY <1>1, <1>2 DEF Adoptable
  <2>3. QED
    BY <2>1, <2>2 DEF Compiled
<1>4. Puts(g, <<>>) /\ <<>> \in Seq(Task)
  BY <1>0, <1>1, NoTask, BeginPuts
<1>5. StaysMade /\ SettledKept /\ (Excused => Excused')
  BY <1>1 DEF StaysMade, SettledKept, Terminal, Excused
<1>6. Takes(g, s, new)
  BY <1>1, <1>2, <1>3, <1>5 DEF Takes
<1>7. MayTake(g, new)
  <2>1. g \in Contexts(new)
    BY <1>3 DEF Contexts
  <2>2. Contexts(new) \subseteq {g} /\ state'[new] # "none"
    BY <1>0, <1>1, <2>1 DEF HolderInv
  <2>3. ASSUME NEW u \in Threads, Asks(u, new) PROVE Excused
    <3>1. Excused \/ Contexts(new) \subseteq {u}
      BY <1>0, <2>3 DEF CancelInv
    <3>2. Asks(g, new) => FALSE
      BY <1>1 DEF Asks
    <3>3. QED
      BY <2>1, <2>3, <3>1, <3>2
  <2>4. QED
    BY <1>3, <2>2, <2>3 DEF MayTake
<1>8. Drops(g, <<>>) /\ Requests(<<>>)
  BY DEF Drops, Asking, Requests
<1>9. new \in Compiled /\ src' \in [Shaders -> Texts] /\ (work[g] # <<>> => work[g][1][1] # "return")
  BY <1>0, <1>1 DEF Compiled, Types
<1>10. QED
  BY <1>0, <1>1, <1>4, <1>6, <1>7, <1>8, <1>9, HoldStep

-----------------------------------------------------------------------------
(* Steps that make nodes *)

LEMMA MadeOnes ==
    ASSUME MadeInv
    PROVE  /\ MadeCompiles \in 0 .. MaxCompiles
           /\ \A k \in 1 .. MaxCompiles : state[<<"compile", k>>] = "none" <=> k > MadeCompiles
           /\ MadeLinks \in 0 .. MaxLinks
           /\ \A i \in 1 .. MaxLinks : state[Link(i)] = "none" <=> i > MadeLinks
<1>1. PICK m \in 0 .. MaxCompiles : \A k \in 1 .. MaxCompiles : state[<<"compile", k>>] = "none" <=> k > m
  BY DEF MadeInv
<1>2. MadeCompiles = m
  <2>1. PICK f : f = [k \in 1 .. m |-> <<"compile", k>>]
    OBVIOUS
  <2>2. PICK T : T = {f[k] : k \in 1 .. m}
    OBVIOUS
  <2>3. m \in Nat /\ MaxCompiles \in Nat
    BY PoolAssumption
  <2>4. \A k \in 1 .. MaxCompiles : k \in 1 .. m <=> ~(k > m)
    BY <2>3
  <2>5. \A k \in 1 .. m : k \in 1 .. MaxCompiles
    BY <2>3
  <2>6. \A n \in CompileNode : \E k \in 1 .. MaxCompiles : n = <<"compile", k>>
    BY DEF CompileNode
  <2>7. \A k \in 1 .. MaxCompiles : <<"compile", k>> \in CompileNode
    BY DEF CompileNode
  <2>8. \A k \in 1 .. m : f[k] = <<"compile", k>>
    BY <2>1
  <2>9. T = {n \in CompileNode : state[n] # "none"}
    <3>1. ASSUME NEW n \in CompileNode, state[n] # "none" PROVE n \in T
      <4>1. PICK k \in 1 .. MaxCompiles : n = <<"compile", k>>
        BY <2>6
      <4>2. k \in 1 .. m
        BY <1>1, <2>4, <3>1, <4>1
      <4>3. QED
        BY <2>2, <2>8, <4>1, <4>2
    <3>2. ASSUME NEW n \in T PROVE n \in CompileNode /\ state[n] # "none"
      <4>1. PICK k \in 1 .. m : n = <<"compile", k>>
        BY <2>2, <2>8
      <4>2. k \in 1 .. MaxCompiles /\ ~(k > m)
        BY <2>4, <2>5
      <4>3. QED
        BY <1>1, <2>7, <4>1, <4>2
    <3>3. QED
      BY <3>1, <3>2
  <2>10. IsFiniteSet(1 .. m) /\ Cardinality(1 .. m) = m
    <3>1. IsFiniteSet(1 .. m) /\ Cardinality(1 .. m) = IF 1 > m THEN 0 ELSE m - 1 + 1
      BY <2>3, FS_Interval
    <3>2. QED
      BY <2>3, <3>1
  <2>11. \A j, k \in 1 .. m : f[j] = f[k] => j = k
    BY <2>8
  <2>12. Cardinality(T) = m
    BY <2>2, <2>10, <2>11, Images
  <2>13. QED
    BY <2>9, <2>12 DEF MadeCompiles
<1>3. PICK l \in 0 .. MaxLinks : \A i \in 1 .. MaxLinks : state[Link(i)] = "none" <=> i > l
  BY DEF MadeInv
<1>4. MadeLinks = l
  <2>1. l \in Nat /\ MaxLinks \in Nat
    BY PoolAssumption
  <2>2. \A i \in 1 .. MaxLinks : i \in 1 .. l <=> ~(i > l)
    BY <2>1
  <2>3. \A i \in 1 .. l : i \in 1 .. MaxLinks
    BY <2>1
  <2>4. {i \in 1 .. MaxLinks : state[Link(i)] # "none"} = 1 .. l
    BY <1>3, <2>2, <2>3
  <2>5. Cardinality(1 .. l) = IF 1 > l THEN 0 ELSE l - 1 + 1
    BY <2>1, FS_Interval
  <2>6. Cardinality(1 .. l) = l
    BY <2>1, <2>5
  <2>7. MadeLinks = Cardinality(1 .. l)
    BY <2>4 DEF MadeLinks
  <2>8. QED
    BY <2>6, <2>7
<1>5. QED
  BY <1>1, <1>2, <1>3, <1>4

LEMMA CompileKeeps ==
    ASSUME PoolInv, NEW g \in GL, NEW s \in Own(g), Compile(g, s)
    PROVE  PoolInv'
<1>0. /\ Types /\ MadeInv /\ HolderInv /\ CancelInv /\ SourceInv
      /\ g \in Threads /\ s \in Shaders /\ s[1] = g
  BY GLThread DEF PoolInv, Own, Shaders
<1>1. PICK m, n : /\ m \in 0 .. MaxCompiles /\ m = MadeCompiles
                  /\ n = <<"compile", m + 1>> /\ m < MaxCompiles
  BY <1>0, MadeOnes DEF Compile
<1>2. /\ work[g] = <<>>
      /\ state' = [state EXCEPT ![n] = "Pending"]
      /\ adopters' = Moved(compiled[s], n) /\ compiled' = [compiled EXCEPT ![s] = n]
      /\ UNCHANGED <<cancelReq, conts, remaining, snap, queue, handed, inFlight, budget, stopped,
                     hasPool, drained, pinned, src, failures, pendingLink, pendingSpirv>>
      /\ \/ Begin(g, << <<"run", n>>, <<"pull", s>> >>) /\ index' = index
         \/ Begin(g, << <<"post", n>> >>) /\ index' = [index EXCEPT ![g][src[s]] = n]
  BY <1>1 DEF Compile, Idle, Hold, nodeVars, linkVars, poolVars, modeVars, progVars
<1>3. MaxCompiles \in Nat /\ m \in Nat /\ m + 1 \in 1 .. MaxCompiles
  BY <1>1, PoolAssumption
<1>4. n \in CompileNode /\ n \in Node /\ n[1] = "compile"
  BY <1>1, <1>3, NodeKinds DEF CompileNode
<1>5. state[n] = "none"
  BY <1>0, <1>1, <1>3, MadeOnes
<1>6. \A p \in Node : state'[p] = IF p = n THEN "Pending" ELSE state[p]
  BY <1>0, <1>2 DEF Types
<1>7. PICK tasks \in Seq(Task) :
        /\ Puts(g, tasks)
        /\ \A k \in DOMAIN tasks : \/ tasks[k][1] = "pull"
                                   \/ k = 1 /\ tasks[k] \in {<<"run", n>>, <<"post", n>>}
  <2>1. <<"run", n>> \in Task /\ <<"post", n>> \in Task /\ <<"pull", s>> \in Task
    BY <1>0, <1>4, NodeTask DEF NodeOps, Task
  <2>2. CASE Begin(g, << <<"run", n>>, <<"pull", s>> >>)
    <3>1. /\ << <<"run", n>>, <<"pull", s>> >> \in Seq(Task)
      BY <2>1
    <3>2. \A k \in DOMAIN << <<"run", n>>, <<"pull", s>> >> :
            \/ << <<"run", n>>, <<"pull", s>> >>[k][1] = "pull"
            \/ k = 1 /\ << <<"run", n>>, <<"pull", s>> >>[k] = <<"run", n>>
      OBVIOUS
    <3>3. Puts(g, << <<"run", n>>, <<"pull", s>> >>)
      BY <1>0, <1>2, <2>2, <3>1, BeginPuts
    <3>4. QED
      BY <3>1, <3>2, <3>3
  <2>3. CASE Begin(g, << <<"post", n>> >>)
    <3>1. PICK c \in Task : c = <<"post", n>>
      BY <2>1
    <3>2. <<c>> \in Seq(Task) /\ \A k \in DOMAIN <<c>> : k = 1 /\ <<c>>[k] = c
      BY OneTask
    <3>3. Puts(g, <<c>>)
      BY <1>0, <1>2, <2>3, <3>1, <3>2, BeginPuts
    <3>4. QED
      BY <3>1, <3>2, <3>3
  <2>4. QED
    BY <1>2, <2>2, <2>3
<1>8. StaysMade
  BY <1>6 DEF StaysMade
<1>9. FinishOk(tasks) /\ JoinOk(tasks) /\ ReturnOk(g, tasks)
  <2>1. ASSUME NEW k \in DOMAIN tasks PROVE tasks[k][1] \in {"run", "pull", "post"}
    <3>1. PICK x : x = tasks[k]
      OBVIOUS
    <3>2. x[1] = "pull" \/ x \in {<<"run", n>>, <<"post", n>>}
      BY <1>7, <3>1
    <3>3. QED
      BY <3>1, <3>2
  <2>2. \A k \in DOMAIN tasks : tasks[k][1] # "finish" /\ tasks[k][1] # "join" /\ tasks[k][1] # "return"
    BY <2>1
  <2>3. FinishOk(tasks) /\ JoinOk(tasks)
    BY <2>2 DEF FinishOk, JoinOk
  <2>4. ReturnOk(g, tasks)
    BY <1>2, <2>2 DEF ReturnOk
  <2>5. QED
    BY <2>3, <2>4
<1>10. ASSUME NEW p \in Node, NEW k \in DOMAIN tasks, Ticket(tasks[k], p) PROVE p = n /\ k = 1
  <2>1. PICK x : x = tasks[k]
    OBVIOUS
  <2>2. x[1] = "pull" \/ (k = 1 /\ x \in {<<"run", n>>, <<"post", n>>})
    BY <1>7, <2>1
  <2>3. Ticket(x, p)
    BY <1>10, <2>1
  <2>4. QED
    BY <2>2, <2>3 DEF Ticket
<1>11. \A p \in Node : Given(tasks, p) => p = n
  BY <1>10 DEF Given
<1>12. ~OnItsWay(n)
  BY <1>0, <1>4, <1>5 DEF SourceInv
<1>13. ~Queued(n) /\ n \notin handed /\ \A u \in Threads : ~Holds(u, n)
  BY <1>12 DEF OnItsWay
<1>14. TicketsOk(g, tasks)
  BY <1>10, <1>11, <1>13 DEF TicketsOk, Holds
<1>15. Sourced(n)'
  <2>1. state'[n] # "none"
    BY <1>4, <1>6
  <2>2. \A i \in 1 .. MaxLinks : n # Link(i) /\ n # Spirv(i)
    BY <1>4 DEF Link, Spirv
  <2>3. QED
    BY <2>1, <2>2 DEF Sourced, Link, Spirv
<1>16. \A i \in 1 .. MaxLinks : /\ state'[Link(i)] = state[Link(i)]
                                /\ state'[Spirv(i)] = state[Spirv(i)]
  <2>1. \A i \in 1 .. MaxLinks : Link(i) \in Node \ {n} /\ Spirv(i) \in Node \ {n}
    BY <1>4, NodeKinds
  <2>2. QED
    BY <1>6, <2>1
<1>17. MadeInv'
  <2>1. \A k \in 1 .. MaxCompiles : state'[<<"compile", k>>] = "none" <=> k > m + 1
    <3>1. ASSUME NEW k \in 1 .. MaxCompiles
          PROVE  state'[<<"compile", k>>] = "none" <=> k > m + 1
      <4>1. <<"compile", k>> \in Node /\ (state[<<"compile", k>>] = "none" <=> k > m)
        BY <1>0, <1>1, MadeOnes, NodeKinds DEF CompileNode
      <4>2. <<"compile", k>> = n <=> k = m + 1
        BY <1>1
      <4>3. CASE k = m + 1
        BY <1>3, <1>6, <4>1, <4>2, <4>3
      <4>4. CASE k # m + 1
        <5>1. k > m <=> k > m + 1
          BY <1>3, <4>4
        <5>2. state'[<<"compile", k>>] = state[<<"compile", k>>]
          BY <1>6, <4>1, <4>2, <4>4
        <5>3. QED
          BY <4>1, <5>1, <5>2
      <4>5. QED
        BY <4>3, <4>4
    <3>2. QED
      BY <3>1
  <2>2. m + 1 \in 0 .. MaxCompiles
    BY <1>3
  <2>3. /\ \E l \in 0 .. MaxLinks : \A i \in 1 .. MaxLinks : state'[Link(i)] = "none" <=> i > l
        /\ \A i \in 1 .. MaxLinks : state'[Spirv(i)] = "none" <=> state'[Link(i)] = "none"
    BY <1>0, <1>16 DEF MadeInv
  <2>4. \A u \in Threads : \A k \in DOMAIN work'[u] :
          work'[u][k][1] = "finish" => state'[work'[u][k][2]] # "none"
    BY <1>0, <1>7, <1>8, <1>9, KeepsFinish
  <2>5. \E l \in 0 .. MaxCompiles : \A k \in 1 .. MaxCompiles : state'[<<"compile", k>>] = "none" <=> k > l
    BY <2>1, <2>2
  <2>6. QED
    BY <2>3, <2>4, <2>5 DEF MadeInv, Link, Spirv
<1>18. PICK x \in Texts : x = src[s]
  BY <1>0 DEF Types
<1>19. /\ index' \in [GL -> [Texts -> Compiled]]
       /\ \A h \in GL, y \in Texts : index'[h][y] = index[h][y] \/ (h = g /\ index'[h][y] = n)
  <2>1. CASE index' = index
    BY <1>0, <2>1 DEF Types
  <2>2. CASE index' = [index EXCEPT ![g][src[s]] = n]
    <3>1. n \in Compiled
      BY <1>4 DEF Compiled
    <3>2. index \in [GL -> [Texts -> Compiled]] /\ index' = [index EXCEPT ![g] = [index[g] EXCEPT ![x] = n]]
      BY <1>0, <1>18, <2>2 DEF Types
    <3>3. index[g] \in [Texts -> Compiled]
      BY <3>2
    <3>4. [index[g] EXCEPT ![x] = n] \in [Texts -> Compiled]
      BY <3>1, <3>3
    <3>5. index' \in [GL -> [Texts -> Compiled]]
      BY <3>2, <3>4
    <3>6. \A h \in GL : index'[h] = IF h = g THEN [index[g] EXCEPT ![x] = n] ELSE index[h]
      BY <3>2
    <3>7. \A y \in Texts : [index[g] EXCEPT ![x] = n][y] = index[g][y] \/ [index[g] EXCEPT ![x] = n][y] = n
      BY <3>3
    <3>8. QED
      BY <3>5, <3>6, <3>7
  <2>3. QED
    BY <1>2, <2>1, <2>2
<1>20. SettledKept
  BY <1>2, <1>16 DEF SettledKept, Terminal, Link
<1>21. Takes(g, s, n)
  BY <1>2, <1>8, <1>19, <1>20 DEF Takes, Excused
<1>22. MayTake(g, n)
  <2>1. Contexts(n) = {} /\ state'[n] # "none"
    BY <1>0, <1>4, <1>5, <1>6 DEF HolderInv
  <2>2. Excused \/ (~cancelReq[n] /\ \A u \in Threads : ~Asks(u, n))
    BY <1>0, <1>4, <1>5 DEF CancelInv
  <2>3. QED
    BY <2>1, <2>2 DEF MayTake
<1>23. Drops(g, tasks)
  <2>1. ASSUME NEW p, NEW k \in DOMAIN tasks, tasks[k] = <<"cancel", p>> PROVE FALSE
    <3>1. tasks[k][1] = "cancel"
      BY <2>1
    <3>2. QED
      BY <1>7, <3>1
  <2>2. QED
    BY <2>1 DEF Drops, Asking
<1>24. n \in Compiled
  BY <1>4 DEF Compiled
<1>25. HolderInv' /\ CancelInv' /\ adopters' \in [CompileNode -> Int]
  BY <1>0, <1>7, <1>21, <1>22, <1>23, <1>24, TakesKeeps
<1>26. Types'
  <2>1. work' \in [Threads -> Seq(Task)]
    BY <1>0, <1>7, PutsWork DEF Types
  <2>2. compiled' \in [Shaders -> Compiled]
    BY <1>0, <1>2, <1>24 DEF Types
  <2>3. state' \in [Node -> {"none", "Pending", "Running", "Complete", "Canceled"}]
    BY <1>0, <1>2 DEF Types
  <2>4. QED
    BY <1>0, <1>2, <1>19, <1>25, <2>1, <2>2, <2>3 DEF Types
<1>27. SourcesKept /\ LinksOnly'
  <2>1. remaining' = remaining /\ \A i \in 1 .. MaxLinks : remaining[i] \in Int
    BY <1>0, <1>2 DEF Types
  <2>2. \A i \in 1 .. MaxLinks : remaining'[i] <= remaining[i]
    BY <2>1
  <2>3. QED
    BY <1>0, <1>2, <2>2 DEF SourcesKept, LinksOnly, SourceInv
<1>28. (\A p \in Node : OnItsWay(p)' => OnItsWay(p) \/ Given(tasks, p)) => SourceInv'
  <2>1. \A p \in Node : Given(tasks, p) => Sourced(p)'
    BY <1>11, <1>15
  <2>2. QED
    BY <1>0, <1>8, <1>26, <1>27, <2>1, KeepsSource
<1>29. \A p \in Node : Given(tasks, p) => ~Queued(p) /\ p \notin handed
  BY <1>11, <1>13
<1>30. QED
  BY <1>2, <1>7, <1>9, <1>14, <1>17, <1>25, <1>26, <1>28, <1>29, RestKeeps

(* What a thread that enters link i may be given to do.                    *)
Enters(i, tasks) ==
    /\ \A k \in DOMAIN tasks : tasks[k][1] \in {"run", "publish", "publishB", "edge", "dep"}
    /\ \A n \in Node : Given(tasks, n) => n = Link(i) \/ n = Spirv(i)
    /\ \A n \in Node : \A j, k \in DOMAIN tasks : Ticket(tasks[j], n) /\ Ticket(tasks[k], n) => j = k

(* The edges of link i in the order e, and its guard slot at the end.       *)
EdgeList(i, ks, e, q) ==
    /\ q \in Seq(Task) /\ Cardinality(ks) \in Nat
    /\ DOMAIN q = 1 .. Cardinality(ks) + 1
    /\ \A k \in 1 .. Cardinality(ks) :
          q[k] = <<"edge", [dep |-> <<"compile", e[k]>>, link |-> Link(i)]>>
    /\ q[Cardinality(ks) + 1] = <<"dep", Link(i)>>

LEMMA EdgeTasks ==
    ASSUME NEW i \in 1 .. MaxLinks, NEW ks \in SUBSET (1 .. MaxCompiles), NEW e \in InOrder(ks),
           NEW tasks, tasks = Edges(i, ks, e) \o << <<"dep", Link(i)>> >>
    PROVE  EdgeList(i, ks, e, tasks)
<1>1. PICK c \in Task : c = <<"dep", Link(i)>>
  BY NodeKinds, NodeTask DEF NodeOps
<1>2. PICK n \in Nat : n = Cardinality(ks)
  <2>1. MaxCompiles \in Nat
    BY PoolAssumption
  <2>2. IsFiniteSet(1 .. MaxCompiles)
    BY <2>1, FS_Interval
  <2>3. IsFiniteSet(ks)
    BY <2>2, FS_Subset
  <2>4. QED
    BY <2>3, FS_CardinalityType
<1>3. \A k \in 1 .. n : e[k] \in 1 .. MaxCompiles
  BY <1>2 DEF InOrder
<1>4. \A k \in 1 .. n : [dep |-> <<"compile", e[k]>>, link |-> Link(i)] \in [dep : CompileNode, link : Links]
  <2>1. \A k \in 1 .. n : <<"compile", e[k]>> \in CompileNode
    BY <1>3 DEF CompileNode
  <2>2. Link(i) \in Links
    BY NodeKinds
  <2>3. QED
    BY <2>1, <2>2
<1>5. ASSUME NEW r \in [dep : CompileNode, link : Links]
      PROVE  <<"edge", r>> \in Task
  BY DEF Task
<1>6. PICK p : p = [k \in 1 .. n |-> <<"edge", [dep |-> <<"compile", e[k]>>, link |-> Link(i)]>>]
  OBVIOUS
<1>7. p \in Seq(Task) /\ Len(p) = n
  <2>1. \A k \in 1 .. n : p[k] \in Task
    BY <1>4, <1>5, <1>6
  <2>2. p \in [1 .. n -> Task]
    BY <1>6, <2>1
  <2>3. p \in Seq(Task) /\ DOMAIN p = 1 .. n
    BY <2>2, SeqDef
  <2>4. QED
    BY <1>2, <2>3
<1>8. p = Edges(i, ks, e)
  BY <1>2, <1>6 DEF Edges
<1>9. <<c>> \in Seq(Task) /\ Len(<<c>>) = 1 /\ <<c>>[1] = c
  OBVIOUS
<1>10. tasks = p \o <<c>>
  BY <1>1, <1>8
<1>11. /\ tasks \in Seq(Task) /\ DOMAIN tasks = 1 .. n + 1
       /\ \A k \in 1 .. n : tasks[k] = p[k]
       /\ tasks[n + 1] = c
  <2>1. PICK d \in Seq(Task) : d = <<c>> /\ Len(d) = 1 /\ d[1] = c
    BY <1>9
  <2>2. /\ p \o d \in Seq(Task)
        /\ DOMAIN (p \o d) = 1 .. Len(p) + Len(d)
        /\ \A k \in 1 .. Len(p) : (p \o d)[k] = p[k]
        /\ \A k \in 1 .. Len(d) : (p \o d)[Len(p) + k] = d[k]
    BY <1>7, <2>1, Joined
  <2>3. 1 \in 1 .. Len(d)
    BY <2>1
  <2>4. (p \o d)[n + 1] = c
    BY <1>7, <2>1, <2>2, <2>3
  <2>5. QED
    BY <1>7, <1>10, <2>1, <2>2, <2>4
<1>12. \A k \in 1 .. n : tasks[k] = <<"edge", [dep |-> <<"compile", e[k]>>, link |-> Link(i)]>>
  BY <1>6, <1>11
<1>13. QED
  BY <1>1, <1>2, <1>11, <1>12 DEF EdgeList

LEMMA EdgesEnter ==
    ASSUME NEW i \in 1 .. MaxLinks, NEW ks \in SUBSET (1 .. MaxCompiles), NEW e \in InOrder(ks),
           NEW tasks, tasks = Edges(i, ks, e) \o << <<"dep", Link(i)>> >>
    PROVE  Enters(i, tasks) /\ \A n \in Node : ~Given(tasks, n)
<1>1. \A k \in DOMAIN tasks : tasks[k][1] = "edge" \/ tasks[k] = <<"dep", Link(i)>>
  <2>1. /\ Cardinality(ks) \in Nat /\ DOMAIN tasks = 1 .. Cardinality(ks) + 1
        /\ \A k \in 1 .. Cardinality(ks) :
             tasks[k] = <<"edge", [dep |-> <<"compile", e[k]>>, link |-> Link(i)]>>
        /\ tasks[Cardinality(ks) + 1] = <<"dep", Link(i)>>
    <3>1. EdgeList(i, ks, e, tasks)
      BY EdgeTasks
    <3>2. QED
      BY <3>1 DEF EdgeList
  <2>2. \A k \in 1 .. Cardinality(ks) + 1 : k \in 1 .. Cardinality(ks) \/ k = Cardinality(ks) + 1
    BY <2>1
  <2>3. ASSUME NEW r PROVE <<"edge", r>>[1] = "edge"
    OBVIOUS
  <2>4. \A k \in 1 .. Cardinality(ks) : tasks[k][1] = "edge"
    BY <2>1, <2>3
  <2>5. QED
    BY <2>1, <2>2, <2>4
<1>2. ASSUME NEW n \in Node, NEW k \in DOMAIN tasks, Ticket(tasks[k], n) PROVE FALSE
  <2>1. PICK x : x = tasks[k]
    OBVIOUS
  <2>2. Ticket(x, n) /\ (x[1] = "edge" \/ x = <<"dep", Link(i)>>) /\ Link(i)[1] = "link"
    BY <1>1, <1>2, <2>1, NodeKinds
  <2>3. QED
    BY <2>2 DEF Ticket
<1>3. \A n \in Node : ~Given(tasks, n)
  BY <1>2 DEF Given
<1>4. \A k \in DOMAIN tasks : tasks[k][1] \in {"edge", "dep"}
  <2>1. <<"dep", Link(i)>>[1] = "dep"
    OBVIOUS
  <2>2. QED
    BY <1>1, <2>1
<1>5. QED
  BY <1>2, <1>3, <1>4 DEF Enters

LEMMA InlineTasks ==
    ASSUME NEW i \in 1 .. MaxLinks
    PROVE  LET tasks == << <<"run", Link(i)>>, <<"run", Spirv(i)>>, <<"publish", None>>, <<"publishB", None>> >>
           IN  /\ tasks \in Seq(Task) /\ Enters(i, tasks)
<1>1. Link(i) \in Node /\ Spirv(i) \in Node
  BY NodeKinds
<1>2. PICK a \in Task, b \in Task, c \in Task, d \in Task :
        a = <<"run", Link(i)>> /\ b = <<"run", Spirv(i)>> /\ c = <<"publish", None>> /\ d = <<"publishB", None>>
  <2>1. <<"run", Link(i)>> \in Task /\ <<"run", Spirv(i)>> \in Task
    BY <1>1, NodeTask DEF NodeOps
  <2>2. <<"publish", None>> \in Task /\ <<"publishB", None>> \in Task
    BY PlainTask DEF PlainOps
  <2>3. QED
    BY <2>1, <2>2
<1>3. PICK q : q = <<a, b, c, d>>
  OBVIOUS
<1>4. q \in Seq(Task) /\ DOMAIN q = 1 .. 4
  BY <1>3
<1>5. ASSUME NEW k \in DOMAIN q
      PROVE  \/ k = 1 /\ q[k] = a
             \/ k = 2 /\ q[k] = b
             \/ q[k][1] \in {"publish", "publishB"}
  <2>1. (k = 1 => q[k] = a) /\ (k = 2 => q[k] = b) /\ (k = 3 => q[k] = c) /\ (k = 4 => q[k] = d)
    BY <1>3
  <2>2. k = 1 \/ k = 2 \/ k = 3 \/ k = 4
    BY <1>4
  <2>3. c[1] = "publish" /\ d[1] = "publishB"
    BY <1>2
  <2>4. QED
    BY <2>1, <2>2, <2>3
<1>6. ASSUME NEW n \in Node, NEW k \in DOMAIN q, Ticket(q[k], n)
      PROVE  (k = 1 /\ n = Link(i)) \/ (k = 2 /\ n = Spirv(i))
  <2>1. PICK x : x = q[k]
    OBVIOUS
  <2>2. Ticket(x, n) /\ ((k = 1 /\ x = a) \/ (k = 2 /\ x = b) \/ x[1] \in {"publish", "publishB"})
    BY <1>5, <1>6, <2>1
  <2>3. QED
    BY <1>2, <2>2 DEF Ticket
<1>7. Link(i) # Spirv(i)
  BY DEF Link, Spirv
<1>8. \A k \in DOMAIN q : q[k][1] \in {"run", "publish", "publishB"}
  <2>1. a[1] = "run" /\ b[1] = "run"
    BY <1>2
  <2>2. QED
    BY <1>5, <2>1
<1>9. Enters(i, q)
  BY <1>6, <1>7, <1>8 DEF Enters, Given
<1>10. QED
  BY <1>2, <1>3, <1>4, <1>9

(* What EnqueueLink does, link i being the next and nodes its snapshot.    *)
Enqueued(g, i, nodes, tasks) ==
    /\ i = MadeLinks + 1
    /\ \A n \in nodes : \E s \in Shaders : n = compiled[s]
    /\ work[g] # <<>> /\ work[g][1][1] = "link" /\ Puts(g, tasks) /\ Enters(i, tasks)
    /\ snap' = [snap EXCEPT ![i] = nodes]
    /\ pinned' = [n \in CompileNode |-> pinned[n] \/ n \in nodes]
    /\ state' = [state EXCEPT ![Link(i)] = "Pending", ![Spirv(i)] = "Pending"]
    /\ pendingLink' = [pendingLink EXCEPT ![g] = i] /\ pendingSpirv' = [pendingSpirv EXCEPT ![g] = i]
    /\ \/ conts' = conts /\ remaining' = remaining
       \/ /\ \A n \in Node : ~Given(tasks, n)
          /\ conts' = [conts EXCEPT ![Link(i)] = << Spirv(i) >>]
          /\ \E c \in Nat : remaining' = [remaining EXCEPT ![i] = c]
    /\ UNCHANGED <<cancelReq, queue, handed, inFlight, budget, stopped, hasPool, drained, src,
                   compiled, adopters, index, failures>>

LEMMA EnqueueParts ==
    ASSUME PoolInv, NEW g \in GL, EnqueueLink(g)
    PROVE  \E i \in 1 .. MaxLinks, nodes \in SUBSET Compiled, tasks \in Seq(Task) :
             Enqueued(g, i, nodes, tasks)
<1>0. Types /\ MadeInv /\ g \in Threads /\ MaxLinks \in Nat
  BY GLThread, PoolAssumption DEF PoolInv
<1>1. PICK i \in 1 .. MaxLinks : i = MadeLinks + 1
  <2>1. PICK m \in 0 .. MaxLinks : m = MadeLinks
    BY <1>0, MadeOnes
  <2>2. m < MaxLinks
    BY <2>1 DEF EnqueueLink
  <2>3. m + 1 \in 1 .. MaxLinks
    BY <1>0, <2>2
  <2>4. QED
    BY <2>1, <2>3
<1>2. /\ work[g] # <<>> /\ work[g][1][1] = "link" /\ Arg(g) \in SUBSET Shaders
  <2>1. work \in [Threads -> Seq(Task)] /\ At(g, "link")
    BY <1>0 DEF Types, EnqueueLink
  <2>2. /\ work[g] # <<>> /\ work[g][1] \in Task /\ work[g][1][1] = "link" /\ work[g][1][2] = Arg(g)
    BY <1>0, <2>1, AtTask
  <2>3. QED
    BY <2>2, TaskParts
<1>3. PICK nodes : nodes = {compiled[s] : s \in Arg(g)}
  OBVIOUS
<1>4. (\A n \in nodes : \E s \in Shaders : n = compiled[s]) /\ nodes \in SUBSET Compiled
  BY <1>0, <1>2, <1>3 DEF Types
<1>5. PICK ks \in SUBSET (1 .. MaxCompiles) :
        ks = {k \in 1 .. MaxCompiles : <<"compile", k>> \in nodes /\ ~Terminal(<<"compile", k>>)}
  OBVIOUS
<1>6. /\ snap' = [snap EXCEPT ![i] = nodes]
      /\ pinned' = [n \in CompileNode |-> pinned[n] \/ n \in nodes]
      /\ state' = [state EXCEPT ![Link(i)] = "Pending", ![Spirv(i)] = "Pending"]
      /\ pendingLink' = [pendingLink EXCEPT ![g] = i] /\ pendingSpirv' = [pendingSpirv EXCEPT ![g] = i]
      /\ \/ /\ Into(g, << <<"run", Link(i)>>, <<"run", Spirv(i)>>, <<"publish", None>>, <<"publishB", None>> >>)
            /\ UNCHANGED <<conts, remaining>>
         \/ /\ conts' = [conts EXCEPT ![Link(i)] = << Spirv(i) >>]
            /\ remaining' = [remaining EXCEPT ![i] = Cardinality(ks) + GuardSlot]
            /\ \E e \in InOrder(ks) : Into(g, Edges(i, ks, e) \o << <<"dep", Link(i)>> >>)
  BY <1>1, <1>3, <1>5 DEF EnqueueLink
<1>7. UNCHANGED <<cancelReq, queue, handed, inFlight, budget, stopped, hasPool, drained, src,
                  compiled, adopters, index, failures>>
  BY DEF EnqueueLink, poolVars, modeVars, boundVars
<1>8. CASE /\ Into(g, << <<"run", Link(i)>>, <<"run", Spirv(i)>>, <<"publish", None>>, <<"publishB", None>> >>)
           /\ UNCHANGED <<conts, remaining>>
  <2>1. PICK tasks \in Seq(Task) : Into(g, tasks) /\ Enters(i, tasks)
    BY <1>8, InlineTasks
  <2>2. Puts(g, tasks)
    BY <1>0, <1>2, <2>1, IntoPuts
  <2>3. conts' = conts /\ remaining' = remaining
    BY <1>8
  <2>4. Enqueued(g, i, nodes, tasks)
    BY <1>1, <1>2, <1>4, <1>6, <1>7, <2>1, <2>2, <2>3 DEF Enqueued
  <2>5. QED
    BY <1>4, <2>4
<1>9. CASE /\ conts' = [conts EXCEPT ![Link(i)] = << Spirv(i) >>]
           /\ remaining' = [remaining EXCEPT ![i] = Cardinality(ks) + GuardSlot]
           /\ \E e \in InOrder(ks) : Into(g, Edges(i, ks, e) \o << <<"dep", Link(i)>> >>)
  <2>1. PICK e \in InOrder(ks) : Into(g, Edges(i, ks, e) \o << <<"dep", Link(i)>> >>)
    BY <1>9
  <2>0. PICK q : q = Edges(i, ks, e) \o << <<"dep", Link(i)>> >>
    OBVIOUS
  <2>10. EdgeList(i, ks, e, q)
    BY <2>0, EdgeTasks
  <2>2. PICK tasks \in Seq(Task) : /\ Into(g, tasks) /\ Enters(i, tasks)
                                   /\ \A n \in Node : ~Given(tasks, n)
    <3>1. q \in Seq(Task)
      BY <2>10 DEF EdgeList
    <3>2. Into(g, q)
      BY <2>0, <2>1
    <3>3. Enters(i, q) /\ \A n \in Node : ~Given(q, n)
      BY <2>0, EdgesEnter
    <3>4. QED
      BY <3>1, <3>2, <3>3
  <2>3. Puts(g, tasks)
    BY <1>0, <1>2, <2>2, IntoPuts
  <2>4. Cardinality(ks) \in Nat
    BY <2>10 DEF EdgeList
  <2>5. \E c \in Nat : remaining' = [remaining EXCEPT ![i] = c]
    <3>1. Cardinality(ks) + GuardSlot \in Nat
      BY <2>4 DEF GuardSlot
    <3>2. QED
      BY <1>9, <3>1
  <2>6. conts' = [conts EXCEPT ![Link(i)] = << Spirv(i) >>]
    BY <1>9
  <2>7. Enqueued(g, i, nodes, tasks)
    BY <1>1, <1>2, <1>4, <1>6, <1>7, <2>2, <2>3, <2>5, <2>6 DEF Enqueued
  <2>8. QED
    BY <1>4, <2>7
<1>10. QED
  BY <1>6, <1>8, <1>9

LEMMA EnqueueLinkKeeps ==
    ASSUME PoolInv, NEW g \in GL, EnqueueLink(g)
    PROVE  PoolInv'
<1>0. /\ Types /\ MadeInv /\ HolderInv /\ CancelInv /\ SourceInv /\ OnceInv /\ g \in Threads
  BY GLThread DEF PoolInv
<1>1. PICK i \in 1 .. MaxLinks, nodes \in SUBSET Compiled, tasks \in Seq(Task) :
        /\ i = MadeLinks + 1
        /\ \A n \in nodes : \E s \in Shaders : n = compiled[s]
        /\ work[g] # <<>> /\ work[g][1][1] = "link" /\ Puts(g, tasks) /\ Enters(i, tasks)
        /\ snap' = [snap EXCEPT ![i] = nodes]
        /\ pinned' = [n \in CompileNode |-> pinned[n] \/ n \in nodes]
        /\ state' = [state EXCEPT ![Link(i)] = "Pending", ![Spirv(i)] = "Pending"]
        /\ pendingLink' = [pendingLink EXCEPT ![g] = i] /\ pendingSpirv' = [pendingSpirv EXCEPT ![g] = i]
        /\ \/ conts' = conts /\ remaining' = remaining
           \/ /\ \A n \in Node : ~Given(tasks, n)
              /\ conts' = [conts EXCEPT ![Link(i)] = << Spirv(i) >>]
              /\ \E c \in Nat : remaining' = [remaining EXCEPT ![i] = c]
        /\ UNCHANGED <<cancelReq, queue, handed, inFlight, budget, stopped, hasPool, drained, src,
                       compiled, adopters, index, failures>>
  BY EnqueueParts DEF Enqueued
<1>2. Link(i) \in Node /\ Spirv(i) \in Node /\ i # 0 /\ i \in 0 .. MaxLinks /\ MaxLinks \in Nat
  BY NodeKinds, PoolAssumption
<1>3. FinishOk(tasks) /\ JoinOk(tasks) /\ CancelOk(tasks) /\ ReturnOk(g, tasks)
  BY <1>1 DEF Enters, FinishOk, JoinOk, CancelOk, ReturnOk
<1>4. \A n \in Node : state'[n] = IF n = Link(i) \/ n = Spirv(i) THEN "Pending" ELSE state[n]
  BY <1>0, <1>1, <1>2 DEF Types
<1>5. state[Link(i)] = "none" /\ state[Spirv(i)] = "none"
  <2>1. PICK m \in 0 .. MaxLinks : m = MadeLinks
    BY <1>0, MadeOnes
  <2>2. i > m
    BY <1>1, <2>1
  <2>3. state[Link(i)] = "none"
    BY <1>0, <2>1, <2>2, MadeOnes
  <2>4. QED
    BY <1>0, <2>3 DEF MadeInv
<1>6. \A j \in 1 .. MaxLinks : /\ state'[Link(j)] = IF j = i THEN "Pending" ELSE state[Link(j)]
                               /\ state'[Spirv(j)] = IF j = i THEN "Pending" ELSE state[Spirv(j)]
  <2>1. \A j \in 1 .. MaxLinks : /\ Link(j) \in Node /\ Spirv(j) \in Node
                                 /\ (Link(j) = Link(i) <=> j = i) /\ Link(j) # Spirv(i)
                                 /\ (Spirv(j) = Spirv(i) <=> j = i) /\ Spirv(j) # Link(i)
    BY NodeKinds DEF Link, Spirv
  <2>2. QED
    BY <1>4, <2>1
<1>7. \A n \in CompileNode : state'[n] = state[n]
  <2>1. \A n \in CompileNode : n \in Node /\ n # Link(i) /\ n # Spirv(i)
    BY NodeKinds, <1>2
  <2>2. QED
    BY <1>4, <2>1
<1>8. StaysMade
  BY <1>4 DEF StaysMade
<1>9. MadeInv'
  <2>1. PICK m \in 0 .. MaxLinks : m = MadeLinks /\ i = m + 1
    BY <1>0, <1>1, MadeOnes
  <2>2. \A j \in 1 .. MaxLinks : state'[Link(j)] = "none" <=> j > i
    <3>1. ASSUME NEW j \in 1 .. MaxLinks PROVE state'[Link(j)] = "none" <=> j > i
      <4>1. state[Link(j)] = "none" <=> j > m
        BY <1>0, <2>1, MadeOnes
      <4>2. CASE j = i
        BY <1>6, <4>2
      <4>3. CASE j # i
        <5>1. j > m <=> j > i
          BY <2>1, <4>3
        <5>2. QED
          BY <1>6, <4>1, <4>3, <5>1
      <4>4. QED
        BY <4>2, <4>3
    <3>2. QED
      BY <3>1
  <2>3. \A j \in 1 .. MaxLinks : state'[Spirv(j)] = "none" <=> state'[Link(j)] = "none"
    BY <1>0, <1>6 DEF MadeInv
  <2>4. \E l \in 0 .. MaxCompiles : \A k \in 1 .. MaxCompiles : state'[<<"compile", k>>] = "none" <=> k > l
    <3>1. \A k \in 1 .. MaxCompiles : <<"compile", k>> \in CompileNode
      BY DEF CompileNode
    <3>2. QED
      BY <1>0, <1>7, <3>1 DEF MadeInv
  <2>5. \A u \in Threads : \A k \in DOMAIN work'[u] :
          work'[u][k][1] = "finish" => state'[work'[u][k][2]] # "none"
    BY <1>0, <1>1, <1>3, <1>8, KeepsFinish
  <2>6. \E l \in 0 .. MaxLinks : \A j \in 1 .. MaxLinks : state'[Link(j)] = "none" <=> j > l
    BY <1>2, <2>2
  <2>7. QED
    BY <2>3, <2>4, <2>5, <2>6 DEF MadeInv, Link, Spirv
<1>10. \A n \in CompileNode : Contexts(n)' = Contexts(n) /\ Holders(n)' = Holders(n)
  BY <1>1 DEF Contexts, Holders
<1>11. \A n \in CompileNode : n \in nodes => Needed(n) /\ Contexts(n) # {}
  <2>1. ASSUME NEW n \in CompileNode, n \in nodes PROVE Needed(n) /\ Contexts(n) # {}
    <3>1. PICK s \in Shaders : compiled[s] = n
      BY <1>1, <2>1
    <3>2. s[1] \in Contexts(n)
      BY <3>1 DEF Contexts, Holders
    <3>3. QED
      BY <3>1, <3>2 DEF Needed
  <2>2. QED
    BY <2>1
<1>12. snap' \in [1 .. MaxLinks -> SUBSET Compiled]
       /\ \A j \in 1 .. MaxLinks : snap'[j] = IF j = i THEN nodes ELSE snap[j]
  BY <1>0, <1>1 DEF Types
<1>13. pinned' \in [CompileNode -> BOOLEAN] /\ \A n \in CompileNode : pinned'[n] <=> pinned[n] \/ n \in nodes
  BY <1>0, <1>1 DEF Types
<1>14. HolderInv'
  <2>1. HoldersCounted'
    BY <1>0, <1>1, <1>10 DEF HolderInv, HoldersCounted
  <2>2. \A n \in CompileNode : /\ \A h, f \in Contexts(n)' : h = f
                               /\ state'[n] = "none" => Contexts(n)' = {} /\ ~pinned'[n]
    BY <1>0, <1>7, <1>10, <1>11, <1>13 DEF HolderInv
  <2>3. \A j \in 1 .. MaxLinks : \A n \in CompileNode : n \in snap'[j] => pinned'[n]
    BY <1>0, <1>12, <1>13 DEF HolderInv
  <2>4. QED
    BY <2>1, <2>2, <2>3 DEF HolderInv
<1>15. \A n \in CompileNode : Needed(n)' => Needed(n)
  <2>1. ASSUME NEW n \in CompileNode, Needed(n)' PROVE Needed(n)
    <3>1. CASE \E s \in Shaders : compiled'[s] = n
      BY <1>1, <3>1 DEF Needed
    <3>2. ASSUME NEW j \in 1 .. MaxLinks, n \in snap'[j], state'[Link(j)] \notin {"Complete", "Canceled"},
                 ~cancelReq'[Link(j)]
          PROVE  Needed(n)
      <4>1. CASE j = i
        BY <1>11, <1>12, <3>2, <4>1
      <4>2. CASE j # i
        <5>1. n \in snap[j] /\ ~Terminal(Link(j)) /\ ~cancelReq[Link(j)]
          BY <1>1, <1>6, <1>12, <3>2, <4>2 DEF Terminal
        <5>2. QED
          BY <5>1 DEF Needed
      <4>3. QED
        BY <4>1, <4>2
    <3>3. QED
      BY <2>1, <3>1, <3>2 DEF Needed, Terminal, Link
  <2>2. QED
    BY <2>1
<1>16. Excused' <=> Excused
  BY <1>1 DEF Excused
<1>17. CancelInv'
  <2>1. ASSUME NEW n \in CompileNode, cancelReq'[n]
        PROVE  Excused' \/ (~Needed(n)' /\ state'[n] # "none")
    BY <1>0, <1>1, <1>7, <1>15, <1>16, <2>1 DEF CancelInv
  <2>2. ASSUME NEW u \in Threads, NEW n \in CompileNode, Asks(u, n)'
        PROVE  Excused' \/ (~Needed(n)' /\ state'[n] # "none" /\ Contexts(n)' \subseteq {u})
    <3>1. PICK k \in DOMAIN work'[u] : work'[u][k] = <<"cancel", n>>
      BY <2>2 DEF Asks
    <3>2. ~(k \in DOMAIN tasks /\ work'[u][k] = tasks[k])
      <4>1. SUFFICES ASSUME k \in DOMAIN tasks, tasks[k] = <<"cancel", n>> PROVE FALSE
        BY <3>1
      <4>2. tasks[k][1] = "cancel"
        BY <4>1
      <4>3. QED
        BY <1>1, <4>1, <4>2 DEF Enters
    <3>3. \E j \in DOMAIN work[u] : work'[u][k] = work[u][j]
      <4>1. work \in [Threads -> Seq(Task)]
        BY <1>0 DEF Types
      <4>2. \/ \E j \in DOMAIN work[u] : work'[u][k] = work[u][j]
            \/ u = g /\ k \in DOMAIN tasks /\ work'[u][k] = tasks[k]
        BY <1>0, <1>1, <4>1, FromWork
      <4>3. QED
        BY <3>2, <4>2
    <3>4. Asks(u, n)
      BY <3>1, <3>3 DEF Asks
    <3>5. Excused \/ (~Needed(n) /\ state[n] # "none" /\ Contexts(n) \subseteq {u})
      BY <1>0, <3>4 DEF CancelInv
    <3>6. QED
      BY <1>7, <1>10, <1>15, <1>16, <3>5
  <2>3. QED
    BY <2>1, <2>2 DEF CancelInv
<1>18. /\ conts' \in [Node -> Seq(Node)] /\ remaining' \in [1 .. MaxLinks -> Int]
       /\ \A n \in Node : n # Link(i) => conts'[n] = conts[n]
       /\ conts'[Link(i)] \in {conts[Link(i)], <<Spirv(i)>>}
       /\ \A j \in 1 .. MaxLinks : j # i => remaining'[j] = remaining[j]
  <2>1. conts \in [Node -> Seq(Node)] /\ remaining \in [1 .. MaxLinks -> Int] /\ <<Spirv(i)>> \in Seq(Node)
    BY <1>0, <1>2 DEF Types
  <2>2. CASE conts' = conts /\ remaining' = remaining
    BY <2>1, <2>2
  <2>3. CASE /\ conts' = [conts EXCEPT ![Link(i)] = << Spirv(i) >>]
             /\ \E c \in Nat : remaining' = [remaining EXCEPT ![i] = c]
    BY <1>2, <2>1, <2>3
  <2>4. QED
    BY <1>1, <2>2, <2>3
<1>19. Types'
  <2>1. work' \in [Threads -> Seq(Task)]
    BY <1>0, <1>1, PutsWork DEF Types
  <2>2. pendingLink' \in [GL -> 0 .. MaxLinks] /\ pendingSpirv' \in [GL -> 0 .. MaxLinks]
    BY <1>0, <1>1, <1>2 DEF Types
  <2>3. state' \in [Node -> {"none", "Pending", "Running", "Complete", "Canceled"}]
    BY <1>0, <1>1 DEF Types
  <2>4. QED
    BY <1>0, <1>1, <1>12, <1>13, <1>18, <2>1, <2>2, <2>3 DEF Types
<1>20. ~OnItsWay(Link(i)) /\ ~OnItsWay(Spirv(i))
  BY <1>0, <1>2, <1>5 DEF SourceInv
<1>21. (\A n \in Node : OnItsWay(n)' => OnItsWay(n) \/ Given(tasks, n)) => SourceInv'
  <2>0. SUFFICES ASSUME \A n \in Node : OnItsWay(n)' => OnItsWay(n) \/ Given(tasks, n)
        PROVE  SourceInv'
    OBVIOUS
  <2>1. \A n \in Node : state'[n] = "none" => ~OnItsWay(n)'
    BY <1>0, <1>1, <1>4, <2>0 DEF SourceInv, Enters
  <2>2. ASSUME NEW j \in 1 .. MaxLinks
        PROVE  /\ OnItsWay(Link(j))' => remaining'[j] <= 0
               /\ state'[Link(j)] = "none" => remaining'[j] <= 0 /\ conts'[Link(j)] = <<>>
               /\ OnItsWay(Spirv(j))' => conts'[Link(j)] = <<>>
               /\ conts'[Link(j)] \in {<<>>, <<Spirv(j)>>}
               /\ conts'[Spirv(j)] = <<>>
    <3>1. /\ Link(j) \in Node /\ Spirv(j) \in Node /\ Spirv(j) # Link(i)
          /\ (j # i => Link(j) # Link(i) /\ Spirv(j) # Spirv(i) /\ Link(j) # Spirv(i))
      BY NodeKinds DEF Link, Spirv
    <3>2. conts'[Spirv(j)] = <<>>
      BY <1>0, <1>18, <3>1 DEF SourceInv
    <3>3. CASE j = i
      <4>1. remaining[i] <= 0 /\ conts[Link(i)] = <<>>
        BY <1>0, <1>5 DEF SourceInv
      <4>2. CASE conts' = conts /\ remaining' = remaining
        BY <1>6, <3>2, <3>3, <4>1, <4>2
      <4>3. CASE \A n \in Node : ~Given(tasks, n)
        BY <1>6, <1>18, <1>20, <2>0, <3>1, <3>2, <3>3, <4>1, <4>3
      <4>4. QED
        BY <1>1, <4>2, <4>3
    <3>4. CASE j # i
      <4>1. /\ OnItsWay(Link(j))' => OnItsWay(Link(j))
            /\ OnItsWay(Spirv(j))' => OnItsWay(Spirv(j))
        BY <1>1, <2>0, <3>1, <3>4 DEF Enters
      <4>2. QED
        BY <1>0, <1>6, <1>18, <3>1, <3>2, <3>4, <4>1 DEF SourceInv
    <3>5. QED
      BY <3>3, <3>4
  <2>3. \A n \in CompileNode : \A k \in DOMAIN conts'[n] : conts'[n][k] \in Links
    <3>1. \A n \in CompileNode : n \in Node /\ n # Link(i)
      BY NodeKinds, <1>2
    <3>2. \A n \in CompileNode : conts'[n] = conts[n]
      BY <1>18, <3>1
    <3>3. QED
      BY <1>0, <3>2 DEF SourceInv
  <2>4. QED
    BY <2>1, <2>2, <2>3 DEF SourceInv, Link, Spirv
<1>22. /\ \A n \in Node : Given(tasks, n) => ~Queued(n) /\ n \notin handed
       /\ TicketsOk(g, tasks)
  <2>1. \A n \in Node : Given(tasks, n) => ~OnItsWay(n)
    BY <1>1, <1>20 DEF Enters
  <2>2. \A n \in Node : ~OnItsWay(n) => ~Queued(n) /\ n \notin handed /\ \A u \in Threads : ~Holds(u, n)
    BY DEF OnItsWay
  <2>3. QED
    BY <1>1, <2>1, <2>2 DEF TicketsOk, Holds, Enters
<1>23. UNCHANGED <<queue, handed, inFlight, budget, stopped, hasPool, drained>>
  BY <1>1
<1>24. QED
  BY <1>1, <1>3, <1>9, <1>14, <1>17, <1>19, <1>21, <1>22, <1>23, RestKeeps

-----------------------------------------------------------------------------
(* The specification *)

LEMMA InitInv ==
    ASSUME Init
    PROVE  PoolInv
<1>1. MaxLinks \in Nat /\ MaxCompiles \in Nat /\ Cardinality(Workers) \in Nat /\ IsFiniteSet(Workers)
  BY PoolAssumption, NodesFinite
<1>2. Cardinality(Workers) \in 1 .. Cardinality(Workers)
  <2>1. Cardinality(Workers) # 0
    BY <1>1, PoolAssumption, FS_EmptySet
  <2>2. QED
    BY <1>1, <2>1
<1>3. \A t \in Threads : work[t] = <<>>
  BY DEF Init
<1>4. /\ DOMAIN <<>> = {} /\ \A S : <<>> \in Seq(S)
  OBVIOUS
<1>5. Types
  <2>1. /\ state \in [Node -> {"none", "Pending", "Running", "Complete", "Canceled"}]
        /\ cancelReq \in [Node -> BOOLEAN] /\ snap \in [1 .. MaxLinks -> SUBSET Compiled]
        /\ handed \subseteq Node /\ compiled \in [Shaders -> Compiled]
        /\ pinned \in [CompileNode -> BOOLEAN] /\ index \in [GL -> [Texts -> Compiled]]
    BY DEF Init, Compiled
  <2>2. /\ conts \in [Node -> Seq(Node)] /\ queue \in Seq(Node) /\ work \in [Threads -> Seq(Task)]
    BY <1>4 DEF Init
  <2>3. /\ remaining \in [1 .. MaxLinks -> Int] /\ inFlight \in Int /\ adopters \in [CompileNode -> Int]
        /\ pendingLink \in [GL -> 0 .. MaxLinks] /\ pendingSpirv \in [GL -> 0 .. MaxLinks]
        /\ failures \in Nat
    BY <1>1 DEF Init
  <2>4. budget \in 1 .. Cardinality(Workers)
    BY <1>2 DEF Init
  <2>5. src \in [Shaders -> Texts]
    BY DEF Init
  <2>6. QED
    BY <2>1, <2>2, <2>3, <2>4, <2>5 DEF Types
<1>6. /\ \A n \in Node : state[n] = "none" /\ cancelReq[n] = FALSE /\ conts[n] = <<>>
      /\ \A i \in 1 .. MaxLinks : remaining[i] = 0 /\ snap[i] = {} /\ state[Link(i)] = "none"
                                  /\ state[Spirv(i)] = "none"
      /\ \A k \in 1 .. MaxCompiles : state[<<"compile", k>>] = "none"
  <2>1. \A i \in 1 .. MaxLinks : Link(i) \in Node /\ Spirv(i) \in Node
    BY NodeKinds
  <2>2. \A k \in 1 .. MaxCompiles : <<"compile", k>> \in Node
    BY NodeKinds DEF CompileNode
  <2>3. QED
    BY <2>1, <2>2 DEF Init
<1>7. MadeInv
  <2>1. /\ 0 \in 0 .. MaxCompiles /\ \A k \in 1 .. MaxCompiles : k > 0
        /\ 0 \in 0 .. MaxLinks /\ \A k \in 1 .. MaxLinks : k > 0
    BY <1>1
  <2>2. /\ \E m \in 0 .. MaxCompiles : \A k \in 1 .. MaxCompiles : state[<<"compile", k>>] = "none" <=> k > m
        /\ \E m \in 0 .. MaxLinks : \A i \in 1 .. MaxLinks : state[Link(i)] = "none" <=> i > m
    BY <1>6, <2>1
  <2>3. QED
    BY <1>3, <1>4, <1>6, <2>2 DEF MadeInv
<1>8. DrainInv
  BY <1>3, <1>4 DEF DrainInv, Init
<1>9. \A n \in CompileNode : Holders(n) = {} /\ Contexts(n) = {} /\ ~pinned[n] /\ n \in Node
  <2>1. ASSUME NEW n \in CompileNode PROVE n # None /\ n \in Node
    BY NodeKinds
  <2>2. ASSUME NEW n \in CompileNode PROVE Holders(n) = {} /\ ~pinned[n]
    BY <2>1 DEF Holders, Init
  <2>3. ASSUME NEW n \in CompileNode PROVE Contexts(n) = {}
    BY <2>1, <2>2 DEF Contexts, Init
  <2>4. QED
    BY <2>1, <2>2, <2>3
<1>10. HolderInv
  <2>1. HoldersCounted
    BY <1>9, FS_EmptySet DEF HoldersCounted, Init
  <2>2. QED
    BY <1>6, <1>9, <2>1 DEF HolderInv
<1>11. CancelInv
  BY <1>3, <1>4, <1>6, <1>9 DEF CancelInv, Asks
<1>12. \A n \in Node : ~OnItsWay(n) /\ ~Queued(n) /\ n \notin handed
  BY <1>3, <1>4 DEF OnItsWay, Holds, Queued, Init
<1>13. OnceInv
  <2>1. queue = <<>>
    BY DEF Init
  <2>2. QED
    BY <1>3, <1>4, <1>12, <2>1 DEF OnceInv
<1>14. SourceInv
  <2>1. \A i \in 1 .. MaxLinks : conts[Link(i)] = <<>> /\ conts[Spirv(i)] = <<>> /\ remaining[i] <= 0
    BY <1>6, NodeKinds
  <2>2. \A n \in CompileNode : conts[n] = <<>>
    BY <1>6, <1>9
  <2>3. QED
    BY <1>4, <1>12, <2>1, <2>2 DEF SourceInv
<1>15. SlotInv
  <2>1. Busy = {}
    <3>1. ASSUME NEW w \in Workers PROVE ~\E k \in 1 .. Len(work[w]) : work[w][k][1] = "return"
      <4>1. w \in Threads
        BY DEF Threads
      <4>2. Len(work[w]) = 0
        BY <1>3, <4>1
      <4>3. QED
        BY <4>2
    <3>2. QED
      BY <3>1 DEF Busy
  <2>2. Cardinality({}) = 0
    BY FS_EmptySet
  <2>3. SlotsHeld
    BY <2>1, <2>2 DEF SlotsHeld, Init
  <2>4. inFlight <= Cardinality(Workers) /\ queue = <<>>
    BY <1>1 DEF Init
  <2>5. QED
    BY <1>3, <1>4, <2>3, <2>4 DEF SlotInv
<1>16. QED
  BY <1>5, <1>7, <1>8, <1>10, <1>11, <1>13, <1>14, <1>15 DEF PoolInv

LEMMA StutterKeeps ==
    ASSUME PoolInv, UNCHANGED vars
    PROVE  PoolInv'
<1>1. /\ UNCHANGED <<state, cancelReq, conts, remaining, snap, queue, handed, inFlight, budget, stopped, hasPool>>
      /\ UNCHANGED <<drained, src, compiled, adopters, pinned, index, pendingLink, pendingSpirv, work, failures>>
  BY DEF vars, nodeVars, linkVars, poolVars, modeVars, shaderVars, progVars, boundVars
<1>2. Types' /\ DrainInv' /\ OnceInv'
  BY <1>1 DEF PoolInv, Types, DrainInv, WorkersDone, OnceInv, Holds, Queued
<1>3. MadeInv' /\ SourceInv'
  BY <1>1 DEF PoolInv, MadeInv, SourceInv, OnItsWay, Holds, Queued
<1>4. HolderInv' /\ CancelInv'
  <2>1. MadeKept /\ HoldersUnmoved
    BY <1>1 DEF MadeKept, HoldersUnmoved
  <2>2. HolderInv' /\ \A n \in CompileNode : Contexts(n)' = Contexts(n)
    BY <2>1, KeepsHolders DEF PoolInv
  <2>3. \A n \in CompileNode : Needed(n)' = Needed(n)
    BY <1>1 DEF Needed, Terminal
  <2>4. (Excused' <=> Excused) /\ \A t \in Threads, n \in CompileNode : Asks(t, n)' <=> Asks(t, n)
    BY <1>1 DEF Excused, Asks
  <2>5. QED
    BY <1>1, <2>2, <2>3, <2>4 DEF PoolInv, CancelInv
<1>5. SlotInv'
  BY <1>1 DEF PoolInv, SlotInv, SlotsHeld, Busy
<1>6. QED
  BY <1>2, <1>3, <1>4, <1>5 DEF PoolInv

LEMMA StepsKeep ==
    ASSUME PoolInv, NEW t \in Threads, Step(t)
    PROVE  PoolInv'
<1>1. CASE CancelNode(t) \/ Run(t) \/ Finish(t)
  BY <1>1, CancelNodeKeeps, RunKeeps, FinishKeeps
<1>2. CASE DepSettled(t) \/ Chain(t) \/ Edge(t)
  BY <1>2, DepSettledKeeps, ChainKeeps, EdgeKeeps
<1>3. CASE PostStopped(t) \/ PostThrows(t) \/ Post(t)
  BY <1>3, PostStoppedKeeps, PostThrowsKeeps, PostKeeps
<1>4. CASE Unlock(t) \/ Resume(t)
  BY <1>4, UnlockKeeps
<1>5. CASE ReturnSlot(t) \/ SetBudget(t)
  BY <1>5, ReturnSlotKeeps, SetBudgetKeeps
<1>6. CASE StopPool(t) \/ JoinPool(t)
  BY <1>6, StopPoolKeeps, JoinPoolKeeps
<1>7. QED
  BY <1>1, <1>2, <1>3, <1>4, <1>5, <1>6 DEF Step

LEMMA CallsKeep ==
    ASSUME PoolInv, NEW g \in GL, Call(g)
    PROVE  PoolInv'
<1>1. ASSUME NEW s \in Own(g), (\E x \in Texts : LetGo(g, s, x)) \/ Compile(g, s) \/ Adopt(g, s) \/ JoinCompile(g, s)
      PROVE  PoolInv'
  BY <1>1, LetGoKeeps, CompileKeeps, AdoptKeeps, JoinCompileKeeps
<1>2. ASSUME NEW Q \in SUBSET Own(g) \ {{}}, LinkProgram(g, Q) PROVE PoolInv'
  <2>1. Q \in SUBSET Own(g)
    OBVIOUS
  <2>2. QED
    BY <1>2, <2>1, LinkProgramKeeps
<1>3. CASE AbandonProgram(g)
  BY <1>3, AbandonProgramKeeps
<1>4. CASE JoinLink(g) \/ JoinSpirv(g)
  BY <1>4, JoinLinkKeeps
<1>5. CASE Suspend(g) \/ Stop(g)
  BY <1>5, SuspendKeeps, StopKeeps
<1>6. ASSUME NEW k \in 1 .. Cardinality(Workers), SetThreads(g, k) PROVE PoolInv'
  BY <1>6, SetThreadsKeeps
<1>7. QED
  BY <1>1, <1>2, <1>3, <1>4, <1>5, <1>6 DEF Call

(* Every step of every thread keeps the invariant: the calls of the GL     *)
(* threads, the nested calls they and the workers make, and asio's start   *)
(* of a handler.                                                           *)
THEOREM StepInv == PoolInv /\ [Next]_vars => PoolInv'
<1>1. SUFFICES ASSUME PoolInv, Next PROVE PoolInv'
  BY StutterKeeps
<1>2. ASSUME NEW g \in GL, GLStep(g) \/ Call(g) PROVE PoolInv'
  <2>1. g \in Threads
    BY GLThread
  <2>2. CASE Step(g)
    BY <1>1, <2>1, <2>2, StepsKeep
  <2>3. CASE Pull(g) \/ EnqueueLink(g)
    BY <1>1, <2>3, PullKeeps, EnqueueLinkKeeps
  <2>4. CASE Publish(g) \/ PublishB(g)
    BY <1>1, <2>4, PublishKeeps
  <2>5. CASE Call(g)
    BY <1>1, <2>5, CallsKeep
  <2>6. QED
    BY <1>2, <2>2, <2>3, <2>4, <2>5 DEF GLStep
<1>3. ASSUME NEW w \in Workers, WorkerStep(w) PROVE PoolInv'
  <2>1. w \in Threads
    BY DEF Threads
  <2>2. QED
    BY <1>1, <1>3, <2>1, StepsKeep, TakeKeeps DEF WorkerStep
<1>4. QED
  BY <1>1, <1>2, <1>3 DEF Next

(* The inductive invariant of the pool: a node has one place on its way to *)
(* a worker (ShaderCompilePool.cpp posts it once), and the counts of slots *)
(* and holders are exact.                                                  *)
THEOREM PoolInvariant == Spec => []PoolInv
<1>1. Init => PoolInv
  BY InitInv
<1>2. QED
  BY <1>1, StepInv, PTL DEF Spec

(* No compile is asked to stop while a shader object or an unsettled link  *)
(* needs it, short of a drain or an allocation that threw                  *)
(* (ShaderObject.cpp:195-212): with any number of contexts, shader         *)
(* objects, texts, nodes and workers.                                      *)
THEOREM WantedNotCancelled == Spec => []WantedIsNotCancelled
<1>1. PoolInv => WantedIsNotCancelled
  BY DEF PoolInv, CancelInv, Excused, WantedIsNotCancelled
<1>2. QED
  BY <1>1, PoolInvariant, PTL

(* After StopAndDrain no worker runs or receives anything and nothing is   *)
(* queued (ShaderCompilePool.h:101-103).                                   *)
THEOREM DrainedQuiet == Spec => []DrainedIsQuiet
<1>1. PoolInv => DrainedIsQuiet
  BY DEF PoolInv, DrainInv, DrainedIsQuiet
<1>2. QED
  BY <1>1, PoolInvariant, PTL

(* A slot of the budget is held by exactly the nodes handed over and the   *)
(* workers that have not returned theirs (a lost one would shrink the pool *)
(* for good), and none is idle while a node waits and the mutex is free.   *)
THEOREM SlotsCounted == Spec => [](SlotsHeld /\ NoSlotIdle)
<1>1. PoolInv => SlotsHeld /\ NoSlotIdle
  BY DEF PoolInv, SlotInv, NoSlotIdle
<1>2. QED
  BY <1>1, PoolInvariant, PTL

(* The count by which ReleaseCompileNode decides who is the last holder of *)
(* a shared compile is the number of shader objects that hold it.          *)
THEOREM HoldersAreCounted == Spec => []HoldersCounted
<1>1. PoolInv => HoldersCounted
  BY DEF PoolInv, HolderInv
<1>2. QED
  BY <1>1, PoolInvariant, PTL
=============================================================================
