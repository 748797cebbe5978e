--------------------------------- MODULE Doorbell ---------------------------------
(***************************************************************************)
(* One endpoint's doorbell: MG_Remote/Transport/Doorbell.h and .cpp, with  *)
(* the code that rings it.  One thread waits (Doorbell::Wait); the other   *)
(* side publishes progress and rings only if the waiter said it is parked. *)
(* A lost wakeup is the classic store-buffer race: the waiter stores       *)
(* parked=1 and reads the condition, the notifier stores the condition and *)
(* reads parked, and each may read before its own store is visible.        *)
(*                                                                         *)
(* Each thread therefore has a store buffer, drained at any moment and     *)
(* emptied by a sequentially consistent fence or store.                    *)
(*                                                                         *)
(* The counters a wait can be about.  On the client's bell: what the apply *)
(* thread advances and announces through SessionConsumer::NotifyClient     *)
(* (Narrowed: appliedSeq, the completed frame) and the full event ring     *)
(* (Backlog).  On the server's: what is announced by NotifyIfParked alone  *)
(* (Published: cmdHead, the cleared eventRingFull), and what rings without *)
(* looking (Always: the control mailbox, Stop, window requests).           *)
(***************************************************************************)
EXTENDS Naturals, Sequences, FiniteSets

CONSTANTS
  Narrowed,     \* the client's counters announced by NotifyClient
  Backlog,      \* the client's counters announced by NotifyIfParked
  Published,    \* the server's counters announced by NotifyIfParked
  Always,       \* the server's counters announced by an unconditional Notify
  Bells,        \* the kinds of bell: "condvar", "socket"
  SocketRoom,   \* unread bytes the socket takes before it drops one
  MaxProgress   \* bound on each counter

ClientCounters == Narrowed \cup Backlog
ServerCounters == Published \cup Always
Counters == ClientCounters \cup ServerCounters

ASSUME CountersAssumption ==
  /\ Narrowed \cap Backlog = {} /\ Published \cap Always = {}
  /\ ClientCounters \cap ServerCounters = {}
  /\ Bells \subseteq {"condvar", "socket"}
  /\ SocketRoom \in Nat \ {0} /\ MaxProgress \in Nat

VARIABLES
  side,        \* whose bell it is: "client", "server"
  (* shared memory *)
  progress,    \* counter -> what has been published
  parked,      \* RingControl::producerParked / consumerParked
  wakeTarget,  \* RingControl::producerWakeSeq: the counter and value waited for
  bell,        \* its kind: CondVarDoorbell counts, SocketDoorbell queues bytes
  signals,     \* Notify calls the bell remembers
  dead,        \* m_dead
  (* the waiter *)
  pc,          \* where Wait stands
  parkBuf,     \* its stores to parked, not yet visible
  goal,        \* counter -> value the wait's condition asks for, of a subset
  finite,      \* the wait has a deadline
  result,      \* what Wait is about to return
  (* one notifier per counter *)
  npc,         \* where it stands
  pubBuf       \* its increment of the counter is not yet visible

waiterVars == <<pc, parkBuf, goal, finite, result>>
(* What a step inside Wait leaves alone. *)
waitVars == <<side, bell, progress, parked, wakeTarget, signals, dead, goal, finite, npc, pubBuf>>
vars == <<side, bell, progress, parked, wakeTarget, signals, dead, waiterVars, npc, pubBuf>>

NoTarget == <<>>

Reaches(g) == \E k \in DOMAIN g : progress[k] >= g[k]
Ready == Reaches(goal)

Mine == IF side = "client" THEN ClientCounters ELSE ServerCounters

Init ==
  /\ side \in {"client", "server"}
  /\ progress = [k \in Counters |-> 0] /\ parked = 0 /\ wakeTarget = NoTarget
  /\ bell \in Bells /\ signals = 0 /\ dead = FALSE
  /\ pc = "idle" /\ parkBuf = <<>> /\ goal = <<>> /\ finite = FALSE
  /\ result = "none"
  /\ npc = [k \in Counters |-> "idle"] /\ pubBuf = [k \in Counters |-> FALSE]

-----------------------------------------------------------------------------
(* The waiter *)

(* WaitForApplied and the *OrEventBacklog waits name one counter of        *)
(* NotifyClient as their wake target; the other waits leave it 0 and are   *)
(* rung for any progress.  The target's store is sequentially consistent.  *)
BeginWait(g, target, f) ==
  /\ pc = "idle"
  /\ target = NoTarget \/ parkBuf = <<>>
  /\ goal' = g /\ finite' = f
  /\ wakeTarget' = IF target = NoTarget THEN wakeTarget ELSE target
  /\ pc' = "test"
  /\ UNCHANGED <<side, bell, progress, parked, signals, dead, parkBuf, result, npc, pubBuf>>

Return(r) == pc' = "return" /\ result' = r

(* Slip: the wake target outlives the wait that named it. *)
EndWaitLeavesTarget ==
  /\ pc = "return"
  /\ pc' = "idle" /\ result' = "none" /\ goal' = <<>> /\ finite' = FALSE
  /\ UNCHANGED <<side, bell, progress, parked, wakeTarget, signals, dead, parkBuf, npc, pubBuf>>
EndWait ==
  /\ pc = "return"
  /\ wakeTarget = NoTarget \/ parkBuf = <<>>
  /\ pc' = "idle" /\ result' = "none" /\ goal' = <<>> /\ finite' = FALSE
  /\ wakeTarget' = NoTarget
  /\ UNCHANGED <<side, bell, progress, parked, signals, dead, parkBuf, npc, pubBuf>>

(* The first test and the spin. *)
Test ==
  /\ pc = "test"
  /\ IF Ready THEN Return("reached") ELSE pc' = "announce" /\ UNCHANGED result
  /\ UNCHANGED <<parkBuf, waitVars>>

StoreParked(v) == parkBuf' = Append(parkBuf, v)

Announce ==
  /\ pc = "announce"
  /\ StoreParked(1)
  /\ pc' = "fence"
  /\ UNCHANGED <<result, waitVars>>

(* Slip: no fence between the announcement and the re-test. *)
NoFence ==
  /\ pc = "fence"
  /\ pc' = "retest"
  /\ UNCHANGED <<parkBuf, result, waitVars>>
Fence ==
  /\ pc = "fence"
  /\ parkBuf = <<>>
  /\ pc' = "retest"
  /\ UNCHANGED <<parkBuf, result, waitVars>>

Retest ==
  /\ pc = "retest"
  /\ \/ Ready /\ StoreParked(0) /\ Return("reached")
     \/ ~Ready /\ finite /\ StoreParked(0) /\ pc' = "expired" /\ UNCHANGED result
     \/ ~Ready /\ pc' = "parked" /\ UNCHANGED <<parkBuf, result>>
  /\ UNCHANGED waitVars

(* The deadline passed before the park: one last test decides. *)
Expired ==
  /\ pc = "expired"
  /\ Return(IF Ready THEN "reached" ELSE "timeout")
  /\ UNCHANGED <<parkBuf, waitVars>>

(* CondVarDoorbell::Park takes one remembered signal; SocketDoorbell::Park *)
(* takes every queued byte.  A dead bell does not block.                   *)
Park ==
  /\ pc = "parked"
  /\ \/ dead /\ UNCHANGED signals
     \/ ~dead /\ signals > 0 /\ signals' = (IF bell = "condvar" THEN signals - 1 ELSE 0)
     \/ finite /\ UNCHANGED signals
  /\ pc' = "clear"
  /\ UNCHANGED <<side, bell, progress, parked, wakeTarget, dead, parkBuf, goal, finite, result, npc,
                 pubBuf>>

ClearParked ==
  /\ pc = "clear"
  /\ StoreParked(0)
  /\ pc' = "recheck"
  /\ UNCHANGED <<result, waitVars>>

(* Slip: a dead bell is parked on again. *)
RecheckIgnoresDeath ==
  /\ pc = "recheck"
  /\ IF Ready THEN Return("reached") ELSE pc' = "announce" /\ UNCHANGED result
  /\ UNCHANGED <<parkBuf, waitVars>>
Recheck ==
  /\ pc = "recheck"
  /\ \/ Ready /\ Return("reached")
     \/ ~Ready /\ dead /\ Return("shutdown")
     \/ ~Ready /\ ~dead /\ finite /\ Return("timeout")
     \/ ~Ready /\ ~dead /\ pc' = "announce" /\ UNCHANGED result
  /\ UNCHANGED <<parkBuf, waitVars>>

DrainParkBuf ==
  /\ parkBuf # <<>>
  /\ parked' = Head(parkBuf) /\ parkBuf' = Tail(parkBuf)
  /\ UNCHANGED <<side, bell, progress, wakeTarget, signals, dead, pc, goal, finite, result, npc,
                 pubBuf>>

-----------------------------------------------------------------------------
(* The notifiers *)

Publish(k) ==
  /\ k \in Mine /\ npc[k] = "idle" /\ ~pubBuf[k] /\ progress[k] < MaxProgress
  /\ pubBuf' = [pubBuf EXCEPT ![k] = TRUE]
  /\ npc' = [npc EXCEPT ![k] = IF k \in Always THEN "ring" ELSE "fence"]
  /\ UNCHANGED <<side, bell, progress, parked, wakeTarget, signals, dead, waiterVars>>

DrainPubBuf(k) ==
  /\ pubBuf[k]
  /\ pubBuf' = [pubBuf EXCEPT ![k] = FALSE]
  /\ progress' = [progress EXCEPT ![k] = @ + 1]
  /\ UNCHANGED <<side, bell, parked, wakeTarget, signals, dead, waiterVars, npc>>

(* Slip: the flag is read before the publication is visible. *)
NoNotifierFence(k) ==
  /\ npc[k] = "fence"
  /\ npc' = [npc EXCEPT ![k] = "flag"]
  /\ UNCHANGED <<side, bell, progress, parked, wakeTarget, signals, dead, waiterVars, pubBuf>>
NotifierFence(k) ==
  /\ npc[k] = "fence" /\ ~pubBuf[k]
  /\ npc' = [npc EXCEPT ![k] = "flag"]
  /\ UNCHANGED <<side, bell, progress, parked, wakeTarget, signals, dead, waiterVars, pubBuf>>

ReadParked(k) ==
  /\ npc[k] = "flag"
  /\ npc' = [npc EXCEPT ![k] = IF parked = 0 THEN "idle"
                               ELSE IF k \in Narrowed THEN "target" ELSE "ring"]
  /\ UNCHANGED <<side, bell, progress, parked, wakeTarget, signals, dead, waiterVars, pubBuf>>

(* NotifyClient does not ring a client parked for a sequence not reached,  *)
(* unless the event ring is full.  (It then rings WaitForApplied too, which *)
(* does not end for that: one more stale wakeup, left out here.)           *)
TargetReached ==
  \/ wakeTarget = NoTarget
  \/ progress[wakeTarget[1]] >= wakeTarget[2]
  \/ \E b \in DOMAIN goal \cap Backlog : progress[b] >= goal[b]

ReadTarget(k) ==
  /\ npc[k] = "target"
  /\ npc' = [npc EXCEPT ![k] = IF TargetReached THEN "ring" ELSE "idle"]
  /\ UNCHANGED <<side, bell, progress, parked, wakeTarget, signals, dead, waiterVars, pubBuf>>

(* Notify: the condvar counts every call, a full socket already holds a    *)
(* wakeup.  Both are system calls that order the publication before them.  *)
Ring(k) ==
  /\ npc[k] = "ring" /\ ~pubBuf[k]
  /\ signals' = IF bell = "condvar" \/ signals < SocketRoom THEN signals + 1 ELSE signals
  /\ npc' = [npc EXCEPT ![k] = "idle"]
  /\ UNCHANGED <<side, bell, progress, parked, wakeTarget, dead, waiterVars, pubBuf>>

(* Kill, or the death of the peer seen on the descriptor. *)
Kill ==
  /\ ~dead
  /\ dead' = TRUE
  /\ UNCHANGED <<side, bell, progress, parked, wakeTarget, signals, waiterVars, npc, pubBuf>>

-----------------------------------------------------------------------------

(* The waits of the program.  The client's: one counter of NotifyClient,   *)
(* narrowed to it, alone (WaitForApplied) or with a backlog counter        *)
(* (WaitFor*OrEventBacklog).  Either side's: one counter, not narrowed     *)
(* (WaitForCmdSpace, the stage wait, ReserveEventOrBlock).  The server's:  *)
(* everything (the apply loop's own park).                                 *)
Later(k) == progress[k] + 1 .. MaxProgress
StartWait ==
  \E f \in BOOLEAN :
    \/ \E k \in Narrowed \cap Mine : \E n \in Later(k) : BeginWait([j \in {k} |-> n], <<k, n>>, f)
    \/ \E k \in Narrowed \cap Mine, b \in Backlog : \E n \in Later(k) :
         BeginWait([j \in {k, b} |-> IF j = k THEN n ELSE progress[b] + 1], <<k, n>>, f)
    \/ \E k \in Mine : \E n \in Later(k) : BeginWait([j \in {k} |-> n], NoTarget, f)
    \/ side = "server" /\ BeginWait([j \in ServerCounters |-> progress[j] + 1], NoTarget, f)

WaiterStep ==
  EndWait \/ Test \/ Announce \/ Fence \/ Retest \/ Expired \/ Park \/ ClearParked \/ Recheck

NotifierStep(k) == DrainPubBuf(k) \/ NotifierFence(k) \/ ReadParked(k) \/ ReadTarget(k) \/ Ring(k)

Next ==
  \/ StartWait
  \/ WaiterStep
  \/ DrainParkBuf
  \/ \E k \in Counters : Publish(k) \/ NotifierStep(k)
  \/ Kill

Spec == Init /\ [][Next]_vars

(* Threads that are not blocked run and buffers drain.  Nothing makes a    *)
(* counter advance, a wait begin or a peer die.                            *)
FairSpec ==
  /\ Spec
  /\ WF_vars(WaiterStep) /\ WF_vars(DrainParkBuf)
  /\ \A k \in Counters : WF_vars(NotifierStep(k))

-----------------------------------------------------------------------------
(* Properties *)

(* Every variable has its type. *)
TypeOK ==
  /\ progress \in [Counters -> 0..MaxProgress]
  /\ parked \in {0, 1}
  /\ wakeTarget = NoTarget \/ wakeTarget \in Narrowed \X (1..MaxProgress + 1)
  /\ signals \in Nat /\ dead \in BOOLEAN
  /\ pc \in {"idle", "test", "announce", "fence", "retest", "expired", "parked", "clear",
             "recheck", "return"}
  /\ parkBuf \in Seq({0, 1}) /\ Len(parkBuf) <= 2
  /\ DOMAIN goal \subseteq Counters /\ \A k \in DOMAIN goal : goal[k] \in Nat
  /\ finite \in BOOLEAN /\ result \in {"none", "reached", "timeout", "shutdown"}
  /\ npc \in [Counters -> {"idle", "fence", "flag", "target", "ring"}]
  /\ pubBuf \in [Counters -> BOOLEAN]

(* A waiter really blocked, with what it waits for already published, has  *)
(* a ring coming: some notifier of a counter it waits for has not yet      *)
(* looked at the flag or is about to ring.  Doorbell.h: "a notifier        *)
(* reading 0 while the waiter is really parked" is ruled out.              *)
NoLostWakeup ==
  (pc = "parked" /\ ~dead /\ signals = 0 /\ Ready)
    => \E k \in DOMAIN goal : progress[k] >= goal[k] /\ npc[k] # "idle"

(* The last value the waiter stored to parked, visible or not.             *)
Announced == IF parkBuf = <<>> THEN parked ELSE parkBuf[Len(parkBuf)]

(* From the announcement to its withdrawal the flag is 1, and behind the   *)
(* fence every notifier sees it.                                           *)
AnnouncedInv ==
  /\ pc = "fence" => Announced = 1
  /\ pc \in {"retest", "parked", "clear"} => parked = 1 /\ parkBuf = <<>>
  /\ pc # "fence" => Len(parkBuf) <= 1

(* A publication not yet visible has a notifier that still has to order it.*)
PublisherInv ==
  /\ \A k \in Counters :
       pubBuf[k] => npc[k] \in {"fence", "ring"} /\ progress[k] < MaxProgress
  /\ \A k \in Counters : npc[k] = "target" => k \in Narrowed

(* The wake target is the goal of the wait in progress, and of no other.   *)
TargetInv ==
  /\ pc = "idle" => wakeTarget = NoTarget
  /\ wakeTarget # NoTarget =>
       /\ wakeTarget[1] \in DOMAIN goal /\ goal[wakeTarget[1]] = wakeTarget[2]
       /\ DOMAIN goal \subseteq {wakeTarget[1]} \cup Backlog

(* Behind the re-test, each counter that has reached its goal unseen has   *)
(* its notifier on the way, until one has rung.                            *)
WakeupInv ==
  pc = "parked" /\ signals = 0 =>
    \A k \in DOMAIN goal : progress[k] >= goal[k] => npc[k] # "idle"

(* A wait that says the condition was reached is never wrong: a stale      *)
(* wakeup, a wakeup meant for an earlier wait or a death is not taken for  *)
(* the event.                                                              *)
ReachedIsTrue == pc = "return" /\ result = "reached" => Ready

(* The inductive invariant. *)
IInv ==
  TypeOK /\ AnnouncedInv /\ PublisherInv /\ TargetInv /\ WakeupInv /\ ReachedIsTrue

(* What has been published ends the wait for it, however the ring, the     *)
(* narrowing and the buffers fell out.                                     *)
ReadyEndsWait == (pc # "idle" /\ Ready) ~> (pc = "idle")

(* A death ends every wait. *)
DeathEndsWait == (pc # "idle" /\ dead) ~> (pc = "idle")
=============================================================================
