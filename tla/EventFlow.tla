-------------------------------- MODULE EventFlow --------------------------------
(***************************************************************************)
(* Flow control of a session's two streams under run-ahead.  The client's  *)
(* GL thread publishes records on SEG_CMD and drains the reverse channel   *)
(* SEG_EVENT only at its waits (Client/ClientSession.cpp); the server's    *)
(* apply thread posts a record's events while it applies it and stops      *)
(* applying while SEG_EVENT is full (ServerSession.cpp ReserveEventOrBlock,*)
(* ServerLoop.cpp DrainRing).  eventRingFull is the latch between them.    *)
(* A drain delivers its events before it clears the latch, and what it     *)
(* calls may publish records of its own, which may wait in turn: the       *)
(* client's waits nest, and stack keeps those that are interrupted.        *)
(*                                                                         *)
(* CommandRing models the bytes of a ring and Doorbell the wakeups; here a *)
(* ring is a count of slots and a wait is enabled when its condition is.   *)
(***************************************************************************)
EXTENDS Naturals, Sequences

CONSTANTS
  CmdSlots,     \* records SEG_CMD holds until they are retired
  EventSlots,   \* events SEG_EVENT holds until they are drained
  Waits,        \* the waits the client's program gets into; "callback": with
                \* handlers that publish records
  Credit,       \* MG_Config::Ipc.PresentCredit: swaps the client may run ahead
  MaxRecords,   \* bound on the records of a behaviour
  MaxEvents     \* bound on its events

ASSUME FlowAssumption ==
  /\ CmdSlots \in Nat \ {0} /\ EventSlots \in Nat \ {0}
  /\ Waits \subseteq {"applied", "space", "stage", "window", "credit", "control", "callback"}
  /\ Credit \in Nat \ {0}
  /\ MaxRecords \in Nat /\ MaxEvents \in Nat

VARIABLES
  (* shared pages *)
  submitted,  \* records published
  applied,    \* appliedSeq
  retired,    \* retiredSeq; SEG_CMD and SEG_STAGE reclaim against it
  posted,     \* the sequence numbers that produced the events, in ring order
  shown,      \* events published (the event ring's head)
  drained,    \* events retired (its tail)
  latch,      \* eventRingFull
  swaps,      \* presentAckSerial: the swaps that returned
  control,    \* the control mailbox: "none", "posted" or "taken"
  (* the client's GL thread *)
  cpc,        \* what it is doing
  after,      \* what it does once the drain in progress is over
  target,     \* the sequence number its wait is about
  stack,      \* what its emissions interrupted: the call's place and locals
  popped,     \* events delivered to the frontend
  barrier,    \* the last record whose barrier has completed
  frames,     \* the sequence numbers of the presents, by serial
  (* the server's apply thread *)
  spc,        \* what it is doing
  forfeited   \* m_reverseChannelForfeit: an event was dropped

clientVars == <<submitted, cpc, after, target, stack, popped, barrier, drained, frames>>
serverVars == <<applied, retired, posted, shown, swaps, spc, forfeited>>
vars == <<clientVars, serverVars, latch, control>>

Init ==
  /\ submitted = 0 /\ applied = 0 /\ retired = 0
  /\ posted = <<>> /\ shown = 0 /\ drained = 0 /\ latch = FALSE
  /\ cpc = "run" /\ after = "run" /\ target = 0 /\ popped = 0 /\ barrier = 0
  /\ stack = <<>> /\ frames = <<>> /\ swaps = 0 /\ control = "none"
  /\ spc = "idle" /\ forfeited = FALSE

-----------------------------------------------------------------------------
(* The client *)

CmdRoom == submitted - retired < CmdSlots

BeginDrain(next) == cpc' = "pop" /\ after' = next

(* An emission that has to wait is a call: it interrupts what the client   *)
(* was at, and goes back to it.                                            *)
Resume(pc) == IF pc = "present" THEN "run" ELSE pc

Call(pc) ==
  /\ cpc' = pc
  /\ stack' = <<[pc |-> cpc, after |-> after, target |-> target]>> \o stack

Return ==
  /\ cpc' = Resume(Head(stack).pc) /\ after' = Head(stack).after /\ target' = Head(stack).target
  /\ stack' = Tail(stack)

(* Where records come from: the program; the handler of an event           *)
(* (kEventSurfaceChanged respecifies the default framebuffer's textures);  *)
(* and the pins released when a catch-up or a barrier has drained          *)
(* (ReleaseFillPins).                                                      *)
Callbacks == {"handler", "caughtup", "done"}
Emitting == cpc = "run" \/ (cpc \in Callbacks /\ "callback" \in Waits)

MayEmit == submitted < MaxRecords /\ (Emitting \/ cpc = "present")

(* EmitAndWaitTails, the publication.                                      *)
Publish(pc) ==
  /\ submitted' = submitted + 1
  /\ frames' = IF pc = "present" THEN Append(frames, submitted + 1) ELSE frames

(* A kWaitApplied or replying row waits for its apply, a present or a      *)
(* fire-and-forget row does not.                                           *)
Emit ==
  /\ MayEmit /\ CmdRoom
  /\ Publish(cpc)
  /\ \/ cpc' = Resume(cpc) /\ UNCHANGED <<target, stack>>
     \/ cpc # "present" /\ "applied" \in Waits /\ Call("applied") /\ target' = submitted + 1
  /\ UNCHANGED <<serverVars, latch, control, after, popped, barrier, drained>>

(* The ring has no room: WaitForCmdSpace, one drain, then the encode, which *)
(* is refused when the drain's handlers took the room                      *)
(* (Fatal{RingOverrun}).                                                   *)
NeedSpace ==
  /\ MayEmit /\ "space" \in Waits /\ ~CmdRoom
  /\ Call("space")
  /\ UNCHANGED <<serverVars, latch, control, submitted, after, target, popped, barrier, drained,
                 frames>>

SpaceFreed ==
  /\ cpc = "space" /\ CmdRoom
  /\ BeginDrain("emit")
  /\ UNCHANGED <<serverVars, latch, control, submitted, target, stack, popped, barrier, drained,
                 frames>>

EmitAfterWait ==
  /\ cpc = "emit" /\ CmdRoom
  /\ Publish(Head(stack).pc)
  /\ \/ Return
     \/ /\ Head(stack).pc # "present" /\ "applied" \in Waits
        /\ cpc' = "applied" /\ target' = submitted + 1
        /\ UNCHANGED <<after, stack>>
  /\ UNCHANGED <<serverVars, latch, control, popped, barrier, drained>>

EncodeRefused ==
  /\ cpc = "emit" /\ ~CmdRoom
  /\ cpc' = "fatal"
  /\ UNCHANGED <<serverVars, latch, control, submitted, after, target, stack, popped, barrier,
                 drained, frames>>

(* StageAllocate finds no room behind a record not yet retired: drain,     *)
(* park until it is, drain.                                                *)
NeedStage ==
  /\ cpc = "run" /\ "stage" \in Waits /\ retired < submitted
  /\ \E seq \in retired + 1 .. submitted : target' = seq
  /\ BeginDrain("stage")
  /\ UNCHANGED <<serverVars, latch, control, submitted, stack, popped, barrier, drained, frames>>

StageRetired ==
  /\ cpc = "stage" /\ retired >= target
  /\ BeginDrain("run")
  /\ UNCHANGED <<serverVars, latch, control, submitted, target, stack, popped, barrier, drained,
                 frames>>

(* DrainCreateWindow's blocking take, on a link that retains answers: the  *)
(* window of deferred creates (two or more) is full and the client waits   *)
(* for the oldest, on the watermark alone and without a drain.             *)
NeedOldestAnswer ==
  /\ Emitting /\ "window" \in Waits
  /\ \E seq \in applied + 1 .. submitted - 1 : target' = seq
  /\ Call("window")
  /\ UNCHANGED <<serverVars, latch, control, submitted, after, popped, barrier, drained, frames>>

OldestAnswered ==
  /\ cpc = "window" /\ applied >= target
  /\ Return
  /\ UNCHANGED <<serverVars, latch, control, submitted, popped, barrier, drained, frames>>

(* AcquirePresentCredit: present number n waits for swap n - Credit.       *)
StartPresent ==
  /\ cpc = "run" /\ "credit" \in Waits /\ submitted < MaxRecords
  /\ IF Len(frames) >= Credit
     THEN cpc' = "credit" /\ target' = Len(frames) + 1 - Credit
     ELSE cpc' = "present" /\ UNCHANGED target
  /\ UNCHANGED <<serverVars, latch, control, submitted, after, stack, popped, barrier, drained,
                 frames>>

(* WaitForApplyToCatchUp, before every EGL forwarder of an in-process      *)
(* session: the control mailbox is no part of the ordered stream.  Each    *)
(* round drains and releases the pins, and another follows when those      *)
(* published records, or when the watermark is still behind.               *)
CatchUp ==
  /\ cpc = "run" /\ "control" \in Waits
  /\ cpc' = IF submitted = 0 THEN "post" ELSE "catchup"
  /\ target' = submitted
  /\ UNCHANGED <<serverVars, latch, control, submitted, after, stack, popped, barrier, drained,
                 frames>>

CaughtUp ==
  /\ cpc = "caughtup"
  /\ IF submitted = target /\ applied >= target
     THEN cpc' = "post" /\ UNCHANGED target
     ELSE cpc' = "catchup" /\ target' = submitted
  /\ UNCHANGED <<serverVars, latch, control, submitted, after, stack, popped, barrier, drained,
                 frames>>

(* PostSurfaceControlFrame, then the block on m_controlDone; the forwarder *)
(* drains what the frame published.                                        *)
PostControl ==
  /\ cpc = "post" /\ spc # "ended"
  /\ cpc' = "control" /\ control' = "posted"
  /\ UNCHANGED <<serverVars, latch, submitted, after, target, stack, popped, barrier, drained,
                 frames>>

ControlAnswered ==
  /\ cpc = "control" /\ control = "none"
  /\ BeginDrain("run")
  /\ UNCHANGED <<serverVars, latch, control, submitted, target, stack, popped, barrier, drained,
                 frames>>

(* The parks that also break on a full event ring                          *)
(* (WaitForAppliedOrEventBacklog, WaitForPresentAckOrEventBacklog): what   *)
(* each waits for, and where it goes from there.  Every exit drains, and   *)
(* one that found only the backlog waits again; the catch-up decides after *)
(* its drain.  Slips: the watermark alone; the watermark taken for reached *)
(* when it was the backlog.                                                *)
Parks == {"applied", "catchup", "credit"}
Watermark == IF cpc = "credit" THEN swaps ELSE applied
Onward ==
  CASE cpc = "applied" -> "done" [] cpc = "catchup" -> "caughtup" [] cpc = "credit" -> "present"

WatermarkAlone ==
  /\ cpc \in Parks /\ Watermark >= target
  /\ BeginDrain(Onward)
  /\ UNCHANGED <<serverVars, latch, control, submitted, target, stack, popped, barrier, drained,
                 frames>>
BacklogTakenForWatermark ==
  /\ cpc \in Parks /\ (Watermark >= target \/ latch)
  /\ BeginDrain(Onward)
  /\ UNCHANGED <<serverVars, latch, control, submitted, target, stack, popped, barrier, drained,
                 frames>>
WatermarkOrBacklog ==
  /\ cpc \in Parks /\ (Watermark >= target \/ latch)
  /\ BeginDrain(IF Watermark >= target \/ cpc = "catchup" THEN Onward ELSE cpc)
  /\ UNCHANGED <<serverVars, latch, control, submitted, target, stack, popped, barrier, drained,
                 frames>>

BarrierDone ==
  /\ cpc = "done"
  /\ barrier' = target
  /\ Return
  /\ UNCHANGED <<serverVars, latch, control, submitted, popped, drained, frames>>

(* PollEntry: an entry point that drains without waiting. *)
PollEntry ==
  /\ cpc = "run"
  /\ BeginDrain("run")
  /\ UNCHANGED <<serverVars, latch, control, submitted, target, stack, popped, barrier, drained,
                 frames>>

(* DrainEventRing: deliver what the ring shows, each event to its handler, *)
(* then Drained(): release the bytes, then clear the latch.                *)
PopEvent ==
  /\ cpc = "pop" /\ popped < shown
  /\ popped' = popped + 1 /\ cpc' = "handler"
  /\ UNCHANGED <<serverVars, latch, control, submitted, after, target, stack, barrier, drained,
                 frames>>

HandlerDone ==
  /\ cpc = "handler"
  /\ cpc' = "pop"
  /\ UNCHANGED <<serverVars, latch, control, submitted, after, target, stack, popped, barrier,
                 drained, frames>>

NoMoreEvents ==
  /\ cpc = "pop" /\ popped = shown
  /\ cpc' = "release"
  /\ UNCHANGED <<serverVars, latch, control, submitted, after, target, stack, popped, barrier,
                 drained, frames>>

(* Slip: the head is released instead of what was delivered. *)
ReleaseWhatIsShown ==
  /\ cpc = "release"
  /\ drained' = shown /\ cpc' = "clear"
  /\ UNCHANGED <<serverVars, latch, control, submitted, after, target, stack, popped, barrier,
                 frames>>
Release ==
  /\ cpc = "release"
  /\ drained' = popped /\ cpc' = "clear"
  /\ UNCHANGED <<serverVars, latch, control, submitted, after, target, stack, popped, barrier,
                 frames>>

ClearLatch ==
  /\ cpc = "clear"
  /\ latch' = FALSE /\ cpc' = after
  /\ UNCHANGED <<serverVars, control, submitted, after, target, stack, popped, barrier, drained,
                 frames>>

(* The server is gone: the bell is dead and a park ends without its event. *)
Shutdown ==
  /\ cpc \in {"applied", "space", "stage", "window", "catchup", "credit", "post"}
  /\ spc = "ended"
  /\ cpc' = "lost"
  /\ UNCHANGED <<serverVars, latch, control, submitted, after, target, stack, popped, barrier,
                 drained, frames>>

-----------------------------------------------------------------------------
(* The server *)

PopRecord ==
  /\ spc \in {"idle", "batch"} /\ applied < submitted /\ ~forfeited
  /\ spc' = "apply"
  /\ UNCHANGED <<clientVars, latch, control, applied, retired, posted, shown, swaps, forfeited>>

(* PumpControlRequest, between two batches.                                *)
TakeControl ==
  /\ spc = "idle" /\ control = "posted"
  /\ spc' = "serve" /\ control' = "taken"
  /\ UNCHANGED <<clientVars, latch, applied, retired, posted, shown, swaps, forfeited>>

(* The record or the control frame in hand posts an event: Reserve against *)
(* the ring's tail, fill, publish.  Events of a session that has forfeited *)
(* are dropped.                                                            *)
WantEvent ==
  /\ spc \in {"apply", "serve"} /\ ~forfeited /\ Len(posted) < MaxEvents
  /\ spc' = "reserve"
  /\ UNCHANGED <<clientVars, latch, control, applied, retired, posted, shown, swaps, forfeited>>

ReserveEvent ==
  /\ spc = "reserve"
  /\ IF Len(posted) - drained < EventSlots
     THEN posted' = Append(posted, applied + 1) /\ spc' = "publish"
     ELSE spc' = "latch" /\ UNCHANGED posted
  /\ UNCHANGED <<clientVars, latch, control, applied, retired, shown, swaps, forfeited>>

(* A control frame publishes one event, the surface it changed. *)
EventPosted == IF control = "taken" THEN "answer" ELSE "apply"

PublishEvents ==
  /\ spc = "publish"
  /\ shown' = Len(posted) /\ spc' = EventPosted
  /\ UNCHANGED <<clientVars, latch, control, applied, retired, posted, swaps, forfeited>>

RaiseLatch ==
  /\ spc = "latch"
  /\ latch' = TRUE /\ spc' = "blocked"
  /\ UNCHANGED <<clientVars, control, applied, retired, posted, shown, swaps, forfeited>>

(* The client cleared the latch; what it freed may still be too little.    *)
BacklogDrained ==
  /\ spc = "blocked" /\ ~latch
  /\ spc' = "reserve"
  /\ UNCHANGED <<clientVars, latch, control, applied, retired, posted, shown, swaps, forfeited>>

(* ForfeitReverseChannel: MOBILEGL_IPC_EVENT_WAIT_MS is spent, the server  *)
(* is stopped or the peer is gone.  The event is dropped, its record is    *)
(* still applied and acknowledged, and it is the session's last.           *)
Forfeit ==
  /\ spc = "blocked"
  /\ forfeited' = TRUE /\ spc' = EventPosted
  /\ UNCHANGED <<clientVars, latch, control, applied, retired, posted, shown, swaps>>

(* A present's swap has returned: its credit goes back, before appliedSeq. *)
SwapOwed == swaps < Len(frames) /\ frames[swaps + 1] = applied + 1

ReturnPresentCredit ==
  /\ spc = "apply" /\ SwapOwed
  /\ swaps' = swaps + 1
  /\ UNCHANGED <<clientVars, latch, control, applied, retired, posted, shown, spc, forfeited>>

(* SessionConsumer::ApplyOne: appliedSeq after the apply returned. *)
AdvanceApplied ==
  /\ spc = "apply" /\ ~SwapOwed
  /\ applied' = applied + 1 /\ spc' = "batch"
  /\ UNCHANGED <<clientVars, latch, control, retired, posted, shown, swaps, forfeited>>

(* DrainRing's retire, once per batch: when the ring is empty or the       *)
(* channel was forfeited.  Slip: the forfeit does not end the session.     *)
RetireAndStay ==
  /\ spc = "batch" /\ (applied = submitted \/ forfeited)
  /\ retired' = applied /\ spc' = "idle"
  /\ UNCHANGED <<clientVars, latch, control, applied, posted, shown, swaps, forfeited>>
RetireBatch ==
  /\ spc = "batch" /\ (applied = submitted \/ forfeited)
  /\ retired' = applied
  /\ spc' = IF forfeited THEN "ended" ELSE "idle"
  /\ UNCHANGED <<clientVars, latch, control, applied, posted, shown, swaps, forfeited>>

(* The frame's reply; a session that forfeited inside it ends, and a       *)
(* thread that has ended answers what is still posted.                     *)
AnswerControl ==
  /\ spc \in {"serve", "answer"} \/ (spc = "ended" /\ control = "posted")
  /\ control' = "none"
  /\ spc' = IF forfeited THEN "ended" ELSE "idle"
  /\ UNCHANGED <<clientVars, latch, applied, retired, posted, shown, swaps, forfeited>>

-----------------------------------------------------------------------------

ClientStep ==
  \/ SpaceFreed \/ EmitAfterWait \/ EncodeRefused \/ StageRetired \/ OldestAnswered
  \/ CaughtUp \/ PostControl \/ ControlAnswered \/ WatermarkOrBacklog \/ BarrierDone
  \/ PopEvent \/ HandlerDone \/ NoMoreEvents \/ Release \/ ClearLatch \/ Shutdown

ServerStep ==
  \/ PopRecord \/ TakeControl \/ ReserveEvent \/ PublishEvents \/ RaiseLatch \/ BacklogDrained
  \/ ReturnPresentCredit \/ AdvanceApplied \/ RetireBatch \/ AnswerControl

Next ==
  \/ Emit \/ NeedSpace \/ NeedStage \/ NeedOldestAnswer \/ StartPresent \/ CatchUp \/ PollEntry
  \/ ClientStep \/ WantEvent \/ ServerStep \/ Forfeit

Spec == Init /\ [][Next]_vars

(* Neither thread stops by itself.  The client may issue nothing more, a   *)
(* record may post nothing more, and nothing makes the server's budget     *)
(* expire: what ends ends without a forfeit.                               *)
FairSpec == Spec /\ WF_vars(ClientStep) /\ WF_vars(ServerStep)

-----------------------------------------------------------------------------
(* Properties *)

Places == {"run", "applied", "space", "stage", "window", "catchup", "caughtup", "credit", "post",
           "control", "present", "emit", "pop", "handler", "release", "clear", "done", "lost",
           "fatal"}
AfterDrain == {"run", "emit", "stage", "applied", "catchup", "caughtup", "credit", "present",
               "done"}
Frame == [pc : Callbacks \union {"run", "present"}, after : AfterDrain, target : Nat]

(* Every variable has its type, and each counter its place. *)
TypeOK ==
  /\ submitted \in Nat /\ applied \in 0..submitted /\ retired \in 0..applied
  /\ posted \in Seq(Nat) /\ Len(posted) <= MaxEvents
  /\ shown \in 0..Len(posted) /\ popped \in 0..shown /\ drained \in 0..popped
  /\ latch \in BOOLEAN /\ forfeited \in BOOLEAN
  /\ frames \in Seq(Nat) /\ swaps \in 0..Len(frames)
  /\ control \in {"none", "posted", "taken"}
  /\ cpc \in Places /\ after \in AfterDrain /\ target \in Nat /\ barrier \in Nat
  /\ stack \in Seq(Frame)
  /\ spc \in {"idle", "apply", "serve", "reserve", "latch", "publish", "blocked", "answer",
              "batch", "ended"}

(* What a call at place pc is about: a drain is part of what comes after.  *)
Draining == {"pop", "handler", "release", "clear"}
About(pc, next) == IF pc \in Draining THEN next ELSE pc

(* An emission, and the barrier it ends in, has a caller to return to;     *)
(* the program's own calls have none.                                      *)
Called == {"space", "emit", "window", "applied", "done"}
CallInv ==
  /\ cpc \notin {"lost", "fatal"} => (About(cpc, after) \in Called <=> stack # <<>>)
  /\ \A i \in DOMAIN stack : About(stack[i].pc, stack[i].after) \in Called <=> i < Len(stack)

(* What the server has in hand: a control frame, which no record is beside *)
(* (the catch-up is there for that), or a record not yet applied.          *)
FramesFindNoRecord == control # "none" => applied = submitted

HandInv ==
  /\ FramesFindNoRecord /\ (cpc = "post" => applied = submitted)
  /\ control # "none" => cpc = "control"
  /\ control = "taken" => spc \in {"serve", "reserve", "latch", "publish", "blocked", "answer"}
  /\ spc \in {"serve", "answer"} => control = "taken"
  /\ spc \in {"apply", "reserve", "latch", "publish", "blocked"} /\ control # "taken"
       => applied < submitted
  /\ spc \in {"reserve", "latch", "blocked"} => Len(posted) < MaxEvents

(* An event is published before the record that posted it counts as        *)
(* applied.                                                                *)
ShownInv ==
  /\ spc = "publish" => shown = Len(posted) - 1 /\ posted[Len(posted)] = applied + 1
  /\ spc # "publish" => shown = Len(posted)
  /\ \A i \in DOMAIN posted : posted[i] <= applied + 1

(* What the drain in progress still has to deliver for the barrier that    *)
(* ordered it, and what it has delivered.                                  *)
DeliveredTo(seq) == \A i \in DOMAIN posted : posted[i] <= seq => i <= popped

BarrierAt(pc, next, seq) ==
  /\ About(pc, next) = "done" => seq <= applied
  /\ pc = "done" \/ (pc \in {"release", "clear"} /\ next = "done") => DeliveredTo(seq)

BarrierInv ==
  /\ barrier <= applied /\ DeliveredTo(barrier)
  /\ BarrierAt(cpc, after, target)
  /\ \A i \in DOMAIN stack : BarrierAt(stack[i].pc, stack[i].after, stack[i].target)

(* A present that may be emitted has its credit; one that waits for it     *)
(* waits for the right swap.                                               *)
CreditAt(pc, next, swap) ==
  /\ About(pc, next) = "present" => Len(frames) < swaps + Credit
  /\ About(pc, next) = "credit" => swap = Len(frames) + 1 - Credit /\ Credit <= Len(frames)

CreditInv ==
  /\ Len(frames) <= swaps + Credit
  /\ CreditAt(cpc, after, target)
  /\ \A i \in DOMAIN stack : CreditAt(stack[i].pc, stack[i].after, stack[i].target)

(* No event's bytes are written over before the client has delivered it.   *)
EventsKeptUntilDelivered == Len(posted) - popped <= EventSlots

(* And the server never counts as free what the client has not released.   *)
ReleaseInv == Len(posted) - drained <= EventSlots

(* The inductive invariant. *)
IInv == TypeOK /\ CallInv /\ HandInv /\ ShownInv /\ BarrierInv /\ CreditInv /\ ReleaseInv

(* When a barrier has completed, every event of its record and of the      *)
(* records before it has been delivered to the frontend: it is what lets a *)
(* readback or a glGetError after a barriered call see what the call did.  *)
BarrierSeesItsEvents == DeliveredTo(barrier)

(* A server stopped on a full event ring never has a client parked behind  *)
(* it: "the server blocks only here, and every client park also breaks on  *)
(* eventRingFull" (ServerSession.cpp).                                     *)
NoCircularWait ==
  (spc = "blocked" /\ latch) =>
    (cpc \in Parks \union {"space", "stage", "window", "control"} => ENABLED ClientStep)

(* A client never runs more swaps ahead of the server than its credit.     *)
CreditPaces == Len(frames) <= swaps + Credit

(* What a callback emits waits for the applier without looking at the      *)
(* latch, and the wait or the drain it interrupts does not go on meanwhile. *)
CallbackParked ==
  cpc \in {"space", "window"} /\ \E i \in DOMAIN stack : stack[i].pc \in Callbacks

Over == {"run", "present", "lost", "fatal"}

(* A barrier, a credit wait and a catch-up end, without a forfeit, however *)
(* often the event ring fills meanwhile and whatever the server was doing, *)
(* unless what a callback emits waits for ever.                            *)
BarrierEnds == []<>~CallbackParked => (cpc \in Parks ~> cpc \in Over \union {"post"})

(* Once the server's MOBILEGL_IPC_EVENT_WAIT_MS may run out, every wait    *)
(* ends, those that a full event ring does not end included.               *)
EveryWaitEnds == WF_vars(Forfeit) => (cpc \notin Over ~> cpc \in Over)
=============================================================================
