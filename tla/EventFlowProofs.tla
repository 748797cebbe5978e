----------------------------- MODULE EventFlowProofs -----------------------------
(***************************************************************************)
(* The safety of EventFlow, for every size of the two rings, every set of  *)
(* waits, every credit and calls nested to any depth: IInv is inductive,   *)
(* and with it a completed barrier has seen its events, the client never   *)
(* runs more swaps ahead than its credit, no event's bytes are reused      *)
(* before it is delivered, and a control frame finds no record in the      *)
(* stream.  Each conjunct of IInv has a lemma of its own, which rests on   *)
(* those before it, with one step per action that can disturb it; what an  *)
(* emission pushes on the stack and takes back is in the lemmas on frames. *)
(* That the waits end (BarrierEnds, EveryWaitEnds) is left to the runs.    *)
(***************************************************************************)
EXTENDS EventFlow, TLAPS

(* A session starts with nothing published on either stream.               *)
LEMMA InitIInv == Init => IInv
<1> SUFFICES ASSUME Init PROVE IInv
  OBVIOUS
<1> USE FlowAssumption
<1>1. TypeOK
  <2>1. /\ submitted = 0 /\ applied = 0 /\ retired = 0 /\ shown = 0 /\ popped = 0 /\ drained = 0
        /\ swaps = 0 /\ target = 0 /\ barrier = 0
    BY DEF Init
  <2>2. /\ posted \in Seq(Nat) /\ Len(posted) = 0 /\ stack \in Seq(Frame)
        /\ frames \in Seq(Nat) /\ Len(frames) = 0
    BY DEF Init
  <2>3. /\ latch = FALSE /\ forfeited = FALSE /\ control = "none"
        /\ cpc = "run" /\ after = "run" /\ spc = "idle"
    BY DEF Init
  <2>4. /\ submitted \in Nat /\ applied \in 0..submitted /\ retired \in 0..applied
        /\ Len(posted) <= MaxEvents /\ shown \in 0..Len(posted) /\ popped \in 0..shown
        /\ drained \in 0..popped /\ swaps \in 0..Len(frames) /\ target \in Nat /\ barrier \in Nat
    BY <2>1, <2>2
  <2>5. QED
    BY <2>2, <2>3, <2>4 DEF TypeOK, Places, AfterDrain
<1>2. CallInv /\ HandInv /\ ShownInv
  BY DEF Init, CallInv, About, Called, Draining, HandInv, FramesFindNoRecord, ShownInv
<1>3. BarrierInv /\ CreditInv /\ ReleaseInv
  BY DEF Init, BarrierInv, BarrierAt, DeliveredTo, CreditInv, CreditAt, ReleaseInv, About, Draining
<1>4. QED
  BY <1>1, <1>2, <1>3 DEF IInv

(* An event appended to the ring: the ones before it keep their place.     *)
LEMMA Appended == ASSUME NEW S, NEW seq \in Seq(S), NEW e \in S
                  PROVE  /\ Append(seq, e) \in Seq(S) /\ Len(Append(seq, e)) = Len(seq) + 1
                         /\ DOMAIN Append(seq, e) = 1..Len(seq) + 1 /\ DOMAIN seq = 1..Len(seq)
                         /\ Len(seq) \in Nat
                         /\ \A i \in 1..Len(seq) : Append(seq, e)[i] = seq[i]
                         /\ Append(seq, e)[Len(seq) + 1] = e
  OBVIOUS

(* What was delivered up to n is not undone by an event of a later record. *)
LEMMA AppendedLater == ASSUME NEW S \in SUBSET Nat, NEW seq \in Seq(S), NEW e \in S,
                              NEW n \in Nat, NEW p, n < e,
                              \A i \in DOMAIN seq : seq[i] <= n => i <= p
                       PROVE  \A i \in DOMAIN Append(seq, e) : Append(seq, e)[i] <= n => i <= p
<1> SUFFICES ASSUME NEW i \in DOMAIN Append(seq, e), Append(seq, e)[i] <= n PROVE i <= p
  OBVIOUS
<1>1. i \in 1..Len(seq) + 1 /\ i # Len(seq) + 1 /\ Len(seq) \in Nat
  BY Appended
<1>2. i \in DOMAIN seq /\ seq[i] = Append(seq, e)[i]
  BY <1>1, Appended
<1>3. QED
  BY <1>2

(* A call keeps the interrupted place on top of the stack.                 *)
LEMMA Pushed == ASSUME NEW S, NEW s \in Seq(S), NEW f \in S
                PROVE  /\ <<f>> \o s \in Seq(S) /\ Len(s) \in Nat /\ Len(<<f>> \o s) = Len(s) + 1
                       /\ DOMAIN (<<f>> \o s) = 1..Len(s) + 1 /\ DOMAIN s = 1..Len(s)
                       /\ (<<f>> \o s)[1] = f /\ <<f>> \o s # <<>>
                       /\ \A i \in 1..Len(s) + 1 : i # 1 => (<<f>> \o s)[i] = s[i - 1]
  OBVIOUS

LEMMA Empty == ASSUME NEW S, NEW s \in Seq(S) PROVE s = <<>> <=> Len(s) = 0
  OBVIOUS

LEMMA Popped == ASSUME NEW S, NEW s \in Seq(S), s # <<>>
                PROVE  /\ Head(s) \in S /\ Tail(s) \in Seq(S) /\ 1 \in DOMAIN s /\ Head(s) = s[1]
                       /\ Len(s) \in Nat /\ Len(s) >= 1 /\ Len(Tail(s)) = Len(s) - 1
                       /\ DOMAIN Tail(s) = 1..Len(s) - 1 /\ DOMAIN s = 1..Len(s)
                       /\ \A i \in 1..Len(s) - 1 : Tail(s)[i] = s[i + 1]
                       /\ Tail(s) = <<>> <=> Len(s) = 1
<1>1. /\ Head(s) \in S /\ Tail(s) \in Seq(S) /\ 1 \in DOMAIN s /\ Head(s) = s[1]
      /\ Len(s) \in Nat /\ Len(s) >= 1 /\ Len(Tail(s)) = Len(s) - 1
      /\ DOMAIN Tail(s) = 1..Len(s) - 1 /\ DOMAIN s = 1..Len(s)
  OBVIOUS
<1>2. \A i \in 1..Len(s) - 1 : Tail(s)[i] = s[i + 1]
  OBVIOUS
<1>3. Tail(s) = <<>> <=> Len(Tail(s)) = 0
  <2>1. Tail(s) \in Seq(S)
    BY <1>1
  <2> HIDE <1>1
  <2>2. QED
    BY <2>1, Empty
<1>4. QED
  BY <1>1, <1>2, <1>3

LEMMA CallFrames ==
  ASSUME TypeOK, NEW pc, Call(pc), cpc \in Callbacks \union {"run", "present"}
  PROVE  /\ cpc' = pc /\ stack' \in Seq(Frame) /\ stack' # <<>> /\ Len(stack) \in Nat
         /\ Len(stack') = Len(stack) + 1 /\ DOMAIN stack' = 1..Len(stack) + 1
         /\ DOMAIN stack = 1..Len(stack)
         /\ stack'[1].pc = cpc /\ stack'[1].after = after /\ stack'[1].target = target
         /\ \A i \in 1..Len(stack) + 1 : i # 1 => stack'[i] = stack[i - 1]
<1> DEFINE f == [pc |-> cpc, after |-> after, target |-> target]
<1>1. f \in Frame /\ f.pc = cpc /\ f.after = after /\ f.target = target
  BY DEF TypeOK, Frame
<1>2. stack \in Seq(Frame) /\ stack' = <<f>> \o stack /\ cpc' = pc
  BY DEF TypeOK, Call
<1> HIDE DEF f
<1>3. QED
  BY <1>1, <1>2, Pushed

LEMMA ReturnFrames ==
  ASSUME TypeOK, Return, stack # <<>>
  PROVE  /\ stack[1] \in Frame /\ 1 \in DOMAIN stack /\ Head(stack) = stack[1]
         /\ cpc' = Resume(stack[1].pc) /\ after' = stack[1].after /\ target' = stack[1].target
         /\ stack' \in Seq(Frame) /\ Len(stack) \in Nat /\ Len(stack) >= 1
         /\ Len(stack') = Len(stack) - 1 /\ (stack' = <<>> <=> Len(stack) = 1)
         /\ DOMAIN stack' = 1..Len(stack) - 1 /\ DOMAIN stack = 1..Len(stack)
         /\ \A i \in 1..Len(stack) - 1 : stack'[i] = stack[i + 1]
<1>1. stack \in Seq(Frame) /\ stack' = Tail(stack)
  BY DEF TypeOK, Return
<1>2. /\ cpc' = Resume(Head(stack).pc) /\ after' = Head(stack).after
      /\ target' = Head(stack).target
  BY DEF Return
<1>3. QED
  BY <1>1, <1>2, Popped

(* A barrier's, an emission's and an answer's end is reached by a call.    *)
LEMMA HasCaller == ASSUME CallInv, cpc \in Called PROVE stack # <<>>
  BY DEF CallInv, Called, About, Draining

LEMMA PublishedFrames ==
  ASSUME TypeOK, NEW pc, Publish(pc)
  PROVE  /\ submitted' = submitted + 1 /\ frames' \in Seq(Nat)
         /\ Len(frames) \in Nat /\ Len(frames') \in {Len(frames), Len(frames) + 1}
         /\ pc # "present" => frames' = frames
<1>1. submitted + 1 \in Nat /\ frames \in Seq(Nat)
  BY DEF TypeOK
<1>2. /\ Append(frames, submitted + 1) \in Seq(Nat) /\ Len(frames) \in Nat
      /\ Len(Append(frames, submitted + 1)) = Len(frames) + 1
  BY <1>1, Appended
<1>3. QED
  BY <1>1, <1>2 DEF Publish

LEMMA Returned == ASSUME TypeOK, Return, stack # <<>>
                  PROVE  /\ cpc' \in Callbacks \union {"run"} /\ cpc' \in Places
                         /\ after' \in AfterDrain /\ target' \in Nat /\ stack' \in Seq(Frame)
  BY ReturnFrames DEF Frame, Resume, Callbacks, Places

(* A watermark never passes what it follows; an event is only posted by a  *)
(* record or a frame that still had its place, and an emission that waited *)
(* goes back to the call it interrupted.                                   *)
LEMMA TypeStep == ASSUME TypeOK, CallInv, HandInv, [Next]_vars PROVE TypeOK'
<1> USE FlowAssumption DEF TypeOK, HandInv, FramesFindNoRecord, vars, clientVars, serverVars
<1>1. CASE Emit
  <2>1. /\ Publish(cpc) /\ cpc \in Callbacks \union {"run", "present"}
        /\ UNCHANGED <<serverVars, latch, control, after, popped, barrier, drained>>
    BY <1>1 DEF Emit, MayEmit, Emitting
  <2>2. /\ submitted' = submitted + 1 /\ frames' \in Seq(Nat) /\ swaps \in 0..Len(frames')
    BY <2>1, PublishedFrames
  <2>3. cpc' \in Places /\ target' \in Nat /\ stack' \in Seq(Frame)
    <3>1. CASE cpc' = Resume(cpc) /\ UNCHANGED <<target, stack>>
      BY <3>1 DEF Resume, Places
    <3>2. CASE Call("applied") /\ target' = submitted + 1
      BY <2>1, <3>2, CallFrames DEF Places
    <3>3. QED
      BY <1>1, <3>1, <3>2 DEF Emit
  <2>4. QED
    BY <2>1, <2>2, <2>3
<1>2. CASE NeedSpace
  <2>1. Call("space") /\ cpc \in Callbacks \union {"run", "present"}
    BY <1>2 DEF NeedSpace, MayEmit, Emitting
  <2>2. cpc' \in Places /\ stack' \in Seq(Frame)
    BY <2>1, CallFrames DEF Places
  <2>3. QED
    BY <1>2, <2>2 DEF NeedSpace
<1>3. CASE NeedStage
  BY <1>3 DEF NeedStage, BeginDrain, Places, AfterDrain
<1>4. CASE NeedOldestAnswer
  <2>1. Call("window") /\ cpc \in Callbacks \union {"run", "present"} /\ target' \in Nat
    BY <1>4 DEF NeedOldestAnswer, Emitting
  <2>2. cpc' \in Places /\ stack' \in Seq(Frame)
    BY <2>1, CallFrames DEF Places
  <2>3. QED
    BY <1>4, <2>1, <2>2 DEF NeedOldestAnswer
<1>5. CASE StartPresent
  BY <1>5 DEF StartPresent, Places, AfterDrain
<1>6. CASE CatchUp
  BY <1>6 DEF CatchUp, Places, AfterDrain
<1>7. CASE PollEntry
  BY <1>7 DEF PollEntry, BeginDrain, Places, AfterDrain
<1>8. CASE SpaceFreed
  BY <1>8 DEF SpaceFreed, BeginDrain, Places, AfterDrain, CmdRoom
<1>9. CASE EmitAfterWait
  <2>1. /\ Publish(Head(stack).pc) /\ stack # <<>>
        /\ UNCHANGED <<serverVars, latch, control, popped, barrier, drained>>
    BY <1>9, HasCaller DEF EmitAfterWait, Called
  <2>2. /\ submitted' = submitted + 1 /\ frames' \in Seq(Nat) /\ swaps \in 0..Len(frames')
    BY <2>1, PublishedFrames
  <2>3. cpc' \in Places /\ after' \in AfterDrain /\ target' \in Nat /\ stack' \in Seq(Frame)
    <3>1. CASE Return
      BY <2>1, <3>1, Returned
    <3>2. CASE cpc' = "applied" /\ target' = submitted + 1 /\ UNCHANGED <<after, stack>>
      BY <3>2 DEF Places
    <3>3. QED
      BY <1>9, <3>1, <3>2 DEF EmitAfterWait
  <2>4. QED
    BY <2>1, <2>2, <2>3
<1>10. CASE EncodeRefused
  BY <1>10 DEF EncodeRefused, Places, AfterDrain
<1>11. CASE StageRetired
  BY <1>11 DEF StageRetired, BeginDrain, Places, AfterDrain
<1>12. CASE OldestAnswered
  <2>1. Return /\ stack # <<>>
    BY <1>12, HasCaller DEF OldestAnswered, Called
  <2>2. cpc' \in Places /\ after' \in AfterDrain /\ target' \in Nat /\ stack' \in Seq(Frame)
    BY <2>1, Returned
  <2>3. QED
    BY <1>12, <2>2 DEF OldestAnswered
<1>13. CASE CaughtUp
  BY <1>13 DEF CaughtUp, Places, AfterDrain
<1>14. CASE PostControl
  BY <1>14 DEF PostControl, Places, AfterDrain
<1>15. CASE ControlAnswered
  BY <1>15 DEF ControlAnswered, BeginDrain, Places, AfterDrain
<1>16. CASE WatermarkOrBacklog
  BY <1>16 DEF WatermarkOrBacklog, BeginDrain, Onward, Parks, Watermark, Places, AfterDrain
<1>17. CASE BarrierDone
  <2>1. Return /\ stack # <<>> /\ barrier' \in Nat
    BY <1>17, HasCaller DEF BarrierDone, Called
  <2>2. cpc' \in Places /\ after' \in AfterDrain /\ target' \in Nat /\ stack' \in Seq(Frame)
    BY <2>1, Returned
  <2>3. QED
    BY <1>17, <2>1, <2>2 DEF BarrierDone
<1>18. CASE PopEvent
  BY <1>18 DEF PopEvent, Places, AfterDrain
<1>19. CASE HandlerDone
  BY <1>19 DEF HandlerDone, Places, AfterDrain
<1>20. CASE NoMoreEvents
  BY <1>20 DEF NoMoreEvents, Places, AfterDrain
<1>21. CASE Release
  BY <1>21 DEF Release, Places, AfterDrain
<1>22. CASE ClearLatch
  BY <1>22 DEF ClearLatch, Places, AfterDrain
<1>23. CASE Shutdown
  BY <1>23 DEF Shutdown, Places, AfterDrain
<1>24. CASE PopRecord
  BY <1>24 DEF PopRecord
<1>25. CASE TakeControl
  BY <1>25 DEF TakeControl
<1>26. CASE WantEvent
  BY <1>26 DEF WantEvent
<1>27. CASE ReserveEvent
  <2>1. CASE posted' = Append(posted, applied + 1) /\ Len(posted) < MaxEvents
    <3>1. applied + 1 \in Nat /\ posted \in Seq(Nat)
      OBVIOUS
    <3>2. posted' \in Seq(Nat) /\ Len(posted) \in Nat /\ Len(posted') = Len(posted) + 1
      BY <2>1, <3>1, Appended
    <3>3. QED
      BY <1>27, <2>1, <3>2 DEF ReserveEvent
  <2>2. CASE posted' = posted
    BY <1>27, <2>2 DEF ReserveEvent
  <2>3. QED
    BY <1>27, <2>1, <2>2 DEF ReserveEvent
<1>28. CASE PublishEvents
  BY <1>28 DEF PublishEvents, EventPosted
<1>29. CASE RaiseLatch
  BY <1>29 DEF RaiseLatch
<1>30. CASE BacklogDrained
  BY <1>30 DEF BacklogDrained
<1>31. CASE Forfeit
  BY <1>31 DEF Forfeit, EventPosted
<1>32. CASE ReturnPresentCredit
  BY <1>32 DEF ReturnPresentCredit, SwapOwed
<1>33. CASE AdvanceApplied
  BY <1>33 DEF AdvanceApplied, SwapOwed
<1>34. CASE RetireBatch
  BY <1>34 DEF RetireBatch
<1>35. CASE AnswerControl
  BY <1>35 DEF AnswerControl
<1>36. CASE UNCHANGED vars
  BY <1>36
<1>37. QED
  BY <1>1, <1>2, <1>3, <1>4, <1>5, <1>6, <1>7, <1>8, <1>9, <1>10, <1>11, <1>12, <1>13, <1>14,
     <1>15, <1>16, <1>17, <1>18, <1>19, <1>20, <1>21, <1>22, <1>23, <1>24, <1>25, <1>26, <1>27,
     <1>28, <1>29, <1>30, <1>31, <1>32, <1>33, <1>34, <1>35, <1>36
     DEF Next, ClientStep, ServerStep

(* A call goes on from a place that has a caller exactly if it has one.     *)
LEMMA Interrupts ==
  ASSUME TypeOK, CallInv, NEW pc \in Called, Call(pc), cpc \in Callbacks \union {"run", "present"}
  PROVE  CallInv'
<1>1. /\ cpc' = pc /\ stack' # <<>> /\ Len(stack) \in Nat /\ Len(stack') = Len(stack) + 1
      /\ DOMAIN stack' = 1..Len(stack) + 1 /\ DOMAIN stack = 1..Len(stack)
      /\ stack'[1].pc = cpc /\ stack'[1].after = after
      /\ \A i \in 1..Len(stack) + 1 : i # 1 => stack'[i] = stack[i - 1]
  BY CallFrames
<1>2. About(cpc', after') \in Called
  BY <1>1 DEF About, Called, Draining
<1>3. About(stack'[1].pc, stack'[1].after) \in Called <=> 1 < Len(stack')
  <2>1. About(cpc, after) \in Called <=> stack # <<>>
    BY DEF CallInv, Callbacks
  <2>2. stack = <<>> <=> Len(stack) = 0
    BY Empty DEF TypeOK
  <2>3. QED
    BY <1>1, <2>1, <2>2
<1>4. ASSUME NEW i \in DOMAIN stack', i # 1
      PROVE  About(stack'[i].pc, stack'[i].after) \in Called <=> i < Len(stack')
  <2>1. i - 1 \in DOMAIN stack /\ stack'[i] = stack[i - 1]
    BY <1>1, <1>4
  <2>2. About(stack[i - 1].pc, stack[i - 1].after) \in Called <=> i - 1 < Len(stack)
    BY <2>1 DEF CallInv
  <2>3. QED
    BY <1>1, <2>1, <2>2
<1>5. QED
  BY <1>1, <1>2, <1>3, <1>4 DEF CallInv

LEMMA Returns == ASSUME TypeOK, CallInv, Return, stack # <<>> PROVE CallInv'
<1>1. /\ stack[1] \in Frame /\ 1 \in DOMAIN stack /\ Len(stack) \in Nat
      /\ cpc' = Resume(stack[1].pc) /\ after' = stack[1].after
      /\ Len(stack') = Len(stack) - 1 /\ (stack' = <<>> <=> Len(stack) = 1) /\ Len(stack) >= 1
      /\ DOMAIN stack' = 1..Len(stack) - 1 /\ DOMAIN stack = 1..Len(stack)
      /\ \A i \in 1..Len(stack) - 1 : stack'[i] = stack[i + 1]
  BY ReturnFrames
<1>2. About(cpc', after') \in Called <=> stack' # <<>>
  <2>1. About(stack[1].pc, stack[1].after) \in Called <=> 1 < Len(stack)
    BY <1>1 DEF CallInv
  <2>2. About(cpc', after') \in Called <=> About(stack[1].pc, stack[1].after) \in Called
    BY <1>1 DEF Frame, Resume, About, Called, Draining
  <2>3. QED
    BY <1>1, <2>1, <2>2
<1>3. ASSUME NEW i \in DOMAIN stack'
      PROVE  About(stack'[i].pc, stack'[i].after) \in Called <=> i < Len(stack')
  <2>1. i + 1 \in DOMAIN stack /\ stack'[i] = stack[i + 1]
    BY <1>1, <1>3
  <2>2. About(stack[i + 1].pc, stack[i + 1].after) \in Called <=> i + 1 < Len(stack)
    BY <2>1 DEF CallInv
  <2>3. QED
    BY <1>1, <2>1, <2>2
<1>4. QED
  BY <1>2, <1>3 DEF CallInv

(* A wait that a callback's record gets into returns to the drain it       *)
(* interrupted, whatever that drain was part of.                           *)
LEMMA CallStep == ASSUME TypeOK, CallInv, [Next]_vars PROVE CallInv'
<1> USE DEF vars, clientVars, serverVars
<1>1. CASE Emit
  <2>1. /\ Publish(cpc) /\ cpc \in Callbacks \union {"run", "present"}
        /\ UNCHANGED <<serverVars, latch, control, after, popped, barrier, drained>>
    BY <1>1 DEF Emit, MayEmit, Emitting
  <2>2. CASE cpc' = Resume(cpc) /\ UNCHANGED <<target, stack>>
    BY <2>1, <2>2 DEF Resume, CallInv, Callbacks, About, Called, Draining
  <2>3. CASE Call("applied")
    BY <2>1, <2>3, Interrupts DEF Called
  <2>4. QED
    BY <1>1, <2>2, <2>3 DEF Emit
<1>2. CASE NeedSpace
  <2>1. Call("space") /\ cpc \in Callbacks \union {"run", "present"}
    BY <1>2 DEF NeedSpace, MayEmit, Emitting
  <2>2. QED
    BY <2>1, Interrupts DEF Called
<1>3. CASE NeedStage
  BY <1>3 DEF NeedStage, BeginDrain, CallInv, About, Called, Draining
<1>4. CASE NeedOldestAnswer
  <2>1. Call("window") /\ cpc \in Callbacks \union {"run", "present"}
    BY <1>4 DEF NeedOldestAnswer, MayEmit, Emitting
  <2>2. QED
    BY <2>1, Interrupts DEF Called
<1>5. CASE StartPresent
  BY <1>5 DEF StartPresent, CallInv, About, Called, Draining
<1>6. CASE CatchUp
  BY <1>6 DEF CatchUp, CallInv, About, Called, Draining
<1>7. CASE PollEntry
  BY <1>7 DEF PollEntry, BeginDrain, CallInv, About, Called, Draining
<1>8. CASE SpaceFreed
  BY <1>8 DEF SpaceFreed, BeginDrain, CallInv, About, Called, Draining
<1>9. CASE EmitAfterWait
  <2>1. /\ Publish(Head(stack).pc) /\ stack # <<>>
        /\ UNCHANGED <<serverVars, latch, control, popped, barrier, drained>>
    BY <1>9, HasCaller DEF EmitAfterWait, Called
  <2>2. CASE Return
    BY <2>1, <2>2, Returns
  <2>3. CASE cpc' = "applied" /\ UNCHANGED <<after, stack>>
    BY <2>1, <2>3 DEF CallInv, About, Called, Draining
  <2>4. QED
    BY <1>9, <2>2, <2>3 DEF EmitAfterWait
<1>10. CASE EncodeRefused
  BY <1>10 DEF EncodeRefused, CallInv, About, Called, Draining
<1>11. CASE StageRetired
  BY <1>11 DEF StageRetired, BeginDrain, CallInv, About, Called, Draining
<1>12. CASE OldestAnswered
  <2>1. Return /\ stack # <<>>
    BY <1>12, HasCaller DEF OldestAnswered, Called
  <2>2. QED
    BY <2>1, Returns
<1>13. CASE CaughtUp
  BY <1>13 DEF CaughtUp, CallInv, About, Called, Draining
<1>14. CASE PostControl
  BY <1>14 DEF PostControl, CallInv, About, Called, Draining
<1>15. CASE ControlAnswered
  BY <1>15 DEF ControlAnswered, BeginDrain, CallInv, About, Called, Draining
<1>16. CASE WatermarkOrBacklog
  BY <1>16 DEF WatermarkOrBacklog, BeginDrain, Onward, Parks, Watermark, CallInv, About, Called,
         Draining
<1>17. CASE BarrierDone
  <2>1. Return /\ stack # <<>>
    BY <1>17, HasCaller DEF BarrierDone, Called
  <2>2. QED
    BY <2>1, Returns
<1>18. CASE PopEvent
  BY <1>18 DEF PopEvent, CallInv, About, Called, Draining
<1>19. CASE HandlerDone
  BY <1>19 DEF HandlerDone, CallInv, About, Called, Draining
<1>20. CASE NoMoreEvents
  BY <1>20 DEF NoMoreEvents, CallInv, About, Called, Draining
<1>21. CASE Release
  BY <1>21 DEF Release, CallInv, About, Called, Draining
<1>22. CASE ClearLatch
  BY <1>22 DEF ClearLatch, CallInv, About, Called, Draining
<1>23. CASE Shutdown
  BY <1>23 DEF Shutdown, CallInv, About, Called, Draining
<1>24. CASE PopRecord \/ TakeControl \/ WantEvent \/ ReserveEvent \/ PublishEvents \/
       RaiseLatch
  <2>1. UNCHANGED <<cpc, after, stack>>
    BY <1>24 DEF PopRecord, TakeControl, WantEvent, ReserveEvent, PublishEvents, RaiseLatch,
           clientVars, serverVars
  <2>2. QED
    BY <2>1 DEF CallInv, About
<1>25. CASE BacklogDrained \/ Forfeit \/ ReturnPresentCredit \/ AdvanceApplied \/
       RetireBatch \/ AnswerControl
  <2>1. UNCHANGED <<cpc, after, stack>>
    BY <1>25 DEF BacklogDrained, Forfeit, ReturnPresentCredit, AdvanceApplied, RetireBatch,
           AnswerControl, clientVars, serverVars
  <2>2. QED
    BY <2>1 DEF CallInv, About
<1>26. CASE UNCHANGED vars
  BY <1>26 DEF CallInv, About
<1>27. QED
  BY <1>1, <1>2, <1>3, <1>4, <1>5, <1>6, <1>7, <1>8, <1>9, <1>10, <1>11, <1>12, <1>13, <1>14,
     <1>15, <1>16, <1>17, <1>18, <1>19, <1>20, <1>21, <1>22, <1>23, <1>24, <1>25, <1>26
     DEF Next, ClientStep, ServerStep

(* What the server has in hand stays in its hand until it is answered or   *)
(* applied; the client publishes nothing between the round of the catch-up *)
(* that found it idle and the answer to the frame.                         *)
LEMMA HandStep == ASSUME TypeOK, CallInv, HandInv, [Next]_vars PROVE HandInv'
<1> USE DEF TypeOK, HandInv, FramesFindNoRecord, vars, clientVars, serverVars
<1>1. CASE Emit
  <2>1. /\ Publish(cpc) /\ cpc \in Callbacks \union {"run", "present"}
        /\ UNCHANGED <<serverVars, latch, control, after, popped, barrier, drained>>
    BY <1>1 DEF Emit, MayEmit, Emitting
  <2>2. submitted' = submitted + 1
    BY <2>1 DEF Publish
  <2>3. cpc' \in Callbacks \union {"run", "applied"}
    BY <1>1, <2>1 DEF Emit, Resume, Call
  <2>4. QED
    BY <2>1, <2>2, <2>3 DEF Callbacks
<1>2. CASE NeedSpace
  <2>1. Call("space") /\ cpc \in Callbacks \union {"run", "present"}
    BY <1>2 DEF NeedSpace, MayEmit, Emitting
  <2>2. cpc' = "space"
    BY <2>1 DEF Call
  <2>3. QED
    BY <1>2, <2>1, <2>2 DEF NeedSpace, Callbacks
<1>3. CASE NeedStage
  BY <1>3 DEF NeedStage, BeginDrain
<1>4. CASE NeedOldestAnswer
  <2>1. Call("window") /\ cpc \in Callbacks \union {"run", "present"}
    BY <1>4 DEF NeedOldestAnswer, MayEmit, Emitting
  <2>2. cpc' = "window"
    BY <2>1 DEF Call
  <2>3. QED
    BY <1>4, <2>1, <2>2 DEF NeedOldestAnswer, Callbacks
<1>5. CASE StartPresent
  BY <1>5 DEF StartPresent
<1>6. CASE CatchUp
  BY <1>6 DEF CatchUp
<1>7. CASE PollEntry
  BY <1>7 DEF PollEntry, BeginDrain
<1>8. CASE SpaceFreed
  BY <1>8 DEF SpaceFreed, BeginDrain
<1>9. CASE EmitAfterWait
  <2>1. /\ Publish(Head(stack).pc) /\ stack # <<>>
        /\ UNCHANGED <<serverVars, latch, control, popped, barrier, drained>>
    BY <1>9, HasCaller DEF EmitAfterWait, Called
  <2>2. submitted' = submitted + 1 /\ cpc = "emit"
    BY <1>9, <2>1 DEF Publish, EmitAfterWait
  <2>3. cpc' \in Callbacks \union {"run", "applied"}
    BY <1>9, <2>1, Returned DEF EmitAfterWait
  <2>4. QED
    BY <2>1, <2>2, <2>3 DEF Callbacks
<1>10. CASE EncodeRefused
  BY <1>10 DEF EncodeRefused
<1>11. CASE StageRetired
  BY <1>11 DEF StageRetired, BeginDrain
<1>12. CASE OldestAnswered
  <2>1. Return /\ stack # <<>>
    BY <1>12, HasCaller DEF OldestAnswered, Called
  <2>2. cpc' \in Callbacks \union {"run"}
    BY <2>1, Returned
  <2>3. QED
    BY <1>12, <2>2 DEF OldestAnswered, Callbacks
<1>13. CASE CaughtUp
  BY <1>13 DEF CaughtUp
<1>14. CASE PostControl
  BY <1>14 DEF PostControl
<1>15. CASE ControlAnswered
  BY <1>15 DEF ControlAnswered, BeginDrain
<1>16. CASE WatermarkOrBacklog
  BY <1>16 DEF WatermarkOrBacklog, BeginDrain, Onward, Parks, Watermark
<1>17. CASE BarrierDone
  <2>1. Return /\ stack # <<>>
    BY <1>17, HasCaller DEF BarrierDone, Called
  <2>2. cpc' \in Callbacks \union {"run"}
    BY <2>1, Returned
  <2>3. QED
    BY <1>17, <2>2 DEF BarrierDone, Callbacks
<1>18. CASE PopEvent
  BY <1>18 DEF PopEvent
<1>19. CASE HandlerDone
  BY <1>19 DEF HandlerDone
<1>20. CASE NoMoreEvents
  BY <1>20 DEF NoMoreEvents
<1>21. CASE Release
  BY <1>21 DEF Release
<1>22. CASE ClearLatch
  BY <1>22 DEF ClearLatch, AfterDrain
<1>23. CASE Shutdown
  BY <1>23 DEF Shutdown
<1>24. CASE PopRecord
  BY <1>24 DEF PopRecord
<1>25. CASE TakeControl
  BY <1>25 DEF TakeControl
<1>26. CASE WantEvent
  BY <1>26 DEF WantEvent
<1>27. CASE ReserveEvent
  BY <1>27 DEF ReserveEvent
<1>28. CASE PublishEvents
  BY <1>28 DEF PublishEvents, EventPosted
<1>29. CASE RaiseLatch
  BY <1>29 DEF RaiseLatch
<1>30. CASE BacklogDrained
  BY <1>30 DEF BacklogDrained
<1>31. CASE Forfeit
  BY <1>31 DEF Forfeit, EventPosted
<1>32. CASE ReturnPresentCredit
  BY <1>32 DEF ReturnPresentCredit
<1>33. CASE AdvanceApplied
  BY <1>33 DEF AdvanceApplied, SwapOwed
<1>34. CASE RetireBatch
  BY <1>34 DEF RetireBatch
<1>35. CASE AnswerControl
  BY <1>35 DEF AnswerControl
<1>36. CASE UNCHANGED vars
  BY <1>36
<1>37. QED
  BY <1>1, <1>2, <1>3, <1>4, <1>5, <1>6, <1>7, <1>8, <1>9, <1>10, <1>11, <1>12, <1>13, <1>14,
     <1>15, <1>16, <1>17, <1>18, <1>19, <1>20, <1>21, <1>22, <1>23, <1>24, <1>25, <1>26, <1>27,
     <1>28, <1>29, <1>30, <1>31, <1>32, <1>33, <1>34, <1>35, <1>36
     DEF Next, ClientStep, ServerStep

(* The event being posted is the only one not shown, and belongs to the    *)
(* record in hand: the events of a record that counts as applied are shown.*)
LEMMA ShownStep == ASSUME TypeOK, ShownInv, [Next]_vars PROVE ShownInv'
<1> USE FlowAssumption DEF TypeOK, ShownInv, vars, clientVars, serverVars
<1>1. CASE PopRecord
  BY <1>1 DEF PopRecord
<1>2. CASE TakeControl
  BY <1>2 DEF TakeControl
<1>3. CASE WantEvent
  BY <1>3 DEF WantEvent
<1>4. CASE ReserveEvent
  <2>1. CASE posted' = posted
    BY <1>4, <2>1 DEF ReserveEvent
  <2>2. CASE posted' = Append(posted, applied + 1) /\ spc' = "publish"
    <3>1. /\ applied + 1 \in Nat /\ posted \in Seq(Nat) /\ shown' = shown /\ applied' = applied
          /\ shown = Len(posted) /\ \A i \in DOMAIN posted : posted[i] <= applied + 1
      BY <1>4 DEF ReserveEvent
    <3> HIDE DEF TypeOK, ShownInv
    <3>2. /\ Len(posted') = Len(posted) + 1 /\ DOMAIN posted' = 1..Len(posted) + 1
          /\ DOMAIN posted = 1..Len(posted) /\ Len(posted) \in Nat
          /\ \A i \in 1..Len(posted) : posted'[i] = posted[i]
          /\ posted'[Len(posted) + 1] = applied + 1
      BY <2>2, <3>1, Appended
    <3>3. \A i \in DOMAIN posted' : posted'[i] <= applied' + 1
      <4> SUFFICES ASSUME NEW i \in DOMAIN posted' PROVE posted'[i] <= applied + 1
        BY <3>1
      <4>1. CASE i = Len(posted) + 1
        BY <3>1, <3>2, <4>1
      <4>2. CASE i # Len(posted) + 1
        <5>1. i \in DOMAIN posted
          BY <3>2, <4>2
        <5>2. QED
          BY <3>1, <3>2, <5>1
      <4>3. QED
        BY <4>1, <4>2
    <3>4. QED
      BY <2>2, <3>1, <3>2, <3>3 DEF ShownInv
  <2>3. QED
    BY <1>4, <2>1, <2>2 DEF ReserveEvent
<1>5. CASE PublishEvents
  BY <1>5 DEF PublishEvents, EventPosted
<1>6. CASE RaiseLatch
  BY <1>6 DEF RaiseLatch
<1>7. CASE BacklogDrained
  BY <1>7 DEF BacklogDrained
<1>8. CASE Forfeit
  BY <1>8 DEF Forfeit, EventPosted
<1>9. CASE AdvanceApplied
  <2>1. \A i \in DOMAIN posted : posted[i] \in Nat
    OBVIOUS
  <2>2. QED
    BY <1>9, <2>1 DEF AdvanceApplied
<1>10. CASE RetireBatch
  BY <1>10 DEF RetireBatch
<1>11. CASE AnswerControl
  BY <1>11 DEF AnswerControl
<1>12. CASE Emit \/ NeedSpace \/ NeedStage \/ NeedOldestAnswer \/ StartPresent \/ CatchUp \/
       PollEntry
  BY <1>12 DEF Emit, NeedSpace, NeedStage, NeedOldestAnswer, StartPresent, CatchUp, PollEntry
<1>13. CASE SpaceFreed \/ EmitAfterWait \/ EncodeRefused \/ StageRetired \/ OldestAnswered \/
       CaughtUp \/ PostControl \/ ControlAnswered \/ WatermarkOrBacklog
  BY <1>13 DEF SpaceFreed, EmitAfterWait, EncodeRefused, StageRetired, OldestAnswered, CaughtUp,
         PostControl, ControlAnswered, WatermarkOrBacklog
<1>14. CASE BarrierDone \/ PopEvent \/ HandlerDone \/ NoMoreEvents \/ Release \/ ClearLatch \/
       Shutdown \/ ReturnPresentCredit
  BY <1>14 DEF BarrierDone, PopEvent, HandlerDone, NoMoreEvents, Release, ClearLatch, Shutdown,
         ReturnPresentCredit
<1>15. CASE UNCHANGED vars
  BY <1>15
<1>16. QED
  BY <1>1, <1>2, <1>3, <1>4, <1>5, <1>6, <1>7, <1>8, <1>9, <1>10, <1>11, <1>12, <1>13, <1>14,
         <1>15 DEF Next, ClientStep, ServerStep

(* What has been delivered up to a record that counts as applied stays     *)
(* delivered: an event posted later belongs to a later record.             *)
LEMMA StaysDelivered ==
  ASSUME TypeOK, NEW n \in Nat, n <= applied, DeliveredTo(n),
         applied' \in Nat, applied' >= applied, popped' \in Nat, popped' >= popped,
         posted' = posted \/ posted' = Append(posted, applied + 1)
  PROVE  n <= applied' /\ (\A i \in DOMAIN posted' : posted'[i] <= n => i <= popped')
<1>1. /\ applied \in Nat /\ popped \in Nat /\ applied + 1 \in Nat /\ n < applied + 1
      /\ posted \in Seq(Nat) /\ Nat \in SUBSET Nat
  BY DEF TypeOK
<1>2. \A i \in DOMAIN posted : posted[i] <= n => i <= popped
  BY DEF DeliveredTo
<1>3. \A i \in DOMAIN Append(posted, applied + 1) : Append(posted, applied + 1)[i] <= n => i <= popped
  BY <1>1, <1>2, AppendedLater
<1>4. \A i \in DOMAIN posted' : posted'[i] <= n => i <= popped
  BY <1>2, <1>3
<1>5. DOMAIN posted' \subseteq Nat
  BY <1>1, Appended
<1>6. QED
  BY <1>1, <1>4, <1>5

LEMMA BarrierKept ==
  ASSUME TypeOK, BarrierInv, UNCHANGED <<cpc, after, target, stack, barrier>>,
         applied' \in Nat, applied' >= applied, popped' = popped,
         posted' = posted \/ posted' = Append(posted, applied + 1)
  PROVE  BarrierInv'
<1> DEFINE Kept(n) == n <= applied' /\ (\A i \in DOMAIN posted' : posted'[i] <= n => i <= popped')
<1>1. /\ applied \in Nat /\ popped \in Nat /\ barrier \in Nat /\ target \in Nat
      /\ \A i \in DOMAIN stack : stack[i].target \in Nat
  <2>1. stack \in Seq(Frame)
    BY DEF TypeOK
  <2>2. \A i \in DOMAIN stack : stack[i] \in Frame
    BY <2>1
  <2>3. QED
    BY <2>2 DEF TypeOK, Frame
<1>2. ASSUME NEW n \in Nat, n <= applied, DeliveredTo(n) PROVE Kept(n)
  BY <1>1, <1>2, StaysDelivered
<1>3. Kept(barrier)
  BY <1>1, <1>2 DEF BarrierInv
<1>4. BarrierAt(cpc, after, target)'
  <2>1. BarrierAt(cpc, after, target)
    BY DEF BarrierInv
  <2>2. About(cpc, after) = "done" => target <= applied'
    BY <1>1, <2>1 DEF BarrierAt
  <2>3. cpc = "done" \/ (cpc \in {"release", "clear"} /\ after = "done") => Kept(target)
    BY <1>1, <1>2, <2>1 DEF BarrierAt, About, Draining
  <2>4. QED
    BY <2>2, <2>3 DEF BarrierAt, About, DeliveredTo
<1>5. \A i \in DOMAIN stack' : BarrierAt(stack[i].pc, stack[i].after, stack[i].target)'
  <2> SUFFICES ASSUME NEW i \in DOMAIN stack
               PROVE  BarrierAt(stack[i].pc, stack[i].after, stack[i].target)'
    OBVIOUS
  <2> DEFINE pc == stack[i].pc
             next == stack[i].after
             seq == stack[i].target
  <2>1. BarrierAt(pc, next, seq) /\ seq \in Nat
    BY <1>1 DEF BarrierInv
  <2>2. About(pc, next) = "done" => seq <= applied'
    BY <1>1, <2>1 DEF BarrierAt
  <2>3. pc = "done" \/ (pc \in {"release", "clear"} /\ next = "done") => Kept(seq)
    BY <1>1, <1>2, <2>1 DEF BarrierAt, About, Draining
  <2>4. QED
    BY <2>2, <2>3 DEF BarrierAt, About, DeliveredTo
<1>6. QED
  BY <1>3, <1>4, <1>5 DEF BarrierInv, DeliveredTo

LEMMA BarrierMoves ==
  ASSUME BarrierInv, UNCHANGED <<stack, applied, posted, popped, barrier>>,
         BarrierAt(cpc, after, target)'
  PROVE  BarrierInv'
  BY DEF BarrierInv, BarrierAt, DeliveredTo, About

LEMMA BarrierCall ==
  ASSUME TypeOK, BarrierInv, NEW pc \in {"space", "window", "applied"}, Call(pc),
         cpc \in Callbacks \union {"run", "present"}, UNCHANGED <<applied, posted, popped, barrier>>
  PROVE  BarrierInv'
<1>1. /\ cpc' = pc /\ DOMAIN stack' = 1..Len(stack) + 1 /\ DOMAIN stack = 1..Len(stack)
      /\ stack'[1].pc = cpc /\ stack'[1].after = after /\ stack'[1].target = target
      /\ \A i \in 1..Len(stack) + 1 : i # 1 => stack'[i] = stack[i - 1]
      /\ Len(stack) \in Nat
  BY CallFrames
<1>2. BarrierAt(cpc, after, target)'
  BY <1>1 DEF BarrierAt, About, Draining
<1>3. ASSUME NEW i \in DOMAIN stack'
      PROVE  BarrierAt(stack'[i].pc, stack'[i].after, stack'[i].target)
  <2>1. CASE i = 1
    BY <1>1, <2>1 DEF BarrierInv
  <2>2. CASE i # 1
    <3>1. i - 1 \in DOMAIN stack /\ stack'[i] = stack[i - 1]
      BY <1>1, <1>3, <2>2
    <3>2. QED
      BY <3>1 DEF BarrierInv
  <2>3. QED
    BY <2>1, <2>2
<1>4. QED
  BY <1>2, <1>3 DEF BarrierInv, BarrierAt, About, DeliveredTo

LEMMA BarrierReturn ==
  ASSUME TypeOK, BarrierInv, stack # <<>>, Return, UNCHANGED <<applied, posted, popped>>,
         barrier' <= applied, DeliveredTo(barrier')
  PROVE  BarrierInv'
<1>1. /\ 1 \in DOMAIN stack /\ DOMAIN stack' = 1..Len(stack) - 1 /\ DOMAIN stack = 1..Len(stack)
      /\ cpc' = Resume(stack[1].pc) /\ after' = stack[1].after /\ target' = stack[1].target
      /\ \A i \in 1..Len(stack) - 1 : stack'[i] = stack[i + 1]
      /\ Len(stack) \in Nat
  BY ReturnFrames
<1>2. BarrierAt(stack[1].pc, after', target')
  BY <1>1 DEF BarrierInv
<1>3. BarrierAt(cpc', after', target')
  BY <1>1, <1>2 DEF BarrierAt, Resume, About, Draining
<1>4. ASSUME NEW i \in DOMAIN stack'
      PROVE  BarrierAt(stack'[i].pc, stack'[i].after, stack'[i].target)
  <2>1. i + 1 \in DOMAIN stack /\ stack'[i] = stack[i + 1]
    BY <1>1, <1>4
  <2>2. QED
    BY <2>1 DEF BarrierInv
<1>5. QED
  BY <1>3, <1>4 DEF BarrierInv, BarrierAt, About, DeliveredTo

(* A drain that starts when the watermark has reached the barrier's record *)
(* delivers every event of it: they are shown by then (ShownInv), what is  *)
(* posted later belongs to later records, and a callback's own waits leave *)
(* the interrupted drain where it was.                                     *)
LEMMA BarrierStep == ASSUME TypeOK, CallInv, ShownInv, BarrierInv, [Next]_vars PROVE BarrierInv'
<1> USE DEF vars, clientVars, serverVars
<1>1. CASE Emit
  <2>1. /\ Publish(cpc) /\ cpc \in Callbacks \union {"run", "present"}
        /\ UNCHANGED <<serverVars, latch, control, after, popped, barrier, drained>>
    BY <1>1 DEF Emit, MayEmit, Emitting
  <2>2. CASE cpc' = Resume(cpc) /\ UNCHANGED <<target, stack>>
    <3>1. BarrierAt(cpc, after, target)'
      BY <2>1, <2>2 DEF Resume, BarrierInv, BarrierAt, DeliveredTo, About, Draining, Callbacks
    <3>2. QED
      BY <2>1, <2>2, <3>1, BarrierMoves
  <2>3. CASE Call("applied")
    BY <2>1, <2>3, BarrierCall
  <2>4. QED
    BY <1>1, <2>2, <2>3 DEF Emit
<1>2. CASE NeedSpace
  <2>1. /\ Call("space") /\ cpc \in Callbacks \union {"run", "present"}
        /\ UNCHANGED <<applied, posted, popped, barrier>>
    BY <1>2 DEF NeedSpace, MayEmit, Emitting
  <2>2. QED
    BY <2>1, BarrierCall
<1>3. CASE NeedStage
  <2>1. UNCHANGED <<stack, applied, posted, popped, barrier>>
    BY <1>3 DEF NeedStage
  <2>2. BarrierAt(cpc, after, target)'
    BY <1>3 DEF NeedStage, BeginDrain, BarrierAt, About, Draining
  <2>3. QED
    BY <2>1, <2>2, BarrierMoves
<1>4. CASE NeedOldestAnswer
  <2>1. /\ Call("window") /\ cpc \in Callbacks \union {"run", "present"}
        /\ UNCHANGED <<applied, posted, popped, barrier>>
    BY <1>4 DEF NeedOldestAnswer, MayEmit, Emitting
  <2>2. QED
    BY <2>1, BarrierCall
<1>5. CASE StartPresent
  <2>1. UNCHANGED <<stack, applied, posted, popped, barrier>>
    BY <1>5 DEF StartPresent
  <2>2. BarrierAt(cpc, after, target)'
    BY <1>5 DEF StartPresent, BarrierAt, About, Draining
  <2>3. QED
    BY <2>1, <2>2, BarrierMoves
<1>6. CASE CatchUp
  <2>1. UNCHANGED <<stack, applied, posted, popped, barrier>>
    BY <1>6 DEF CatchUp
  <2>2. BarrierAt(cpc, after, target)'
    BY <1>6 DEF CatchUp, BarrierAt, About, Draining
  <2>3. QED
    BY <2>1, <2>2, BarrierMoves
<1>7. CASE PollEntry
  <2>1. UNCHANGED <<stack, applied, posted, popped, barrier>>
    BY <1>7 DEF PollEntry
  <2>2. BarrierAt(cpc, after, target)'
    BY <1>7 DEF PollEntry, BeginDrain, BarrierAt, About, Draining
  <2>3. QED
    BY <2>1, <2>2, BarrierMoves
<1>8. CASE SpaceFreed
  <2>1. UNCHANGED <<stack, applied, posted, popped, barrier>>
    BY <1>8 DEF SpaceFreed
  <2>2. BarrierAt(cpc, after, target)'
    BY <1>8 DEF SpaceFreed, BeginDrain, BarrierAt, About, Draining
  <2>3. QED
    BY <2>1, <2>2, BarrierMoves
<1>9. CASE EmitAfterWait
  <2>1. /\ Publish(Head(stack).pc) /\ stack # <<>>
        /\ UNCHANGED <<serverVars, latch, control, popped, barrier, drained>>
    BY <1>9, HasCaller DEF EmitAfterWait, Called
  <2>2. CASE Return
    BY <2>1, <2>2, BarrierReturn DEF BarrierInv
  <2>3. CASE cpc' = "applied" /\ UNCHANGED <<after, stack>>
    <3>1. BarrierAt(cpc, after, target)'
      BY <2>3 DEF BarrierAt, About, Draining
    <3>2. QED
      BY <2>1, <2>3, <3>1, BarrierMoves
  <2>4. QED
    BY <1>9, <2>2, <2>3 DEF EmitAfterWait
<1>10. CASE EncodeRefused
  <2>1. UNCHANGED <<stack, applied, posted, popped, barrier>>
    BY <1>10 DEF EncodeRefused
  <2>2. BarrierAt(cpc, after, target)'
    BY <1>10 DEF EncodeRefused, BarrierAt, About, Draining
  <2>3. QED
    BY <2>1, <2>2, BarrierMoves
<1>11. CASE StageRetired
  <2>1. UNCHANGED <<stack, applied, posted, popped, barrier>>
    BY <1>11 DEF StageRetired
  <2>2. BarrierAt(cpc, after, target)'
    BY <1>11 DEF StageRetired, BeginDrain, BarrierAt, About, Draining
  <2>3. QED
    BY <2>1, <2>2, BarrierMoves
<1>12. CASE OldestAnswered
  <2>1. Return /\ stack # <<>> /\ UNCHANGED <<applied, posted, popped, barrier>>
    BY <1>12, HasCaller DEF OldestAnswered, Called
  <2>2. QED
    BY <2>1, BarrierReturn DEF BarrierInv
<1>13. CASE CaughtUp
  <2>1. UNCHANGED <<stack, applied, posted, popped, barrier>>
    BY <1>13 DEF CaughtUp
  <2>2. BarrierAt(cpc, after, target)'
    BY <1>13 DEF CaughtUp, BarrierAt, About, Draining
  <2>3. QED
    BY <2>1, <2>2, BarrierMoves
<1>14. CASE PostControl
  <2>1. UNCHANGED <<stack, applied, posted, popped, barrier>>
    BY <1>14 DEF PostControl
  <2>2. BarrierAt(cpc, after, target)'
    BY <1>14 DEF PostControl, BarrierAt, About, Draining
  <2>3. QED
    BY <2>1, <2>2, BarrierMoves
<1>15. CASE ControlAnswered
  <2>1. UNCHANGED <<stack, applied, posted, popped, barrier>>
    BY <1>15 DEF ControlAnswered
  <2>2. BarrierAt(cpc, after, target)'
    BY <1>15 DEF ControlAnswered, BeginDrain, BarrierAt, About, Draining
  <2>3. QED
    BY <2>1, <2>2, BarrierMoves
<1>16. CASE WatermarkOrBacklog
  <2>1. UNCHANGED <<stack, applied, posted, popped, barrier>>
    BY <1>16 DEF WatermarkOrBacklog
  <2>2. BarrierAt(cpc, after, target)'
    BY <1>16 DEF WatermarkOrBacklog, BeginDrain, Onward, Watermark, Parks, TypeOK, BarrierAt, About,
           Draining
  <2>3. QED
    BY <2>1, <2>2, BarrierMoves
<1>17. CASE BarrierDone
  <2>1. Return /\ stack # <<>> /\ UNCHANGED <<applied, posted, popped>> /\ barrier' = target
    BY <1>17, HasCaller DEF BarrierDone, Called
  <2>2. target <= applied /\ DeliveredTo(target)
    BY <1>17 DEF BarrierDone, BarrierInv, BarrierAt, About, Draining
  <2>3. QED
    BY <2>1, <2>2, BarrierReturn
<1>18. CASE PopEvent
  <2>1. /\ UNCHANGED <<stack, applied, posted, barrier, after, target>> /\ popped' = popped + 1
        /\ cpc = "pop" /\ cpc' = "handler" /\ popped \in Nat
        /\ DOMAIN posted = 1..Len(posted)
    BY <1>18 DEF PopEvent, TypeOK
  <2>2. \A n : DeliveredTo(n) => (\A i \in DOMAIN posted : posted[i] <= n => i <= popped')
    BY <2>1 DEF DeliveredTo
  <2>3. BarrierAt(cpc, after, target)'
    BY <2>1 DEF BarrierInv, BarrierAt, About, Draining
  <2>4. ASSUME NEW i \in DOMAIN stack
        PROVE  BarrierAt(stack[i].pc, stack[i].after, stack[i].target)'
    BY <2>1, <2>2 DEF BarrierInv, BarrierAt, About, DeliveredTo
  <2>5. QED
    BY <2>1, <2>2, <2>3, <2>4 DEF BarrierInv, DeliveredTo
<1>19. CASE HandlerDone
  <2>1. UNCHANGED <<stack, applied, posted, popped, barrier>>
    BY <1>19 DEF HandlerDone
  <2>2. BarrierAt(cpc, after, target)'
    BY <1>19 DEF HandlerDone, BarrierInv, BarrierAt, DeliveredTo, About, Draining
  <2>3. QED
    BY <2>1, <2>2, BarrierMoves
<1>20. CASE NoMoreEvents
  <2>1. UNCHANGED <<stack, applied, posted, popped, barrier>>
    BY <1>20 DEF NoMoreEvents
  <2>2. BarrierAt(cpc, after, target)'
    <3>1. /\ posted \in Seq(Nat) /\ Len(posted) \in Nat /\ applied \in Nat /\ target \in Nat
          /\ DOMAIN posted = 1..Len(posted) /\ \A i \in DOMAIN posted : posted[i] \in Nat
      BY DEF TypeOK
    <3>2. cpc = "pop" /\ cpc' = "release" /\ popped = shown /\ UNCHANGED <<after, target>>
      BY <1>20 DEF NoMoreEvents
    <3>3. after = "done" => target <= applied
      BY <3>2 DEF BarrierInv, BarrierAt, About, Draining
    <3>4. ASSUME NEW i \in DOMAIN posted, posted[i] <= target, target <= applied PROVE i <= popped
      BY <3>1, <3>2, <3>4 DEF ShownInv
    <3>5. QED
      BY <2>1, <3>2, <3>3, <3>4 DEF BarrierAt, DeliveredTo, About, Draining
  <2>3. QED
    BY <2>1, <2>2, BarrierMoves
<1>21. CASE Release
  <2>1. UNCHANGED <<stack, applied, posted, popped, barrier>>
    BY <1>21 DEF Release
  <2>2. BarrierAt(cpc, after, target)'
    BY <1>21 DEF Release, BarrierInv, BarrierAt, DeliveredTo, About, Draining
  <2>3. QED
    BY <2>1, <2>2, BarrierMoves
<1>22. CASE ClearLatch
  <2>1. UNCHANGED <<stack, applied, posted, popped, barrier>>
    BY <1>22 DEF ClearLatch
  <2>2. BarrierAt(cpc, after, target)'
    BY <1>22 DEF ClearLatch, BarrierInv, BarrierAt, DeliveredTo, About, Draining, TypeOK, AfterDrain
  <2>3. QED
    BY <2>1, <2>2, BarrierMoves
<1>23. CASE Shutdown
  <2>1. UNCHANGED <<stack, applied, posted, popped, barrier>>
    BY <1>23 DEF Shutdown
  <2>2. BarrierAt(cpc, after, target)'
    BY <1>23 DEF Shutdown, BarrierAt, About, Draining
  <2>3. QED
    BY <2>1, <2>2, BarrierMoves
<1>24. CASE ReserveEvent
  <2>1. /\ UNCHANGED <<cpc, after, target, stack, barrier, applied, popped>> /\ applied \in Nat
        /\ posted' = posted \/ posted' = Append(posted, applied + 1)
    BY <1>24 DEF ReserveEvent, TypeOK
  <2>2. QED
    BY <2>1, BarrierKept
<1>25. CASE AdvanceApplied
  <2>1. /\ UNCHANGED <<cpc, after, target, stack, barrier, posted, popped>> /\ applied \in Nat
        /\ applied' = applied + 1
    BY <1>25 DEF AdvanceApplied, TypeOK
  <2>2. QED
    BY <2>1, BarrierKept
<1>26. CASE PopRecord \/ TakeControl \/ WantEvent \/ PublishEvents \/ RaiseLatch
  <2>1. UNCHANGED <<cpc, after, target, stack, barrier, applied, posted, popped>>
    BY <1>26 DEF PopRecord, TakeControl, WantEvent, PublishEvents, RaiseLatch
  <2>2. applied \in Nat
    BY DEF TypeOK
  <2>3. QED
    BY <2>1, <2>2, BarrierKept
<1>27. CASE BacklogDrained \/ Forfeit \/ ReturnPresentCredit \/ RetireBatch \/ AnswerControl
  <2>1. UNCHANGED <<cpc, after, target, stack, barrier, applied, posted, popped>>
    BY <1>27 DEF BacklogDrained, Forfeit, ReturnPresentCredit, RetireBatch, AnswerControl
  <2>2. applied \in Nat
    BY DEF TypeOK
  <2>3. QED
    BY <2>1, <2>2, BarrierKept
<1>28. CASE UNCHANGED vars
  BY <1>28 DEF BarrierInv, BarrierAt, About, DeliveredTo
<1>29. QED
  BY <1>1, <1>2, <1>3, <1>4, <1>5, <1>6, <1>7, <1>8, <1>9, <1>10, <1>11, <1>12, <1>13, <1>14,
     <1>15, <1>16, <1>17, <1>18, <1>19, <1>20, <1>21, <1>22, <1>23, <1>24, <1>25, <1>26, <1>27,
     <1>28 DEF Next, ClientStep, ServerStep

(* A swap that returns, or a record that is no present, moves no present's *)
(* credit.                                                                 *)
LEMMA CreditKept ==
  ASSUME TypeOK, CreditInv, UNCHANGED <<stack, frames>>, swaps' \in Nat, swaps' >= swaps,
         CreditAt(cpc, after, target)'
  PROVE  CreditInv'
<1>1. Len(frames) \in Nat /\ swaps \in Nat /\ Credit \in Nat
  BY FlowAssumption DEF TypeOK
<1>2. Len(frames') <= swaps' + Credit
  BY <1>1 DEF CreditInv
<1>3. ASSUME NEW i \in DOMAIN stack
      PROVE  CreditAt(stack[i].pc, stack[i].after, stack[i].target)'
  BY <1>1 DEF CreditInv, CreditAt, About
<1>4. QED
  BY <1>2, <1>3 DEF CreditInv

LEMMA CreditCall ==
  ASSUME TypeOK, CreditInv, NEW pc \in {"space", "window", "applied"}, Call(pc),
         cpc \in Callbacks \union {"run", "present"}, UNCHANGED <<frames, swaps>>
  PROVE  CreditInv'
<1>1. /\ cpc' = pc /\ DOMAIN stack' = 1..Len(stack) + 1 /\ DOMAIN stack = 1..Len(stack)
      /\ stack'[1].pc = cpc /\ stack'[1].after = after /\ stack'[1].target = target
      /\ \A i \in 1..Len(stack) + 1 : i # 1 => stack'[i] = stack[i - 1]
      /\ Len(stack) \in Nat
  BY CallFrames
<1>2. CreditAt(cpc, after, target)'
  BY <1>1 DEF CreditAt, About, Draining
<1>3. ASSUME NEW i \in DOMAIN stack'
      PROVE  CreditAt(stack'[i].pc, stack'[i].after, stack'[i].target)
  <2>1. CASE i = 1
    BY <1>1, <2>1 DEF CreditInv
  <2>2. CASE i # 1
    <3>1. i - 1 \in DOMAIN stack /\ stack'[i] = stack[i - 1]
      BY <1>1, <1>3, <2>2
    <3>2. QED
      BY <3>1 DEF CreditInv
  <2>3. QED
    BY <2>1, <2>2
<1>4. QED
  BY <1>2, <1>3 DEF CreditInv, CreditAt, About

LEMMA CreditReturn ==
  ASSUME TypeOK, CreditInv, stack # <<>>, Return, UNCHANGED <<frames, swaps>>
  PROVE  CreditInv'
<1>1. /\ 1 \in DOMAIN stack /\ DOMAIN stack' = 1..Len(stack) - 1 /\ DOMAIN stack = 1..Len(stack)
      /\ cpc' = Resume(stack[1].pc) /\ after' = stack[1].after /\ target' = stack[1].target
      /\ \A i \in 1..Len(stack) - 1 : stack'[i] = stack[i + 1]
      /\ Len(stack) \in Nat
  BY ReturnFrames
<1>2. CreditAt(stack[1].pc, after', target')
  BY <1>1 DEF CreditInv
<1>3. CreditAt(cpc', after', target')
  BY <1>1, <1>2 DEF CreditAt, Resume, About, Draining
<1>4. ASSUME NEW i \in DOMAIN stack'
      PROVE  CreditAt(stack'[i].pc, stack'[i].after, stack'[i].target)
  <2>1. i + 1 \in DOMAIN stack /\ stack'[i] = stack[i + 1]
    BY <1>1, <1>4
  <2>2. QED
    BY <2>1 DEF CreditInv
<1>5. QED
  BY <1>3, <1>4 DEF CreditInv, CreditAt, About

(* A present is the program's own: when it is published, no call is under  *)
(* it that counts on a credit.                                             *)
LEMMA PresentPublished ==
  ASSUME TypeOK, CreditInv, Publish("present"), swaps' = swaps, stack' = <<>>,
         Len(frames) < swaps + Credit, cpc' = "run"
  PROVE  CreditInv'
<1>1. Len(frames) \in Nat /\ swaps \in Nat /\ Credit \in Nat
  BY FlowAssumption DEF TypeOK
<1>2. Len(frames') <= swaps' + Credit
  BY <1>1, PublishedFrames
<1>3. CreditAt(cpc, after, target)'
  BY DEF CreditAt, About, Draining
<1>4. QED
  BY <1>2, <1>3 DEF CreditInv

(* A present that must wait waits for the swap a credit behind its own, and *)
(* goes on only once that swap has returned; what a callback publishes     *)
(* meanwhile is no present.                                                *)
LEMMA CreditStep == ASSUME TypeOK, CallInv, CreditInv, [Next]_vars PROVE CreditInv'
<1> USE DEF vars, clientVars, serverVars
<1>1. CASE Emit
  <2>1. /\ Publish(cpc) /\ cpc \in Callbacks \union {"run", "present"}
        /\ UNCHANGED <<serverVars, latch, control, after, popped, barrier, drained>>
    BY <1>1 DEF Emit, MayEmit, Emitting
  <2>2. CASE cpc = "present"
    <3>1. About(cpc, after) = "present" /\ About(cpc, after) \notin Called
      BY <2>2 DEF About, Called, Draining
    <3>2. stack = <<>> /\ Len(frames) < swaps + Credit
      BY <2>2, <3>1 DEF CallInv, CreditInv, CreditAt
    <3>3. cpc' = "run" /\ stack' = stack
      BY <1>1, <2>2 DEF Emit, Resume
    <3>4. QED
      BY <2>1, <2>2, <3>2, <3>3, PresentPublished
  <2>3. CASE cpc # "present" /\ cpc' = Resume(cpc) /\ UNCHANGED <<target, stack>>
    <3>1. UNCHANGED <<stack, frames, swaps>> /\ swaps \in Nat /\ cpc' = cpc
      BY <2>1, <2>3 DEF Publish, Resume, TypeOK
    <3>2. CreditAt(cpc, after, target)'
      BY <2>1, <2>3, <3>1 DEF CreditInv, CreditAt, About
    <3>3. QED
      BY <3>1, <3>2, CreditKept
  <2>4. CASE cpc # "present" /\ Call("applied")
    <3>1. UNCHANGED <<frames, swaps>>
      BY <2>1, <2>4 DEF Publish
    <3>2. QED
      BY <2>1, <2>4, <3>1, CreditCall
  <2>5. QED
    BY <1>1, <2>2, <2>3, <2>4 DEF Emit
<1>2. CASE NeedSpace
  <2>1. /\ Call("space") /\ cpc \in Callbacks \union {"run", "present"}
        /\ UNCHANGED <<frames, swaps>>
    BY <1>2 DEF NeedSpace, MayEmit, Emitting
  <2>2. QED
    BY <2>1, CreditCall
<1>3. CASE NeedStage
  <2>1. UNCHANGED <<stack, frames, swaps>> /\ swaps \in Nat
    BY <1>3 DEF NeedStage, TypeOK
  <2>2. CreditAt(cpc, after, target)'
    BY <1>3 DEF NeedStage, BeginDrain, CreditAt, About, Draining
  <2>3. QED
    BY <2>1, <2>2, CreditKept
<1>4. CASE NeedOldestAnswer
  <2>1. /\ Call("window") /\ cpc \in Callbacks \union {"run", "present"}
        /\ UNCHANGED <<frames, swaps>>
    BY <1>4 DEF NeedOldestAnswer, MayEmit, Emitting
  <2>2. QED
    BY <2>1, CreditCall
<1>5. CASE StartPresent
  <2>1. UNCHANGED <<stack, frames, swaps>> /\ swaps \in Nat
    BY <1>5 DEF StartPresent, TypeOK
  <2>2. CreditAt(cpc, after, target)'
    <3>1. Len(frames) \in Nat /\ swaps \in Nat /\ Credit \in Nat /\ Credit > 0
      BY FlowAssumption DEF TypeOK
    <3>2. QED
      BY <1>5, <3>1 DEF StartPresent, CreditAt, About, Draining
  <2>3. QED
    BY <2>1, <2>2, CreditKept
<1>6. CASE CatchUp
  <2>1. UNCHANGED <<stack, frames, swaps>> /\ swaps \in Nat
    BY <1>6 DEF CatchUp, TypeOK
  <2>2. CreditAt(cpc, after, target)'
    BY <1>6 DEF CatchUp, CreditAt, About, Draining
  <2>3. QED
    BY <2>1, <2>2, CreditKept
<1>7. CASE PollEntry
  <2>1. UNCHANGED <<stack, frames, swaps>> /\ swaps \in Nat
    BY <1>7 DEF PollEntry, TypeOK
  <2>2. CreditAt(cpc, after, target)'
    BY <1>7 DEF PollEntry, BeginDrain, CreditAt, About, Draining
  <2>3. QED
    BY <2>1, <2>2, CreditKept
<1>8. CASE SpaceFreed
  <2>1. UNCHANGED <<stack, frames, swaps>> /\ swaps \in Nat
    BY <1>8 DEF SpaceFreed, TypeOK
  <2>2. CreditAt(cpc, after, target)'
    BY <1>8 DEF SpaceFreed, BeginDrain, CreditAt, About, Draining
  <2>3. QED
    BY <2>1, <2>2, CreditKept
<1>9. CASE EmitAfterWait
  <2>1. /\ Publish(Head(stack).pc) /\ stack # <<>>
        /\ UNCHANGED <<serverVars, latch, control, popped, barrier, drained>>
    BY <1>9, HasCaller DEF EmitAfterWait, Called
  <2>2. CASE Return /\ Head(stack).pc = "present"
    <3>1. /\ 1 \in DOMAIN stack /\ Head(stack) = stack[1] /\ Len(stack) \in Nat /\ Len(stack) >= 1
          /\ cpc' = Resume(stack[1].pc) /\ (stack' = <<>> <=> Len(stack) = 1)
      BY <2>1, <2>2, ReturnFrames
    <3>2. /\ stack[1].pc = "present" /\ About(stack[1].pc, stack[1].after) = "present"
          /\ About(stack[1].pc, stack[1].after) \notin Called
      BY <2>2, <3>1 DEF About, Called, Draining
    <3>3. Len(stack) = 1
      <4>1. ~(1 < Len(stack))
        BY <3>1, <3>2 DEF CallInv
      <4>2. QED
        BY <3>1, <4>1
    <3>4. Len(frames) < swaps + Credit
      <4>1. CreditAt(stack[1].pc, stack[1].after, stack[1].target)
        BY <3>1 DEF CreditInv
      <4>2. QED
        BY <3>2, <4>1 DEF CreditAt
    <3>5. cpc' = "run" /\ stack' = <<>>
      BY <3>1, <3>2, <3>3 DEF Resume
    <3>6. QED
      BY <2>1, <2>2, <3>3, <3>4, <3>5, PresentPublished
  <2>3. CASE Return /\ Head(stack).pc # "present"
    <3>1. UNCHANGED <<frames, swaps>>
      BY <2>1, <2>3 DEF Publish
    <3>2. QED
      BY <2>1, <2>3, <3>1, CreditReturn
  <2>4. CASE Head(stack).pc # "present" /\ cpc' = "applied" /\ UNCHANGED <<after, stack>>
    <3>1. UNCHANGED <<stack, frames, swaps>> /\ swaps \in Nat
      BY <2>1, <2>4 DEF Publish, TypeOK
    <3>2. CreditAt(cpc, after, target)'
      BY <2>4 DEF CreditAt, About, Draining
    <3>3. QED
      BY <3>1, <3>2, CreditKept
  <2>5. QED
    BY <1>9, <2>2, <2>3, <2>4 DEF EmitAfterWait
<1>10. CASE EncodeRefused
  <2>1. UNCHANGED <<stack, frames, swaps>> /\ swaps \in Nat
    BY <1>10 DEF EncodeRefused, TypeOK
  <2>2. CreditAt(cpc, after, target)'
    BY <1>10 DEF EncodeRefused, CreditAt, About, Draining
  <2>3. QED
    BY <2>1, <2>2, CreditKept
<1>11. CASE StageRetired
  <2>1. UNCHANGED <<stack, frames, swaps>> /\ swaps \in Nat
    BY <1>11 DEF StageRetired, TypeOK
  <2>2. CreditAt(cpc, after, target)'
    BY <1>11 DEF StageRetired, BeginDrain, CreditAt, About, Draining
  <2>3. QED
    BY <2>1, <2>2, CreditKept
<1>12. CASE OldestAnswered
  <2>1. Return /\ stack # <<>> /\ UNCHANGED <<frames, swaps>>
    BY <1>12, HasCaller DEF OldestAnswered, Called
  <2>2. QED
    BY <2>1, CreditReturn
<1>13. CASE CaughtUp
  <2>1. UNCHANGED <<stack, frames, swaps>> /\ swaps \in Nat
    BY <1>13 DEF CaughtUp, TypeOK
  <2>2. CreditAt(cpc, after, target)'
    BY <1>13 DEF CaughtUp, CreditAt, About, Draining
  <2>3. QED
    BY <2>1, <2>2, CreditKept
<1>14. CASE PostControl
  <2>1. UNCHANGED <<stack, frames, swaps>> /\ swaps \in Nat
    BY <1>14 DEF PostControl, TypeOK
  <2>2. CreditAt(cpc, after, target)'
    BY <1>14 DEF PostControl, CreditAt, About, Draining
  <2>3. QED
    BY <2>1, <2>2, CreditKept
<1>15. CASE ControlAnswered
  <2>1. UNCHANGED <<stack, frames, swaps>> /\ swaps \in Nat
    BY <1>15 DEF ControlAnswered, TypeOK
  <2>2. CreditAt(cpc, after, target)'
    BY <1>15 DEF ControlAnswered, BeginDrain, CreditAt, About, Draining
  <2>3. QED
    BY <2>1, <2>2, CreditKept
<1>16. CASE WatermarkOrBacklog
  <2>1. UNCHANGED <<stack, frames, swaps>> /\ swaps \in Nat
    BY <1>16 DEF WatermarkOrBacklog, TypeOK
  <2>2. CreditAt(cpc, after, target)'
    <3>1. Len(frames) \in Nat /\ swaps \in Nat /\ Credit \in Nat /\ target \in Nat
      BY FlowAssumption DEF TypeOK
    <3>2. cpc = "credit" => target = Len(frames) + 1 - Credit /\ Credit <= Len(frames)
      BY DEF CreditInv, CreditAt, About, Draining
    <3>3. cpc' = "pop" /\ UNCHANGED <<target, frames, swaps>>
      BY <1>16 DEF WatermarkOrBacklog, BeginDrain
    <3>4. CASE cpc = "credit" /\ swaps >= target
      <4>1. after' = "present"
        BY <1>16, <3>4 DEF WatermarkOrBacklog, BeginDrain, Onward, Watermark
      <4>2. Len(frames) < swaps + Credit
        BY <3>1, <3>2, <3>4
      <4>3. QED
        BY <3>3, <4>1, <4>2 DEF CreditAt, About, Draining
    <3>5. CASE cpc = "credit" /\ ~(swaps >= target)
      <4>1. after' = "credit"
        BY <1>16, <3>5 DEF WatermarkOrBacklog, BeginDrain, Watermark
      <4>2. QED
        BY <3>2, <3>3, <3>5, <4>1 DEF CreditAt, About, Draining
    <3>6. CASE cpc \in {"applied", "catchup"}
      <4>1. after' \in {"applied", "done", "caughtup"}
        BY <1>16, <3>6 DEF WatermarkOrBacklog, BeginDrain, Onward
      <4>2. QED
        BY <3>3, <4>1 DEF CreditAt, About, Draining
    <3>7. QED
      BY <1>16, <3>4, <3>5, <3>6 DEF WatermarkOrBacklog, Parks
  <2>3. QED
    BY <2>1, <2>2, CreditKept
<1>17. CASE BarrierDone
  <2>1. Return /\ stack # <<>> /\ UNCHANGED <<frames, swaps>>
    BY <1>17, HasCaller DEF BarrierDone, Called
  <2>2. QED
    BY <2>1, CreditReturn
<1>18. CASE PopEvent
  <2>1. UNCHANGED <<stack, frames, swaps>> /\ swaps \in Nat
    BY <1>18 DEF PopEvent, TypeOK
  <2>2. CreditAt(cpc, after, target)'
    BY <1>18 DEF PopEvent, CreditInv, CreditAt, About, Draining
  <2>3. QED
    BY <2>1, <2>2, CreditKept
<1>19. CASE HandlerDone
  <2>1. UNCHANGED <<stack, frames, swaps>> /\ swaps \in Nat
    BY <1>19 DEF HandlerDone, TypeOK
  <2>2. CreditAt(cpc, after, target)'
    BY <1>19 DEF HandlerDone, CreditInv, CreditAt, About, Draining
  <2>3. QED
    BY <2>1, <2>2, CreditKept
<1>20. CASE NoMoreEvents
  <2>1. UNCHANGED <<stack, frames, swaps>> /\ swaps \in Nat
    BY <1>20 DEF NoMoreEvents, TypeOK
  <2>2. CreditAt(cpc, after, target)'
    BY <1>20 DEF NoMoreEvents, CreditInv, CreditAt, About, Draining
  <2>3. QED
    BY <2>1, <2>2, CreditKept
<1>21. CASE Release
  <2>1. UNCHANGED <<stack, frames, swaps>> /\ swaps \in Nat
    BY <1>21 DEF Release, TypeOK
  <2>2. CreditAt(cpc, after, target)'
    BY <1>21 DEF Release, CreditInv, CreditAt, About, Draining
  <2>3. QED
    BY <2>1, <2>2, CreditKept
<1>22. CASE ClearLatch
  <2>1. UNCHANGED <<stack, frames, swaps>> /\ swaps \in Nat
    BY <1>22 DEF ClearLatch, TypeOK
  <2>2. CreditAt(cpc, after, target)'
    BY <1>22 DEF ClearLatch, CreditInv, CreditAt, About, Draining, TypeOK, AfterDrain
  <2>3. QED
    BY <2>1, <2>2, CreditKept
<1>23. CASE Shutdown
  <2>1. UNCHANGED <<stack, frames, swaps>> /\ swaps \in Nat
    BY <1>23 DEF Shutdown, TypeOK
  <2>2. CreditAt(cpc, after, target)'
    BY <1>23 DEF Shutdown, CreditAt, About, Draining
  <2>3. QED
    BY <2>1, <2>2, CreditKept
<1>24. CASE ReturnPresentCredit
  <2>1. /\ UNCHANGED <<cpc, after, target, stack, frames>> /\ swaps' = swaps + 1 /\ swaps \in Nat
        /\ Len(frames) \in Nat
    BY <1>24 DEF ReturnPresentCredit, TypeOK
  <2>2. CreditAt(cpc, after, target)'
    BY <2>1, FlowAssumption DEF CreditInv, CreditAt, About
  <2>3. QED
    BY <2>1, <2>2, CreditKept
<1>25. CASE PopRecord \/ TakeControl \/ WantEvent \/ ReserveEvent \/ PublishEvents \/
       RaiseLatch
  <2>1. UNCHANGED <<cpc, after, target, stack, frames, swaps>> /\ swaps \in Nat
    BY <1>25 DEF PopRecord, TakeControl, WantEvent, ReserveEvent, PublishEvents, RaiseLatch,
           TypeOK
  <2>2. QED
    BY <2>1, CreditKept DEF CreditInv, CreditAt, About
<1>26. CASE BacklogDrained \/ Forfeit \/ AdvanceApplied \/ RetireBatch \/ AnswerControl
  <2>1. UNCHANGED <<cpc, after, target, stack, frames, swaps>> /\ swaps \in Nat
    BY <1>26 DEF BacklogDrained, Forfeit, AdvanceApplied, RetireBatch, AnswerControl, TypeOK
  <2>2. QED
    BY <2>1, CreditKept DEF CreditInv, CreditAt, About
<1>27. CASE UNCHANGED vars
  BY <1>27 DEF CreditInv, CreditAt, About
<1>28. QED
  BY <1>1, <1>2, <1>3, <1>4, <1>5, <1>6, <1>7, <1>8, <1>9, <1>10, <1>11, <1>12, <1>13, <1>14,
     <1>15, <1>16, <1>17, <1>18, <1>19, <1>20, <1>21, <1>22, <1>23, <1>24, <1>25, <1>26, <1>27
     DEF Next, ClientStep, ServerStep

(* An event is posted only into room that drained events left.             *)
LEMMA ReleaseStep == ASSUME TypeOK, ReleaseInv, [Next]_vars PROVE ReleaseInv'
<1> USE FlowAssumption DEF TypeOK, ReleaseInv, vars, clientVars, serverVars
<1>1. CASE Release
  BY <1>1 DEF Release
<1>2. CASE ReserveEvent
  BY <1>2 DEF ReserveEvent
<1>3. CASE Emit \/ NeedSpace \/ NeedStage \/ NeedOldestAnswer \/ StartPresent \/ CatchUp \/
       PollEntry
  BY <1>3 DEF Emit, NeedSpace, NeedStage, NeedOldestAnswer, StartPresent, CatchUp, PollEntry
<1>4. CASE SpaceFreed \/ EmitAfterWait \/ EncodeRefused \/ StageRetired \/ OldestAnswered \/
       CaughtUp \/ PostControl \/ ControlAnswered \/ WatermarkOrBacklog
  BY <1>4 DEF SpaceFreed, EmitAfterWait, EncodeRefused, StageRetired, OldestAnswered, CaughtUp,
         PostControl, ControlAnswered, WatermarkOrBacklog
<1>5. CASE BarrierDone \/ PopEvent \/ HandlerDone \/ NoMoreEvents \/ ClearLatch \/ Shutdown \/
       PopRecord \/ TakeControl
  BY <1>5 DEF BarrierDone, PopEvent, HandlerDone, NoMoreEvents, ClearLatch, Shutdown, PopRecord,
         TakeControl
<1>6. CASE WantEvent \/ PublishEvents \/ RaiseLatch \/ BacklogDrained \/ Forfeit \/
       ReturnPresentCredit \/ AdvanceApplied
  BY <1>6 DEF WantEvent, PublishEvents, RaiseLatch, BacklogDrained, Forfeit,
         ReturnPresentCredit, AdvanceApplied
<1>7. CASE RetireBatch \/ AnswerControl
  BY <1>7 DEF RetireBatch, AnswerControl
<1>8. CASE UNCHANGED vars
  BY <1>8
<1>9. QED
  BY <1>1, <1>2, <1>3, <1>4, <1>5, <1>6, <1>7, <1>8 DEF Next, ClientStep, ServerStep

(* The strengthening is inductive.                                         *)
LEMMA NextIInv == ASSUME IInv, [Next]_vars PROVE IInv'
<1> USE DEF IInv
<1>1. TypeOK' /\ CallInv' /\ HandInv'
  BY TypeStep, CallStep, HandStep
<1>2. ShownInv' /\ BarrierInv'
  BY ShownStep, BarrierStep
<1>3. CreditInv' /\ ReleaseInv'
  BY CreditStep, ReleaseStep
<1>4. QED
  BY <1>1, <1>2, <1>3

(* Whatever the two threads do and in whatever order, what the server has  *)
(* in hand, what the event ring shows, what a barrier has delivered and    *)
(* what a present may use stay as IInv says.                               *)
THEOREM InvariantHolds == Spec => []IInv
<1>1. Init => IInv
  BY InitIInv
<1>2. IInv /\ [Next]_vars => IInv'
  BY NextIInv
<1>3. QED
  BY <1>1, <1>2, PTL DEF Spec

(* WaitForApplyToCatchUp before every frame: while one is posted or served, *)
(* no record is in the stream, whatever the callbacks of its drains and its *)
(* pins published.                                                         *)
THEOREM FrameSafety == Spec => []FramesFindNoRecord
<1>1. IInv => FramesFindNoRecord
  BY DEF IInv, HandInv
<1>2. QED
  BY <1>1, InvariantHolds, PTL

(* EmitAndWait's drain after the watermark: when a barrier completes, every *)
(* event of its record and of the records before it has been delivered.    *)
THEOREM BarrierSafety == Spec => []BarrierSeesItsEvents
<1>1. IInv => BarrierSeesItsEvents
  BY DEF IInv, BarrierInv, BarrierSeesItsEvents
<1>2. QED
  BY <1>1, InvariantHolds, PTL

(* AcquirePresentCredit: the client never runs more swaps ahead of the     *)
(* server than its credit.                                                 *)
THEOREM CreditSafety == Spec => []CreditPaces
<1>1. IInv => CreditPaces
  BY DEF IInv, CreditInv, CreditPaces
<1>2. QED
  BY <1>1, InvariantHolds, PTL

(* ReserveEventOrBlock against the tail the client released: no event's    *)
(* bytes are written over before the client has delivered it.              *)
THEOREM DeliverySafety == Spec => []EventsKeptUntilDelivered
<1>1. IInv => EventsKeptUntilDelivered
  <2>1. SUFFICES ASSUME TypeOK, ReleaseInv PROVE EventsKeptUntilDelivered
    BY DEF IInv
  <2>2. posted \in Seq(Nat) /\ Len(posted) \in Nat
    BY <2>1 DEF TypeOK
  <2>3. shown \in Nat /\ popped \in Nat /\ drained \in Nat /\ drained <= popped
    BY <2>1, <2>2 DEF TypeOK
  <2>4. EventSlots \in Nat /\ Len(posted) - drained <= EventSlots
    BY <2>1, FlowAssumption DEF ReleaseInv
  <2>5. QED
    BY <2>2, <2>3, <2>4 DEF EventsKeptUntilDelivered
<1>2. QED
  BY <1>1, InvariantHolds, PTL

(* The fair session is a session: what holds of every behaviour holds of   *)
(* those the runs check.                                                   *)
COROLLARY FairSafety == FairSpec => [](IInv /\ BarrierSeesItsEvents /\ CreditPaces)
BY InvariantHolds, BarrierSafety, CreditSafety, PTL DEF FairSpec

==================================================================================
