# TLA+ specifications of MobileGL's client/server transport

MobileGL implements desktop OpenGL over OpenGL ES or Vulkan. Its OpenGL front end
can run in one process and the backend that talks to the driver in another (or on
another thread of the same process). The front end's calls become *records* on a
shared-memory ring; an *apply thread* in the server applies them; the backend's
answers, errors and notifications come back on other shared segments. That part,
`src/MobileGL/MG_Remote`, is concurrent, lock-free in its fast path, paced by
several kinds of backpressure and full of early ways out, and it is what these
specifications are about.

Contents: [the system](#1-the-system) · [the modules](#2-the-modules) ·
[the runs](#3-the-runs) · [what the code does that its comments do not
say](#4-disagreements-with-the-comments) · [the proofs](#5-the-proofs) ·
[what is not modelled](#6-what-is-not-modelled) · [the plan](#7-the-plan) ·
[running everything](#8-running-everything)

## 1. The system

### Threads

| thread | side | what it does |
|---|---|---|
| GL thread | client | runs the application's GL calls, emits records, stages blobs, waits, drains the reverse channel. `Client/ClientSession.cpp` |
| control thread | server | accepts sessions, reads control frames (EGL operations), posts them to the apply thread and blocks for the reply. `Server/SessionRuntime.cpp`, `ServerMain.cpp` |
| apply thread | server | owns the backend: pops and applies records, runs control frames, posts events, retires. `Server/ServerLoop.cpp` |
| display thread | server | owns a native window; asks the apply thread to let go of a lost one and waits. `Server/ServerDisplay.cpp` |

In process, the GL thread is the control thread as well.

### Components, the state they keep, and what makes them correct

**Command ring, SEG_CMD** (`Transport/Ring.cpp`, `SessionRings.h`). *State*: three
shared cursors (`cmdHead`, `cmdAppliedTail`, `cmdRetiredTail`), the producer's and
consumer's own cursors, a sequence number on each side, the reclaim cursor and
the borrow flag. *Operations*: `Reserve`, the payload copy, `Publish`, `Pop`,
`ApplyOne`, `RetireThrough`, `RetireBorrowedUpTo`, `WaitForCmdSpace`. *Hard*: a
lock-free producer and consumer, pads before the wrap, two tails that advance
differently, records lent to the GPU past their apply, a record refused after it
was popped, a drain that publishes a record in the middle of another emission.
*Correct*: nothing lands on bytes somebody still reads; the server's n-th record
is the client's n-th; a wait for space ends and asks for enough.

**Doorbells** (`Transport/Doorbell.h`, `.cpp`, `SessionConsumer::NotifyClient`).
*State*: a parked flag per side, the sequence number the client's wait is
narrowed to, the bell's own memory (a counted condition variable, or unread
bytes in a socket), death. *Operations*: `Wait` (test, spin, announce, fence, re-test,
park, clear, re-test), `Notify`, `NotifyIfParked`, `NotifyClient`, `Kill`. *Hard*:
the store-buffer race, narrowed wakeups, stale wakeups, a socket that is full,
deadlines. *Correct*: what is published ends the wait for it; success is never
reported for anything else; a death ends every wait.

**Event ring, SEG_EVENT, and flow control** (`Transport/EventRing.h`,
`ServerSession::ReserveEventOrBlock`, the waits of `ClientSession`). *State*: the
ring's cursors, `eventRingFull`, the reverse channel's forfeit, the swaps that returned.
*Operations*: reserve or block, publish, drain (pop, release, clear the latch, ring), the
barrier, the waits for command space, staging, a present's credit and a deferred create's answer, the
in-process control frame with its catch-up, forfeit. *Hard*: two bounded streams in
opposite directions, each with a side that can stop the other; waits inside the drains of other waits. *Correct*: a
barrier has delivered its record's events; no event is lost before delivery; no present runs ahead of
its credit; every wait ends.

**Stage allocator, SEG_STAGE** (`Wire/PipeWireCodec.cpp`). *State*: head, tail,
one mark per encoded record. *Operations*: `StageAllocate` with its reclaim, wait and
retry, `RebaseEmptyStage`, `ReclaimStagedBytes`, `EncodeRecord`'s mark. *Hard*:
wrap skips, the rebase under marks still held, an encode nested in another
record's staging. *Correct*: no blob is overwritten before its record has
retired; counters never underflow; a blob that fits is not refused.

**Apply loop** (`Server/ServerLoop.cpp`). *State*: stop, abandon and latch flags, the
control mailbox, the window request, the drain's batch, `m_running`, the
backend. *Operations*: `ApplyThreadMain`, `PumpControlRequest`, `DrainRing`,
`RunSurfaceControlFrame`, `Stop`, fence reports. *Hard*: six words in one park condition,
four ways to cut a drain short, frames posted while the thread exits. *Correct*:
every frame is answered; an orderly end drops nothing; whatever was applied is
retired when the thread rests; a window request does not wait for the queue;
the loop neither spins nor sleeps for ever.

**Client session** (`Client/ClientSession.cpp`): the order in which the four above are
used (`EmitAndWaitTails`), device loss, the capability handshake, present credit,
reply reading, the window of deferred creates (`WireTables.cpp`). *Correct*: a wait is never entered holding
what would end it; an object is believed to be on the server only if it is.

**Server session** (`Server/ServerSession.cpp`): events, replies, capability
publication, the peer's death. **Pipe applier** (`Server/PipeApplier.cpp`): decodes
a record into backend calls, tracks fences. **Wire codec**: record layouts.

**Links** (`ShmLink.cpp`, `StreamLink.cpp`): the contract of the rings and the reply slots over shared
memory or over a byte stream. The stream link has two copies of everything: frames carry the command
bytes, the events, the watermarks, `eventRingFull` and the answers, an io thread on each side applies
them, and answers the client declared are kept in a bounded store until it reads them. *Hard*: four
threads; a frame received between two steps of the other thread; a declared answer nobody reads yet. *Correct*:
no declared answer is missing or evicted, events arrive before the watermark that vouches for them, a
latch raised on one side is known on the other. **Reply slots** (`Transport/ReplySlot.h`): answers over shared
memory, addressed by `seq % slotCount` and stamped with the sequence number.

**Adoption** (`AdoptT0.cpp`, `AdoptInbox.cpp`): descriptors arrive on a second
socket and are matched to records. **Server window lease** (`ServerDisplay.cpp`):
a window belongs to at most one session. **Admission** (`PreAuthGate.h`,
`PairAcceptor.cpp`): a bounded number of unauthenticated connections; control and
data connections are paired.

**Shader compile pool** (`MG_Util/Async`, and the asynchronous half of the shader and program objects): the
front end's only thread pool. *State*: a queue, a concurrency budget, per node a state, a cancellation request and
continuations; which shader objects hold a compile; what a link waits for. *Operations*: `Post`, `Cancel`,
`Run`, `OnTerminal`, `Wait`, `SetMaxConcurrency`, `StopAndDrain`; compile, re-source, delete, link, join. *Hard*: continuations run
inside transitions, under somebody else's call; a hand-over may throw; two shaders share one compile;
the pool may stop between any two steps. *Correct*: every node settles once and after what it
depends on, no slot of the budget is lost, no wanted compile is cancelled, a link fails only for a shader that
does not compile, a drained pool is quiet. **Slot handles** (`MG_Impl/Pipe/SlotAllocator.cpp`): a
`{slot, gen}` names one object only.

**Client tables and mirrors** (but for the create window), **shared images**,
**segments and descriptor passing**, **framing and logs**, **the pipe contract**
(`MG_Pipe`), **protocol and fatal funnel**, **persistent maps**, **GL front end and state**,
**window-system front ends**, **backends**, **utilities and GBM**: see section 6.

### How they interact

```
      GL thread                                       apply thread
  stage blobs  -> SEG_STAGE <- - - - - - - - - - - -  reads them
  encode       -> SEG_CMD   ------- cmdHead ------->  Pop, apply
                             <--- appliedSeq -------  after each record
  reclaim ring and stage     <--- retired tail, seq   after each batch
  drain        <- SEG_EVENT  <--- events -----------  while a record applies
               --- eventRingFull cleared ---------->  resumes
  control frame ------------- mailbox ------------->  between batches
```

Each arrow also rings the other side's doorbell. The loops to watch: the server
stops *inside* a record while SEG_EVENT is full, the client may at that moment wait
for something only the next retirement gives, and the client's drain delivers
events whose handlers emit records.

## 2. The modules

| module | models | composes or uses |
|---|---|---|
| `RecordStream` | what SEG_CMD promises, with no ring in it: records taken and finished one at a time, in order, none acknowledged unapplied | abstract specification |
| `CommandRing` | the ring's bytes and cursors, both its users | implements `RecordStream` |
| `Doorbell` | one endpoint's wait and its notifiers, at the level of single stores and fences | |
| `EventFlow` | the two streams, the client's waits and drains, present credit, control frames, the server's block and forfeit | abstracts a ring to a count, a park to its condition |
| `StageAllocator` | SEG_STAGE, nested encodes included | |
| `ApplyLoop` | the apply thread and the five kinds of threads it shares words with | abstracts a park to its condition, an event to "room or not" |
| `StreamLink` | a session over a byte stream: both copies of the shared words, the frames between them, the declared answers and the create window | composes the link, the client's window and the server's posts |
| `JobGraph` | what the job machinery promises, with no pool in it: every job settles once, after what it depends on | abstract specification |
| `CompilePool` | job nodes, the worker pool, shared compiles, links and their SPIR-V jobs | implements `JobGraph` |
| `CommandRingProofs`, `ApplyLoopProofs`, `EventFlowProofs`, `DoorbellProofs`, `StageAllocatorProofs`, `StreamLinkProofs`, `CompilePoolProofs` | theorems | extend the modules they are about |
| `CompilePoolLinkProofs` | theorems on links and on the refinement of `JobGraph` | extends `CompilePoolProofs` |

### CommandRing

The unit is the 8-byte word: `Align8` makes every record a whole number of words
and a header is one word. `mem` is the ring, and each word carries a kind, a size and
the number of the record that wrote it; the number in body words is a history tag, the
way the model tells one record's bytes from another's. The cursors are the code's
monotonic counts. The code masks them with `capacity - 1` and so wants a power of
two; the model uses `%`, which is the same for those capacities.

| code | action |
|---|---|
| `EmitAndWaitTails`, first `EncodeRecord` (`RingProducer::Reserve`) | `Emit` |
| `WaitForCmdSpace`, `DrainEventRing` | `SpaceFreed` |
| a handler of that drain that publishes | `NestedEmit` |
| the retry, or `Fatal{RingOverrun}` | `EncodeAfterSpaceWait` |
| the copy of the payload; `PublishAndNotify` | `FillPayload`; `Publish` |
| `RingConsumer::Pop` | `Pop` (with the pad skip and the header checks) |
| `ApplyOne` after the callback, true or false | `FinishApply`, `RejectApply` |
| `RetireThrough`, `RetireBorrowedUpTo` | the same names |

Today's encoder sets no borrow flag and only tests call `RetireBorrowedUpTo`; lending is
part of the ring's contract and is modelled as such. `log`, `lent` and `nested` are
history variables. A nested record that itself waits for space is left out here: `EventFlow` has it.

### Doorbell

One waiter, one notifier per counter. Each has a store buffer (x86-TSO): a plain or
release store sits in the buffer until it drains; a sequentially consistent fence or
store waits for it to be empty. That is the weakest ordering in which the race the
code's two fences exclude can be seen. Both sides are behaviours of one module
(`side`), since what a side waits for and who announces it differ: counters are
*narrowed* (announced through `NotifyClient`), *backlog*, *published* (announced through
`NotifyIfParked`) or rung *always*. `StartWait` lists the waits the program has.

### EventFlow

The client's `cpc` is where the GL thread stands: running, in one of its parks, or in a
drain (pop, the event's handler, release, clear the latch), after which it goes where `after`
says. Three places of the code besides the program's own calls emit records: a handler (`kEventSurfaceChanged` respecifies the default
framebuffer's textures), and the pins released after a catch-up's and after a barrier's drain; they are `Callbacks`.
What they emit may wait like anything else, before the drain around it has released its events and cleared
the latch. So an emission that waits is a call (`Call`, `Return`), and `stack` keeps what it interrupts.
`Waits` names the parks the program gets into, and `"callback"`, that its callbacks emit:

| wait | code | ends on |
|---|---|---|
| `applied` | a barrier, `WaitForAppliedOrEventBacklog` | the watermark or a full event ring |
| `credit` | `AcquirePresentCredit`, `WaitForPresentAckOrEventBacklog` | the swap a credit behind its own, or a full event ring |
| `control` | `WaitForApplyToCatchUp`, then the mailbox and `m_controlDone` | the watermark or a full event ring, again until its drain and pins published nothing; then the reply |
| `space` | `WaitForCmdSpace` | the retired tail |
| `stage` | the staging wait | the retired sequence number |
| `window` | `DrainCreateWindow`'s blocking take | the watermark |

The server's `spc` follows `DrainRing`, `PumpControlRequest` and `ReserveEventOrBlock`. `posted` keeps,
for each event, the record that produced it, and `frames`, for each present, its record. `Forfeit` stands for
every reason the server gives up (`MOBILEGL_IPC_EVENT_WAIT_MS` spent, stopped, peer gone).

### StageAllocator

`pc` walks through `StageAllocate`'s loop: rebase, try, reclaim, rebase, try, wait for the
oldest mark (drain, park, drain), reclaim again. `staged` holds the runs of the
record not yet encoded, `named` those of encoded records not yet retired, and `nested` says whether
a drain encoded a record between; `named` and `nested` are history, and so is a
run's place in the count of bytes (`pos`), from which its offset comes. The unit is the allocator's 8-byte alignment.

### ApplyLoop

`lpc` is where the apply thread stands; a step is what it does between two reads of a word
another thread writes. Drains are called from three places (`ret`): the loop, a teardown frame, and the
way out. `full`, `stop`, `abandon`, `latched`, `window`, `posted`, `pending`, `finished` are
the shared words. `asked`, `leftAt` and `overdue` are history. Records and frames have
no content: a record may post an event that finds no room, may be the client's one modelled fence,
and may be declined because the session has latched.

### StreamLink

`gl.pc` is the GL thread, `spc` the apply thread; the io threads are `ReceiveEvents`, `ReceiveProgress`,
`ReceiveReply` on the client and `ReceiveClientProgress`, `AdvanceHead` on the server (one frame writes two words, in two
steps). Frames of a direction are a sequence: the stream keeps order and loses nothing. Where two words mirror one,
there are two variables: `full` and `fullSeen`, `applied` and `appliedSeen`, `drained` and `eventTail`,
`placed` and `eventHead`. A record is a *post* (an event, no answer), a *read* (an event and an answer its caller waits
for), a *create* (an answer read later) or *unread* (an answer nobody declared, which the retry of a
fire-and-forget row produces). `pending`, `latched` and `suspects` are the create window's three tables; `held` is
what the server really has. SEG_CMD always has room: `EventFlow` has those waits.

### CompilePool and JobGraph

Threads run nested calls: `work[t]` is the list of what thread `t` has still to do, its head first, and a step
replaces the head by the calls it makes (a transition by its continuations, a post by the hand-over, a stop by
the cancellations). The pool's mutex is held over several steps, so a call made under it is seen to be. `src`,
`compiled` and `adopters` are the shader objects' side, `snap`, `remaining` and `verdict` the link's; the job
bodies are only their outcome. `MaxFailures` is the number of allocations that may throw. `JobGraph` has no queue,
budget or thread: `ImplementsJobGraph` maps the node states to it and each node's snapshot to its dependencies.

In each module the operators introduced by the word *Slip* in a comment (`PadOffByOne`,
`NoFence`, …), and a few that carry the mistake in their name (`TakeAll`, `RunAgain`), are not part of the
specification. Each is a plausible mistake in
the definition it precedes, kept to show that a property notices it: replacing the
definition by its slip makes TLC report the property named in `PROJECT.json`.

## 3. The runs

| run | config | shows |
|---|---|---|
| ring | `CommandRing.cfg` | cursors ordered at every instant, live bytes intact, order kept, lent records kept, the space wait enough unless a drain published; implements `RecordStream`; waits end and published records are applied |
| bell | `Doorbell.cfg` | no lost wakeup, no false success, what is published and what dies ends the wait |
| flow | `EventFlow.cfg` | a barrier sees its events, events are kept until delivered, the credit paces the swaps; barriers, credit waits and catch-ups end without a forfeit unless what a callback emits waits for ever, and every wait ends with one |
| stage | `StageAllocator.cfg` | the inductive invariant, with the cursors in order; runs disjoint when nothing nests, no wrongful refusal, every allocation ends |
| loop | `ApplyLoop.cfg` | the inductive invariant and the safety properties; every frame answered, the loop comes to rest, fences reported, a stop ends the thread |
| stream | `StreamLink.cfg` | no declared answer missing, evicted or one too many, events before the watermark, declined creates taken back; every call returns |
| pool | `CompilePool.cfg` | no lost slot, no idle budget, no wanted compile cancelled, true link verdicts, a quiet drain, `JobGraph` implemented; everything settles |
| ring_overrun, stage_reuse, flow_circular, stream_latch, pool_contexts | `*Overrun`, `*Reuse`, `*Circular`, `*Latch`, `*Contexts` | a counterexample each, section 4 |

Bounds, and why they are enough:

- **ring**: 4 words, 5 records of 1 or 2 words. Five records take the head around the
  ring more than once, every head offset occurs with every size, so a pad of one word occurs, as does a record that
  ends where the ring ends, and every interleaving of the server's steps with
  a wait. About 264 000 states. At capacity 4 a pad in the nested emission leaves no
  room that was not asked for, so the overrun of section 4 needs 8 words. The theorems cover every
  capacity.
- **bell**: every counter advances once, sockets hold one unread byte. Waits repeat, so a
  wakeup or a target left by one wait meets the next.
- **flow**: SEG_CMD holds two records and SEG_EVENT one event, so each fills with the next step; three records and three
  events make each fill and empty again, with records that post more than SEG_EVENT holds; a credit of one makes the
  second present wait. All six waits at once, with callbacks that emit: records of a handler fill the ring, wait for space inside the drain, find
  the room taken and nest four calls deep. About 780 000 states. The safety theorems cover any depth.
- **stage**: capacity 5 with blobs of 1, 2, 3 and 5 units: every skip, a blob as large as
  the segment, an exact fit, four records of up to two blobs each, so marks outlive a rebase.
  About 330 000 states. The theorems cover every capacity and size.
- **loop**: two records, one frame of either kind and one window request, against a stop, an abandon, a latch, a
  forfeit, full and drained events at every step. The theorems cover any number of each.
- **stream**: three records of any kind, three objects, one event slot, two frames in flight each way, a window of two and a store of
  four (`Window <= StoreCap \div 2`, the code's own `static_assert`). Three records are what it takes for a
  window to fill with a read or an undeclared answer in between. Three answers cannot overflow the store of four: that none ever does is what
  the theorem `NoSessionIsFatal` says, for every bound. About 365 000 states.
- **pool**: two workers, two sources over two shader objects (shared or not), a link with its SPIR-V job, one throw and
  four GL calls: compile, re-source, delete, link, suspend, join and stop in every order that fits. A second GL context is in `pool_contexts` only:
  it is what breaks the inline path. About 150 s.

`CHECK_DEADLOCK FALSE` is set everywhere: the number of records, frames, events, calls or
advances is bounded, the client need not do anything more, and a session ends.

### Fairness, and why the code justifies it

Only threads that are not blocked are assumed to run: weak fairness on the steps of a thread
that are not a choice of its environment.

- The application need not issue another call: no fairness on `Emit`, `Publish`,
  `PollEntry`, `Post`, `Signal`, `Kill`.
- `CommandRing`: the GL thread finishes what it began and the apply thread pops, applies and
  retires (`DrainRing` retires after each batch). Waiting for space also needs lent records to come
  back: weak fairness of the release of everything popped, which is what a GPU fence gives.
- `Doorbell`: store buffers drain.
- `EventFlow`: nothing makes the budget expire. `BarrierEnds` holds without it, of behaviours in which no emission of a callback waits for
  ever: its premise `[]<>~CallbackParked` is about the two waits that do not look at the latch, and without it the property is false, since a
  handler's record may wait
  for space inside the drain a stopped server waits for. The premise does not assume the conclusion: a barrier or a
  credit wait inside a callback is not in it. `EveryWaitEnds` has no such premise, and states its own assumption, `WF(Forfeit)`: the server's wait has a
  deadline. It covers what `BarrierEnds` leaves out, the emissions of callbacks and the wait for a control frame's reply.
- `ApplyLoop`: a blocked event post has that same deadline, a poster that is answered returns,
  and the GPU signals a fence that was *submitted* (not one merely queued).
- `StreamLink`: all four threads go on, and the server's budget runs out while it waits (`Patience`):
  `stream_latch` shows that without it a session may stall.
- `CompilePool`: a thread in a call goes on, a body returns, asio starts what it was handed.

## 4. Disagreements with the comments

Each is a run whose counterexample TLC prints.

1. **The retry after the space wait may not fit** (`ring_overrun`, `ClientSession.cpp:2190`). The drain
   between the wait and the retry may deliver a surface change, whose handler publishes
   records in the space that was waited for; the session then ends in `Fatal{RingOverrun}`.
2. **Not every client park breaks on `eventRingFull`** (`flow_circular`,
   `ServerSession.cpp:218`). The waits for command space and for staging space look at the retired
   tail and sequence only, and the create window's blocking take at the watermark only. If a record fills SEG_EVENT after the client has
   parked, both wait until the server's budget forfeits the session. A record that an event's handler emits makes the same of
   any drain: it waits for space before the drain around it clears the latch (`ClientSession.cpp:579`), so a barrier, a credit wait or a
   catch-up, which do break on the full ring, may still wait for the forfeit. The fourth park is the wait for a control frame's
   reply (`ServerLoop.cpp:1374`): the catch-up before it decides after its last drain, and events posted in between leave the frame's own event
   without room. `EveryWaitEnds` shows that the budget is what saves the client from waiting for ever.
3. **Staged bytes may be reclaimed before their record** (`stage_reuse`,
   `PipeWireCodec.cpp:1323`). A mark covers everything staged so far; a record encoded by a
   drain while another record's blobs are staged covers those too, and
   when it retires they are handed out again. `DisjointUnlessNested` shows that this is the only way.
4. **Over a stream both halves of the event latch can be lost** (`stream_latch`, `EventRing.h:195`). Each side has its own
   `eventRingFull`. The client's drain clears its copy after the last pop, and with it a backlog its io thread
   received in between; the server's io thread may take in the client's tail between the apply thread's test of the
   ring and its store of the latch. Either way the server waits for a drain the client does not know it owes, nothing
   is in flight, and only the budget ends it. The run's trace is the client's half.
5. **An inline link may run over a pending compile** (`pool_contexts`, `ProgramObject.cpp:699`). Suspending asynchronous
   compilation is process-wide but joins only the calling context's share group; a link of
   another context then runs inline while its compile is still queued, and reports failure for shaders that compile.

Two more were seen while modelling and have no run of their own. A record `Pop` took and `ApplyOne` refused is
acknowledged by `cmdAppliedTail` though not by `appliedSeq` (`SessionRings.h:379`); nothing is reclaimed early. And on the way out of
the apply loop one record may be applied after the forfeit (`ServerLoop.cpp:1234`).

## 5. The proofs

All theorems are checked by TLAPS for every value of the constants, from `Capacity >= 2` and
`MaxRecords \in Nat` (`CommandRing`), `LoopAssumption` (`ApplyLoop`: the three bounds
are naturals), `FlowAssumption` (`EventFlow`: rings and credit not empty, the waits a set of the known
ones), `StageAssumption` (`StageAllocator`: a segment that is not empty, blobs no larger), `StreamAssumption` (`StreamLink`: a ring that is not
empty, a window of more than one create and at most half the answer store, as a static assertion of the code has it), `CountersAssumption`
(`Doorbell`: the four kinds of counter are apart, the socket holds a byte), and `PoolAssumption` and `NoneAssumption`
(`CompilePool`: finitely many GL threads and workers, at least one worker, none of them both, bounds that are naturals, and `None` no node). The
bounds only stop a behaviour: the theorems hold for any length.

**CommandRing.** None of the safety properties is inductive. `LiveRecordsIntact` speaks of
bytes and needs to know where every other record lies; `AppliesWhatWasEmitted` needs the header at
the consumer's cursor to be the one written there. The strengthening `IInv` is

- `CursorInv`: retired ≤ applied ≤ local tail ≤ head ≤ local head, at most one ring from end to end,
  the reclaim cursor between the retired tail and the local tail;
- `LogInv`: records lie one after another, none wraps, and a gap is exactly a pad to the end of the ring;
- `SeqInv`: each cursor is the end of a record, and which one;
- `BytesInv`: everything not reclaimed is intact, pads too;
- `LentInv`: the reclaim cursor stands before every lent record;
- `WaitInv`: what the emission that waits still has.

The centre of the argument: a `Reserve` writes words within `Capacity` of the retired tail, all
records not reclaimed lie in that same window, and two different cursors in a window of `Capacity` have
different slots (the lemmas on `Slot`, from Euclidean division). `Pop` then finds at the local tail
either the pad or the header that `BytesInv` says is there. One lemma per action, one step
per conjunct. From `IInv` follow `CursorsAlwaysValid`, `LiveRecordsStayIntact`,
`AppliesInOrder`, `LentRecordsStay`, `SpaceWaitIsEnough` and `HalfRingIsEnough` (the half-ring limit
on records is what lets an empty ring take any record at any offset). `RingImplementsStream`
maps every step to a step of `RecordStream` or a stutter.

**ApplyLoop.** `IInv` adds to the types who owns the backend (`OwnerInv`), where a drain may return
and that only a drain holds unretired records (`DrainInv`), why the way out may leave records behind (`ExitInv`),
which frame is in hand (`FrameInv`), and how far behind a window request can be at each point
(`WindowInv`). From it: `RestingIsRetired`, `OrderlyExitDropsNothing`, `WindowIsNotStarved`,
`BackendHasItsThread`, and the action property `TeardownsComeLast`.

**EventFlow.** `BarrierSeesItsEvents` is about what was delivered when a barrier completes, several steps after the
watermark was read, and other barriers may complete in between, inside its own drain. The strengthening: an emission and the barrier it ends in have a
caller, and
nothing else has (`CallInv`); what the server has in hand and that it still has its room and its record, a control frame no record beside it (`HandInv`);
the only event not shown belongs to the record in hand (`ShownInv`); the drain a barrier ordered was ordered
with the watermark at its record, and when it has seen the ring empty it has delivered everything up to it (`BarrierInv`);
a present that waits waits for the swap a credit behind its own (`CreditInv`); the server counts as free only what was
released (`ReleaseInv`). `BarrierInv` and `CreditInv` say it of the call in progress and of every call on the stack, and what they say of an interrupted call
outlives whatever happens above it: watermarks and deliveries only grow, and a present is emitted by the program's own call, which is
the last on the stack (`BarrierCall`, `BarrierReturn`, `CreditCall`, `CreditReturn`). Each part has a lemma with a step per action. The one event that
can arrive during the drain
belongs to a later record (`AppendedLater`). From them: `BarrierSafety`, `CreditSafety`,
`DeliverySafety`, `FrameSafety`, for any ring sizes, credit, set of waits and depth of calls.

**Doorbell.** The two-fences argument, for any counters and either bell: behind the waiter's fence its announcement
is visible and stays the last until it is withdrawn (`AnnouncedInv`); a publication not yet visible has a notifier that cannot look at the
flag before it is (`PublisherInv`); the wake target belongs to the wait in progress and its goal (`TargetInv`). So a counter
that reaches its goal after the re-test has a notifier on the way that will not turn back (`WakeupInv`), which is
`NoWakeupIsLost`; `ReachedMeansReached` needs only that counters grow.

**StageAllocator.** `DisjointUnlessNested` compares offsets; what is inductive is about places in the count of bytes
the cursors run through. Between two rebases that count only grows, and the live runs lie in it whole and between tail and head
(`PlaceInv`), one after another (`OrderInv`); the mark of a record lies past its runs and before the next
record's (`SplitInv`), and the marks kept are those of the last records encoded, in order (`MarksInv`). So the tail a reclaim takes
from a retired mark passes no live run, and a rebase, which finds tail and head equal, finds no live run at all. Tail and head are a
segment apart at most (`InFlightBounded`) and no run straddles the end (`SkipLands`), so runs apart in the count are
apart in the segment (`Apart`, by the quotients of the two places). The three parts are claimed while nothing nests; the rest holds nested or
not. From them `StagedBytesAreKept` and `CursorsStayInOrder`; `RefusalIsOwnBlobs` needs that with nothing staged and no mark the stage is
empty, so rebased, and takes any blob (`EmptyInv`).

**StreamLink.** None of the three safety properties speaks of the frames on their way, and all depend on them. The
strengthening: the counts of records and of events are in order from one side to the other, in flight too
(`CountInv`, `ToServerInv`), and the events placed are those of the records applied and of the one in hand (`PlacedInv`); events
arrive in order and none is left out (`EventInv`), and a watermark is preceded by the events it counts (`ProgressInv`), which is
`EventsArriveFirst`. Answers arrive in order and say of a create what the server holds (`ReplyInv`); one that is wanted
is still to be given or on its way before the watermark of its record (`WantedInv`). What the GL thread will
read, the answers of the deferred creates and of the record it waits for, is what is wanted or kept, and nothing else is (`StoreInv`), so
at most `Window + 1` answers are kept, none is overtaken, and the one read after its watermark is there: `NoSessionIsFatal`. The
answer read is true and `held` only grows: `LatchIsTrueOnceSettled`. One lemma per action of the io threads; the GL thread's steps are
grouped by what they leave alone, the apply thread's by the frames they send. `IInv` stands in the proof module and
no run names it; TLC finds it true with the constants of `StreamLink.cfg`.

**CompilePool.** `WantedIsNotCancelled` says nothing of the cancels a thread has decided on and not yet made, and the
slot count nothing of what a worker is in the middle of. The strengthening `PoolInv`: nodes are made in order (`MadeInv`); a node has at most
one place from its creation until its body has run: on one thread (to post, to run, running, or a SPIR-V job's own `dep`), in the queue, or handed over
(`OnceInv`), because what gives it its ticket does so once (`SourceInv`: a link's count is used up when it is posted, its list is
taken when it settles); a worker's last task returns its slot (`SlotInv`); a compile is held and indexed by one
context only, and pinned by every link whose snapshot has it (`HolderInv`); so between a GL thread's test that it lets go as the last holder
and the cancel that follows, only that thread could take the compile up again, and it is busy (`CancelInv`); a stopped
pool queues nothing and stays so (`DrainInv`). `CompilePoolProofs` reduces each part to conditions on the tasks
a step puts at the head of one thread's list, with a lemma per action. From `PoolInv`: `WantedNotCancelled`,
`DrainedQuiet`, `SlotsCounted`, `HoldersAreCounted`. TLC finds `PoolInv` true with two contexts, one worker, two compiles and one link.

*Links and the job graph* (`CompilePoolLinkProofs`). That a body runs after what it depends on is not visible where it runs: a link
is posted when a counter reaches zero, and the counter is taken down by continuations on any thread. `LinkInv` adds to `PoolInv`

- `OutInv`: a link's count is at least the number of its edges still to be registered and of its continuations, listed or under
  way; so it never goes below zero, and at zero nobody is left to count it down;
- `SpirvInv`: the SPIR-V job of an unsettled link is on its list, or behind it on the thread that runs both (an inline link has no list);
- `RunInv`: only a running node has a body to finish; `LinkAlone`: no thread has both a link to enqueue and a compile to wait for;
- `HeldInv`: the only context, once it has suspended the pool, waits for each compile it holds before anything else.

On top of it `PendInv`: every unsettled compile in a link's snapshot has an edge or a continuation of that link. With `OutInv` they say that a
posted link's compiles have settled; with `HeldInv` an inline link's have too. `StepShape` first shows that each action has one of a few shapes (what it
does to the states, lists and counts, and which tasks it leaves), so each part is proved once per shape and not once per
action. `LinksInvariant` and `TypesAndCounts` hold of any number of contexts. `LinkVerdictTrue` and `ImplementsJobGraph`
do not: with several contexts and a suspension they are false of the code (`pool_contexts`, section 4). So they are
proved under `Calm`, one context or no suspension in force, taken at every state of the behaviour (`VerdictsTrue`,
`CalmPoolImplementsJobs`), and, from `OneContext` alone, of every behaviour (`OneContextVerdicts`, `PoolImplementsJobs`). For the
refinement, `deps` is what a body reads (`Needs`: a link its snapshot, a SPIR-V job its link), and each step is a `Submit`, `Start`, `Settle`,
`Abandon` or a stutter.
TLC finds `LinkInv` and `PendInv` true with the constants of `CompilePool.cfg`, and `LinkInv` with two contexts, one worker, two compiles and a link.

**Only model-checked**: all liveness, since the prover does not reason about fairness or `ENABLED` (`SpaceWaitEnds`, `PublishedIsApplied`,
`ReadyEndsWait`, `DeathEndsWait`, `BarrierEnds`, `EveryWaitEnds`, `AllocationEnds`, `EveryFrameAnswered`, `LoopComesToRest`, `FenceReported`,
`StopEnds`, `EveryCallReturns`, `EverythingSettles`). Every other property of a passing run has a theorem.

## 6. What is not modelled

Inside the modelled components:

- *CommandRing*: attach and detach, the ABI fingerprint, the frame watermarks; `HardDrainRing`, which
  nothing calls; the space wait's own budget and the device loss after it.
- *Doorbell*: the spin phase, which is the first test repeated; adaptive spin lengths.
- *EventFlow*: event contents, so any event's handler may emit, where the code's one does; what a callback emits stages no blob (`StageAllocator` has that
  nesting) and is no present, control frame or catch-up. Callbacks draw on the same `MaxRecords` as the program, so the catch-up's rounds are finite
  here because
  records are: the code bounds them by `kBarrierTimeoutMs` and ends in `Fatal{BarrierTimeout}`, and no wait's own budget is modelled. Also left
  out: the mode without run-ahead, in which a full SEG_EVENT is fatal
  at once; swaps that are suspended with their surface.
- *StageAllocator*: cancellation by a dead peer, the wait's budget, the compaction of the marks vector.
- *ApplyLoop*: the bodies of control frames, thread affinity, statistics, the bounded join of
  `Stop`; more than one fence. A frame does not block on a full SEG_EVENT here, as it does in `EventFlow`.
- *StreamLink*: the staging frames and SEG_CMD's own backpressure (`StageAllocator` and `EventFlow` have them for shared memory), a
  connection that breaks, the control socket, lengths and checks of a frame's header.
- *CompilePool*: the job bodies, which are only their outcome, and how the thread count is chosen.

Other parts:

- *Pure I/O and operating-system calls*: segments, descriptor passing, sockets, process spawn, native windows.
- *Data and stateless formats*: record layouts, framing, the capability codec, emission tables, diagnostics.
- *Sequential and specified elsewhere*: the OpenGL state machine, the backends.
- *Could be modelled, and is not yet*: adoption inbox, window lease, admission, handles, device loss
  (section 7). Reply slots over shared memory have one writer and one reader that waits, so little is left to interleave there.

`PROJECT.json` lists each with its sources, and the hazards no property covers yet with the reason.

## 7. The plan

Done: `RecordStream`, `CommandRing`, `Doorbell`, `EventFlow` with present credit, control frames and the create
window's wait, `StageAllocator`, `ApplyLoop`, `StreamLink`, `JobGraph`, `CompilePool`; the proofs of all seven components.

Next, in order of importance:

1. `ServerWindow`: attach, lease, timed-out detach, late `EndLease`. Then `AdoptInbox` and
   `PairAcceptor` with `PreAuthGate`.
2. The client session's life: handshake, capability publication, the run-ahead latch, device loss.
   `SlotAllocator` (handles and generations) and `GpuWritePending`.

## 8. Running everything

```
tlc -workers 2 -config CommandRing.cfg CommandRing.tla     # and so on, as in section 3: up to three minutes each
tlapm CommandRingProofs.tla                                # ten minutes, like the two of CompilePool; the others take one to five
```
