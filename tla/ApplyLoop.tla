-------------------------------- MODULE ApplyLoop --------------------------------
(***************************************************************************)
(* The server's apply thread (Server/ServerLoop.cpp, ApplyThreadMain) and  *)
(* the threads it shares words with: the client that publishes records,    *)
(* the poster of control frames (EGL operations) that blocks for a reply,  *)
(* the display's UI thread with a window request, and whoever stops it.    *)
(*                                                                         *)
(* One step of the thread is what it does between two reads of a shared    *)
(* word.  Doorbell models its park: here a park ends when its condition    *)
(* holds.  EventFlow models the event ring: here a record's event finds    *)
(* room or does not.                                                       *)
(***************************************************************************)
EXTENDS Naturals

CONSTANTS
  MaxRecords,   \* bound on the records of a behaviour
  MaxFrames,    \* bound on its control frames
  MaxRequests   \* bound on its window requests

ASSUME LoopAssumption == MaxRecords \in Nat /\ MaxFrames \in Nat /\ MaxRequests \in Nat

(* Control frames: teardowns (ReleaseResources, ReleaseSurface,            *)
(* DestroyContext) order after the records published before them.          *)
Kinds == {"teardown", "other"}

VARIABLES
  (* SEG_CMD and SEG_EVENT *)
  head,        \* records published
  applied,     \* appliedSeq
  retired,     \* retiredSeq
  full,        \* eventRingFull
  (* what others ask of the thread *)
  stop,        \* m_stopRequested and the session's copy of it
  abandon,     \* m_abandonQueue
  latched,     \* SessionLatched: a named fault ended the session
  window,      \* m_windowRequests
  requests,    \* window requests so far
  posted,      \* m_controlPosted, the mailbox's shadow
  pending,     \* m_controlPending
  finished,    \* m_controlFinished
  frame,       \* m_controlFrame
  (* the thread *)
  lpc,         \* where it stands
  leaving,     \* it is out of the loop
  ret,         \* where the drain in progress returns to
  batch,       \* the drain in progress has applied a record
  skipQueue,   \* on the way out: forfeited or abandoned, as read then
  forfeited,   \* m_reverseChannelForfeit
  fence,       \* one fence of the client, from its record to its report
  running,     \* m_running
  backend,     \* m_backend is there
  (* the poster *)
  ppc,         \* "idle", "waiting", or "fatal": ApplyThreadNotRunning
  frames,      \* frames posted so far
  (* history: not state of the program *)
  asked,       \* head when the frame was posted
  leftAt,      \* head when the thread left its loop
  overdue      \* records and frames begun since the window request

ringVars == <<head, applied, retired, full>>
boxVars == <<posted, pending, finished, frame>>
signalVars == <<stop, abandon, latched, window, requests>>
threadVars == <<leaving, ret, batch, skipQueue, forfeited, fence, running, backend>>
posterVars == <<ppc, frames, asked>>
ghostVars == <<leftAt, overdue>>
vars == <<ringVars, boxVars, signalVars, lpc, threadVars, posterVars, ghostVars>>

Init ==
  /\ head = 0 /\ applied = 0 /\ retired = 0 /\ full = FALSE
  /\ stop = FALSE /\ abandon = FALSE /\ latched = FALSE
  /\ window = FALSE /\ requests = 0
  /\ posted = FALSE /\ pending = FALSE /\ finished = FALSE /\ frame = "other"
  /\ lpc = "pump" /\ leaving = FALSE /\ ret = "none" /\ batch = FALSE /\ skipQueue = FALSE
  /\ forfeited = FALSE /\ fence = "none" /\ running = TRUE /\ backend = TRUE
  /\ ppc = "idle" /\ frames = 0
  /\ asked = 0 /\ leftAt = 0 /\ overdue = 0

StopOrForfeit == stop \/ forfeited

FencePending == fence \in {"queued", "submitted", "signaled"}

(* What the thread parks for.  Slip: without the stop. *)
ReadyWithoutStop == forfeited \/ posted \/ window \/ (~full /\ head # applied)
Ready == StopOrForfeit \/ posted \/ window \/ (~full /\ head # applied)

Begin == overdue' = IF window THEN overdue + 1 ELSE overdue

-----------------------------------------------------------------------------
(* The control mailbox: PumpControlRequest *)

(* A lost window: the backend suspends, or the session latches. *)
HandleWindow ==
  /\ window' = FALSE /\ overdue' = 0
  /\ latched' \in BOOLEAN /\ (latched => latched')
  /\ UNCHANGED <<stop, abandon, requests>>

PumpWindow ==
  /\ lpc = "pump"
  /\ IF window THEN HandleWindow ELSE UNCHANGED <<signalVars, overdue>>
  /\ lpc' = "mailbox"
  /\ UNCHANGED <<ringVars, boxVars, threadVars, posterVars, leftAt>>

(* After the pump: the loop's first check, or the last drain of the queue. *)
(* Slip: the queue is dropped on every way out.                            *)
DropQueue == IF leaving THEN "detach" ELSE "check"
AfterPump == IF leaving THEN (IF skipQueue THEN "detach" ELSE "next") ELSE "check"

(* Slips: a teardown runs at once; the shadow survives the take. *)
TakeAtOnce ==
  /\ lpc = "mailbox" /\ posted /\ ~latched
  /\ posted' = FALSE
  /\ lpc' = "dispatch"
  /\ UNCHANGED <<ringVars, pending, finished, frame, signalVars, threadVars, posterVars, ghostVars>>
TakeKeepsShadow ==
  /\ lpc = "mailbox" /\ posted /\ ~latched
  /\ lpc' = "dispatch"
  /\ UNCHANGED <<ringVars, boxVars, signalVars, threadVars, posterVars, ghostVars>>
TakeFrame ==
  /\ lpc = "mailbox" /\ posted /\ ~latched
  /\ posted' = FALSE
  /\ IF frame = "teardown" /\ ~full
     THEN lpc' = "next" /\ ret' = "dispatch"
     ELSE lpc' = "dispatch" /\ UNCHANGED ret
  /\ UNCHANGED <<ringVars, pending, finished, frame, signalVars, leaving, batch, skipQueue,
                 forfeited, fence, running, backend, posterVars, ghostVars>>

GoOn == lpc' = AfterPump /\ ret' = IF leaving THEN "detach" ELSE "none"

(* A latched session runs no further frame: the poster is answered. *)
DeclineFrame ==
  /\ lpc = "mailbox" /\ posted /\ latched
  /\ posted' = FALSE /\ pending' = FALSE /\ finished' = TRUE
  /\ GoOn
  /\ UNCHANGED <<ringVars, frame, signalVars, leaving, batch, skipQueue, forfeited, fence,
                 running, backend, posterVars, ghostVars>>

NoFrame ==
  /\ lpc = "mailbox" /\ ~posted
  /\ GoOn
  /\ UNCHANGED <<ringVars, boxVars, signalVars, leaving, batch, skipQueue, forfeited, fence,
                 running, backend, posterVars, ghostVars>>

Dispatch ==
  /\ lpc = "dispatch"
  /\ Begin
  /\ asked' = 0
  /\ lpc' = "reply"
  /\ UNCHANGED <<ringVars, boxVars, signalVars, threadVars, ppc, frames, leftAt>>

Reply ==
  /\ lpc = "reply"
  /\ pending' = FALSE /\ finished' = TRUE
  /\ GoOn
  /\ UNCHANGED <<ringVars, posted, frame, signalVars, leaving, batch, skipQueue, forfeited,
                 fence, running, backend, posterVars, ghostVars>>

-----------------------------------------------------------------------------
(* DrainRing *)

(* Before every pop: the latch, then a window request.  Slip: the window   *)
(* is looked at between batches only.                                      *)
NextUnlessLatched ==
  /\ lpc = "next"
  /\ lpc' = IF latched THEN "drained" ELSE "pop"
  /\ UNCHANGED <<ringVars, boxVars, signalVars, threadVars, posterVars, ghostVars>>
NextRecord ==
  /\ lpc = "next"
  /\ IF latched THEN lpc' = "drained" /\ UNCHANGED <<signalVars, overdue>>
     ELSE IF window THEN HandleWindow /\ UNCHANGED lpc
     ELSE lpc' = "pop" /\ UNCHANGED <<signalVars, overdue>>
  /\ UNCHANGED <<ringVars, boxVars, threadVars, posterVars, leftAt>>

PopRecord ==
  /\ lpc = "pop"
  /\ lpc' = IF applied = head THEN "drained" ELSE "admit"
  /\ UNCHANGED <<ringVars, boxVars, signalVars, threadVars, posterVars, ghostVars>>

(* The apply callback declines a record of a session that has latched.     *)
Admit ==
  /\ lpc = "admit"
  /\ IF latched THEN lpc' = "drained" /\ UNCHANGED overdue
     ELSE lpc' = "apply" /\ Begin
  /\ UNCHANGED <<ringVars, boxVars, signalVars, threadVars, posterVars, leftAt>>

(* The record applies; it may have been the client's fence.  One event of  *)
(* it may have found no room first (Blocks).                               *)
FinishRecord ==
  /\ lpc \in {"apply", "finish"}
  /\ applied' = applied + 1 /\ batch' = TRUE
  /\ fence' \in {fence, IF fence = "none" THEN "queued" ELSE fence}
  /\ lpc' = IF forfeited \/ abandon THEN "drained" ELSE "next"
  /\ UNCHANGED <<head, retired, full, boxVars, signalVars, leaving, ret, skipQueue, forfeited,
                 running, backend, posterVars, ghostVars>>

(* RetireThrough, once per batch. *)
EndDrain ==
  /\ lpc = "drained"
  /\ retired' = IF batch THEN applied ELSE retired
  /\ batch' = FALSE /\ lpc' = ret /\ ret' = "none"
  /\ UNCHANGED <<head, applied, full, boxVars, signalVars, leaving, skipQueue, forfeited,
                 fence, running, backend, posterVars, ghostVars>>

-----------------------------------------------------------------------------
(* Events: ReserveEventOrBlock *)

(* No room: the latch is up and the thread waits, in a record's apply or   *)
(* in the report of a fence.                                               *)
Blocks ==
  /\ ~forfeited
  /\ \/ lpc = "apply" /\ lpc' = "applyBlocked"
     \/ lpc = "report" /\ fence = "signaled" /\ ~full /\ ~latched /\ lpc' = "reportBlocked"
     \/ lpc = "flush" /\ fence = "signaled" /\ lpc' = "flushBlocked"
  /\ full' = TRUE
  /\ UNCHANGED <<head, applied, retired, boxVars, signalVars, threadVars, posterVars, ghostVars>>

Blocked == lpc \in {"applyBlocked", "reportBlocked", "flushBlocked"}
(* The event is written, or dropped: the fence counts as reported, once.   *)
Unblock ==
  /\ lpc' = CASE lpc = "applyBlocked" -> "finish"
              [] lpc = "reportBlocked" -> "rest"
              [] OTHER -> "parked"
  /\ fence' = IF lpc = "applyBlocked" THEN fence ELSE "reported"

(* The client cleared the latch: there is room now, or still too little.   *)
BacklogDrained ==
  /\ Blocked /\ ~full
  /\ \/ Unblock /\ UNCHANGED full
     \/ full' = TRUE /\ UNCHANGED <<lpc, fence>>
  /\ UNCHANGED <<head, applied, retired, boxVars, signalVars, leaving, ret, batch, skipQueue,
                 forfeited, running, backend, posterVars, ghostVars>>

(* ForfeitReverseChannel: a stop, a dead bell, or the budget is spent.     *)
Forfeit ==
  /\ Blocked
  /\ forfeited' = TRUE
  /\ Unblock
  /\ UNCHANGED <<ringVars, boxVars, signalVars, leaving, ret, batch, skipQueue, running, backend,
                 posterVars, ghostVars>>

-----------------------------------------------------------------------------
(* The loop *)

Leave == lpc' = "leave"

Check ==
  /\ lpc = "check"
  /\ IF StopOrForfeit THEN Leave /\ UNCHANGED ret
     ELSE IF full THEN lpc' = "checkAgain" /\ UNCHANGED ret
     ELSE lpc' = "next" /\ ret' = "checkAgain"
  /\ UNCHANGED <<ringVars, boxVars, signalVars, leaving, batch, skipQueue, forfeited, fence,
                 running, backend, posterVars, ghostVars>>

CheckAgain ==
  /\ lpc = "checkAgain"
  /\ lpc' = IF StopOrForfeit THEN "leave" ELSE "report"
  /\ UNCHANGED <<ringVars, boxVars, signalVars, threadVars, posterVars, ghostVars>>

(* ReportSignaledFences, with room and no latch. *)
Report ==
  /\ lpc = "report"
  /\ fence' = IF fence = "signaled" /\ ~full /\ ~latched THEN "reported" ELSE fence
  /\ lpc' = "rest"
  /\ UNCHANGED <<ringVars, boxVars, signalVars, leaving, ret, batch, skipQueue, forfeited,
                 running, backend, posterVars, ghostVars>>

(* A latched session leaves; otherwise there is work, or the thread idles. *)
(* Slip: a latched session stays for its ring.                             *)
RestLatched ==
  /\ lpc = "rest"
  /\ lpc' = IF Ready THEN "pump" ELSE IF FencePending /\ ~full THEN "flush" ELSE "parked"
  /\ UNCHANGED <<ringVars, boxVars, signalVars, threadVars, posterVars, ghostVars>>
Rest ==
  /\ lpc = "rest"
  /\ IF latched THEN Leave
     ELSE lpc' = IF Ready THEN "pump" ELSE IF FencePending /\ ~full THEN "flush" ELSE "parked"
  /\ UNCHANGED <<ringVars, boxVars, signalVars, threadVars, posterVars, ghostVars>>

(* Idle with a fence not reported: submit what the driver holds, ask once. *)
(* Slip: ask and do not submit.                                            *)
FlushAsksOnly ==
  /\ lpc = "flush"
  /\ fence' = IF fence = "signaled" THEN "reported" ELSE fence
  /\ lpc' = "parked"
  /\ UNCHANGED <<ringVars, boxVars, signalVars, leaving, ret, batch, skipQueue, forfeited,
                 running, backend, posterVars, ghostVars>>
Flush ==
  /\ lpc = "flush"
  /\ fence' = CASE fence = "signaled" -> "reported" [] fence = "queued" -> "submitted" [] OTHER -> fence
  /\ lpc' = "parked"
  /\ UNCHANGED <<ringVars, boxVars, signalVars, leaving, ret, batch, skipQueue, forfeited,
                 running, backend, posterVars, ghostVars>>

(* Doorbell::Wait: for ever, or for kFenceIdlePollMs with a fence pending. *)
Wake ==
  /\ lpc = "parked"
  /\ \/ Ready /\ lpc' = "pump"
     \/ ~Ready /\ FencePending /\ lpc' = "pump"
  /\ UNCHANGED <<ringVars, boxVars, signalVars, threadVars, posterVars, ghostVars>>

(* The bell is dead: the peer is gone, or the transport was shut down.     *)
BellDies ==
  /\ lpc = "parked" /\ ~Ready
  /\ Leave
  /\ UNCHANGED <<ringVars, boxVars, signalVars, threadVars, posterVars, ghostVars>>

-----------------------------------------------------------------------------
(* The way out *)

BeginExit ==
  /\ lpc = "leave"
  /\ leaving' = TRUE /\ skipQueue' = (forfeited \/ abandon)
  /\ leftAt' = head
  /\ lpc' = "pump"
  /\ UNCHANGED <<ringVars, boxVars, signalVars, ret, batch, forfeited, fence, running, backend,
                 posterVars, overdue>>

(* The backend goes on the thread its context is current on; the window    *)
(* lease ends after it.  Slip: m_running falls while it still stands.      *)
RunningFallsFirst ==
  /\ lpc = "detach"
  /\ running' = FALSE /\ window' = FALSE /\ overdue' = 0
  /\ lpc' = "close"
  /\ UNCHANGED <<ringVars, boxVars, stop, abandon, latched, requests, leaving, ret, batch, skipQueue,
                 forfeited, fence, backend, posterVars, leftAt>>
Detach ==
  /\ lpc = "detach"
  /\ backend' = FALSE /\ window' = FALSE /\ overdue' = 0
  /\ lpc' = "close"
  /\ UNCHANGED <<ringVars, boxVars, stop, abandon, latched, requests, leaving, ret, batch, skipQueue,
                 forfeited, fence, running, posterVars, leftAt>>

(* One critical section: whoever posted is answered, and nobody posts any  *)
(* more.  Slip: the frame still posted is forgotten.                       *)
CloseForgets ==
  /\ lpc = "close"
  /\ posted' = FALSE /\ pending' = FALSE
  /\ running' = FALSE /\ lpc' = "exited"
  /\ UNCHANGED <<ringVars, finished, frame, signalVars, leaving, ret, batch, skipQueue,
                 forfeited, fence, backend, posterVars, ghostVars>>
Close ==
  /\ lpc = "close"
  /\ posted' = FALSE /\ pending' = FALSE /\ finished' = (finished \/ pending)
  /\ running' = FALSE /\ lpc' = "exited"
  /\ UNCHANGED <<ringVars, frame, signalVars, leaving, ret, batch, skipQueue, forfeited, fence,
                 backend, posterVars, ghostVars>>

-----------------------------------------------------------------------------
(* The others.  Nothing but a post matters once the thread has exited. *)

(* RunSurfaceControlFrame: the test of m_running and the post are one      *)
(* critical section.                                                       *)
Post(kind) ==
  /\ ppc = "idle" /\ frames < MaxFrames
  /\ frames' = frames + 1
  /\ IF running
     THEN /\ posted' = TRUE /\ pending' = TRUE /\ finished' = FALSE /\ frame' = kind
          /\ ppc' = "waiting" /\ asked' = head
     ELSE /\ ppc' = IF backend THEN "fatal" ELSE "idle"
          /\ UNCHANGED <<boxVars, asked>>
  /\ UNCHANGED <<ringVars, signalVars, lpc, threadVars, ghostVars>>

Collect ==
  /\ ppc = "waiting" /\ finished
  /\ ppc' = "idle"
  /\ UNCHANGED <<ringVars, boxVars, signalVars, lpc, threadVars, frames, asked, ghostVars>>

PublishRecord ==
  /\ head < MaxRecords /\ lpc # "exited"
  /\ head' = head + 1
  /\ UNCHANGED <<applied, retired, full, boxVars, signalVars, lpc, threadVars, posterVars,
                 ghostVars>>

ClientDrains ==
  /\ full /\ lpc # "exited"
  /\ full' = FALSE
  /\ UNCHANGED <<head, applied, retired, boxVars, signalVars, lpc, threadVars, posterVars,
                 ghostVars>>

GpuSignals ==
  /\ fence \in {"queued", "submitted"} /\ lpc # "exited"
  /\ fence' = "signaled"
  /\ UNCHANGED <<ringVars, boxVars, signalVars, lpc, leaving, ret, batch, skipQueue, forfeited,
                 running, backend, posterVars, ghostVars>>

(* A stop; the server's own end, which drops the queue; a fault latched by *)
(* a record, by the GPU poll or by the control thread.                     *)
Signal ==
  /\ lpc # "exited"
  /\ \/ ~stop /\ stop' = TRUE /\ UNCHANGED <<abandon, latched>>
     \/ ~abandon /\ abandon' = TRUE /\ UNCHANGED <<stop, latched>>
     \/ ~latched /\ latched' = TRUE /\ UNCHANGED <<stop, abandon>>
  /\ UNCHANGED <<window, requests, ringVars, boxVars, lpc, threadVars, posterVars, ghostVars>>

(* The display's UI thread wants its window back, while the session has or *)
(* awaits one.                                                             *)
RequestWindow ==
  /\ backend /\ ~window /\ requests < MaxRequests
  /\ window' = TRUE /\ requests' = requests + 1
  /\ UNCHANGED <<stop, abandon, latched, ringVars, boxVars, lpc, threadVars, posterVars,
                 ghostVars>>

-----------------------------------------------------------------------------

ThreadStep ==
  \/ PumpWindow \/ TakeFrame \/ DeclineFrame \/ NoFrame \/ Dispatch \/ Reply
  \/ NextRecord \/ PopRecord \/ Admit \/ FinishRecord \/ EndDrain
  \/ BacklogDrained \/ Check \/ CheckAgain \/ Report \/ Rest \/ Flush \/ Wake
  \/ BeginExit \/ Detach \/ Close

Next ==
  \/ ThreadStep \/ Blocks \/ Forfeit \/ BellDies
  \/ \E kind \in Kinds : Post(kind)
  \/ Collect \/ PublishRecord \/ ClientDrains \/ GpuSignals \/ Signal \/ RequestWindow

Spec == Init /\ [][Next]_vars

(* The thread runs while it is not blocked, the budget of a blocked post   *)
(* runs out, a poster that is answered returns, and the GPU finishes what  *)
(* was submitted to it.                                                    *)
FairSpec ==
  /\ Spec
  /\ WF_vars(ThreadStep) /\ WF_vars(Forfeit) /\ WF_vars(Collect)
  /\ WF_vars(fence = "submitted" /\ GpuSignals)

-----------------------------------------------------------------------------
(* Properties *)

InDrain == {"next", "pop", "admit", "apply", "applyBlocked", "finish", "drained"}
Points ==
  InDrain \cup {"pump", "mailbox", "dispatch", "reply", "check", "checkAgain", "report",
              "reportBlocked", "rest", "flush", "flushBlocked", "parked", "leave", "detach",
              "close", "exited"}

Flags ==
  /\ full \in BOOLEAN /\ stop \in BOOLEAN /\ abandon \in BOOLEAN /\ latched \in BOOLEAN
  /\ window \in BOOLEAN /\ posted \in BOOLEAN /\ pending \in BOOLEAN /\ finished \in BOOLEAN
  /\ leaving \in BOOLEAN /\ batch \in BOOLEAN /\ skipQueue \in BOOLEAN
  /\ forfeited \in BOOLEAN /\ running \in BOOLEAN /\ backend \in BOOLEAN

(* Each variable keeps its type; the shadow never outlives its request,    *)
(* and retired <= applied <= head.                                         *)
TypeOK ==
  /\ Flags
  /\ head \in 0 .. MaxRecords /\ applied \in 0 .. head /\ retired \in 0 .. applied
  /\ frame \in Kinds /\ frames \in 0 .. MaxFrames /\ requests \in 0 .. MaxRequests
  /\ lpc \in Points /\ ret \in {"none", "dispatch", "checkAgain", "detach"}
  /\ ppc \in {"idle", "waiting", "fatal"}
  /\ fence \in {"none", "queued", "submitted", "signaled", "reported"}
  /\ asked \in 0 .. head /\ leftAt \in 0 .. head /\ overdue \in Nat
  /\ posted => pending

(* A teardown is dispatched after every record its client had published    *)
(* before it asked, unless the session is over or SEG_EVENT was full       *)
(* (PumpControlRequest's drain).                                           *)
TeardownAfterRecords ==
  [][lpc # "dispatch" /\ lpc' = "dispatch" /\ frame = "teardown"
       => applied >= asked \/ latched \/ forfeited \/ abandon \/ full]_vars

(* The UI thread that asks for its window back waits for the record in     *)
(* hand and one teardown frame at most, whatever is queued behind them.    *)
WindowNotStarved == overdue <= 2

(* An ordinary end drops nothing: what was published when the thread left  *)
(* its loop is applied before the backend goes.                            *)
QueueAppliedBeforeExit ==
  lpc = "exited" /\ ~latched /\ ~forfeited /\ ~abandon => applied >= leftAt

(* Whenever the thread rests, every byte of an applied record is back with *)
(* the client, on every way out of DrainRing: nothing waits for a record   *)
(* that may never come.                                                    *)
RestsRetired == lpc \in {"parked", "exited"} => retired = applied

(* No control frame finds a backend that no thread owns: m_running falls   *)
(* only after the backend is gone (RunSurfaceControlFrame's Fatal).        *)
NoThreadlessPost == ppc # "fatal"

(* Whoever posts a control frame is answered, by its dispatch, by the      *)
(* latch, or by the exit.                                                  *)
EveryFrameAnswered == ppc = "waiting" ~> ppc = "idle"

(* The thread never spins for ever: not on a latched session whose ring is *)
(* not empty, not on a full SEG_EVENT, not on a posted shadow.             *)
LoopComesToRest == []<>(lpc \in {"parked", "exited"})

(* A fence of an idle server is submitted and reported, though no further  *)
(* record arrives, while SEG_EVENT has room.                               *)
FenceReported == fence = "queued" ~> fence = "reported" \/ full \/ lpc = "exited"

(* A stop ends the thread, wherever it is blocked or parked.               *)
StopEnds == stop ~> lpc = "exited"

-----------------------------------------------------------------------------
(* The inductive invariant behind them (ApplyLoopProofs) *)

(* Who owns the backend. *)
OwnerInv ==
  /\ running <=> lpc # "exited"
  /\ backend <=> lpc \notin {"close", "exited"}
  /\ ppc # "fatal"

(* Only a drain has applied records that are not retired, and it returns   *)
(* to the pump that took a teardown, to the loop, or to the way out.       *)
DrainInv ==
  /\ lpc \in InDrain => ret # "none"
  /\ ret \in {"dispatch", "checkAgain"} => lpc \in InDrain
  /\ batch => lpc \in InDrain
  /\ lpc \in {"admit", "apply", "applyBlocked", "finish"} => applied < head
  /\ ~batch => retired = applied
  /\ leaving => ret # "checkAgain"

(* What the way out leaves in the queue, it leaves for a reason. *)
SessionOver == latched \/ forfeited \/ abandon
ExitInv ==
  /\ leaving => lpc \notin {"check", "checkAgain", "report", "reportBlocked", "rest", "flush",
                        "flushBlocked", "parked", "leave"}
  /\ ~leaving => ret # "detach" /\ lpc \notin {"detach", "close", "exited"} /\ leftAt = 0
  /\ skipQueue => forfeited \/ abandon
  /\ lpc \in {"drained", "detach", "close", "exited"} => applied >= leftAt \/ SessionOver

(* The control frame in hand. *)
FrameInv ==
  /\ pending => ppc = "waiting" /\ ~finished
  /\ ret = "dispatch" => frame = "teardown" /\ pending /\ ~posted
  /\ lpc \in {"dispatch", "reply"} => pending /\ ~posted
  /\ lpc = "drained" /\ ret = "dispatch" => applied >= asked \/ SessionOver

(* How far a window request can be behind, at each point of the loop. *)
WindowInv ==
  /\ ~window => overdue = 0
  /\ lpc \in {"mailbox", "pop", "admit"} => overdue = 0
  /\ lpc \in {"dispatch", "apply", "applyBlocked", "finish"} \/ ret = "dispatch" => overdue <= 1
  /\ overdue <= 2

(* The five together, with the types. *)
IInv == TypeOK /\ OwnerInv /\ DrainInv /\ ExitInv /\ FrameInv /\ WindowInv
=============================================================================
