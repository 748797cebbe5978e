------------------------------- MODULE StreamLink -------------------------------
(***************************************************************************)
(* A session over one byte stream (Transport/StreamLink.cpp): each side    *)
(* keeps its own copy of the rings and the watermarks, and frames carry    *)
(* the changes.  The client's GL thread sends and waits, its io thread     *)
(* receives; the server's apply thread sends and applies, its io thread    *)
(* receives.  Above the link, the client's answers: those it waits for,    *)
(* and the window of deferred resource_creates whose answers it collects   *)
(* later (Client/WireTables.cpp).                                          *)
(*                                                                         *)
(* Frames of one direction keep their order and none is lost: the stream   *)
(* is a TCP or Unix socket.  SEG_CMD has room for every record here        *)
(* (EventFlow has its waits); a record posts one event or none.            *)
(***************************************************************************)
EXTENDS Naturals, Sequences, FiniteSets

CONSTANTS
  Objects,     \* objects the client may create: handles 1 .. Objects
  EventSlots,  \* events SEG_EVENT holds
  Window,      \* MOBILEGL_IPC_CREATE_WINDOW, creates the client may defer
  StoreCap,    \* kRetainedAnswersMax, answers the link keeps
  MaxRecords,  \* bound on the records of a behaviour
  MaxFrames    \* bound on the frames in flight in one direction

ASSUME StreamAssumption ==
  /\ Objects \in Nat
  /\ EventSlots \in Nat \ {0} /\ MaxRecords \in Nat /\ MaxFrames \in Nat \ {0}
  /\ Window \in Nat /\ Window > 1 /\ StoreCap \in Nat
  /\ Window <= StoreCap \div 2    \* the static_assert at WireTables.cpp:317

VARIABLES
  (* the client's GL thread *)
  log,        \* the records emitted: kind, object
  gl,         \* its place: pc, the sequence number it waits for, its create's object and turn
  drained,    \* events delivered, and the tail of its copy of SEG_EVENT
  pending,    \* g_createWindow: deferred creates, oldest first
  latched,    \* objects it believes the server holds
  suspects,   \* g_createSuspects
  (* the client's copy of the shared words, written by its io thread *)
  eventHead, appliedSeen, fullSeen,
  wanted,     \* declared and not yet answered
  retained,   \* the answers kept: sequence number and status
  replySeq,   \* the last answer received
  (* frames in flight *)
  toServer, toClient,
  (* the server's copy, and its io thread's place in a frame *)
  cmdHead, eventTail, sio,
  (* the server's apply thread *)
  applied, placed, sentEvents, full, spc, held,
  gone,       \* the reverse channel was forfeited: the session ends
  failed      \* what ended it otherwise: "none", "Corrupt" or "ReplyMissing"

glVars == <<log, gl, drained, pending, latched, suspects>>
cioVars == <<eventHead, appliedSeen, replySeq>>
srvVars == <<applied, placed, sentEvents, spc, held>>
sioVars == <<cmdHead, eventTail, sio>>
storeVars == <<wanted, retained>>
vars == <<glVars, cioVars, fullSeen, storeVars, toServer, toClient, srvVars, sioVars, full,
          gone, failed>>

(* post: an event, no answer.  read: an event and an answer the caller     *)
(* waits for.  create: an answer, declared.  unread: an answer nobody      *)
(* declared (a fire-and-forget row whose encode was retried, which drops   *)
(* the no-answer flag).                                                    *)
HasEvent(rec) == rec.kind \in {"post", "read"}
HasAnswer(rec) == rec.kind # "post"
Declared(rec) == rec.kind \in {"read", "create"}
NoObject == 0

Init ==
  /\ log = <<>> /\ pending = <<>> /\ latched = {} /\ suspects = {} /\ drained = 0
  /\ gl = [pc |-> "run", seq |-> 0, object |-> NoObject, block |-> FALSE]
  /\ eventHead = 0 /\ appliedSeen = 0 /\ fullSeen = FALSE
  /\ wanted = <<>> /\ retained = {} /\ replySeq = 0
  /\ toServer = <<>> /\ toClient = <<>>
  /\ cmdHead = 0 /\ eventTail = 0 /\ sio = "idle"
  /\ applied = 0 /\ placed = 0 /\ sentEvents = 0 /\ full = FALSE /\ spc = "idle" /\ held = {}
  /\ gone = FALSE /\ failed = "none"

Up == ~gone /\ failed = "none"

-----------------------------------------------------------------------------
(* The client's GL thread *)

(* StreamLink::Flush: the command bytes, then one ClientProgress frame     *)
(* with the head and the tail of the event ring.  A full socket blocks.    *)
Flush(tail) ==
  /\ Len(toServer) < MaxFrames
  /\ toServer' = Append(toServer, [head |-> Len(log), tail |-> tail])

(* EmitAndWaitTails: encode, declare, publish, in that order; nothing is   *)
(* sent before the next flush.  DeclareReplyRead keeps the list ordered.   *)
DeclareReplyRead(seq) ==
  wanted' = IF wanted # <<>> /\ seq <= wanted[Len(wanted)] THEN wanted ELSE Append(wanted, seq)

Record(kind, object) ==
  /\ Len(log) < MaxRecords
  /\ log' = Append(log, [kind |-> kind, object |-> object])
  /\ IF Declared([kind |-> kind]) THEN DeclareReplyRead(Len(log) + 1) ELSE UNCHANGED wanted

Go(pc) == gl' = [gl EXCEPT !.pc = pc]

FireAndForget ==
  /\ Up /\ gl.pc = "run"
  /\ \E kind \in {"post", "unread"} : Record(kind, NoObject)
  /\ UNCHANGED <<gl, drained, pending, latched, suspects, cioVars, fullSeen, retained, toServer,
                 toClient, srvVars, sioVars, full, gone, failed>>

Read ==
  /\ Up /\ gl.pc = "run"
  /\ Record("read", NoObject)
  /\ gl' = [gl EXCEPT !.pc = "park", !.seq = Len(log) + 1]
  /\ UNCHANGED <<drained, pending, latched, suspects, cioVars, fullSeen, retained, toServer,
                 toClient, srvVars, sioVars, full, gone, failed>>

(* PollEntry: flush, then drain. *)
PollEntry ==
  /\ Up /\ gl.pc = "run"
  /\ Flush(drained)
  /\ gl' = [gl EXCEPT !.pc = "drain", !.seq = 0]
  /\ UNCHANGED <<log, drained, pending, latched, suspects, cioVars, fullSeen, storeVars, toClient,
                 srvVars, sioVars, full, gone, failed>>

(* SessionProducer::Park flushes, then sleeps; WaitForAppliedBudget's park *)
(* ends on the watermark or on the event backlog, the create window's on   *)
(* the watermark alone.                                                    *)
Park ==
  /\ Up /\ gl.pc \in {"park", "settle", "poll"}
  /\ gl.pc = "poll" => pending # <<>>
  /\ Flush(drained)
  /\ Go(CASE gl.pc = "park" -> "wait" [] gl.pc = "settle" -> "oldest" [] gl.pc = "poll" -> "peek")
  /\ UNCHANGED <<log, drained, pending, latched, suspects, cioVars, fullSeen, storeVars, toClient,
                 srvVars, sioVars, full, gone, failed>>

WaitEnds ==
  /\ Up /\ gl.pc = "wait"
  /\ appliedSeen >= gl.seq \/ fullSeen
  /\ Go("drain")
  /\ UNCHANGED <<log, drained, pending, latched, suspects, cioVars, fullSeen, storeVars, toServer,
                 toClient, srvVars, sioVars, full, gone, failed>>

(* DrainEventRing delivers what the ring shows and releases it; Drained()  *)
(* then clears the local latch and flushes.  A wait whose watermark is     *)
(* there goes on to its answer, any other parks again.                     *)
Drain ==
  /\ Up /\ gl.pc = "drain"
  /\ drained' = eventHead
  /\ Go("clear")
  /\ UNCHANGED <<log, pending, latched, suspects, cioVars, fullSeen, storeVars, toServer,
                 toClient, srvVars, sioVars, full, gone, failed>>

ClearAndFlush ==
  /\ Up /\ gl.pc = "clear"
  /\ fullSeen' = FALSE
  /\ Flush(drained)
  /\ Go(IF gl.seq = 0 THEN "run" ELSE IF appliedSeen >= gl.seq THEN "take" ELSE "park")
  /\ UNCHANGED <<log, drained, pending, latched, suspects, cioVars, storeVars, toClient, srvVars,
                 sioVars, full, gone, failed>>

(* StreamLink::ReadReply: by sequence number, taken and deleted.  A        *)
(* declared answer that is applied and not there is Fatal{ReplyMissing}.   *)
(* Slip: the store is emptied.                                    *)
TakeAll(seq, answer) == retained' = {}
TakeReply(seq, answer) == retained' = retained \ {answer}

ReadReply(seq) ==
  IF \E answer \in retained : answer.seq = seq
  THEN /\ \E answer \in retained : answer.seq = seq /\ TakeReply(seq, answer)
       /\ UNCHANGED failed
  ELSE failed' = "ReplyMissing" /\ UNCHANGED retained
Accepted(seq) == [seq |-> seq, ok |-> TRUE] \in retained

(* The answer of a read, or of a create that waited for its own: the       *)
(* caller latches what it reads.                                           *)
TakeAnswer ==
  /\ Up /\ gl.pc = "take"
  /\ ReadReply(gl.seq)
  /\ IF Accepted(gl.seq) /\ log[gl.seq].kind = "create"
     THEN latched' = latched \union {gl.object} /\ suspects' = suspects \ {gl.object}
     ELSE UNCHANGED <<latched, suspects>>
  /\ Go("run")
  /\ UNCHANGED <<log, drained, pending, cioVars, fullSeen, wanted, toServer, toClient, srvVars,
                 sioVars, full, gone>>

(* PublishCreate for an object the client believes unpublished: a new one  *)
(* or one it heals.  Wire_ResourceCreate settles the window first when the *)
(* object was refused before, and polls it otherwise.                      *)
Create ==
  /\ Up /\ gl.pc = "run" /\ Len(log) < MaxRecords
  /\ \E o \in (1..Objects) \ latched :
       /\ \A p \in 1..o-1 : \E seq \in DOMAIN log : log[seq].object = p
       /\ gl' = [gl EXCEPT !.object = o, !.block = o \in suspects,
                           !.pc = IF o \in suspects /\ pending # <<>> THEN "settle" ELSE "poll"]
  /\ UNCHANGED <<log, drained, pending, latched, suspects, cioVars, fullSeen, storeVars, toServer,
                 toClient, srvVars, sioVars, full, gone, failed>>

(* DrainCreateWindow takes the oldest answer: a declined create un-latches *)
(* its object and marks it, an accepted one clears the mark.  Slip: the    *)
(* mark and no more.                                                       *)
MarkOnly(object) == UNCHANGED latched
Unlatch(object) == latched' = latched \ {object}

OldestTaken ==
  LET object == log[pending[1]].object
  IN  /\ Up /\ gl.pc \in {"oldest", "peek"} /\ appliedSeen >= pending[1]
      /\ ReadReply(pending[1])
      /\ pending' = Tail(pending)
      /\ IF Accepted(pending[1])
         THEN suspects' = suspects \ {object} /\ UNCHANGED latched
         ELSE suspects' = suspects \union {object} /\ Unlatch(object)
      /\ Go("poll")
      /\ UNCHANGED <<log, drained, cioVars, fullSeen, wanted, toServer, toClient, srvVars, sioVars,
                     full, gone>>

(* The pass over the window ends when none is pending or the oldest is not *)
(* applied yet.  A full window then waits for its oldest answer; a refused *)
(* object's create waits for its own, any other is deferred and its object *)
(* latched on the provisional accept.                                      *)
WindowFull == Len(pending) >= Window

CreateEmitted ==
  /\ Record("create", gl.object)
  /\ IF gl.block
     THEN gl' = [gl EXCEPT !.pc = "park", !.seq = Len(log) + 1] /\ UNCHANGED <<pending, latched>>
     ELSE /\ gl' = [gl EXCEPT !.pc = "run"]
          /\ pending' = Append(pending, Len(log) + 1)
          /\ latched' = latched \union {gl.object}

PollEnds ==
  /\ Up
  /\ \/ gl.pc = "poll" /\ pending = <<>>
     \/ gl.pc = "peek" /\ appliedSeen < pending[1]
  /\ IF WindowFull /\ ~gl.block
     THEN Go("settle") /\ UNCHANGED <<log, wanted, pending, latched>>
     ELSE CreateEmitted
  /\ UNCHANGED <<drained, suspects, cioVars, fullSeen, retained, toServer, toClient, srvVars,
                 sioVars, full, gone, failed>>

(* A hangup ends every call. *)
Hangup ==
  /\ gone /\ gl.pc # "gone"
  /\ Go("gone")
  /\ UNCHANGED <<log, drained, pending, latched, suspects, cioVars, fullSeen, storeVars, toServer,
                 toClient, srvVars, sioVars, full, gone, failed>>

-----------------------------------------------------------------------------
(* The client's io thread: StreamLink::Loop *)

Receives(kind) == Up /\ toClient # <<>> /\ Head(toClient).kind = kind /\ toClient' = Tail(toClient)

ReceiveEvents ==
  /\ Receives("event")
  /\ LET head == Head(toClient).head
     IN  IF head > eventHead /\ head - drained <= EventSlots
         THEN eventHead' = head /\ UNCHANGED failed
         ELSE failed' = "Corrupt" /\ UNCHANGED eventHead
  /\ UNCHANGED <<glVars, appliedSeen, replySeq, fullSeen, storeVars, toServer, srvVars, sioVars,
                 full, gone>>

ReceiveProgress ==
  /\ Receives("progress")
  /\ LET frame == Head(toClient)
     IN  IF frame.applied > Len(log)
         THEN failed' = "Corrupt" /\ UNCHANGED <<appliedSeen, fullSeen>>
         ELSE /\ appliedSeen' = IF frame.applied > appliedSeen THEN frame.applied ELSE appliedSeen
              /\ fullSeen' = frame.full
              /\ UNCHANGED failed
  /\ UNCHANGED <<glVars, eventHead, replySeq, storeVars, toServer, srvVars, sioVars, full, gone>>

(* An answer somebody declared is kept, any other dropped; declared ones   *)
(* it overtakes (the n first) will never come.                             *)
Overtaken(n, seq) ==
  /\ \A k \in 1..n : wanted[k] < seq
  /\ n < Len(wanted) => wanted[n + 1] >= seq
StillWanted(n) == SubSeq(wanted, n + 1, Len(wanted))

ReceiveReply ==
  /\ Receives("reply")
  /\ \E n \in 0..Len(wanted) :
       LET answer == [seq |-> Head(toClient).seq, ok |-> Head(toClient).ok]
           due == StillWanted(n)
           declared == due # <<>> /\ Head(due) = answer.seq
       IN  /\ Overtaken(n, answer.seq)
           /\ IF answer.seq <= replySeq \/ (declared /\ Cardinality(retained) >= StoreCap)
              THEN failed' = "Corrupt" /\ UNCHANGED <<replySeq, storeVars>>
              ELSE /\ replySeq' = answer.seq
                   /\ wanted' = IF declared THEN Tail(due) ELSE due
                   /\ retained' = IF declared THEN retained \union {answer} ELSE retained
                   /\ UNCHANGED failed
  /\ UNCHANGED <<glVars, eventHead, appliedSeen, fullSeen, toServer, srvVars, sioVars, full, gone>>

-----------------------------------------------------------------------------
(* The server's io thread: a ClientProgress frame.  The tail of SEG_EVENT, *)
(* then the latch when the tail moved, then the head of SEG_CMD; the apply *)
(* thread may run in between.                                              *)
ReceiveClientProgress ==
  /\ Up /\ toServer # <<>> /\ sio = "idle"
  /\ LET tail == Head(toServer).tail
     IN  IF tail > placed
         THEN failed' = "Corrupt" /\ UNCHANGED <<eventTail, sio>>
         ELSE /\ eventTail' = tail /\ sio' = IF tail > eventTail THEN "clear" ELSE "keep"
              /\ UNCHANGED failed
  /\ UNCHANGED <<glVars, cioVars, fullSeen, storeVars, toServer, toClient, srvVars, cmdHead, full,
                 gone>>

AdvanceHead ==
  /\ Up /\ sio # "idle"
  /\ full' = (full /\ sio = "keep")
  /\ cmdHead' = Head(toServer).head
  /\ toServer' = Tail(toServer) /\ sio' = "idle"
  /\ UNCHANGED <<glVars, cioVars, fullSeen, storeVars, toClient, srvVars, eventTail, gone, failed>>

-----------------------------------------------------------------------------
(* The server's apply thread *)

(* StreamLink::SendProgress: the events first, then the watermark that     *)
(* publishes them, with the latch.  Slip: the watermark alone.             *)
EventFrame == IF placed > sentEvents THEN <<[kind |-> "event", head |-> placed]>> ELSE <<>>
ProgressFrame == <<[kind |-> "progress", applied |-> applied', full |-> full]>>

WatermarkOnly(frames) ==
  /\ Len(toClient) < MaxFrames
  /\ toClient' = toClient \o frames \o ProgressFrame
  /\ UNCHANGED sentEvents
SendProgress(frames) ==
  /\ Len(toClient) < MaxFrames
  /\ toClient' = toClient \o frames \o EventFrame \o ProgressFrame
  /\ sentEvents' = placed

ServerKeeps == <<glVars, cioVars, fullSeen, storeVars, toServer, sioVars, gone, failed>>
Current == log[applied + 1]
AfterEvents == IF HasAnswer(Current) THEN "reply" ELSE "apply"

TakeRecord ==
  /\ Up /\ spc \in {"idle", "parked"} /\ applied < cmdHead
  /\ spc' = IF HasEvent(Current) THEN "reserve" ELSE AfterEvents
  /\ UNCHANGED <<ServerKeeps, applied, placed, sentEvents, held, full, toClient>>

(* WaitForWork: progress is flushed before the sleep.  Slip: it is not.    *)
ParkUnflushed ==
  /\ Up /\ spc = "idle" /\ applied = cmdHead
  /\ spc' = "parked"
  /\ UNCHANGED <<ServerKeeps, applied, placed, sentEvents, held, full, toClient>>
WaitForWork ==
  /\ Up /\ spc = "idle" /\ applied = cmdHead
  /\ spc' = "parked" /\ UNCHANGED applied
  /\ SendProgress(<<>>)
  /\ UNCHANGED <<ServerKeeps, placed, held, full>>

(* EventRingProducer::Reserve: the test against the tail, then the latch.  *)
ReserveEvent ==
  /\ Up /\ spc = "reserve"
  /\ IF placed - eventTail < EventSlots
     THEN placed' = placed + 1 /\ spc' = "publish"
     ELSE spc' = "latch" /\ UNCHANGED placed
  /\ UNCHANGED <<ServerKeeps, applied, sentEvents, held, full, toClient>>

RaiseLatch ==
  /\ Up /\ spc = "latch"
  /\ full' = TRUE /\ spc' = "offer"
  /\ UNCHANGED <<ServerKeeps, applied, placed, sentEvents, held, toClient>>

(* PublishEvents, on the way into the wait and after the event is filled.  *)
PublishEvents ==
  /\ Up /\ spc \in {"offer", "publish"}
  /\ spc' = IF spc = "offer" THEN "wait" ELSE AfterEvents
  /\ UNCHANGED applied
  /\ SendProgress(<<>>)
  /\ UNCHANGED <<ServerKeeps, placed, held, full>>

BacklogDrained ==
  /\ Up /\ spc = "wait" /\ ~full
  /\ spc' = "reserve"
  /\ UNCHANGED <<ServerKeeps, applied, placed, sentEvents, held, full, toClient>>

(* MOBILEGL_IPC_EVENT_WAIT_MS runs out: ForfeitReverseChannel. *)
Patience ==
  /\ Up /\ spc = "wait"
  /\ gone' = TRUE
  /\ UNCHANGED <<glVars, cioVars, fullSeen, storeVars, toServer, toClient, srvVars, sioVars, full,
                 failed>>

(* PipeWireDecoder::PostReply and StreamLink::PostReply.  A create may be  *)
(* declined.                                                               *)
PostReply ==
  /\ Up /\ spc = "reply"
  /\ \E ok \in BOOLEAN :
       /\ Current.kind # "create" => ok
       /\ held' = IF ok /\ Current.object # NoObject THEN held \union {Current.object} ELSE held
       /\ UNCHANGED applied
       /\ SendProgress(<<[kind |-> "reply", seq |-> applied + 1, ok |-> ok]>>)
  /\ spc' = "apply"
  /\ UNCHANGED <<ServerKeeps, placed, full>>

(* The watermark, and ProgressChanged: every 64 records or millisecond.    *)
AdvanceApplied ==
  /\ Up /\ spc = "apply"
  /\ applied' = applied + 1 /\ spc' = "idle"
  /\ \/ SendProgress(<<>>)
     \/ UNCHANGED <<toClient, sentEvents>>
  /\ UNCHANGED <<ServerKeeps, placed, held, full>>

-----------------------------------------------------------------------------

(* The steps a call already made goes through; starting one is the         *)
(* application's choice.                                                   *)
ClientStep ==
  Park \/ WaitEnds \/ Drain \/ ClearAndFlush \/ TakeAnswer \/ OldestTaken \/ PollEnds \/ Hangup
ClientIo == ReceiveEvents \/ ReceiveProgress \/ ReceiveReply
ServerIo == ReceiveClientProgress \/ AdvanceHead
ServerStep ==
  \/ TakeRecord \/ WaitForWork \/ ReserveEvent \/ RaiseLatch \/ PublishEvents \/ BacklogDrained
  \/ PostReply \/ AdvanceApplied

Next ==
  \/ FireAndForget \/ Read \/ PollEntry \/ Create
  \/ ClientStep \/ ClientIo \/ ServerIo \/ ServerStep \/ Patience

Spec == Init /\ [][Next]_vars

(* Every thread goes on, and the server's budget runs out while it waits.  *)
FairSpec ==
  /\ Spec /\ WF_vars(ClientStep) /\ WF_vars(ClientIo) /\ WF_vars(ServerIo)
  /\ WF_vars(ServerStep) /\ WF_vars(Patience)

-----------------------------------------------------------------------------
(* Properties *)

(* No answer that was declared is missing, late or one too many for the    *)
(* store, and no frame fails a check of the receiver: whatever the window  *)
(* defers and the application interleaves, the session does not end in     *)
(* Fatal{ReplyMissing} or Fatal{ProtocolCorruption}.                       *)
NothingIsFatal == failed = "none"

(* A client that sees a record applied has the events of that record and   *)
(* of those before it on its side (the comment in SendProgress).           *)
EventsUpTo(seq) == Cardinality({n \in 1..seq : HasEvent(log[n])})
EventsPrecedeWatermark == eventHead >= EventsUpTo(appliedSeen)

(* The client believes published only what the server holds, the creates   *)
(* whose answer is outstanding aside: of those nothing is said, and a      *)
(* provisional accept is taken back once its decline has been read.        *)
Deferred == {log[pending[i]].object : i \in DOMAIN pending}
SettledLatchIsTrue == latched \ Deferred \subseteq held

(* Every call returns or learns that the session is over. *)
EveryCallReturns == gl.pc # "run" ~> gl.pc \in {"run", "gone"}

(* The server waits for the full event ring to be drained and the client,  *)
(* which would break its park on it, does not know: nothing is in flight   *)
(* and nothing moves until the server's patience ends.                     *)
NoSilentStall ==
  ~ /\ Up /\ spc = "wait" /\ full /\ gl.pc = "wait" /\ ~fullSeen /\ appliedSeen < gl.seq
    /\ toServer = <<>> /\ toClient = <<>>
=================================================================================
