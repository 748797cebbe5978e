------------------------------- MODULE CommandRing -------------------------------
(***************************************************************************)
(* SEG_CMD, the shared-memory command ring between one client (the GL      *)
(* thread, RingProducer) and one server (the apply thread, RingConsumer):  *)
(* MG_Remote/Transport/Ring.cpp, with the two callers that decide in which *)
(* order its operations run, ClientSession::EmitAndWaitTails and           *)
(* SessionConsumer::ApplyOne / RetireThrough / RetireBorrowedUpTo.         *)
(*                                                                         *)
(* Cursors are monotonic counts, never reset; a cursor is masked only to   *)
(* index the ring.  The unit is the 8-byte word: Align8 makes every record *)
(* a whole number of words and its header is one word, so a record of k    *)
(* payload words is k+1 words long.                                        *)
(*                                                                         *)
(* Every word of the ring is tagged with the number of the record that     *)
(* wrote it.  The tag is not in the code: it is how the model tells the    *)
(* bytes of one record from the bytes of another.                          *)
(***************************************************************************)
EXTENDS Integers

CONSTANTS
  Capacity,    \* ring capacity in words
  MaxRecords   \* bound: how many records the client emits

ASSUME CapacityAssumption == Capacity \in Nat /\ Capacity >= 2
ASSUME MaxRecordsAssumption == MaxRecords \in Nat

VARIABLES
  (* RingControl: the cursors both sides share *)
  head,          \* cmdHead
  appliedTail,   \* cmdAppliedTail
  retiredTail,   \* cmdRetiredTail
  mem,           \* the words of the ring
  (* the client *)
  localHead,     \* RingProducer::m_localHead
  emitSeq,       \* PipeWireEncoder::m_emitSeq: records reserved so far
  phase,         \* where EmitAndWaitTails stands
  want,          \* the record being emitted
  overrun,       \* Fatal{RingOverrun}: refused after the space wait said "enough"
  nested,        \* history: a drain has published a record since that wait
  (* the server *)
  localTail,     \* RingConsumer::m_localTail
  appliedSeq,    \* SessionConsumer::m_appliedSeq
  view,          \* the RingRecordView ApplyOne is applying
  retirable,     \* SessionConsumer::m_retirableCursor
  borrowHeld,    \* SessionConsumer::m_borrowHeld
  corrupt,       \* Pop refused a header
  rejected,      \* the apply callback refused a popped record: session over
  (* history: not state of the program *)
  log,           \* where each record was placed
  lent           \* records lent to the GPU and not finished with

ctlVars    == <<head, appliedTail, retiredTail>>
clientVars == <<localHead, emitSeq, phase, want, overrun, nested>>
serverVars == <<localTail, appliedSeq, view, retirable, borrowHeld, corrupt,
                rejected>>
vars == <<ctlVars, mem, clientVars, serverVars, log, lent>>

Seqs == 1..MaxRecords
Offsets == 0..(Capacity - 1)

MaxRecordWords == Capacity \div 2
RecordSizes == 1..MaxRecordWords

(* A word as a reader sees it: a body word read as a header has no legal size. *)
Word == [kind : {"none", "pad", "call", "body"},
         size : 0..Capacity, seq : 0..MaxRecords, borrow : BOOLEAN]

ZeroWord == [kind |-> "none", size |-> 0, seq |-> 0, borrow |-> FALSE]
PadWord(n) == [kind |-> "pad", size |-> n, seq |-> 0, borrow |-> FALSE]
HeaderWord(s, n, b) == [kind |-> "call", size |-> n, seq |-> s, borrow |-> b]
BodyWord(s) == [kind |-> "body", size |-> 0, seq |-> s, borrow |-> FALSE]

Placement == [start : Nat, total : 0..Capacity, borrow : BOOLEAN]
NoPlacement == [start |-> 0, total |-> 0, borrow |-> FALSE]

View == [cursor : Nat, total : 0..Capacity, seq : 0..MaxRecords, borrow : BOOLEAN]
NoView == [cursor |-> 0, total |-> 0, seq |-> 0, borrow |-> FALSE]

Want == [total : 0..Capacity, borrow : BOOLEAN]
NoWant == [total |-> 0, borrow |-> FALSE]

Slot(cursor) == cursor % Capacity

(* The cursor just past record s; record 0 stands for "nothing yet". *)
EndOf(s) == IF s = 0 THEN 0 ELSE log[s].start + log[s].total

-----------------------------------------------------------------------------
(* Producer arithmetic *)

(* Slip: reclaims what was applied, borrowed or not. *)
FreeAgainstApplied ==
  LET inFlight == localHead - appliedTail
  IN  IF inFlight >= Capacity THEN 0 ELSE Capacity - inFlight
FreeWords ==
  LET inFlight == localHead - retiredTail
  IN  IF inFlight >= Capacity THEN 0 ELSE Capacity - inFlight

SpaceToEnd == Capacity - Slot(localHead)
(* Slip: a record one word too long is taken to fit before the wrap. *)
PadOffByOne(n) == SpaceToEnd + 1 < n
NeedsPad(n) == SpaceToEnd < n
NeededToReserve(n) == IF NeedsPad(n) THEN SpaceToEnd + n ELSE n

(* Slips: waits for the record without its pad; for a pad that is not needed. *)
NeededWithoutPad(n) == n
NeededAlwaysPadded(n) == n + (Capacity - (localHead % Capacity))
(* What EmitAndWaitTails asks WaitForCmdSpace for: the record and its pad. *)
NeededByClient(n) ==
  LET toEnd == Capacity - (localHead % Capacity)
  IN  n + (IF toEnd < n THEN toEnd ELSE 0)

(* RingProducer::Reserve's refusals: bigger than half the ring, or no room now. *)
CanReserve(n) == n <= MaxRecordWords /\ FreeWords >= NeededToReserve(n)

-----------------------------------------------------------------------------

Init ==
  /\ head = 0 /\ appliedTail = 0 /\ retiredTail = 0
  /\ mem = [o \in Offsets |-> ZeroWord]
  /\ localHead = 0 /\ emitSeq = 0 /\ phase = "idle" /\ want = NoWant
  /\ overrun = FALSE /\ nested = FALSE
  /\ localTail = 0 /\ appliedSeq = 0 /\ view = NoView
  /\ retirable = 0 /\ borrowHeld = FALSE /\ corrupt = FALSE /\ rejected = FALSE
  /\ log = [s \in Seqs |-> NoPlacement]
  /\ lent = {}

-----------------------------------------------------------------------------
(* The client *)

(* The success path of Reserve: the pad's header if there is one, then the *)
(* record's header; nothing is visible to the server yet.                  *)
Reserve(n, b) ==
  LET start == IF NeedsPad(n) THEN localHead + SpaceToEnd ELSE localHead
      next  == emitSeq + 1
  IN  /\ mem' = [o \in Offsets |->
                   IF o = Slot(start) THEN HeaderWord(next, n, b)
                   ELSE IF NeedsPad(n) /\ o = Slot(localHead) THEN PadWord(SpaceToEnd)
                   ELSE mem[o]]
      /\ localHead' = start + n
      /\ emitSeq' = next
      /\ log' = [log EXCEPT ![next] = [start |-> start, total |-> n, borrow |-> b]]
      /\ phase' = "reserved"

(* EmitAndWaitTails encodes; a full ring sends it to WaitForCmdSpace. *)
Emit(n, b) ==
  /\ phase = "idle"
  /\ emitSeq < MaxRecords
  /\ IF CanReserve(n)
     THEN Reserve(n, b) /\ UNCHANGED want
     ELSE /\ phase' = "waiting"
          /\ want' = [total |-> n, borrow |-> b]
          /\ UNCHANGED <<mem, localHead, emitSeq, log>>
  /\ UNCHANGED <<ctlVars, overrun, nested, serverVars, lent>>

(* The wait ends on enough reclaimable space; SEG_EVENT is drained. *)
SpaceFreed ==
  /\ phase = "waiting"
  /\ FreeWords >= NeededByClient(want.total)
  /\ phase' = "drained" /\ nested' = FALSE
  /\ UNCHANGED <<ctlVars, mem, localHead, emitSeq, want, overrun, serverVars, log, lent>>

(* A surface-changed event delivered by that drain publishes a record of   *)
(* its own, inside the emission that waited.                               *)
NestedEmit(n, b) ==
  /\ phase = "drained"
  /\ emitSeq + 1 < MaxRecords
  /\ CanReserve(n)
  /\ Reserve(n, b)
  /\ nested' = TRUE
  /\ UNCHANGED <<ctlVars, want, overrun, serverVars, lent>>

(* The record is encoded again; a refusal now is Fatal. *)
EncodeAfterSpaceWait ==
  /\ phase = "drained"
  /\ IF CanReserve(want.total)
     THEN Reserve(want.total, want.borrow) /\ want' = NoWant /\ UNCHANGED overrun
     ELSE /\ overrun' = TRUE
          /\ phase' = "dead"
          /\ UNCHANGED <<mem, localHead, emitSeq, log, want>>
  /\ UNCHANGED <<ctlVars, nested, serverVars, lent>>

(* EncodeRecord copies the payload in behind the header. *)
FillPayload ==
  /\ phase = "reserved"
  /\ LET r == log[emitSeq]
     IN  mem' = [o \in Offsets |->
                   IF o \in (Slot(r.start) + 1)..(Slot(r.start) + r.total - 1)
                   THEN BodyWord(emitSeq) ELSE mem[o]]
  /\ phase' = "filled"
  /\ UNCHANGED <<ctlVars, localHead, emitSeq, want, overrun, nested, serverVars, log, lent>>

(* PublishAndNotify: the head is stored only after the bytes it covers.    *)
(* A nested record then returns to the emission that was waiting.          *)
Publish ==
  /\ phase = "filled"
  /\ head' = localHead
  /\ phase' = IF want = NoWant THEN "idle" ELSE "drained"
  /\ UNCHANGED <<appliedTail, retiredTail, mem, localHead, emitSeq, want, overrun, nested,
                 serverVars, log, lent>>

-----------------------------------------------------------------------------
(* The server *)

(* A pad needs both the flag and the kind; it is written only in front of  *)
(* the record that did not fit, so Pop's loop skips at most one.           *)
IsPad(w) == w.kind = "pad"

(* Slip: refuses a record that ends where the ring ends. *)
HeaderEndsBeforeWrap(cursor, w) ==
  /\ w.size >= 1
  /\ w.size <= head - cursor
  /\ Slot(cursor) + w.size < Capacity
HeaderIsLegal(cursor, w) ==
  /\ w.size >= 1
  /\ w.size <= head - cursor
  /\ Slot(cursor) + w.size <= Capacity

(* Slip: the pad is delivered as a record. *)
DeliverPad(cursor) == cursor
SkipPad(cursor) ==
  LET w == mem[Slot(cursor)]
  IN  IF IsPad(w) /\ HeaderIsLegal(cursor, w) THEN cursor + w.size ELSE cursor

(* SessionConsumer::ApplyOne up to the apply callback: RingConsumer::Pop.  *)
Pop ==
  /\ view = NoView
  /\ ~corrupt /\ ~rejected
  /\ localTail # head
  /\ LET at == SkipPad(localTail)
         w  == mem[Slot(at)]
     IN  IF at = head
         THEN localTail' = at /\ UNCHANGED <<view, corrupt>>
         ELSE IF head - localTail <= Capacity /\ HeaderIsLegal(at, w)
         THEN /\ view' = [cursor |-> at, total |-> w.size, seq |-> w.seq, borrow |-> w.borrow]
              /\ localTail' = at + w.size
              /\ UNCHANGED corrupt
         ELSE corrupt' = TRUE /\ localTail' = at /\ UNCHANGED view
  /\ UNCHANGED <<ctlVars, mem, clientVars, appliedSeq, retirable, borrowHeld, rejected, log,
                 lent>>

(* Slip: a later record moves the reclaim cursor over a borrowed one. *)
FinishApplyForgetsBorrow ==
  /\ view # NoView
  /\ appliedSeq' = appliedSeq + 1
  /\ appliedTail' = localTail
  /\ retirable' = IF view.borrow THEN retirable ELSE view.cursor + view.total
  /\ lent' = IF view.borrow THEN lent \cup {view.seq} ELSE lent
  /\ view' = NoView
  /\ UNCHANGED <<head, retiredTail, mem, clientVars, localTail, borrowHeld, corrupt,
                 rejected, log>>

(* ApplyOne from the callback's return: the watermark, the applied tail,   *)
(* and the reclaim cursor, which stops at the first borrowed record.       *)
FinishApply ==
  /\ view # NoView
  /\ appliedSeq' = appliedSeq + 1
  /\ appliedTail' = localTail
  /\ IF ~view.borrow /\ ~borrowHeld
     THEN retirable' = view.cursor + view.total /\ UNCHANGED borrowHeld
     ELSE borrowHeld' = TRUE /\ UNCHANGED retirable
  /\ lent' = IF view.borrow THEN lent \cup {view.seq} ELSE lent
  /\ view' = NoView
  /\ UNCHANGED <<head, retiredTail, mem, clientVars, localTail, corrupt, rejected, log>>

(* Slip: the rejected record is acknowledged like any other. *)
RejectAcknowledges ==
  /\ view # NoView
  /\ rejected' = TRUE
  /\ view' = NoView
  /\ appliedSeq' = appliedSeq + 1
  /\ UNCHANGED <<ctlVars, mem, clientVars, localTail, retirable, borrowHeld, corrupt,
                 log, lent>>

(* ApplyOne when the callback returns false (DrainRing's SessionLatched or *)
(* LatchIfGpuFaulted): the popped record is not applied and nothing else   *)
(* is popped.  The drain's own RetireThrough may still run.                *)
RejectApply ==
  /\ view # NoView
  /\ rejected' = TRUE
  /\ view' = NoView
  /\ UNCHANGED <<ctlVars, mem, clientVars, localTail, appliedSeq, retirable, borrowHeld,
                 corrupt, log, lent>>

(* PublishRetiredUpTo(c) for a given applied tail: clamped, and never back. *)
RetiredUpTo(c, applied) ==
  LET clamped == IF c > applied THEN applied ELSE c
  IN  IF clamped > retiredTail THEN clamped ELSE retiredTail

(* RetireThrough, once per drain batch. *)
RetireThrough ==
  /\ view = NoView
  /\ appliedTail' = localTail
  /\ retiredTail' = RetiredUpTo(retirable, localTail)
  /\ UNCHANGED <<head, mem, clientVars, serverVars, log, lent>>

(* RetireBorrowedUpTo(c): the GPU is done with every record before c.  The *)
(* cursors a caller can hold are the starts of records already popped and  *)
(* the consumer's own LocalTail.                                           *)
KeptCursors ==
  {localTail} \cup {log[s].start : s \in {t \in Seqs : t <= appliedSeq}}

RetireBorrowedUpTo(c) ==
  /\ view = NoView
  /\ IF c > retirable
     THEN retirable' = c /\ borrowHeld' = (c < localTail)
     ELSE UNCHANGED <<retirable, borrowHeld>>
  /\ retiredTail' = RetiredUpTo(retirable', appliedTail)
  /\ lent' = {s \in lent : log[s].start >= c}
  /\ UNCHANGED <<head, appliedTail, mem, clientVars, localTail, appliedSeq, view,
                 corrupt, rejected, log>>

-----------------------------------------------------------------------------

Next ==
  \/ \E n \in RecordSizes, b \in BOOLEAN : Emit(n, b)
  \/ SpaceFreed
  \/ \E n \in RecordSizes, b \in BOOLEAN : NestedEmit(n, b)
  \/ EncodeAfterSpaceWait
  \/ FillPayload
  \/ Publish
  \/ Pop
  \/ FinishApply
  \/ RejectApply
  \/ RetireThrough
  \/ \E c \in KeptCursors : RetireBorrowedUpTo(c)

Spec == Init /\ [][Next]_vars

(* The GL thread finishes what it started, the apply thread pops while the *)
(* head is ahead of it and retires after each batch, and a record lent to  *)
(* the GPU is finished with some day.  Nothing makes the client emit.      *)
ClientGoesOn == SpaceFreed \/ EncodeAfterSpaceWait \/ FillPayload \/ Publish
ServerGoesOn == Pop \/ FinishApply

Fairness ==
  /\ WF_vars(ClientGoesOn) /\ WF_vars(ServerGoesOn)
  /\ WF_vars(RetireThrough)
  /\ WF_vars(RetireBorrowedUpTo(localTail))

FairSpec == Spec /\ Fairness

-----------------------------------------------------------------------------
(* Properties *)

(* Every variable has its type. *)
TypeOK ==
  /\ head \in Nat /\ appliedTail \in Nat /\ retiredTail \in Nat
  /\ mem \in [Offsets -> Word]
  /\ localHead \in Nat /\ emitSeq \in 0..MaxRecords
  /\ phase \in {"idle", "waiting", "drained", "reserved", "filled", "dead"}
  /\ want \in Want /\ overrun \in BOOLEAN /\ nested \in BOOLEAN
  /\ localTail \in Nat /\ appliedSeq \in 0..MaxRecords /\ view \in View
  /\ retirable \in Nat /\ borrowHeld \in BOOLEAN /\ corrupt \in BOOLEAN
  /\ rejected \in BOOLEAN
  /\ log \in [Seqs -> Placement]
  /\ lent \in SUBSET Seqs

(* RingCursorsValid (Ring.cpp), which the code asserts at checkpoints but  *)
(* which the code must keep true at every instant: retired behind applied  *)
(* behind head, and never more than one ring of bytes between them.        *)
RingCursorsValid ==
  /\ appliedTail <= head
  /\ retiredTail <= appliedTail
  /\ head - retiredTail <= Capacity

(* A record whose bytes have not been handed back still has all of them:   *)
(* no later Reserve or payload copy lands on a record that is waiting to   *)
(* be popped, being applied, applied but not retired, or lent to the GPU.  *)
LiveRecordsIntact ==
  \A s \in Seqs :
    (s <= emitSeq /\ log[s].start >= retiredTail) =>
      /\ mem[Slot(log[s].start)] = HeaderWord(s, log[s].total, log[s].borrow)
      /\ (s < emitSeq \/ phase # "reserved") =>
           \A c \in (log[s].start + 1)..(log[s].start + log[s].total - 1) :
             mem[Slot(c)] = BodyWord(s)

(* The two sequence spaces never drift: the record the server is applying  *)
(* as its n-th is the client's n-th, whole, and not a pad; and no header   *)
(* the client wrote is ever refused as corrupt.                            *)
AppliesWhatWasEmitted ==
  /\ ~corrupt
  /\ view # NoView =>
       /\ view.seq = appliedSeq + 1
       /\ view.total = log[view.seq].total
       /\ view.cursor = log[view.seq].start

(* A record lent to the GPU is not reclaimed until it is released, however *)
(* many later records were applied and retired meanwhile.                  *)
LentRecordsKept == \A s \in lent : log[s].start >= retiredTail

(* Fatal{RingOverrun} "refused after sufficient space retired" needs a     *)
(* record published by the drain: otherwise the space the client waits for *)
(* is the space Reserve checks, its pad included.                          *)
OverrunOnlyIfNested == overrun => nested

(* "Wait for actual reclaimable space, including the wrap pad"             *)
(* (ClientSession.cpp), read as enough for the retry.  The code breaks it: *)
(* what the drain publishes between takes the space that was waited for.   *)
RetryNeverRefused == ~overrun

(* Once everything has been handed back, a record of any legal size can be *)
(* placed, at whatever offset the head stopped: the rule that a record is  *)
(* at most half the ring is what makes this true.                          *)
EmptyRingTakesAnyRecord ==
  retiredTail = localHead => \A n \in RecordSizes : CanReserve(n)

(* Records the server may see, and records it has popped. *)
Sent == IF phase \in {"reserved", "filled"} THEN emitSeq - 1 ELSE emitSeq
Popped == IF view # NoView \/ rejected THEN appliedSeq + 1 ELSE appliedSeq

(* A client waiting for space gets it: neither a pad nor a released borrow *)
(* leaves the ring wedged.                                                 *)
SpaceWaitEnds == (phase = "waiting") ~> (phase # "waiting" \/ rejected)

(* Every record published is eventually applied, in a session the server   *)
(* does not end by rejecting one.                                          *)
PublishedIsApplied == \A s \in Seqs : (Sent >= s) ~> (appliedSeq >= s \/ rejected)

(* The ring implements the ordered stream of records. *)
Stream == INSTANCE RecordStream WITH
  sent   <- Sent,
  inHand <- view.seq,
  done   <- appliedSeq,
  ended  <- rejected \/ corrupt

ImplementsRecordStream == Stream!Spec

-----------------------------------------------------------------------------
(* The inductive invariant behind them (CommandRingProofs) *)

(* The cursors in their order, the client's and server's own included. *)
CursorInv ==
  /\ retiredTail <= appliedTail /\ appliedTail <= localTail
  /\ localTail <= head /\ head <= localHead
  /\ localHead - retiredTail <= Capacity
  /\ retiredTail <= retirable /\ retirable <= localTail

(* Records lie one after another, none wraps, and a gap between two of them *)
(* runs exactly to the end of the ring.                                     *)
LogInv ==
  /\ EndOf(emitSeq) = localHead
  /\ \A s \in 1..emitSeq :
       /\ log[s].total \in RecordSizes
       /\ Slot(log[s].start) + log[s].total <= Capacity
       /\ EndOf(s) <= localHead
       /\ EndOf(s - 1) <= log[s].start
       /\ log[s].start = EndOf(s - 1)
            \/ Slot(EndOf(s - 1)) + (log[s].start - EndOf(s - 1)) = Capacity
  /\ \A s, t \in 1..emitSeq : s < t => EndOf(s) <= log[t].start

(* Each cursor is the end of a record, and the server's view is the record *)
(* after the last one it applied.                                          *)
SeqInv ==
  /\ phase \in {"reserved", "filled"} => emitSeq >= 1
  /\ head = EndOf(Sent)
  /\ localTail = EndOf(Popped)
  /\ Popped <= Sent
  /\ rejected => view = NoView
  /\ view # NoView =>
       /\ view.seq = appliedSeq + 1
       /\ view.cursor = log[view.seq].start
       /\ view.total = log[view.seq].total
       /\ view.borrow = log[view.seq].borrow
       /\ retirable <= view.cursor
  /\ ~corrupt

(* What is not reclaimed is intact, the pads in front of records too. *)
BytesInv ==
  /\ LiveRecordsIntact
  /\ \A s \in 1..emitSeq :
       (log[s].start # EndOf(s - 1) /\ EndOf(s - 1) >= retiredTail)
         => mem[Slot(EndOf(s - 1))] = PadWord(log[s].start - EndOf(s - 1))

(* The reclaim cursor stands before every record still lent. *)
LentInv ==
  \A s \in lent : /\ s <= appliedSeq
                  /\ borrowHeld
                  /\ log[s].start >= retirable

(* The record that waits keeps its place and its size, and while the drain *)
(* has published nothing, its space.                                       *)
WaitInv ==
  /\ phase = "idle" => want = NoWant
  /\ phase \in {"waiting", "drained"} => want # NoWant
  /\ want # NoWant => want.total \in RecordSizes /\ emitSeq < MaxRecords
  /\ phase \in {"reserved", "filled"} /\ want # NoWant => nested
  /\ phase = "drained" /\ ~nested => FreeWords >= NeededByClient(want.total)
  /\ overrun => nested /\ phase = "dead"

(* The seven conjuncts, with the types. *)
IInv == TypeOK /\ CursorInv /\ LogInv /\ SeqInv /\ BytesInv /\ LentInv /\ WaitInv
=============================================================================
