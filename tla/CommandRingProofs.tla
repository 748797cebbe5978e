---------------------------- MODULE CommandRingProofs ----------------------------
(***************************************************************************)
(* The command ring keeps its invariants and implements the ordered stream *)
(* of records, for every ring capacity and every number of records.        *)
(*                                                                         *)
(* The argument.  Cursors only grow, records are placed one after another, *)
(* and Reserve keeps localHead within one capacity of retiredTail.  So two *)
(* different cursors between retiredTail and localHead never share a slot  *)
(* (SlotsDiffer), a Reserve or a payload copy touches no record that has   *)
(* not been retired, and the header Pop finds is the one the client wrote. *)
(***************************************************************************)
EXTENDS CommandRing, TLAPS

-----------------------------------------------------------------------------
(* Cursor arithmetic *)

(* A slot is an index of the ring. *)
LEMMA SlotRange ==
  ASSUME NEW c \in Nat
  PROVE  Slot(c) \in Offsets
BY CapacityAssumption DEF Slot, Offsets

(* A cursor is some number of whole laps and its slot. *)
LEMMA SlotQuotient ==
  ASSUME NEW c \in Nat
  PROVE  \E q \in Nat : c = Capacity * q + Slot(c)
<1>1. c \div Capacity \in Nat /\ c = Capacity * (c \div Capacity) + Slot(c)
  BY CapacityAssumption DEF Slot
<1>2. QED
  BY <1>1

(* One lap or more is at least a capacity. *)
LEMMA WholeLaps ==
  ASSUME NEW k \in Nat, k >= 1
  PROVE  Capacity * k >= Capacity
BY CapacityAssumption

(* Two cursors less than one lap apart have different slots. *)
LEMMA SlotsDiffer ==
  ASSUME NEW c \in Nat, NEW d \in Nat, c < d, d - c < Capacity
  PROVE  Slot(c) # Slot(d)
<1>1. SUFFICES ASSUME Slot(c) = Slot(d) PROVE FALSE
  OBVIOUS
<1>2. PICK p \in Nat : c = Capacity * p + Slot(c)
  BY SlotQuotient
<1>3. PICK q \in Nat : d = Capacity * q + Slot(d)
  BY SlotQuotient
<1>4. Slot(c) \in Int
  BY SlotRange, CapacityAssumption DEF Offsets
<1>5. d - c = Capacity * (q - p)
  BY <1>1, <1>2, <1>3, <1>4, CapacityAssumption
<1>6. CASE q > p
  <2>1. Capacity * (q - p) >= Capacity
    BY <1>6, WholeLaps
  <2>2. QED
    BY <2>1, <1>5, CapacityAssumption
<1>7. CASE q < p
  <2>1. Capacity * (p - q) >= Capacity
    BY <1>7, WholeLaps
  <2>2. Capacity * (q - p) = -(Capacity * (p - q)) /\ Capacity * (p - q) \in Int
    BY CapacityAssumption
  <2>3. QED
    BY <2>1, <2>2, <1>5, CapacityAssumption
<1>8. CASE q = p
  BY <1>1, <1>2, <1>3, <1>8
<1>9. QED
  BY <1>6, <1>7, <1>8

(* Inside a lap the slot moves with the cursor. *)
LEMMA SlotAdvance ==
  ASSUME NEW c \in Nat, NEW k \in Nat, Slot(c) + k < Capacity
  PROVE  Slot(c + k) = Slot(c) + k
BY CapacityAssumption DEF Slot

(* Past a pad that runs to the end of the ring is slot zero. *)
LEMMA SlotWraps ==
  ASSUME NEW c \in Nat
  PROVE  Slot(c + (Capacity - Slot(c))) = 0
<1>1. PICK p \in Nat : c = Capacity * p + Slot(c)
  BY SlotQuotient
<1>2. c + (Capacity - Slot(c)) = Capacity * (p + 1) + 0 /\ p + 1 \in Nat
  BY <1>1, SlotRange, CapacityAssumption DEF Offsets
<1>3. \A q \in Nat : Slot(Capacity * q + 0) = 0
  BY CapacityAssumption DEF Slot
<1>4. QED
  BY <1>2, <1>3

(* A record of at most half the ring fits the ring, with its pad. *)
LEMMA RecordFits ==
  ASSUME NEW n \in RecordSizes
  PROVE  n \in 1..Capacity /\ 2 * n <= Capacity
BY CapacityAssumption DEF RecordSizes, MaxRecordWords

-----------------------------------------------------------------------------
(* State facts *)

(* The end of a record is a cursor. *)
LEMMA EndOfNat ==
  ASSUME TypeOK, NEW s \in 0..MaxRecords
  PROVE  EndOf(s) \in Nat
BY MaxRecordsAssumption, CapacityAssumption DEF TypeOK, EndOf, Placement, Seqs

(* The space left to the end of the ring, and whether a record needs a pad. *)
LEMMA SpaceToEndType ==
  ASSUME TypeOK
  PROVE  SpaceToEnd \in 1..Capacity
<1>1. Slot(localHead) \in 0..(Capacity - 1)
  BY SlotRange DEF TypeOK, Offsets
<1>2. QED
  BY <1>1, CapacityAssumption DEF SpaceToEnd

(* The words, placements and views the actions build have their types. *)
LEMMA Constructors ==
  /\ ZeroWord \in Word /\ NoPlacement \in Placement /\ NoView \in View /\ NoWant \in Want
  /\ \A n \in 0..Capacity : PadWord(n) \in Word
  /\ \A s \in 0..MaxRecords, n \in 0..Capacity, b \in BOOLEAN : HeaderWord(s, n, b) \in Word
  /\ \A s \in 0..MaxRecords : BodyWord(s) \in Word
BY CapacityAssumption, MaxRecordsAssumption
DEF Word, ZeroWord, PadWord, HeaderWord, BodyWord, Placement, NoPlacement, View, NoView,
    Want, NoWant

(* The initial state satisfies the invariant. *)
LEMMA InitInv == Init => IInv
<1>1. SUFFICES ASSUME Init PROVE IInv
  OBVIOUS
<1>2. TypeOK
  <2>1. mem \in [Offsets -> Word] /\ log \in [Seqs -> Placement]
    BY <1>1, Constructors DEF Init
  <2>2. view \in View /\ want \in Want
    BY <1>1, Constructors DEF Init
  <2>3. 0 \in Nat /\ 0 \in 0..MaxRecords
    BY MaxRecordsAssumption
  <2>4. QED
    BY <1>1, <2>1, <2>2, <2>3 DEF Init, TypeOK
<1>3. CursorInv
  BY <1>1, CapacityAssumption DEF Init, CursorInv
<1>4. LogInv
  BY <1>1, CapacityAssumption DEF Init, LogInv, EndOf
<1>5. SeqInv
  BY <1>1 DEF Init, SeqInv, Sent, Popped, EndOf
<1>6. BytesInv
  BY <1>1 DEF Init, BytesInv, LiveRecordsIntact, Seqs
<1>7. LentInv
  BY <1>1 DEF Init, LentInv
<1>8. WaitInv
  BY <1>1 DEF Init, WaitInv
<1>9. QED
  BY <1>2, <1>3, <1>4, <1>5, <1>6, <1>7, <1>8 DEF IInv

-----------------------------------------------------------------------------
(* The client's steps *)

(* A successful Reserve, wherever it is called from. *)
LEMMA ReserveKeepsInv ==
  ASSUME IInv, NEW n \in RecordSizes, NEW b \in BOOLEAN,
         emitSeq < MaxRecords, phase \in {"idle", "drained"},
         CanReserve(n), Reserve(n, b),
         want' \in Want, nested' \in BOOLEAN, WaitInv',
         UNCHANGED <<ctlVars, overrun, serverVars, lent>>
  PROVE  IInv'
<1> USE MaxRecordsAssumption, CapacityAssumption
<1>1. TypeOK /\ CursorInv /\ LogInv /\ SeqInv /\ BytesInv /\ LentInv
  BY DEF IInv
<1>0. PICK last \in 0..MaxRecords : last = emitSeq
  BY <1>1 DEF TypeOK
<1> DEFINE start == IF NeedsPad(n) THEN localHead + SpaceToEnd ELSE localHead
           next  == last + 1
<1>2. /\ n \in 1..Capacity /\ SpaceToEnd \in 1..Capacity
      /\ next \in Seqs /\ next \in 1..MaxRecords /\ emitSeq = last /\ last \in Nat
      /\ localHead \in Nat /\ retiredTail \in Nat
  BY <1>0, <1>1, RecordFits, SpaceToEndType DEF TypeOK, Seqs
<1>3. start \in Nat /\ start >= localHead /\ start + n - retiredTail <= Capacity
  BY <1>1, <1>2 DEF CanReserve, FreeWords, NeededToReserve, CursorInv
<1>4. Slot(localHead) \in 0..(Capacity - 1) /\ SpaceToEnd = Capacity - Slot(localHead)
  BY <1>2, SlotRange DEF Offsets, SpaceToEnd
<1>5. Slot(start) + n <= Capacity
  <2>1. CASE NeedsPad(n)
    BY <2>1, <1>2, SlotWraps DEF SpaceToEnd
  <2>2. CASE ~NeedsPad(n)
    BY <2>2, <1>2, <1>4 DEF NeedsPad
  <2>3. QED
    BY <2>1, <2>2
<1>6. /\ localHead' = start + n /\ emitSeq' = next /\ phase' = "reserved"
      /\ log' = [log EXCEPT ![next] = [start |-> start, total |-> n, borrow |-> b]]
      /\ mem' = [o \in Offsets |->
                   IF o = Slot(start) THEN HeaderWord(next, n, b)
                   ELSE IF NeedsPad(n) /\ o = Slot(localHead) THEN PadWord(SpaceToEnd)
                   ELSE mem[o]]
  BY <1>0 DEF Reserve
<1>7. /\ \A s \in 1..last : log'[s] = log[s]
      /\ log'[next] = [start |-> start, total |-> n, borrow |-> b]
      /\ \A s \in 0..last : EndOf(s)' = EndOf(s)
      /\ EndOf(next)' = start + n
  <2>1. log \in [Seqs -> Placement]
    BY <1>1 DEF TypeOK
  <2>2. \A s \in 1..last : s \in Seqs /\ s # next
    BY <1>2 DEF Seqs
  <2>3. /\ \A s \in 1..last : log'[s] = log[s]
        /\ log'[next] = [start |-> start, total |-> n, borrow |-> b]
    BY <2>1, <2>2, <1>2, <1>6
  <2>4. QED
    BY <2>3, <1>2 DEF EndOf
<1>8. \A c \in Nat : retiredTail <= c /\ c < localHead => mem'[Slot(c)] = mem[Slot(c)]
  <2>1. SUFFICES ASSUME NEW c \in Nat, retiredTail <= c, c < localHead
                 PROVE  mem'[Slot(c)] = mem[Slot(c)]
    OBVIOUS
  <2>2. Slot(c) # Slot(start)
    BY <2>1, <1>2, <1>3, SlotsDiffer
  <2>3. Slot(c) # Slot(localHead)
    BY <2>1, <1>2, <1>3, SlotsDiffer
  <2>4. Slot(c) \in Offsets
    BY <2>1, SlotRange
  <2>5. QED
    BY <2>2, <2>3, <2>4, <1>6
<1>9. /\ mem'[Slot(start)] = HeaderWord(next, n, b)
      /\ NeedsPad(n) => mem'[Slot(localHead)] = PadWord(SpaceToEnd)
  <2>1. Slot(start) \in Offsets /\ Slot(localHead) \in Offsets
    BY <1>2, <1>3, SlotRange
  <2>2. NeedsPad(n) => Slot(localHead) # Slot(start)
    BY <1>2, <1>3, SlotsDiffer DEF NeedsPad
  <2>3. QED
    BY <2>1, <2>2, <1>6
<1>10. TypeOK'
  <2>1. mem' \in [Offsets -> Word]
    <3>1. HeaderWord(next, n, b) \in Word /\ PadWord(SpaceToEnd) \in Word
      BY <1>2, Constructors
    <3>2. mem \in [Offsets -> Word]
      BY <1>1 DEF TypeOK
    <3>3. QED
      BY <3>1, <3>2, <1>6
  <2>2. log' \in [Seqs -> Placement]
    <3>1. [start |-> start, total |-> n, borrow |-> b] \in Placement
      BY <1>2, <1>3 DEF Placement
    <3>2. log \in [Seqs -> Placement]
      BY <1>1 DEF TypeOK
    <3>3. QED
      BY <3>1, <3>2, <1>6
  <2>4. localHead' \in Nat /\ emitSeq' \in 0..MaxRecords /\ phase' = "reserved"
    BY <1>2, <1>3, <1>6
  <2>5. QED
    BY <2>1, <2>2, <2>4, <1>1 DEF TypeOK, ctlVars, serverVars
<1>11. CursorInv'
  BY <1>1, <1>2, <1>3, <1>6 DEF CursorInv, TypeOK, ctlVars, serverVars
<1>12. LogInv'
  <2>1. EndOf(emitSeq)' = localHead'
    BY <1>6, <1>7 DEF EndOf
  <2>2. \A s \in 0..last : EndOf(s) \in Nat /\ EndOf(s) <= localHead
    BY <1>1, <1>2, EndOfNat DEF LogInv, EndOf
  <2>3. ASSUME NEW s \in 1..emitSeq'
        PROVE  /\ log'[s].total \in RecordSizes
               /\ Slot(log'[s].start) + log'[s].total <= Capacity
               /\ EndOf(s)' <= localHead'
               /\ EndOf(s - 1)' <= log'[s].start
               /\ \/ log'[s].start = EndOf(s - 1)'
                  \/ Slot(EndOf(s - 1)') + (log'[s].start - EndOf(s - 1)') = Capacity
    <3>1. CASE s \in 1..last
      <4>1. s - 1 \in 0..last /\ s \in 0..last
        BY <3>1, <1>2
      <4>2. EndOf(s)' = EndOf(s) /\ EndOf(s - 1)' = EndOf(s - 1) /\ log'[s] = log[s]
        BY <3>1, <4>1, <1>7
      <4>3. EndOf(s) <= localHead'
        BY <4>1, <2>2, <1>2, <1>3, <1>6
      <4>4. QED
        BY <3>1, <4>2, <4>3, <1>1, <1>2 DEF LogInv
    <3>2. CASE s = next
      <4>1. s - 1 = last /\ last \in 0..last
        BY <3>2, <1>2
      <4>2. EndOf(s - 1)' = localHead
        BY <4>1, <1>1, <1>2, <1>7 DEF LogInv, EndOf
      <4>3. log'[s].start = start /\ log'[s].total = n /\ EndOf(s)' = start + n
        BY <3>2, <1>7
      <4>4. start = localHead \/ Slot(localHead) + (start - localHead) = Capacity
        BY <1>2, <1>4
      <4>5. QED
        BY <4>2, <4>3, <4>4, <1>3, <1>5, <1>6
    <3>3. QED
      BY <3>1, <3>2, <1>2, <1>6
  <2>4. ASSUME NEW s \in 1..emitSeq', NEW t \in 1..emitSeq', s < t
        PROVE  EndOf(s)' <= log'[t].start
    <3>1. s \in 1..last /\ s \in 0..last /\ EndOf(s)' = EndOf(s)
      BY <2>4, <1>2, <1>6, <1>7
    <3>2. CASE t \in 1..last
      BY <3>1, <3>2, <2>4, <1>1, <1>2, <1>7 DEF LogInv
    <3>3. CASE t = next
      BY <3>1, <3>3, <2>2, <1>2, <1>3, <1>7
    <3>4. QED
      BY <3>2, <3>3, <1>2, <1>6
  <2>5. QED
    BY <2>1, <2>3, <2>4 DEF LogInv
<1>13. Sent = last /\ Sent' = last /\ Popped' = Popped /\ Popped \in 0..last
  BY <1>1, <1>2, <1>6 DEF SeqInv, Sent, Popped, TypeOK, serverVars
<1>14. SeqInv'
  <2>1. head' = EndOf(Sent)'
    <3>1. EndOf(Sent)' = EndOf(last)'
      BY <1>13 DEF EndOf
    <3>2. EndOf(last)' = EndOf(last) /\ EndOf(last) = EndOf(Sent)
      BY <1>2, <1>7, <1>13
    <3>3. QED
      BY <3>1, <3>2, <1>1, <1>13 DEF SeqInv, ctlVars
  <2>2. localTail' = EndOf(Popped)'
    <3>0. PICK p \in 0..last : p = Popped
      BY <1>13
    <3>1. EndOf(Popped)' = EndOf(Popped)
      BY <3>0, <1>7, <1>13 DEF EndOf
    <3>2. QED
      BY <3>1, <1>1 DEF SeqInv, serverVars
  <2>3. view # NoView => log'[view.seq] = log[view.seq]
    BY <1>1, <1>2, <1>7, <1>13 DEF SeqInv, Popped, TypeOK
  <2>4. QED
    BY <2>1, <2>2, <2>3, <1>1, <1>2, <1>6, <1>13 DEF SeqInv, serverVars
<1>15. \A s \in 1..last : /\ s \in Seqs
                           /\ log[s].start \in Nat /\ log[s].total \in 1..Capacity
                           /\ log[s].start + log[s].total <= localHead
  BY <1>1, <1>2, RecordFits DEF LogInv, EndOf, TypeOK, Placement, Seqs
<1>16. LiveRecordsIntact'
  <2>1. SUFFICES ASSUME NEW s \in Seqs, s <= emitSeq', log'[s].start >= retiredTail'
                 PROVE  /\ mem'[Slot(log'[s].start)]
                             = HeaderWord(s, log'[s].total, log'[s].borrow)
                        /\ (s < emitSeq' \/ phase' # "reserved") =>
                             \A c \in (log'[s].start + 1)..(log'[s].start + log'[s].total - 1) :
                               mem'[Slot(c)] = BodyWord(s)
    BY DEF LiveRecordsIntact
  <2>2. CASE s \in 1..last
    <3>1. log'[s] = log[s] /\ log[s].start >= retiredTail
      BY <2>1, <2>2, <1>7 DEF ctlVars
    <3>2. /\ mem[Slot(log[s].start)] = HeaderWord(s, log[s].total, log[s].borrow)
          /\ \A c \in (log[s].start + 1)..(log[s].start + log[s].total - 1) :
                mem[Slot(c)] = BodyWord(s)
      BY <2>1, <2>2, <3>1, <1>1, <1>2 DEF BytesInv, LiveRecordsIntact
    <3>3. \A c \in log[s].start..(log[s].start + log[s].total - 1) :
             mem'[Slot(c)] = mem[Slot(c)]
      BY <2>2, <3>1, <1>2, <1>8, <1>15
    <3>4. log[s].start \in log[s].start..(log[s].start + log[s].total - 1)
      BY <2>2, <1>15
    <3>5. \A c \in (log[s].start + 1)..(log[s].start + log[s].total - 1) :
             c \in log[s].start..(log[s].start + log[s].total - 1)
      BY <2>2, <1>15
    <3>6. QED
      BY <3>1, <3>2, <3>3, <3>4, <3>5
  <2>3. CASE s = next
    BY <2>3, <1>2, <1>6, <1>7, <1>9
  <2>4. QED
    BY <2>1, <2>2, <2>3, <1>2, <1>6 DEF Seqs
<1>17. ASSUME NEW s \in 1..emitSeq', log'[s].start # EndOf(s - 1)', EndOf(s - 1)' >= retiredTail'
       PROVE  mem'[Slot(EndOf(s - 1)')] = PadWord(log'[s].start - EndOf(s - 1)')
  <2>1. CASE s \in 1..last
    <3>1. s - 1 \in 0..last /\ s - 1 \in 0..MaxRecords
      BY <2>1, <1>2
    <3>2. EndOf(s - 1)' = EndOf(s - 1) /\ log'[s] = log[s] /\ EndOf(s - 1) \in Nat
      BY <2>1, <3>1, <1>1, <1>7, EndOfNat
    <3>3. EndOf(s - 1) < localHead /\ retiredTail <= EndOf(s - 1)
      BY <2>1, <3>2, <1>1, <1>15, <1>17, <1>2 DEF LogInv, ctlVars
    <3>4. mem[Slot(EndOf(s - 1))] = PadWord(log[s].start - EndOf(s - 1))
      BY <2>1, <3>2, <3>3, <1>1, <1>17, <1>2 DEF BytesInv
    <3>5. QED
      BY <3>2, <3>3, <3>4, <1>8
  <2>2. CASE s = next
    <3>1. EndOf(s - 1)' = localHead /\ log'[s].start = start
      <4>1. s - 1 = last /\ last \in 0..last
        BY <2>2, <1>2
      <4>2. QED
        BY <4>1, <2>2, <1>1, <1>2, <1>7 DEF LogInv, EndOf
    <3>2. NeedsPad(n) /\ start - localHead = SpaceToEnd
      BY <3>1, <1>2, <1>17
    <3>3. QED
      BY <3>1, <3>2, <1>9
  <2>3. QED
    BY <2>1, <2>2, <1>2, <1>6
<1>18. LentInv'
  BY <1>1, <1>2, <1>7, <1>13 DEF LentInv, SeqInv, Popped, serverVars, TypeOK, Seqs
<1>19. QED
  BY <1>10, <1>11, <1>12, <1>14, <1>16, <1>17, <1>18 DEF IInv, BytesInv

(* Emit either reserves or records what it waits for. *)
LEMMA EmitKeepsInv ==
  ASSUME IInv, NEW n \in RecordSizes, NEW b \in BOOLEAN, Emit(n, b)
  PROVE  IInv'
<1> USE MaxRecordsAssumption, CapacityAssumption
<1>1. TypeOK /\ CursorInv /\ LogInv /\ SeqInv /\ BytesInv /\ LentInv /\ WaitInv
  BY DEF IInv
<1>2. CASE CanReserve(n)
  <2>1. /\ Reserve(n, b) /\ phase = "idle" /\ emitSeq < MaxRecords
        /\ UNCHANGED <<ctlVars, want, overrun, nested, serverVars, lent>>
    BY <1>2 DEF Emit
  <2>2. phase' = "reserved"
    BY <2>1 DEF Reserve
  <2>3. WaitInv'
    BY <2>1, <2>2, <1>1, <1>2 DEF WaitInv
  <2>4. want' \in Want /\ nested' \in BOOLEAN
    BY <2>1, <1>1 DEF TypeOK
  <2>5. QED
    BY <2>1, <2>3, <2>4, <1>2, ReserveKeepsInv
<1>3. CASE ~CanReserve(n)
  <2>2. /\ phase = "idle" /\ emitSeq < MaxRecords
        /\ phase' = "waiting" /\ want' = [total |-> n, borrow |-> b]
        /\ UNCHANGED <<mem, localHead, emitSeq, log, ctlVars, overrun, nested, serverVars, lent>>
    BY <1>3 DEF Emit
  <2>3. want' \in Want /\ want'.total = n /\ want' # NoWant
    BY <2>2, RecordFits DEF Want, NoWant
  <2>4. TypeOK'
    BY <1>1, <2>2, <2>3 DEF TypeOK, ctlVars, serverVars
  <2>5. CursorInv' /\ LogInv' /\ LentInv'
    BY <1>1, <2>2 DEF CursorInv, LogInv, LentInv, EndOf, ctlVars, serverVars
  <2>6. SeqInv'
    BY <1>1, <2>2 DEF SeqInv, Sent, Popped, EndOf, ctlVars, serverVars
  <2>7. BytesInv'
    BY <1>1, <2>2 DEF BytesInv, LiveRecordsIntact, EndOf, ctlVars
  <2>8. WaitInv'
    BY <1>1, <2>2, <2>3 DEF WaitInv
  <2>9. QED
    BY <2>4, <2>5, <2>6, <2>7, <2>8 DEF IInv
<1>4. QED
  BY <1>2, <1>3

(* A step that leaves the ring and the server alone, and the client's cursor *)
(* with them: only the wait is left to look at.                              *)
LEMMA PhaseStepKeepsInv ==
  ASSUME IInv, TypeOK', WaitInv',
         phase \in {"waiting", "drained"}, phase' \in {"drained", "dead"},
         UNCHANGED <<ctlVars, mem, localHead, emitSeq, serverVars, log, lent>>
  PROVE  IInv'
<1>1. CursorInv /\ LogInv /\ SeqInv /\ BytesInv /\ LentInv
  BY DEF IInv
<1>2. CursorInv' /\ LogInv' /\ LentInv'
  BY <1>1 DEF CursorInv, LogInv, LentInv, EndOf, ctlVars, serverVars
<1>3. SeqInv'
  BY <1>1 DEF SeqInv, Sent, Popped, EndOf, ctlVars, serverVars
<1>4. BytesInv'
  BY <1>1 DEF BytesInv, LiveRecordsIntact, EndOf, ctlVars
<1>5. QED
  BY <1>2, <1>3, <1>4 DEF IInv

(* The end of the space wait: what was waited for is there. *)
LEMMA SpaceFreedKeepsInv ==
  ASSUME IInv, SpaceFreed
  PROVE  IInv'
<1>1. TypeOK /\ WaitInv
  BY DEF IInv
<1>2. /\ phase = "waiting" /\ phase' = "drained" /\ nested' = FALSE
      /\ FreeWords >= NeededByClient(want.total)
      /\ UNCHANGED <<ctlVars, mem, localHead, emitSeq, want, overrun, serverVars, log, lent>>
  BY DEF SpaceFreed
<1>3. FreeWords' = FreeWords /\ NeededByClient(want.total)' = NeededByClient(want.total)
  BY <1>2 DEF FreeWords, NeededByClient, ctlVars
<1>4. TypeOK'
  BY <1>1, <1>2 DEF TypeOK, ctlVars, serverVars
<1>5. ~overrun
  BY <1>1, <1>2 DEF WaitInv
<1>6. WaitInv'
  BY <1>1, <1>2, <1>3, <1>5 DEF WaitInv
<1>7. QED
  BY <1>2, <1>4, <1>6, PhaseStepKeepsInv

(* A record published inside the emission that waited. *)
LEMMA NestedEmitKeepsInv ==
  ASSUME IInv, NEW n \in RecordSizes, NEW b \in BOOLEAN, NestedEmit(n, b)
  PROVE  IInv'
<1>1. TypeOK /\ WaitInv
  BY DEF IInv
<1>2. /\ phase = "drained" /\ emitSeq + 1 < MaxRecords /\ CanReserve(n) /\ Reserve(n, b)
      /\ nested' = TRUE
      /\ UNCHANGED <<ctlVars, want, overrun, serverVars, lent>>
  BY DEF NestedEmit
<1>3. phase' = "reserved" /\ emitSeq' = emitSeq + 1
  BY <1>2 DEF Reserve
<1>4. WaitInv'
  BY <1>1, <1>2, <1>3 DEF WaitInv
<1>5. want' \in Want /\ emitSeq < MaxRecords
  BY <1>1, <1>2, MaxRecordsAssumption DEF TypeOK
<1>6. QED
  BY <1>2, <1>4, <1>5, ReserveKeepsInv

(* The space waited for is the space Reserve asks for. *)
LEMMA WaitedSpaceSuffices ==
  ASSUME TypeOK, NEW n \in RecordSizes, FreeWords >= NeededByClient(n)
  PROVE  CanReserve(n)
<1>1. n \in Nat /\ SpaceToEnd \in Nat /\ n <= MaxRecordWords
  BY RecordFits, SpaceToEndType, CapacityAssumption DEF RecordSizes
<1>2. NeededByClient(n) = NeededToReserve(n)
  BY <1>1 DEF NeededByClient, NeededToReserve, NeedsPad, SpaceToEnd, Slot
<1>3. QED
  BY <1>1, <1>2 DEF CanReserve

(* The second encode, after the space wait and the drain. *)
LEMMA EncodeKeepsInv ==
  ASSUME IInv, EncodeAfterSpaceWait
  PROVE  IInv'
<1>1. TypeOK /\ WaitInv
  BY DEF IInv
<1>2. /\ phase = "drained"
      /\ want.total \in RecordSizes /\ want.borrow \in BOOLEAN /\ emitSeq < MaxRecords
  BY <1>1 DEF EncodeAfterSpaceWait, WaitInv, TypeOK, Want
<1>3. CASE CanReserve(want.total)
  <2>1. /\ Reserve(want.total, want.borrow) /\ want' = NoWant
        /\ UNCHANGED <<ctlVars, overrun, nested, serverVars, lent>>
    BY <1>3 DEF EncodeAfterSpaceWait
  <2>2. phase' = "reserved"
    BY <2>1 DEF Reserve
  <2>3. WaitInv'
    BY <2>1, <2>2, <1>1, <1>2 DEF WaitInv
  <2>4. want' \in Want /\ nested' \in BOOLEAN
    BY <2>1, <1>1, Constructors DEF TypeOK
  <2>5. QED
    BY <1>2, <1>3, <2>1, <2>3, <2>4, ReserveKeepsInv
<1>4. CASE ~CanReserve(want.total)
  <2>1. /\ overrun' = TRUE /\ phase' = "dead"
        /\ UNCHANGED <<ctlVars, mem, localHead, emitSeq, want, nested, serverVars, log, lent>>
    BY <1>4 DEF EncodeAfterSpaceWait
  <2>2. nested
    BY <1>1, <1>2, <1>4, WaitedSpaceSuffices DEF WaitInv
  <2>3. TypeOK'
    BY <2>1, <1>1 DEF TypeOK, ctlVars, serverVars
  <2>4. WaitInv'
    BY <2>1, <2>2, <1>1 DEF WaitInv
  <2>5. QED
    BY <1>2, <2>1, <2>3, <2>4, PhaseStepKeepsInv
<1>5. QED
  BY <1>3, <1>4

(* The payload copy stays inside the record just reserved. *)
LEMMA FillKeepsInv ==
  ASSUME IInv, FillPayload
  PROVE  IInv'
<1> USE MaxRecordsAssumption, CapacityAssumption
<1>1. TypeOK /\ CursorInv /\ LogInv /\ SeqInv /\ BytesInv /\ LentInv /\ WaitInv
  BY DEF IInv
<1> DEFINE r == log[emitSeq]
<1>2. /\ phase = "reserved" /\ phase' = "filled"
      /\ mem' = [o \in Offsets |->
                   IF o \in (Slot(r.start) + 1)..(Slot(r.start) + r.total - 1)
                   THEN BodyWord(emitSeq) ELSE mem[o]]
      /\ UNCHANGED <<ctlVars, localHead, emitSeq, want, overrun, nested, serverVars, log,
                     lent>>
  BY DEF FillPayload
<1>3. /\ emitSeq \in 1..emitSeq /\ emitSeq \in 1..MaxRecords
      /\ localHead \in Nat /\ retiredTail \in Nat /\ localHead - retiredTail <= Capacity
  BY <1>1, <1>2 DEF SeqInv, TypeOK, CursorInv
<1>4. \A s \in 1..emitSeq : /\ s \in Seqs
                          /\ log[s].start \in Nat /\ log[s].total \in 1..Capacity
                          /\ log[s].start + log[s].total <= localHead
                          /\ Slot(log[s].start) + log[s].total <= Capacity
                          /\ (s < emitSeq => log[s].start + log[s].total <= r.start)
  <2>1. SUFFICES ASSUME NEW s \in 1..emitSeq
                 PROVE  /\ s \in Seqs
                        /\ log[s].start \in Nat /\ log[s].total \in 1..Capacity
                        /\ log[s].start + log[s].total <= localHead
                        /\ Slot(log[s].start) + log[s].total <= Capacity
                        /\ (s < emitSeq => log[s].start + log[s].total <= r.start)
    OBVIOUS
  <2>2. s \in Seqs /\ s # 0
    BY <1>3 DEF Seqs
  <2>3. log[s].start \in Nat /\ log[s].total \in 1..Capacity
    BY <2>2, <1>1, RecordFits DEF LogInv, TypeOK, Placement
  <2>4. EndOf(s) = log[s].start + log[s].total
    BY <2>2 DEF EndOf
  <2>5. QED
    BY <2>2, <2>3, <2>4, <1>1, <1>3 DEF LogInv
<1>5. /\ r.start \in Nat /\ r.total \in 1..Capacity /\ r.start + r.total = localHead
      /\ Slot(r.start) + r.total <= Capacity /\ Slot(r.start) \in 0..(Capacity - 1)
  <2>1. /\ r.start \in Nat /\ r.total \in 1..Capacity /\ Slot(r.start) + r.total <= Capacity
    BY <1>3, <1>4
  <2>2. r.start + r.total = localHead
    BY <1>1, <1>3 DEF LogInv, EndOf
  <2>3. Slot(r.start) \in 0..(Capacity - 1)
    BY <2>1, SlotRange DEF Offsets
  <2>4. QED
    BY <2>1, <2>2, <2>3
<1>6. \A c \in Nat : retiredTail <= c /\ c <= r.start => mem'[Slot(c)] = mem[Slot(c)]
  <2>1. SUFFICES ASSUME NEW c \in Nat, retiredTail <= c, c <= r.start
                 PROVE  mem'[Slot(c)] = mem[Slot(c)]
    OBVIOUS
  <2>2. Slot(c) \in Offsets
    BY SlotRange
  <2>3. ASSUME NEW o \in (Slot(r.start) + 1)..(Slot(r.start) + r.total - 1)
        PROVE  Slot(c) # o
    <3>1. PICK k \in 1..(r.total - 1) : o = Slot(r.start) + k
      <4>1. o - Slot(r.start) \in 1..(r.total - 1)
            /\ o = Slot(r.start) + (o - Slot(r.start))
        BY <1>5
      <4>2. QED
        BY <4>1
    <3>2. PICK d \in Nat : d = r.start + k
      BY <1>5
    <3>3. Slot(d) = o
      BY <3>1, <3>2, <1>5, SlotAdvance
    <3>4. c < d /\ d - c < Capacity
      BY <2>1, <3>1, <3>2, <1>3, <1>5
    <3>5. QED
      BY <3>3, <3>4, SlotsDiffer
  <2>4. QED
    BY <2>2, <2>3, <1>2
<1>7. \A c \in (r.start + 1)..(r.start + r.total - 1) : mem'[Slot(c)] = BodyWord(emitSeq)
  <2>1. SUFFICES ASSUME NEW c \in (r.start + 1)..(r.start + r.total - 1)
                 PROVE  mem'[Slot(c)] = BodyWord(emitSeq)
    OBVIOUS
  <2>2. c - r.start \in Nat /\ r.start + (c - r.start) = c /\ c \in Nat
    BY <1>5
  <2>3. Slot(c) = Slot(r.start) + (c - r.start)
    BY <2>2, <1>5, SlotAdvance
  <2>4. Slot(c) \in Offsets /\ Slot(c) \in (Slot(r.start) + 1)..(Slot(r.start) + r.total - 1)
    BY <2>2, <2>3, <1>5, SlotRange
  <2>5. QED
    BY <2>4, <1>2
<1>8. TypeOK'
  <2>1. BodyWord(emitSeq) \in Word
    BY <1>3, Constructors
  <2>2. mem' \in [Offsets -> Word]
    BY <2>1, <1>1, <1>2 DEF TypeOK
  <2>3. QED
    BY <2>2, <1>1, <1>2 DEF TypeOK, ctlVars, serverVars
<1>9. CursorInv' /\ LogInv' /\ LentInv'
  BY <1>1, <1>2 DEF CursorInv, LogInv, LentInv, EndOf, ctlVars, serverVars
<1>10. SeqInv'
  BY <1>1, <1>2 DEF SeqInv, Sent, Popped, EndOf, ctlVars, serverVars
<1>11. LiveRecordsIntact'
  <2>1. SUFFICES ASSUME NEW s \in Seqs, s <= emitSeq, log[s].start >= retiredTail
                 PROVE  /\ mem'[Slot(log[s].start)]
                             = HeaderWord(s, log[s].total, log[s].borrow)
                        /\ \A c \in (log[s].start + 1)..(log[s].start + log[s].total - 1) :
                              mem'[Slot(c)] = BodyWord(s)
    BY <1>2 DEF LiveRecordsIntact, ctlVars
  <2>2. s \in 1..emitSeq
    BY <2>1, <1>3 DEF Seqs
  <2>3. mem'[Slot(log[s].start)] = HeaderWord(s, log[s].total, log[s].borrow)
    <3>1. log[s].start \in Nat /\ log[s].start <= r.start
      <4>1. s = emitSeq \/ s < emitSeq
        BY <2>2, <1>3
      <4>2. log[s].start \in Nat /\ log[s].total \in Nat
            /\ (s < emitSeq => log[s].start + log[s].total <= r.start)
        BY <2>2, <1>4
      <4>3. QED
        BY <4>1, <4>2, <1>5
    <3>2. mem[Slot(log[s].start)] = HeaderWord(s, log[s].total, log[s].borrow)
      BY <2>1, <1>1 DEF BytesInv, LiveRecordsIntact
    <3>3. QED
      BY <3>1, <3>2, <2>1, <1>6
  <2>4. ASSUME NEW c \in (log[s].start + 1)..(log[s].start + log[s].total - 1)
        PROVE  mem'[Slot(c)] = BodyWord(s)
    <3>1. CASE s = emitSeq
      BY <3>1, <2>4, <1>7
    <3>2. CASE s < emitSeq
      <4>1. c \in Nat /\ retiredTail <= c /\ c <= r.start
        <5>1. log[s].start \in Nat /\ log[s].total \in Nat
              /\ log[s].start + log[s].total <= r.start
          BY <3>2, <2>2, <1>4
        <5>2. QED
          BY <5>1, <2>1, <2>4, <1>3, <1>5
      <4>2. mem[Slot(c)] = BodyWord(s)
        BY <3>2, <2>1, <2>4, <1>1 DEF BytesInv, LiveRecordsIntact
      <4>3. QED
        BY <4>1, <4>2, <1>6
    <3>3. QED
      BY <3>1, <3>2, <2>2, <1>3
  <2>5. QED
    BY <2>3, <2>4
<1>12. BytesInv'
  <2>1. SUFFICES ASSUME NEW s \in 1..emitSeq,
                        log[s].start # EndOf(s - 1), EndOf(s - 1) >= retiredTail
                 PROVE  mem'[Slot(EndOf(s - 1))] = PadWord(log[s].start - EndOf(s - 1))
    BY <1>2, <1>11 DEF BytesInv, EndOf, ctlVars
  <2>2. EndOf(s - 1) \in Nat
    BY <1>1, <1>3, EndOfNat DEF TypeOK
  <2>3. EndOf(s - 1) <= r.start
    <3>1. EndOf(s - 1) <= log[s].start /\ (s = emitSeq \/ s < emitSeq)
      BY <2>1, <1>1, <1>3 DEF LogInv
    <3>2. log[s].start \in Nat /\ log[s].total \in Nat
          /\ (s < emitSeq => log[s].start + log[s].total <= r.start)
      BY <2>1, <1>4
    <3>3. QED
      BY <3>1, <3>2, <2>2, <1>5
  <2>4. mem[Slot(EndOf(s - 1))] = PadWord(log[s].start - EndOf(s - 1))
    BY <2>1, <1>1 DEF BytesInv
  <2>5. QED
    BY <2>1, <2>2, <2>3, <2>4, <1>6
<1>13. WaitInv'
  BY <1>1, <1>2 DEF WaitInv
<1>14. QED
  BY <1>8, <1>9, <1>10, <1>12, <1>13 DEF IInv

(* Publishing moves the head to the end of the last record. *)
LEMMA PublishKeepsInv ==
  ASSUME IInv, Publish
  PROVE  IInv'
<1> USE MaxRecordsAssumption, CapacityAssumption
<1>1. TypeOK /\ CursorInv /\ LogInv /\ SeqInv /\ BytesInv /\ LentInv /\ WaitInv
  BY DEF IInv
<1>2. /\ phase = "filled" /\ head' = localHead /\ phase' \in {"idle", "drained"}
      /\ phase' = "idle" <=> want = NoWant
      /\ UNCHANGED <<appliedTail, retiredTail, mem, localHead, emitSeq, want, overrun, nested,
                     serverVars, log, lent>>
  BY DEF Publish
<1>3. TypeOK'
  BY <1>1, <1>2 DEF TypeOK, serverVars
<1>4. CursorInv' /\ LogInv' /\ LentInv'
  BY <1>1, <1>2 DEF TypeOK, CursorInv, LogInv, LentInv, EndOf, serverVars
<1>5. SeqInv'
  BY <1>1, <1>2 DEF TypeOK, SeqInv, LogInv, Sent, Popped, EndOf, serverVars
<1>6. BytesInv'
  BY <1>1, <1>2 DEF BytesInv, LiveRecordsIntact, EndOf
<1>7. WaitInv'
  BY <1>1, <1>2 DEF WaitInv
<1>8. QED
  BY <1>3, <1>4, <1>5, <1>6, <1>7 DEF IInv

-----------------------------------------------------------------------------
(* The server's steps *)

(* What is handed back is room. *)
LEMMA RoomMonotone ==
  ASSUME NEW h \in Nat, NEW r \in Nat, NEW q \in Nat, r <= q
  PROVE  LET Room(t) == IF h - t >= Capacity THEN 0 ELSE Capacity - (h - t)
         IN  Room(r) \in Int /\ Room(q) \in Int /\ Room(r) <= Room(q)
BY CapacityAssumption

(* A server's step leaves the client's wait alone, and the room it hands   *)
(* back only adds to what was waited for.                                  *)
LEMMA RoomOnlyGrows ==
  ASSUME TypeOK, WaitInv, retiredTail' \in Nat, retiredTail <= retiredTail',
         UNCHANGED <<localHead, emitSeq, phase, want, overrun, nested>>
  PROVE  WaitInv'
<1>1. /\ UNCHANGED <<localHead, emitSeq, phase, want, overrun, nested>>
      /\ retiredTail' \in Nat /\ retiredTail <= retiredTail'
  OBVIOUS
<1>2. CASE phase = "drained" /\ ~nested
  <2>1. localHead % Capacity \in 0..(Capacity - 1) /\ want.total \in Nat
    <3>1. want # NoWant
      BY <1>2 DEF WaitInv
    <3>2. want.total \in RecordSizes
      BY <3>1 DEF WaitInv
    <3>3. localHead \in Nat
      BY DEF TypeOK
    <3>4. QED
      BY <3>2, <3>3, SlotRange, RecordFits DEF Slot, Offsets
  <2>2. /\ NeededByClient(want.total) \in Int
        /\ NeededByClient(want.total)' = NeededByClient(want.total)
    BY <2>1, <1>1, CapacityAssumption DEF NeededByClient
  <2>3. FreeWords \in Int /\ FreeWords' \in Int /\ FreeWords <= FreeWords'
    <3>1. localHead \in Nat /\ retiredTail \in Nat /\ localHead' = localHead
      BY <1>1 DEF TypeOK
    <3>2. /\ FreeWords = IF localHead - retiredTail >= Capacity
                         THEN 0 ELSE Capacity - (localHead - retiredTail)
          /\ FreeWords' = IF localHead - retiredTail' >= Capacity
                          THEN 0 ELSE Capacity - (localHead - retiredTail')
      BY <3>1 DEF FreeWords
    <3>3. QED
      BY <1>1, <3>1, <3>2, RoomMonotone
  <2>4. FreeWords >= NeededByClient(want.total)
    BY <1>2 DEF WaitInv
  <2>5. FreeWords' >= NeededByClient(want.total)'
    BY <2>2, <2>3, <2>4
  <2>6. QED
    BY <1>1, <2>5 DEF WaitInv
<1>3. CASE ~(phase = "drained" /\ ~nested)
  BY <1>1, <1>3 DEF WaitInv
<1>4. QED
  BY <1>2, <1>3

(* What Pop finds between its tail and the head: the next record's header, *)
(* behind its pad if it has one.  Never a refusal, never an empty pop.     *)
LEMMA PopFindsNext ==
  ASSUME IInv, Pop, NEW t, t = appliedSeq + 1
  PROVE  /\ t \in 1..emitSeq /\ t <= Sent
         /\ view = NoView /\ ~rejected
         /\ localTail' = EndOf(t)
         /\ view' = [cursor |-> log[t].start, total |-> log[t].total, seq |-> t,
                     borrow |-> log[t].borrow]
         /\ corrupt' = corrupt
<1> USE MaxRecordsAssumption, CapacityAssumption
<1>1. TypeOK /\ CursorInv /\ LogInv /\ SeqInv /\ BytesInv
  BY DEF IInv
<1>2. view = NoView /\ ~corrupt /\ ~rejected /\ localTail # head
  BY DEF Pop
<1>3. Popped = appliedSeq /\ appliedSeq \in Nat /\ Sent \in Nat /\ Sent <= emitSeq
  BY <1>1, <1>2 DEF Popped, Sent, TypeOK, SeqInv
<1>4. appliedSeq < Sent
  <2>1. appliedSeq = Sent => localTail = head
    BY <1>1, <1>3 DEF SeqInv, EndOf
  <2>2. QED
    BY <2>1, <1>1, <1>2, <1>3 DEF SeqInv
<1>5. t \in 1..emitSeq /\ t \in Seqs /\ t <= Sent /\ t - 1 = appliedSeq /\ t # 0
  BY <1>1, <1>3, <1>4 DEF TypeOK, Seqs
<1>6. localTail = EndOf(t - 1)
  BY <1>1, <1>3, <1>5 DEF SeqInv
<1>7. /\ log[t].start \in Nat /\ log[t].total \in 1..Capacity /\ log[t].borrow \in BOOLEAN
      /\ EndOf(t) = log[t].start + log[t].total
      /\ Slot(log[t].start) + log[t].total <= Capacity
      /\ localTail <= log[t].start
      /\ log[t].start = localTail \/ Slot(localTail) + (log[t].start - localTail) = Capacity
  <2>1. log[t].start \in Nat /\ log[t].total \in 1..Capacity /\ log[t].borrow \in BOOLEAN
    BY <1>1, <1>5, RecordFits DEF LogInv, TypeOK, Placement
  <2>2. EndOf(t) = log[t].start + log[t].total
    BY <1>5 DEF EndOf
  <2>3. QED
    BY <2>1, <2>2, <1>1, <1>5, <1>6 DEF LogInv
<1>8. EndOf(t) <= head
  <2>1. PICK k \in 0..emitSeq : k = Sent
    BY <1>3, <1>5
  <2>2. head = EndOf(k)
    BY <2>1, <1>1 DEF SeqInv
  <2>3. CASE k = t
    BY <2>2, <2>3, <1>7
  <2>4. CASE t < k
    <3>1. k \in 1..emitSeq /\ k \in Seqs /\ k # 0
      BY <2>1, <2>4, <1>1, <1>5 DEF TypeOK, Seqs
    <3>2. log[k].start \in Nat /\ log[k].total \in Nat
      BY <3>1, <1>1 DEF TypeOK, Placement
    <3>3. EndOf(t) <= log[k].start
      BY <3>1, <2>4, <1>1, <1>5 DEF LogInv
    <3>4. QED
      BY <3>1, <3>2, <3>3, <2>2, <1>7 DEF EndOf
  <2>5. QED
    BY <2>1, <2>3, <2>4, <1>5
<1>9. /\ head \in Nat /\ localTail \in Nat /\ retiredTail \in Nat
      /\ retiredTail <= localTail /\ head - localTail <= Capacity
  BY <1>1 DEF TypeOK, CursorInv
<1>10. mem[Slot(log[t].start)] = HeaderWord(t, log[t].total, log[t].borrow)
  BY <1>1, <1>5, <1>7, <1>9 DEF BytesInv, LiveRecordsIntact
<1>11. SkipPad(localTail) = log[t].start
  <2>1. CASE log[t].start = localTail
    BY <2>1, <1>10 DEF SkipPad, IsPad, HeaderWord
  <2>2. CASE log[t].start # localTail
    <3>1. mem[Slot(localTail)] = PadWord(log[t].start - localTail)
      BY <2>2, <1>1, <1>5, <1>6, <1>9 DEF BytesInv
    <3>2. /\ IsPad(mem[Slot(localTail)])
          /\ mem[Slot(localTail)].size = log[t].start - localTail
      BY <3>1 DEF IsPad, PadWord
    <3>3. HeaderIsLegal(localTail, mem[Slot(localTail)])
      BY <3>2, <2>2, <1>7, <1>8, <1>9 DEF HeaderIsLegal
    <3>4. QED
      BY <3>2, <3>3, <1>7, <1>9 DEF SkipPad
  <2>3. QED
    BY <2>1, <2>2
<1>12. LET w == mem[Slot(log[t].start)]
       IN  /\ w.size = log[t].total /\ w.seq = t /\ w.borrow = log[t].borrow
           /\ HeaderIsLegal(log[t].start, w)
  BY <1>7, <1>8, <1>9, <1>10 DEF HeaderIsLegal, HeaderWord
<1>13. log[t].start # head
  BY <1>7, <1>8, <1>9
<1>14. /\ view' = [cursor |-> log[t].start, total |-> log[t].total, seq |-> t,
                   borrow |-> log[t].borrow]
       /\ localTail' = log[t].start + log[t].total
       /\ UNCHANGED corrupt
  BY <1>9, <1>11, <1>12, <1>13 DEF Pop
<1>15. QED
  BY <1>2, <1>5, <1>7, <1>14

(* Popping takes the next record in hand. *)
LEMMA PopKeepsInv ==
  ASSUME IInv, Pop
  PROVE  IInv'
<1> USE MaxRecordsAssumption, CapacityAssumption
<1>1. TypeOK /\ CursorInv /\ LogInv /\ SeqInv /\ BytesInv /\ LentInv /\ WaitInv
  BY DEF IInv
<1>2. PICK t : t = appliedSeq + 1
  OBVIOUS
<1>3. /\ t \in 1..emitSeq /\ t <= Sent
      /\ view = NoView /\ ~rejected
      /\ localTail' = EndOf(t)
      /\ view' = [cursor |-> log[t].start, total |-> log[t].total, seq |-> t,
                  borrow |-> log[t].borrow]
      /\ corrupt' = corrupt
  BY <1>2, PopFindsNext
<1>4. UNCHANGED <<ctlVars, mem, clientVars, appliedSeq, retirable, borrowHeld, rejected, log,
                  lent>>
  BY DEF Pop
<1>5. t \in Seqs /\ t \in 0..MaxRecords /\ t - 1 = appliedSeq /\ t # 0
  BY <1>1, <1>2, <1>3 DEF TypeOK, Seqs
<1>6. /\ log[t].start \in Nat /\ log[t].total \in 1..Capacity /\ log[t].borrow \in BOOLEAN
      /\ EndOf(t) = log[t].start + log[t].total
  BY <1>1, <1>3, <1>5, RecordFits DEF LogInv, TypeOK, Placement, EndOf
<1>7. view' \in View /\ view' # NoView
  BY <1>3, <1>5, <1>6 DEF View, NoView
<1>8. localTail = EndOf(t - 1) /\ localTail <= log[t].start
  BY <1>1, <1>3, <1>5 DEF SeqInv, LogInv, Popped
<1>9. EndOf(t) <= head
  <2>1. Sent \in 0..emitSeq
    BY <1>1 DEF Sent, SeqInv, TypeOK
  <2>2. PICK k \in 0..emitSeq : k = Sent
    BY <2>1
  <2>3. head = EndOf(k)
    BY <2>2, <1>1 DEF SeqInv
  <2>4. CASE t < k
    <3>1. k \in 1..emitSeq /\ k \in Seqs /\ k # 0
      BY <2>2, <2>4, <1>1, <1>3 DEF TypeOK, Seqs
    <3>2. log[k].start \in Nat /\ log[k].total \in Nat
      BY <3>1, <1>1 DEF TypeOK, Placement
    <3>3. EndOf(t) <= log[k].start
      BY <3>1, <2>4, <1>1, <1>3 DEF LogInv
    <3>4. QED
      BY <3>1, <3>2, <3>3, <2>3, <1>6 DEF EndOf
  <2>5. CASE k = t
    BY <2>3, <2>5, <1>6
  <2>6. QED
    BY <2>2, <2>4, <2>5, <1>3
<1>10. TypeOK'
  BY <1>1, <1>3, <1>4, <1>6, <1>7 DEF TypeOK, ctlVars, clientVars
<1>11. CursorInv'
  BY <1>1, <1>3, <1>4, <1>6, <1>8, <1>9 DEF TypeOK, CursorInv, ctlVars, clientVars
<1>12. LogInv' /\ LentInv' /\ BytesInv'
  BY <1>1, <1>4 DEF LogInv, LentInv, BytesInv, LiveRecordsIntact, EndOf, ctlVars, clientVars
<1>13. SeqInv'
  <2>1. Popped' = t /\ Sent' = Sent
    BY <1>2, <1>4, <1>7 DEF Popped, Sent, clientVars
  <2>2. localTail' = EndOf(Popped)' /\ head' = EndOf(Sent)'
    BY <2>1, <1>1, <1>3, <1>4 DEF EndOf, SeqInv, ctlVars
  <2>3. retirable <= log[t].start
    BY <1>1, <1>6, <1>8 DEF TypeOK, CursorInv
  <2>4. QED
    BY <2>1, <2>2, <2>3, <1>1, <1>2, <1>3, <1>4 DEF SeqInv, clientVars
<1>14. WaitInv'
  <2>1. retiredTail' = retiredTail /\ retiredTail \in Nat
    BY <1>4, <1>1 DEF TypeOK, ctlVars
  <2>2. QED
    BY <2>1, <1>4, <1>1, RoomOnlyGrows DEF clientVars
<1>15. QED
  BY <1>10, <1>11, <1>12, <1>13, <1>14 DEF IInv

(* The applied record moves the reclaim cursor unless a borrow holds it. *)
LEMMA FinishKeepsInv ==
  ASSUME IInv, FinishApply
  PROVE  IInv'
<1> USE MaxRecordsAssumption, CapacityAssumption
<1>1. TypeOK /\ CursorInv /\ LogInv /\ SeqInv /\ BytesInv /\ LentInv /\ WaitInv
  BY DEF IInv
<1>2. /\ view # NoView /\ view' = NoView
      /\ appliedSeq' = appliedSeq + 1 /\ appliedTail' = localTail
      /\ \/ /\ ~view.borrow /\ ~borrowHeld
            /\ retirable' = view.cursor + view.total /\ borrowHeld' = borrowHeld
         \/ borrowHeld' = TRUE /\ retirable' = retirable
      /\ lent' = (IF view.borrow THEN lent \cup {view.seq} ELSE lent)
      /\ UNCHANGED <<head, retiredTail, mem, clientVars, localTail, corrupt, rejected, log>>
  BY DEF FinishApply
<1>3. PICK t \in Seqs : t = view.seq
  BY <1>1, <1>2 DEF SeqInv, Sent, Popped, TypeOK, Seqs
<1>4. /\ ~rejected /\ t = appliedSeq + 1 /\ t \in 1..emitSeq /\ Popped = t /\ t <= Sent
      /\ view.cursor = log[t].start /\ view.total = log[t].total
      /\ view.borrow = log[t].borrow /\ retirable <= log[t].start
  BY <1>1, <1>2, <1>3 DEF SeqInv, Sent, Popped, TypeOK, Seqs
<1>5. /\ log[t].start \in Nat /\ log[t].total \in Nat
      /\ localTail = log[t].start + log[t].total
  BY <1>1, <1>3, <1>4 DEF SeqInv, EndOf, TypeOK, Placement, Seqs
<1>6. retirable' \in Nat /\ retirable <= retirable' /\ retirable' <= localTail
  BY <1>1, <1>2, <1>4, <1>5 DEF TypeOK, CursorInv
<1>7. borrowHeld' \in BOOLEAN /\ lent' \in SUBSET Seqs
  BY <1>1, <1>2, <1>3 DEF TypeOK
<1>8. TypeOK'
  BY <1>1, <1>2, <1>3, <1>4, <1>6, <1>7, Constructors DEF TypeOK, clientVars, Seqs
<1>9. CursorInv'
  BY <1>1, <1>2, <1>6 DEF TypeOK, CursorInv, clientVars
<1>10. LogInv' /\ BytesInv'
  BY <1>1, <1>2 DEF LogInv, BytesInv, LiveRecordsIntact, EndOf, clientVars
<1>11. SeqInv'
  <2>1. Popped' = t /\ Sent' = Sent
    BY <1>2, <1>4 DEF Popped, Sent, clientVars
  <2>2. localTail' = EndOf(Popped)' /\ head' = EndOf(Sent)'
    BY <2>1, <1>1, <1>2, <1>4 DEF EndOf, SeqInv
  <2>3. QED
    BY <2>1, <2>2, <1>1, <1>2, <1>4 DEF SeqInv, clientVars
<1>12. LentInv'
  <2>1. SUFFICES ASSUME NEW s \in lent'
                 PROVE  s <= appliedSeq' /\ borrowHeld' /\ log[s].start >= retirable'
    BY <1>2 DEF LentInv
  <2>2. CASE s \in lent
    BY <2>2, <1>1, <1>2, <1>4 DEF LentInv, TypeOK, Seqs
  <2>3. CASE s = t /\ view.borrow
    BY <2>3, <1>1, <1>2, <1>4, <1>5 DEF TypeOK, Seqs
  <2>4. QED
    BY <2>1, <2>2, <2>3, <1>2, <1>3
<1>13. WaitInv'
  <2>1. retiredTail' = retiredTail /\ retiredTail \in Nat
    BY <1>2, <1>1 DEF TypeOK, ctlVars
  <2>2. QED
    BY <2>1, <1>2, <1>1, RoomOnlyGrows DEF clientVars
<1>14. QED
  BY <1>8, <1>9, <1>10, <1>11, <1>12, <1>13 DEF IInv

(* A rejected record stays popped and is not counted. *)
LEMMA RejectKeepsInv ==
  ASSUME IInv, RejectApply
  PROVE  IInv'
<1>1. TypeOK /\ CursorInv /\ LogInv /\ SeqInv /\ BytesInv /\ LentInv /\ WaitInv
  BY DEF IInv
<1>2. /\ view # NoView /\ rejected' = TRUE /\ view' = NoView
      /\ UNCHANGED <<ctlVars, mem, clientVars, localTail, appliedSeq, retirable, borrowHeld,
                     corrupt, log, lent>>
  BY DEF RejectApply
<1>3. TypeOK'
  BY <1>1, <1>2, Constructors DEF TypeOK, ctlVars, clientVars
<1>4. CursorInv' /\ LogInv' /\ BytesInv' /\ LentInv'
  BY <1>1, <1>2
  DEF CursorInv, LogInv, BytesInv, LentInv, LiveRecordsIntact, EndOf, ctlVars, clientVars
<1>5. SeqInv'
  <2>1. Popped' = Popped /\ Sent' = Sent
    BY <1>2 DEF Popped, Sent, clientVars
  <2>2. QED
    BY <2>1, <1>1, <1>2 DEF SeqInv, EndOf, ctlVars, clientVars
<1>6. WaitInv'
  <2>1. retiredTail' = retiredTail /\ retiredTail \in Nat
    BY <1>2, <1>1 DEF TypeOK, ctlVars
  <2>2. QED
    BY <2>1, <1>2, <1>1, RoomOnlyGrows DEF clientVars
<1>7. QED
  BY <1>3, <1>4, <1>5, <1>6 DEF IInv

(* A release is clamped to what is applied and never goes back. *)
LEMMA RetiredUpToBounds ==
  ASSUME NEW c \in Nat, NEW applied \in Nat, retiredTail \in Nat, retiredTail <= applied
  PROVE  /\ RetiredUpTo(c, applied) \in Nat
         /\ retiredTail <= RetiredUpTo(c, applied)
         /\ RetiredUpTo(c, applied) <= applied
         /\ retiredTail <= c => RetiredUpTo(c, applied) <= c
BY DEF RetiredUpTo

(* Handing bytes back only weakens what the bytes must still hold. *)
LEMMA RetiringKeepsBytes ==
  ASSUME TypeOK, TypeOK', BytesInv, retiredTail <= retiredTail',
         UNCHANGED <<mem, clientVars, log>>
  PROVE  BytesInv'
<1>1. \A s \in Seqs : log[s].start \in Nat
  BY DEF TypeOK, Placement
<1>2. retiredTail \in Nat /\ retiredTail' \in Nat /\ emitSeq \in 0..MaxRecords
  BY DEF TypeOK
<1>3. LiveRecordsIntact'
  BY <1>1, <1>2 DEF BytesInv, LiveRecordsIntact, clientVars
<1>4. \A s \in 1..emitSeq : EndOf(s - 1) \in Nat
  BY <1>2, EndOfNat, MaxRecordsAssumption
<1>5. ASSUME NEW s \in 1..emitSeq, log[s].start # EndOf(s - 1), EndOf(s - 1) >= retiredTail'
      PROVE  mem[Slot(EndOf(s - 1))] = PadWord(log[s].start - EndOf(s - 1))
  <2>1. EndOf(s - 1) \in Nat
    BY <1>4
  <2>2. EndOf(s - 1) >= retiredTail
    BY <2>1, <1>2, <1>5
  <2>3. QED
    BY <2>2, <1>5, Zenon DEF BytesInv
<1>6. QED
  BY <1>3, <1>5 DEF BytesInv, EndOf, clientVars

(* RetireThrough hands back up to the reclaim cursor. *)
LEMMA RetireKeepsInv ==
  ASSUME IInv, RetireThrough
  PROVE  IInv'
<1>1. TypeOK /\ CursorInv /\ LogInv /\ SeqInv /\ BytesInv /\ LentInv /\ WaitInv
  BY DEF IInv
<1>2. /\ appliedTail' = localTail /\ retiredTail' = RetiredUpTo(retirable, localTail)
      /\ UNCHANGED <<head, mem, clientVars, serverVars, log, lent>>
  BY DEF RetireThrough
<1>3. /\ retiredTail' \in Nat /\ retiredTail <= retiredTail'
      /\ retiredTail' <= localTail /\ retiredTail' <= retirable
  <2>1. /\ retirable \in Nat /\ localTail \in Nat /\ appliedTail \in Nat
        /\ retiredTail \in Nat /\ retiredTail <= localTail /\ retiredTail <= retirable
    BY <1>1 DEF TypeOK, CursorInv
  <2>2. QED
    BY <2>1, <1>2, RetiredUpToBounds
<1>4. TypeOK'
  BY <1>1, <1>2, <1>3 DEF TypeOK, clientVars, serverVars
<1>5. CursorInv'
  <2>1. /\ localHead' = localHead /\ head' = head /\ localTail' = localTail
        /\ retirable' = retirable /\ appliedTail' = localTail
    BY <1>2 DEF clientVars, serverVars
  <2>2. /\ retiredTail \in Nat /\ localHead \in Nat /\ localTail \in Nat
        /\ head \in Nat /\ retirable \in Nat
        /\ localHead - retiredTail <= Capacity
        /\ localTail <= head /\ head <= localHead /\ retirable <= localTail
    BY <1>1 DEF TypeOK, CursorInv
  <2>3. localHead - retiredTail' <= Capacity
    <3>1. \A h, old, new, cap \in Nat : h - old <= cap /\ old <= new => h - new <= cap
      OBVIOUS
    <3>2. QED
      BY <3>1, <2>2, <1>3, CapacityAssumption
  <2>4. QED
    BY <2>1, <2>2, <2>3, <1>3 DEF CursorInv
<1>6. LogInv' /\ LentInv'
  BY <1>1, <1>2 DEF LogInv, LentInv, EndOf, clientVars, serverVars
<1>7. SeqInv'
  BY <1>1, <1>2 DEF SeqInv, Sent, Popped, EndOf, clientVars, serverVars
<1>8. BytesInv'
  BY <1>1, <1>2, <1>3, <1>4, RetiringKeepsBytes
<1>9. WaitInv'
  BY <1>1, <1>2, <1>3, RoomOnlyGrows DEF clientVars
<1>10. QED
  BY <1>4, <1>5, <1>6, <1>7, <1>8, <1>9 DEF IInv

(* A release of lent records. *)
LEMMA ReleaseKeepsInv ==
  ASSUME IInv, NEW c \in KeptCursors, RetireBorrowedUpTo(c)
  PROVE  IInv'
<1> USE MaxRecordsAssumption, CapacityAssumption
<1>1. TypeOK /\ CursorInv /\ LogInv /\ SeqInv /\ BytesInv /\ LentInv /\ WaitInv
  BY DEF IInv
<1>2. /\ view = NoView
      /\ \/ c > retirable /\ retirable' = c /\ borrowHeld' = (c < localTail)
         \/ ~(c > retirable) /\ retirable' = retirable /\ borrowHeld' = borrowHeld
      /\ retiredTail' = RetiredUpTo(retirable', appliedTail)
      /\ lent' = {s \in lent : log[s].start >= c}
      /\ UNCHANGED <<head, appliedTail, mem, clientVars, localTail, appliedSeq, view,
                     corrupt, rejected, log>>
  BY DEF RetireBorrowedUpTo
<1>3. c \in Nat /\ c <= localTail
  <2>1. CASE c = localTail
    BY <2>1, <1>1 DEF TypeOK
  <2>2. ASSUME NEW s \in Seqs, s <= appliedSeq, c = log[s].start
        PROVE  c \in Nat /\ c <= localTail
    <3>1. PICK p \in 0..emitSeq : p = Popped
      BY <1>1 DEF SeqInv, Sent, Popped, TypeOK
    <3>2. s <= p /\ s \in 1..emitSeq /\ localTail = EndOf(p) /\ s # 0 /\ p # 0 /\ p \in Seqs
      BY <3>1, <2>2, <1>1 DEF SeqInv, Popped, TypeOK, Seqs
    <3>3. /\ log[s].start \in Nat /\ log[s].total \in Nat
          /\ log[p].start \in Nat /\ log[p].total \in Nat
      BY <3>2, <1>1 DEF TypeOK, Placement
    <3>4. s < p => EndOf(s) <= log[p].start
      BY <3>1, <3>2, <1>1 DEF LogInv
    <3>5. EndOf(s) = log[s].start + log[s].total /\ EndOf(p) = log[p].start + log[p].total
      BY <3>2 DEF EndOf
    <3>6. QED
      BY <3>1, <3>2, <3>3, <3>4, <3>5, <2>2
  <2>3. QED
    BY <2>1, <2>2 DEF KeptCursors
<1>4. retirable' \in Nat /\ retirable <= retirable' /\ retirable' <= localTail
  BY <1>1, <1>2, <1>3 DEF TypeOK, CursorInv
<1>5. /\ retiredTail' \in Nat /\ retiredTail <= retiredTail'
      /\ retiredTail' <= appliedTail /\ retiredTail' <= retirable'
  BY <1>1, <1>2, <1>4, RetiredUpToBounds DEF TypeOK, CursorInv
<1>6. borrowHeld' \in BOOLEAN /\ lent' \in SUBSET Seqs
  <2>1. borrowHeld \in BOOLEAN /\ (c < localTail) \in BOOLEAN
    BY <1>1 DEF TypeOK
  <2>2. borrowHeld' \in BOOLEAN
    BY <2>1, <1>2, Zenon
  <2>3. lent' \in SUBSET Seqs
    BY <1>1, <1>2 DEF TypeOK
  <2>4. QED
    BY <2>2, <2>3
<1>7. TypeOK'
  BY <1>1, <1>2, <1>4, <1>5, <1>6 DEF TypeOK, clientVars
<1>8. CursorInv'
  BY <1>1, <1>2, <1>4, <1>5 DEF TypeOK, CursorInv, clientVars
<1>9. LogInv'
  BY <1>1, <1>2 DEF LogInv, EndOf, clientVars
<1>10. SeqInv'
  <2>1. Popped' = Popped /\ Sent' = Sent
    BY <1>2 DEF Popped, Sent, clientVars
  <2>2. QED
    BY <2>1, <1>1, <1>2 DEF SeqInv, EndOf, clientVars
<1>11. BytesInv'
  BY <1>1, <1>2, <1>5, <1>7, RetiringKeepsBytes
<1>12. LentInv'
  <2>1. SUFFICES ASSUME NEW s \in lent'
                 PROVE  s <= appliedSeq /\ borrowHeld' /\ log[s].start >= retirable'
    BY <1>2 DEF LentInv
  <2>2. s \in lent /\ s \in Seqs /\ log[s].start >= c
    BY <1>1, <1>2 DEF TypeOK
  <2>3. s <= appliedSeq /\ borrowHeld /\ log[s].start >= retirable
    BY <2>2, <1>1 DEF LentInv
  <2>4. log[s].start < localTail
    <3>1. PICK p \in 0..emitSeq : p = Popped
      BY <1>1 DEF SeqInv, Sent, Popped, TypeOK
    <3>2. s <= p /\ s \in 1..emitSeq /\ localTail = EndOf(p) /\ s # 0 /\ p # 0 /\ p \in Seqs
      BY <3>1, <2>2, <2>3, <1>1 DEF SeqInv, Popped, TypeOK, Seqs
    <3>3. /\ log[s].start \in Nat /\ log[s].total \in 1..Capacity
          /\ log[p].start \in Nat /\ log[p].total \in 1..Capacity
      <4>1. \A q \in 1..emitSeq : log[q].total \in 1..Capacity
        BY <1>1, RecordFits DEF LogInv
      <4>2. p \in 1..emitSeq
        BY <3>1, <3>2
      <4>3. log[s].start \in Nat /\ log[p].start \in Nat
        BY <2>2, <3>2, <1>1 DEF TypeOK, Placement
      <4>4. QED
        BY <3>2, <4>1, <4>2, <4>3
    <3>4. s < p => EndOf(s) <= log[p].start
      BY <3>1, <3>2, <1>1 DEF LogInv
    <3>5. EndOf(s) = log[s].start + log[s].total /\ EndOf(p) = log[p].start + log[p].total
      BY <3>2 DEF EndOf
    <3>6. QED
      BY <3>1, <3>2, <3>3, <3>4, <3>5
  <2>5. /\ log[s].start \in Nat /\ retirable \in Nat /\ localTail \in Nat
        /\ borrowHeld \in BOOLEAN
    BY <2>2, <1>1 DEF TypeOK, Placement
  <2>6. c < localTail
    BY <2>2, <2>4, <2>5, <1>3
  <2>7. borrowHeld'
    BY <2>3, <2>6, <1>2, Zenon
  <2>8. log[s].start >= retirable'
    BY <2>2, <2>3, <2>5, <1>2, <1>3
  <2>9. QED
    BY <2>3, <2>7, <2>8
<1>13. WaitInv'
  BY <1>1, <1>2, <1>5, RoomOnlyGrows DEF clientVars
<1>14. QED
  BY <1>7, <1>8, <1>9, <1>10, <1>11, <1>12, <1>13 DEF IInv

-----------------------------------------------------------------------------
(* The theorems *)

(* Every step keeps the invariant. *)
LEMMA NextKeepsInv == IInv /\ [Next]_vars => IInv'
<1>1. SUFFICES ASSUME IInv, [Next]_vars PROVE IInv'
  OBVIOUS
<1>2. ASSUME NEW n \in RecordSizes, NEW b \in BOOLEAN, Emit(n, b) PROVE IInv'
  BY <1>1, <1>2, EmitKeepsInv
<1>3. CASE EncodeAfterSpaceWait
  BY <1>1, <1>3, EncodeKeepsInv
<1>31. CASE SpaceFreed
  BY <1>1, <1>31, SpaceFreedKeepsInv
<1>32. ASSUME NEW n \in RecordSizes, NEW b \in BOOLEAN, NestedEmit(n, b) PROVE IInv'
  BY <1>1, <1>32, NestedEmitKeepsInv
<1>4. CASE FillPayload
  BY <1>1, <1>4, FillKeepsInv
<1>5. CASE Publish
  BY <1>1, <1>5, PublishKeepsInv
<1>6. CASE Pop
  BY <1>1, <1>6, PopKeepsInv
<1>7. CASE FinishApply
  BY <1>1, <1>7, FinishKeepsInv
<1>8. CASE RejectApply
  BY <1>1, <1>8, RejectKeepsInv
<1>9. CASE RetireThrough
  BY <1>1, <1>9, RetireKeepsInv
<1>10. ASSUME NEW c \in KeptCursors, RetireBorrowedUpTo(c) PROVE IInv'
  BY <1>1, <1>10, ReleaseKeepsInv
<1>11. CASE UNCHANGED vars
  <2>1. UNCHANGED <<head, appliedTail, retiredTail, mem, localHead, emitSeq, phase, want, overrun,
                    nested, localTail, appliedSeq, view, retirable, borrowHeld, corrupt, rejected,
                    log, lent>>
    BY <1>11 DEF vars, ctlVars, clientVars, serverVars
  <2>2. TypeOK' /\ CursorInv'
    BY <2>1, <1>1 DEF IInv, TypeOK, CursorInv
  <2>3. LogInv'
    BY <2>1, <1>1 DEF IInv, LogInv, EndOf
  <2>4. SeqInv'
    BY <2>1, <1>1 DEF IInv, SeqInv, EndOf, Sent, Popped
  <2>5. BytesInv'
    BY <2>1, <1>1 DEF IInv, BytesInv, LiveRecordsIntact, EndOf
  <2>6. LentInv' /\ WaitInv'
    BY <2>1, <1>1 DEF IInv, LentInv, WaitInv, FreeWords, NeededByClient
  <2>7. QED
    BY <2>2, <2>3, <2>4, <2>5, <2>6 DEF IInv
<1>12. QED
  BY <1>1, <1>2, <1>3, <1>31, <1>32, <1>4, <1>5, <1>6, <1>7, <1>8, <1>9, <1>10, <1>11 DEF Next

(* The invariant holds in every reachable state. *)
THEOREM RingInvariant == Spec => []IInv
<1>1. IInv /\ [Next]_vars => IInv'
  BY NextKeepsInv
<1>2. QED
  BY InitInv, <1>1, PTL DEF Spec

(* Every variable keeps its type. *)
THEOREM RingTypes == Spec => []TypeOK
<1>1. IInv => TypeOK
  BY DEF IInv
<1>2. QED
  BY <1>1, RingInvariant, PTL

(* The shared cursors are always in order and never more than a ring apart: *)
(* what Ring.cpp's RingCursorsValid tests at checkpoints holds always.      *)
THEOREM CursorsAlwaysValid == Spec => []RingCursorsValid
<1>1. IInv => RingCursorsValid
  BY CapacityAssumption DEF IInv, TypeOK, CursorInv, RingCursorsValid
<1>2. QED
  BY <1>1, RingInvariant, PTL

(* No record is overwritten before its bytes are handed back. *)
THEOREM LiveRecordsStayIntact == Spec => []LiveRecordsIntact
<1>1. IInv => LiveRecordsIntact
  BY DEF IInv, BytesInv
<1>2. QED
  BY <1>1, RingInvariant, PTL

(* The n-th record applied is the n-th emitted, and no header is refused. *)
THEOREM AppliesInOrder == Spec => []AppliesWhatWasEmitted
<1>1. IInv => AppliesWhatWasEmitted
  BY DEF IInv, SeqInv, AppliesWhatWasEmitted
<1>2. QED
  BY <1>1, RingInvariant, PTL

(* A record lent to the GPU is not reclaimed before it is released. *)
THEOREM LentRecordsStay == Spec => []LentRecordsKept
<1>1. IInv => LentRecordsKept
  <2>1. SUFFICES ASSUME IInv, NEW s \in lent PROVE log[s].start >= retiredTail
    BY DEF LentRecordsKept
  <2>2. /\ log[s].start >= retirable /\ retirable >= retiredTail
        /\ log[s].start \in Nat /\ retirable \in Nat /\ retiredTail \in Nat
    BY <2>1 DEF IInv, TypeOK, LentInv, CursorInv, Placement
  <2>3. QED
    BY <2>2
<1>2. QED
  BY <1>1, RingInvariant, PTL

(* Fatal{RingOverrun} after the space wait needs a record published by the *)
(* drain in between: the client's own arithmetic is enough.                *)
THEOREM SpaceWaitIsEnough == Spec => []OverrunOnlyIfNested
<1>1. IInv => OverrunOnlyIfNested
  BY DEF IInv, WaitInv, OverrunOnlyIfNested
<1>2. QED
  BY <1>1, RingInvariant, PTL

(* A drained ring takes any legal record at any head offset: the half-ring  *)
(* limit of Reserve is enough.                                              *)
THEOREM HalfRingIsEnough == Spec => []EmptyRingTakesAnyRecord
<1>1. IInv => EmptyRingTakesAnyRecord
  <2>1. SUFFICES ASSUME IInv, retiredTail = localHead, NEW n \in RecordSizes
                 PROVE  CanReserve(n)
    BY DEF EmptyRingTakesAnyRecord
  <2>2. TypeOK
    BY <2>1 DEF IInv
  <2>3. /\ n \in Nat /\ n <= Capacity /\ 2 * n <= Capacity /\ n <= MaxRecordWords
        /\ SpaceToEnd \in Nat /\ localHead \in Nat
    BY <2>2, RecordFits, SpaceToEndType, CapacityAssumption DEF RecordSizes, TypeOK
  <2>4. FreeWords = Capacity
    BY <2>1, <2>3, CapacityAssumption DEF FreeWords
  <2>5. NeededToReserve(n) <= Capacity
    BY <2>3, CapacityAssumption DEF NeededToReserve, NeedsPad
  <2>6. QED
    BY <2>3, <2>4, <2>5 DEF CanReserve
<1>2. QED
  BY <1>1, RingInvariant, PTL

(* Each step of the ring is a step of the ordered stream, or none. *)
LEMMA StepRefines == IInv /\ [Next]_vars => [Stream!Next]_(Stream!streamVars)
<1> USE MaxRecordsAssumption
<1>1. SUFFICES ASSUME IInv, [Next]_vars PROVE [Stream!Next]_(Stream!streamVars)
  OBVIOUS
<1>2. TypeOK /\ SeqInv
  BY <1>1 DEF IInv
<1> DEFINE sentNow == Sent
           endedNow == rejected \/ corrupt
           Same == /\ Sent' = Sent /\ view.seq' = view.seq /\ appliedSeq' = appliedSeq
                   /\ (rejected \/ corrupt)' = (rejected \/ corrupt)
<1>3. ASSUME NEW n \in RecordSizes, NEW b \in BOOLEAN, Emit(n, b) PROVE Same
  BY <1>2, <1>3 DEF Emit, Reserve, Sent, serverVars, TypeOK
<1>4. CASE EncodeAfterSpaceWait
  <2>1. /\ phase = "drained" /\ UNCHANGED serverVars
        /\ \/ phase' = "reserved" /\ emitSeq' = emitSeq + 1
           \/ phase' = "dead" /\ emitSeq' = emitSeq
    BY <1>4 DEF EncodeAfterSpaceWait, Reserve
  <2>2. QED
    BY <2>1, <1>2 DEF Sent, serverVars, TypeOK, Stream!streamVars
<1>41. CASE SpaceFreed
  BY <1>2, <1>41 DEF SpaceFreed, Sent, serverVars, Stream!streamVars
<1>42. ASSUME NEW n \in RecordSizes, NEW b \in BOOLEAN, NestedEmit(n, b) PROVE Same
  BY <1>2, <1>42 DEF NestedEmit, Reserve, Sent, serverVars, TypeOK
<1>5. CASE FillPayload
  BY <1>2, <1>5 DEF FillPayload, Sent, serverVars, Stream!streamVars
<1>6. CASE Publish
  <2>1. Sent' = Sent + 1 /\ UNCHANGED <<view, appliedSeq, rejected, corrupt>>
    BY <1>2, <1>6 DEF Publish, Sent, serverVars, TypeOK, SeqInv
  <2>2. QED
    BY <2>1 DEF Stream!Next, Stream!Send
<1>7. CASE Pop
  <2>1. PICK t : t = appliedSeq + 1
    OBVIOUS
  <2>2. t <= Sent /\ view = NoView /\ ~rejected /\ view'.seq = t /\ corrupt' = corrupt
    BY <1>1, <1>7, <2>1, PopFindsNext
  <2>3. /\ Sent' = Sent /\ appliedSeq' = appliedSeq /\ rejected' = rejected
        /\ ~corrupt /\ view.seq = 0 /\ appliedSeq < Sent
    BY <1>2, <1>7, <2>1, <2>2 DEF Pop, Sent, clientVars, NoView, TypeOK, SeqInv
  <2>4. QED
    BY <2>1, <2>2, <2>3 DEF Stream!Next, Stream!Take
<1>8. CASE FinishApply
  <2>1. /\ view # NoView /\ view' = NoView /\ appliedSeq' = appliedSeq + 1
        /\ UNCHANGED <<clientVars, corrupt, rejected>>
    BY <1>8 DEF FinishApply
  <2>2. /\ view.seq = appliedSeq + 1 /\ view.seq # 0 /\ view'.seq = 0 /\ Sent' = Sent
    BY <1>2, <2>1 DEF SeqInv, TypeOK, NoView, Sent, clientVars
  <2>3. QED
    BY <2>1, <2>2 DEF Stream!Next, Stream!Finish
<1>9. CASE RejectApply
  <2>1. /\ view'.seq = 0 /\ rejected' = TRUE /\ appliedSeq' = appliedSeq /\ Sent' = Sent
    BY <1>9 DEF RejectApply, NoView, Sent, clientVars
  <2>2. QED
    BY <2>1 DEF Stream!Next, Stream!End
<1>10. CASE RetireThrough
  BY <1>10 DEF RetireThrough, Sent, clientVars, serverVars, Stream!streamVars
<1>11. ASSUME NEW c \in KeptCursors, RetireBorrowedUpTo(c)
       PROVE  [Stream!Next]_(Stream!streamVars)
  BY <1>11 DEF RetireBorrowedUpTo, Sent, clientVars, Stream!streamVars
<1>12. CASE UNCHANGED vars
  BY <1>12 DEF vars, ctlVars, clientVars, serverVars, Sent, Stream!streamVars
<1>13. QED
  BY <1>1, <1>3, <1>4, <1>41, <1>42, <1>5, <1>6, <1>7, <1>8, <1>9, <1>10, <1>11, <1>12
  DEF Next, Stream!streamVars

(* The ring implements the ordered stream: records reach the server one at *)
(* a time, in order, none lost, none twice, none acknowledged unapplied.   *)
THEOREM RingImplementsStream == Spec => ImplementsRecordStream
<1>1. Init => Stream!Init
  BY DEF Init, Stream!Init, Sent, NoView
<1>2. IInv /\ [Next]_vars => [Stream!Next]_(Stream!streamVars)
  BY StepRefines
<1>3. QED
  BY <1>1, <1>2, RingInvariant, PTL DEF Spec, Stream!Spec, ImplementsRecordStream
=============================================================================
