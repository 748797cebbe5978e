--------------------------- MODULE StageAllocatorProofs ---------------------------
(***************************************************************************)
(* The allocator of SEG_STAGE keeps its invariant, for every capacity, set *)
(* of blob sizes and length of a session.                                  *)
(*                                                                         *)
(* The argument: blobs are placed in a count of bytes that only grows      *)
(* between two rebases, and a rebase finds nothing live.  In that count    *)
(* the live runs lie one after another between tail and head, and a mark   *)
(* separates the runs of its record from those of the next, so the tail a  *)
(* reclaim takes from a retired mark stays below every live run.  Tail and *)
(* head are a segment apart at most and a skip keeps each run whole, so    *)
(* two runs apart in the count are apart in the segment.                   *)
(***************************************************************************)
EXTENDS StageAllocator, SequenceTheorems, TLAPS

-----------------------------------------------------------------------------
(* Cursor arithmetic *)

(* An offset lies in the segment.                                          *)
LEMMA OffsetRange ==
  ASSUME NEW c \in Nat
  PROVE  Offset(c) \in 0..Capacity - 1
BY StageAssumption DEF Offset

(* A cursor is some number of whole segments and its offset.               *)
LEMMA OffsetQuotient ==
  ASSUME NEW c \in Nat
  PROVE  \E q \in Nat : c = Capacity * q + Offset(c)
<1>1. c \div Capacity \in Nat /\ c = Capacity * (c \div Capacity) + Offset(c)
  BY StageAssumption DEF Offset
<1>2. QED
  BY <1>1

(* Past a skip to the end of the segment is offset zero.                   *)
LEMMA SkipToZero ==
  ASSUME NEW c \in Nat
  PROVE  Offset(c + (Capacity - Offset(c))) = 0
<1>1. PICK p \in Nat : c = Capacity * p + Offset(c)
  BY OffsetQuotient
<1>2. c + (Capacity - Offset(c)) = Capacity * (p + 1) + 0 /\ p + 1 \in Nat
  BY <1>1, OffsetRange, StageAssumption
<1>3. \A q \in Nat : Offset(Capacity * q + 0) = 0
  BY StageAssumption DEF Offset
<1>4. QED
  BY <1>2, <1>3

(* After its skip a run that the segment holds does not straddle the end.  *)
LEMMA SkipLands ==
  ASSUME NEW c \in Nat, NEW n \in 1..Capacity
  PROVE  Skip(c, n) \in Nat /\ c + Skip(c, n) \in Nat /\ Offset(c + Skip(c, n)) + n <= Capacity
<1>1. Offset(c) \in 0..Capacity - 1 /\ Capacity \in Nat /\ n \in Nat /\ n <= Capacity
  BY OffsetRange, StageAssumption
<1>2. CASE Offset(c) + n > Capacity
  <2>1. Skip(c, n) = Capacity - Offset(c)
    BY <1>2 DEF Skip
  <2>2. Offset(c + Skip(c, n)) = 0
    BY <2>1, SkipToZero
  <2>3. QED
    BY <1>1, <2>1, <2>2
<1>3. CASE ~(Offset(c) + n > Capacity)
  <2>1. Skip(c, n) = 0 /\ c + 0 = c
    BY <1>3 DEF Skip
  <2>2. QED
    BY <1>1, <1>3, <2>1
<1>4. QED
  BY <1>2, <1>3

(* Two runs less than a segment apart, none of which straddles the end,    *)
(* share no offset.                                                        *)
LEMMA Apart ==
  ASSUME NEW p \in Nat, NEW q \in Nat, NEW a \in 1..Capacity, NEW b \in 1..Capacity,
         p + a <= q, q + b <= p + Capacity,
         Offset(p) + a <= Capacity, Offset(q) + b <= Capacity
  PROVE  Offset(p) + a <= Offset(q) \/ Offset(q) + b <= Offset(p)
<1>1. PICK x \in Nat : p = Capacity * x + Offset(p)
  BY OffsetQuotient
<1>2. PICK y \in Nat : q = Capacity * y + Offset(q)
  BY OffsetQuotient
<1>3. Offset(p) \in 0..Capacity - 1 /\ Offset(q) \in 0..Capacity - 1 /\ Capacity \in Nat \ {0}
  BY OffsetRange, StageAssumption
<1>4. q - p = Capacity * (y - x) + Offset(q) - Offset(p)
  BY <1>1, <1>2, <1>3
<1>5. q - p > 0 /\ q - p < Capacity /\ q - p >= a /\ q - p <= Capacity - b
  BY <1>3
<1>6. CASE y = x
  <2>1. Capacity * (y - x) = 0
    BY <1>3, <1>6
  <2>2. QED
    BY <1>3, <1>4, <1>5, <2>1
<1>7. CASE y = x + 1
  <2>1. Capacity * (y - x) = Capacity
    BY <1>3, <1>7
  <2>2. QED
    BY <1>3, <1>4, <1>5, <2>1
<1>8. CASE y > x + 1
  <2>1. Capacity * (y - x) = Capacity * (y - x - 1) + Capacity /\ y - x - 1 \in Nat /\ y - x - 1 >= 1
    BY <1>3, <1>8
  <2>2. \A k \in Nat : k >= 1 => Capacity * k >= Capacity /\ Capacity * k \in Nat
    BY <1>3
  <2>3. Capacity * (y - x - 1) >= Capacity /\ Capacity * (y - x - 1) \in Nat
    BY <2>1, <2>2
  <2>4. QED
    BY <1>3, <1>4, <1>5, <2>1, <2>3
<1>9. CASE y < x
  <2>1. x - y \in Nat /\ x - y >= 1
    BY <1>9
  <2>2. \A k \in Nat : k >= 1 => Capacity * k >= Capacity /\ Capacity * k \in Nat
    BY <1>3
  <2>3. Capacity * (x - y) >= Capacity /\ Capacity * (x - y) \in Nat
    BY <2>1, <2>2
  <2>4. Capacity * x = Capacity * y + Capacity * (x - y)
    BY <1>3, <2>1
  <2>5. Capacity * x \in Nat /\ Capacity * y \in Nat
    BY <1>3
  <2>6. QED
    BY <1>1, <1>2, <1>3, <1>5, <2>3, <2>4, <2>5
<1>10. QED
  BY <1>6, <1>7, <1>8, <1>9

-----------------------------------------------------------------------------
(* State facts *)

(* A run has the types of its fields.                                      *)
LEMMA RunTypes ==
  ASSUME NEW r \in Runs
  PROVE  r.pos \in Nat /\ r.len \in 1..Capacity /\ r.len \in Nat /\ r.at \in Nat
<1>1. r.pos \in Nat /\ r.len \in Sizes /\ r.at \in 0..Capacity - 1
  BY DEF Runs
<1>2. Capacity \in Nat /\ Sizes \subseteq 1..Capacity
  BY StageAssumption
<1>3. r.len \in 1..Capacity
  BY <1>1, <1>2
<1>4. QED
  BY <1>1, <1>2, <1>3

(* A live run is a run.                                                    *)
LEMMA LiveTypes ==
  ASSUME TypeOK, NEW n \in LiveRecords
  PROVE  /\ n \in Nat /\ n > 0 /\ n > retired /\ RunsOf(n) \in Seq(Runs)
         /\ DOMAIN RunsOf(n) = 1..Len(RunsOf(n)) /\ Len(RunsOf(n)) \in Nat
         /\ \A i \in DOMAIN RunsOf(n) :
              RunsOf(n)[i] \in Runs /\ Begin(n, i) \in Nat /\ End(n, i) \in Nat
                /\ Begin(n, i) < End(n, i)
<1>1. n \in Nat /\ n > 0 /\ n > retired
  BY StageAssumption DEF TypeOK, LiveRecords
<1>2. RunsOf(n) \in Seq(Runs)
  <2>1. CASE n <= emitSeq
    <3>1. n \in 1..Len(named) /\ named \in Seq(Seq(Runs))
      BY <1>1, <2>1 DEF TypeOK
    <3>2. named[n] \in Seq(Runs)
      BY <3>1
    <3>3. QED
      BY <2>1, <3>2 DEF RunsOf
  <2>2. CASE ~(n <= emitSeq)
    BY <2>2 DEF TypeOK, RunsOf
  <2>3. QED
    BY <2>1, <2>2
<1>3. DOMAIN RunsOf(n) = 1..Len(RunsOf(n)) /\ Len(RunsOf(n)) \in Nat
  BY <1>2
<1>4. ASSUME NEW i \in DOMAIN RunsOf(n)
      PROVE  RunsOf(n)[i] \in Runs /\ Begin(n, i) \in Nat /\ End(n, i) \in Nat
               /\ Begin(n, i) < End(n, i)
  <2>1. RunsOf(n)[i] \in Runs
    BY <1>2, <1>3
  <2>2. QED
    BY <2>1, RunTypes DEF Begin, End
<1>5. QED
  BY <1>1, <1>2, <1>3, <1>4

(* A mark has the types of its fields.                                     *)
LEMMA MarkTypes ==
  ASSUME TypeOK
  PROVE  /\ Len(marks) \in Nat /\ DOMAIN marks = 1..Len(marks)
         /\ \A k \in DOMAIN marks : marks[k].seq \in Nat /\ marks[k].cursor \in Nat
         /\ head \in Nat /\ tail \in Nat /\ emitSeq \in Nat /\ retired \in Nat /\ Capacity \in Nat
<1>1. marks \in Seq(Marks)
  BY DEF TypeOK
<1>2. Len(marks) \in Nat /\ DOMAIN marks = 1..Len(marks)
  BY <1>1
<1>3. \A k \in DOMAIN marks : marks[k].seq \in Nat /\ marks[k].cursor \in Nat
  <2>1. \A k \in 1..Len(marks) : marks[k] \in Marks
    BY <1>1
  <2>2. QED
    BY <1>2, <2>1 DEF Marks
<1>4. head \in Nat /\ tail \in Nat /\ emitSeq \in Nat /\ retired \in Nat /\ Capacity \in Nat
  BY StageAssumption DEF TypeOK
<1>5. QED
  BY <1>2, <1>3, <1>4

(* Live runs in their places share no offset.                              *)
LEMMA PlacedApart ==
  ASSUME TypeOK, InFlightBounded, PlaceInv, OrderInv, ~nested,
         NEW m \in LiveRecords, NEW n \in LiveRecords,
         NEW i \in DOMAIN RunsOf(m), NEW j \in DOMAIN RunsOf(n), m < n \/ (m = n /\ i < j)
  PROVE  ~Overlap(RunsOf(m)[i], RunsOf(n)[j]) /\ ~Overlap(RunsOf(n)[j], RunsOf(m)[i])
<1> DEFINE r == RunsOf(m)[i]
           s == RunsOf(n)[j]
<1>1. r \in Runs /\ s \in Runs
  BY LiveTypes
<1>2. /\ r.pos \in Nat /\ s.pos \in Nat /\ r.len \in 1..Capacity /\ s.len \in 1..Capacity
      /\ r.at \in Nat /\ s.at \in Nat
  BY <1>1, RunTypes
<1>3. r.pos + r.len <= s.pos
  BY DEF OrderInv, Begin, End
<1>4. /\ tail <= r.pos /\ s.pos + s.len <= head
      /\ r.at = Offset(r.pos) /\ s.at = Offset(s.pos)
      /\ Offset(r.pos) + r.len <= Capacity /\ Offset(s.pos) + s.len <= Capacity
  BY DEF PlaceInv, Begin, End
<1> HIDE DEF r, s
<1>5. s.pos + s.len <= r.pos + Capacity
  BY <1>2, <1>4, MarkTypes DEF InFlightBounded
<1>6. Offset(r.pos) + r.len <= Offset(s.pos) \/ Offset(s.pos) + s.len <= Offset(r.pos)
  BY <1>2, <1>3, <1>4, <1>5, Apart
<1>7. r.at + r.len <= s.at \/ s.at + s.len <= r.at
  BY <1>4, <1>6
<1>8. ~Overlap(r, s) /\ ~Overlap(s, r)
  BY <1>2, <1>7 DEF Overlap
<1>9. QED
  BY <1>8 DEF r, s

LEMMA PlacedDisjoint ==
  ASSUME TypeOK, InFlightBounded, PlaceInv, OrderInv
  PROVE  DisjointUnlessNested
<1>1. SUFFICES ASSUME ~nested, NEW m \in LiveRecords, NEW n \in LiveRecords,
                      NEW i \in DOMAIN RunsOf(m), NEW j \in DOMAIN RunsOf(n),
                      <<m, i>> # <<n, j>>
               PROVE  ~Overlap(RunsOf(m)[i], RunsOf(n)[j])
  BY DEF DisjointUnlessNested, LiveRunsDisjoint
<1>2. m \in Nat /\ n \in Nat /\ i \in Nat /\ j \in Nat
  BY LiveTypes
<1>3. CASE m < n \/ (m = n /\ i < j)
  BY <1>1, <1>3, PlacedApart
<1>4. CASE n < m \/ (n = m /\ j < i)
  BY <1>1, <1>4, PlacedApart
<1>5. QED
  BY <1>1, <1>2, <1>3, <1>4

-----------------------------------------------------------------------------
(* The live runs across a step *)

(* The states differ in the live runs and the marks only by what is        *)
(* retired, freed or encoded: the runs that stay live keep their places.   *)
LEMMA PlacesKept ==
  ASSUME IInv, nested' = nested, head' = head,
         \A n \in LiveRecords' :
           RunsOf(n)' = <<>> \/ (n \in LiveRecords /\ RunsOf(n)' = RunsOf(n)),
         ~nested => \A n \in LiveRecords : \A i \in DOMAIN RunsOf(n) : tail' <= Begin(n, i),
         \A k \in DOMAIN marks' :
           \/ \E l \in DOMAIN marks : marks'[k] = marks[l]
           \/ marks'[k].cursor = head /\ marks'[k].seq \in Nat /\ marks'[k].seq > emitSeq
  PROVE  PlaceInv' /\ SplitInv' /\ OrderInv'
<1>0. TypeOK /\ PlaceInv /\ SplitInv /\ OrderInv
  BY DEF IInv
<1>1. ASSUME NEW n \in LiveRecords', NEW i \in DOMAIN RunsOf(n)'
      PROVE  n \in LiveRecords /\ RunsOf(n)' = RunsOf(n) /\ i \in DOMAIN RunsOf(n)
  <2>1. DOMAIN <<>> = {}
    OBVIOUS
  <2>2. RunsOf(n)' # <<>>
    BY <1>1, <2>1
  <2>3. QED
    BY <1>1, <2>2
<1>2. PlaceInv'
  <2>1. SUFFICES ASSUME ~nested', NEW n \in LiveRecords', NEW i \in DOMAIN RunsOf(n)'
                 PROVE  /\ tail' <= RunsOf(n)'[i].pos
                        /\ RunsOf(n)'[i].pos + RunsOf(n)'[i].len <= head'
                        /\ RunsOf(n)'[i].at = Offset(RunsOf(n)'[i].pos)
                        /\ Offset(RunsOf(n)'[i].pos) + RunsOf(n)'[i].len <= Capacity
    BY DEF PlaceInv, Begin, End, Offset
  <2>2. n \in LiveRecords /\ RunsOf(n)' = RunsOf(n) /\ i \in DOMAIN RunsOf(n)
    BY <1>1
  <2>3. QED
    BY <1>0, <2>1, <2>2 DEF PlaceInv, Begin, End
<1>3. SplitInv'
  <2>1. SUFFICES ASSUME ~nested', NEW n \in LiveRecords', NEW i \in DOMAIN RunsOf(n)',
                        NEW k \in DOMAIN marks'
                 PROVE  IF marks'[k].seq < n
                        THEN marks'[k].cursor <= RunsOf(n)'[i].pos
                        ELSE RunsOf(n)'[i].pos + RunsOf(n)'[i].len <= marks'[k].cursor
    BY DEF SplitInv, Begin, End
  <2>2. n \in LiveRecords /\ RunsOf(n)' = RunsOf(n) /\ i \in DOMAIN RunsOf(n)
    BY <1>1
  <2>3. CASE \E l \in DOMAIN marks : marks'[k] = marks[l]
    BY <1>0, <2>1, <2>2, <2>3 DEF SplitInv, Begin, End
  <2>4. CASE marks'[k].cursor = head /\ marks'[k].seq \in Nat /\ marks'[k].seq > emitSeq
    <3>1. n \in Nat /\ n <= emitSeq + 1 /\ emitSeq \in Nat
      BY <1>0, <2>2, LiveTypes, MarkTypes DEF LiveRecords
    <3>2. ~(marks'[k].seq < n)
      BY <2>4, <3>1
    <3>3. RunsOf(n)[i].pos + RunsOf(n)[i].len <= head
      BY <1>0, <2>1, <2>2 DEF PlaceInv, Begin, End
    <3>4. QED
      BY <2>2, <2>4, <3>2, <3>3
  <2>5. QED
    BY <2>3, <2>4
<1>4. OrderInv'
  <2>1. SUFFICES ASSUME ~nested', NEW m \in LiveRecords', NEW n \in LiveRecords',
                        NEW i \in DOMAIN RunsOf(m)', NEW j \in DOMAIN RunsOf(n)',
                        m < n \/ (m = n /\ i < j)
                 PROVE  RunsOf(m)'[i].pos + RunsOf(m)'[i].len <= RunsOf(n)'[j].pos
    BY DEF OrderInv, Begin, End
  <2>2. /\ m \in LiveRecords /\ RunsOf(m)' = RunsOf(m) /\ i \in DOMAIN RunsOf(m)
        /\ n \in LiveRecords /\ RunsOf(n)' = RunsOf(n) /\ j \in DOMAIN RunsOf(n)
    BY <1>1
  <2>3. QED
    BY <1>0, <2>1, <2>2 DEF OrderInv, Begin, End
<1>5. QED
  BY <1>2, <1>3, <1>4

(* A step that leaves the stage alone keeps the invariant, but for what it *)
(* says of pc and need.                                                    *)
LEMMA StageUntouched ==
  ASSUME IInv, UNCHANGED <<head, tail, marks, emitSeq, retired, staged, named, nested>>,
         TypeOK'
  PROVE  /\ InFlightBounded' /\ MarksInv' /\ PlaceInv' /\ SplitInv' /\ OrderInv'
         /\ staged' = <<>> => head' = IF marks' = <<>> THEN tail' ELSE marks'[Len(marks')].cursor
<1>1. InFlightBounded' /\ MarksInv'
  BY DEF IInv, InFlightBounded, MarksInv
<1>2. staged' = <<>> => head' = IF marks' = <<>> THEN tail' ELSE marks'[Len(marks')].cursor
  BY DEF IInv, EmptyInv
<1>3. \A n \in LiveRecords' : n \in LiveRecords /\ RunsOf(n)' = RunsOf(n)
  BY DEF LiveRecords, RunsOf
<1>4. ~nested => \A n \in LiveRecords : \A i \in DOMAIN RunsOf(n) : tail' <= Begin(n, i)
  BY DEF IInv, PlaceInv
<1>5. PlaceInv' /\ SplitInv' /\ OrderInv'
  BY <1>3, <1>4, PlacesKept
<1>6. QED
  BY <1>1, <1>2, <1>5

-----------------------------------------------------------------------------
(* One lemma for each action *)

LEMMA StageStep ==
  ASSUME IInv, NEW n \in Sizes, Stage(n)
  PROVE  IInv'
<1>1. TypeOK'
  BY DEF IInv, TypeOK, Stage
<1>2. EmptyInv' /\ RefusedOnlyByOwnBlobs'
  BY <1>1, StageUntouched DEF Stage, EmptyInv, RefusedOnlyByOwnBlobs
<1>3. QED
  BY <1>1, <1>2, StageUntouched DEF IInv, Stage

(* A blob no larger than the segment fits an empty stage rebased to zero.  *)
LEMMA EmptyStageTakesAny ==
  ASSUME NEW n \in Sizes
  PROVE  Fits(0, 0, n)
<1>1. n \in Nat /\ n <= Capacity /\ Offset(0) = 0
  BY StageAssumption DEF Offset
<1>2. Skip(0, n) = 0
  BY <1>1, StageAssumption DEF Skip
<1>3. QED
  BY <1>1, <1>2 DEF Fits

LEMMA NoRoomStep ==
  ASSUME IInv, NoRoom
  PROVE  IInv'
<1>1. TypeOK'
  <2>1. marks # <<>> => marks[1].seq \in Nat
    <3>1. marks \in Seq(Marks)
      BY DEF IInv, TypeOK
    <3>2. marks # <<>> => 1 \in DOMAIN marks
      BY <3>1
    <3>3. QED
      BY <3>2, MarkTypes DEF IInv
  <2>2. QED
    BY <2>1 DEF IInv, TypeOK, NoRoom
<1>2. pc' = "fatal" => staged' # <<>>
  <2>1. SUFFICES ASSUME pc' = "fatal", staged = <<>>
                 PROVE  FALSE
    BY DEF NoRoom
  <2>2. pc = "again" /\ marks = <<>>
    BY <2>1 DEF NoRoom
  <2>3. head = 0 /\ tail = 0 /\ need \in Sizes
    BY <2>1, <2>2 DEF IInv, EmptyInv
  <2>4. QED
    BY <2>3, EmptyStageTakesAny DEF NoRoom
<1>3. EmptyInv' /\ RefusedOnlyByOwnBlobs'
  BY <1>1, <1>2, StageUntouched DEF IInv, NoRoom, EmptyInv, RefusedOnlyByOwnBlobs
<1>4. QED
  BY <1>1, <1>3, StageUntouched DEF IInv, NoRoom

LEMMA WaitStep ==
  ASSUME IInv, Drained \/ Woken \/ CmdRingFull
  PROVE  IInv'
<1>1. TypeOK'
  BY DEF IInv, TypeOK, Drained, Woken, CmdRingFull
<1>2. EmptyInv' /\ RefusedOnlyByOwnBlobs'
  BY <1>1, StageUntouched
    DEF IInv, Drained, Woken, CmdRingFull, EmptyInv, RefusedOnlyByOwnBlobs
<1>3. QED
  BY <1>1, <1>2, StageUntouched DEF IInv, Drained, Woken, CmdRingFull

LEMMA RetireStep ==
  ASSUME IInv, Retire
  PROVE  IInv'
<1>1. PICK seq \in retired + 1 .. emitSeq :
        /\ retired' = seq
        /\ named' = [i \in DOMAIN named |-> IF i <= seq THEN <<>> ELSE named[i]]
  BY DEF Retire
<1>2. /\ UNCHANGED <<head, tail, marks, emitSeq, pc, need, waitSeq, staged, nested>>
      /\ TypeOK
  BY DEF Retire, IInv
<1>3. seq \in Nat /\ retired \in Nat /\ emitSeq \in Nat /\ seq > retired /\ seq <= emitSeq
  BY <1>2, MarkTypes
<1>4. named \in Seq(Seq(Runs)) /\ Len(named) = emitSeq /\ DOMAIN named = 1..emitSeq
  BY <1>2 DEF TypeOK
<1>5. \A i \in 1..emitSeq : named[i] \in Seq(Runs)
  BY <1>4
<1>6. named' \in Seq(Seq(Runs)) /\ Len(named') = emitSeq
  <2>1. <<>> \in Seq(Runs)
    OBVIOUS
  <2>2. \A i \in 1..emitSeq : (IF i <= seq THEN <<>> ELSE named[i]) \in Seq(Runs)
    BY <1>5, <2>1
  <2>3. named' = [i \in 1..emitSeq |-> IF i <= seq THEN <<>> ELSE named[i]]
    BY <1>1, <1>4
  <2>4. named' \in [1..emitSeq -> Seq(Runs)]
    BY <2>2, <2>3
  <2>5. QED
    BY <1>3, <2>4
<1>7. TypeOK'
  BY <1>1, <1>2, <1>3, <1>6 DEF TypeOK
<1>8. InFlightBounded' /\ EmptyInv' /\ RefusedOnlyByOwnBlobs'
  BY <1>2 DEF IInv, InFlightBounded, EmptyInv, RefusedOnlyByOwnBlobs
<1>9. MarksInv'
  <2>1. Len(marks) >= emitSeq - retired /\ Len(marks) \in Nat
    BY <1>2, MarkTypes DEF IInv, MarksInv
  <2>2. Len(marks') >= emitSeq' - retired'
    BY <1>1, <1>2, <1>3, <2>1
  <2>3. QED
    BY <1>2, <2>2 DEF IInv, MarksInv
<1>10. \A n \in LiveRecords' : n \in LiveRecords /\ RunsOf(n)' = RunsOf(n)
  <2>1. SUFFICES ASSUME NEW n \in LiveRecords'
                 PROVE  n \in LiveRecords /\ RunsOf(n)' = RunsOf(n)
    OBVIOUS
  <2>2. n \in Nat /\ n >= seq + 1 /\ n <= emitSeq + 1
    BY <1>1, <1>2, <1>3, <2>1 DEF LiveRecords
  <2>3. n \in LiveRecords
    BY <1>3, <2>2 DEF LiveRecords
  <2>4. CASE n <= emitSeq
    <3>1. n \in 1..emitSeq /\ ~(n <= seq)
      BY <1>3, <2>2, <2>4
    <3>2. named'[n] = named[n]
      BY <1>1, <1>4, <3>1
    <3>3. QED
      BY <1>2, <2>3, <2>4, <3>2 DEF RunsOf
  <2>5. CASE ~(n <= emitSeq)
    BY <1>2, <2>3, <2>5 DEF RunsOf
  <2>6. QED
    BY <2>4, <2>5
<1>11. ~nested => \A n \in LiveRecords : \A i \in DOMAIN RunsOf(n) : tail' <= Begin(n, i)
  BY <1>2 DEF IInv, PlaceInv
<1>12. PlaceInv' /\ SplitInv' /\ OrderInv'
  BY <1>2, <1>10, <1>11, PlacesKept
<1>13. QED
  BY <1>7, <1>8, <1>9, <1>12 DEF IInv

(* An encode: the runs of the record are the ones staged, or none.         *)
LEMMA EmitMarks ==
  ASSUME IInv, NEW runs \in Seq(Runs), Emit(runs), staged' = <<>> \/ staged' = staged
  PROVE  /\ InFlightBounded' /\ MarksInv'
         /\ head' = marks'[Len(marks')].cursor /\ marks' # <<>>
         /\ marks' \in Seq(Marks) /\ emitSeq' \in 0..MaxRecords /\ retired' \in 0..emitSeq'
         /\ named' \in Seq(Seq(Runs)) /\ Len(named') = emitSeq' /\ staged' \in Seq(Runs)
         /\ DOMAIN marks' = 1..Len(marks) + 1
         /\ \A k \in 1..Len(marks) : marks'[k] = marks[k]
         /\ marks'[Len(marks) + 1] = Mark(emitSeq + 1)
<1>0. TypeOK /\ MarksInv /\ InFlightBounded
  BY DEF IInv
<1>1. /\ marks \in Seq(Marks) /\ Mark(emitSeq + 1) \in Marks
      /\ head \in Nat /\ tail \in Nat /\ emitSeq \in Nat /\ retired \in Nat /\ Len(marks) \in Nat
      /\ DOMAIN marks = 1..Len(marks)
      /\ \A k \in DOMAIN marks : marks[k].seq \in Nat /\ marks[k].cursor \in Nat
  BY <1>0, MarkTypes DEF TypeOK, Mark, Marks
<1>2. /\ UNCHANGED <<head, tail, retired>> /\ emitSeq' = emitSeq + 1 /\ emitSeq < MaxRecords
      /\ marks' = Append(marks, Mark(emitSeq + 1)) /\ named' = Append(named, runs)
  BY DEF Emit
<1>3. /\ marks' \in Seq(Marks) /\ Len(marks') = Len(marks) + 1 /\ marks' # <<>>
      /\ DOMAIN marks' = 1..Len(marks) + 1
      /\ \A k \in 1..Len(marks) : marks'[k] = marks[k]
      /\ marks'[Len(marks) + 1] = Mark(emitSeq + 1)
  BY <1>1, <1>2
<1>4. Mark(emitSeq + 1).seq = emitSeq + 1 /\ Mark(emitSeq + 1).cursor = head
  BY DEF Mark
<1>5. /\ named' \in Seq(Seq(Runs)) /\ Len(named') = emitSeq' /\ emitSeq' \in 0..MaxRecords
      /\ retired' \in 0..emitSeq' /\ staged' \in Seq(Runs)
  <2>1. named \in Seq(Seq(Runs)) /\ Len(named) = emitSeq /\ retired \in 0..emitSeq
        /\ staged \in Seq(Runs) /\ MaxRecords \in Nat
    BY <1>0, StageAssumption DEF TypeOK
  <2>2. named' \in Seq(Seq(Runs)) /\ Len(named') = emitSeq + 1
    BY <1>2, <2>1
  <2>3. staged' \in Seq(Runs)
    <3>1. <<>> \in Seq(Runs)
      OBVIOUS
    <3>2. QED
      BY <2>1, <3>1
  <2>4. emitSeq + 1 \in 0..MaxRecords /\ retired \in 0..emitSeq + 1
    BY <1>1, <1>2, <2>1
  <2>5. QED
    BY <1>2, <2>2, <2>3, <2>4
<1>6. InFlightBounded'
  BY <1>0, <1>2 DEF InFlightBounded
<1>7. MarksInv'
  <2>1. Len(marks') >= emitSeq' - retired'
    BY <1>0, <1>1, <1>2, <1>3 DEF MarksInv
  <2>2. ASSUME NEW k \in DOMAIN marks'
        PROVE  /\ marks'[k].seq + Len(marks') = emitSeq' + k
               /\ tail <= marks'[k].cursor /\ marks'[k].cursor <= head
               /\ marks'[k].cursor \in Nat
    <3>1. CASE k \in DOMAIN marks
      <4>1. marks'[k] = marks[k]
        BY <1>1, <1>3, <3>1
      <4>2. /\ marks[k].seq + Len(marks) = emitSeq + k
            /\ tail <= marks[k].cursor /\ marks[k].cursor <= head
            /\ marks[k].cursor \in Nat /\ marks[k].seq \in Nat /\ k \in Nat
        BY <1>0, <1>1, <3>1 DEF MarksInv
      <4>3. marks[k].seq + (Len(marks) + 1) = (emitSeq + 1) + k
        <5>1. PICK a \in Nat : a = marks[k].seq
          BY <4>2
        <5>2. a + Len(marks) = emitSeq + k
          BY <4>2, <5>1
        <5>3. Len(marks) \in Nat /\ emitSeq \in Nat /\ k \in Nat
          BY <1>1, <4>2
        <5>4. a + (Len(marks) + 1) = (emitSeq + 1) + k
          BY <5>2, <5>3
        <5>5. QED
          BY <5>1, <5>4
      <4>4. QED
        BY <1>2, <1>3, <4>1, <4>2, <4>3
    <3>2. CASE k = Len(marks) + 1
      <4>1. marks'[k].seq = emitSeq + 1 /\ marks'[k].cursor = head
        BY <1>3, <1>4, <3>2
      <4>2. tail <= head /\ (emitSeq + 1) + (Len(marks) + 1) = (emitSeq + 1) + k
        BY <1>0, <1>1, <3>2 DEF InFlightBounded
      <4>3. QED
        BY <1>1, <1>2, <1>3, <4>1, <4>2
    <3>3. QED
      BY <1>1, <1>3, <3>1, <3>2
  <2>3. ASSUME NEW k \in DOMAIN marks', NEW l \in DOMAIN marks', k <= l
        PROVE  marks'[k].cursor <= marks'[l].cursor
    <3>1. CASE l \in DOMAIN marks
      <4>1. k \in DOMAIN marks
        BY <1>1, <1>3, <2>3, <3>1
      <4>2. QED
        BY <1>0, <1>1, <1>3, <2>3, <3>1, <4>1 DEF MarksInv
    <3>2. CASE l = Len(marks) + 1
      BY <1>1, <1>3, <1>4, <2>2, <3>2
    <3>3. QED
      BY <1>1, <1>3, <3>1, <3>2
  <2>4. QED
    BY <1>2, <2>1, <2>2, <2>3 DEF MarksInv
<1>8. head' = marks'[Len(marks')].cursor
  BY <1>2, <1>3, <1>4
<1>9. QED
  BY <1>3, <1>5, <1>6, <1>7, <1>8

(* A record encoded with the staged runs, and nothing staged after it,     *)
(* keeps every live run in its place.                                      *)
LEMMA EmitPlaces ==
  ASSUME IInv, Emit(staged), staged' = <<>>, nested' = nested
  PROVE  PlaceInv' /\ SplitInv' /\ OrderInv'
<1>0. TypeOK
  BY DEF IInv
<1>1. staged \in Seq(Runs) /\ named \in Seq(Seq(Runs)) /\ Len(named) = emitSeq
  BY <1>0 DEF TypeOK
<1>2. /\ head' = head /\ tail' = tail /\ retired' = retired /\ emitSeq' = emitSeq + 1
      /\ named' = Append(named, staged) /\ emitSeq \in Nat /\ retired \in Nat
  BY <1>0, MarkTypes DEF Emit
<1>3. ASSUME NEW n \in LiveRecords'
      PROVE  RunsOf(n)' = <<>> \/ (n \in LiveRecords /\ RunsOf(n)' = RunsOf(n))
  <2>1. n \in Nat /\ n >= retired + 1 /\ n <= emitSeq + 2
    BY <1>2 DEF LiveRecords
  <2>2. CASE n = emitSeq + 2
    BY <1>2, <2>2 DEF RunsOf
  <2>3. CASE n = emitSeq + 1
    <3>1. named'[n] = staged
      BY <1>1, <1>2, <2>3
    <3>2. n \in LiveRecords
      BY <1>2, <2>1, <2>3 DEF LiveRecords
    <3>3. QED
      BY <1>2, <2>3, <3>1, <3>2 DEF RunsOf
  <2>4. CASE n <= emitSeq
    <3>1. n \in 1..Len(named)
      BY <1>1, <1>2, <2>1, <2>4
    <3>2. named'[n] = named[n]
      BY <1>1, <1>2, <3>1
    <3>3. n \in LiveRecords /\ n <= emitSeq'
      BY <1>2, <2>1, <2>4 DEF LiveRecords
    <3>4. QED
      BY <2>4, <3>2, <3>3 DEF RunsOf
  <2>5. QED
    BY <1>2, <2>1, <2>2, <2>3, <2>4
<1>4. ~nested => \A n \in LiveRecords : \A i \in DOMAIN RunsOf(n) : tail' <= Begin(n, i)
  BY <1>2 DEF IInv, PlaceInv
<1>5. \A k \in DOMAIN marks' :
        \/ \E l \in DOMAIN marks : marks'[k] = marks[l]
        \/ marks'[k].cursor = head /\ marks'[k].seq \in Nat /\ marks'[k].seq > emitSeq
  <2>1. /\ DOMAIN marks' = 1..Len(marks) + 1 /\ DOMAIN marks = 1..Len(marks) /\ Len(marks) \in Nat
        /\ \A k \in 1..Len(marks) : marks'[k] = marks[k]
        /\ marks'[Len(marks) + 1] = Mark(emitSeq + 1)
    BY <1>0, <1>1, EmitMarks, MarkTypes
  <2>2. Mark(emitSeq + 1).cursor = head /\ Mark(emitSeq + 1).seq = emitSeq + 1
    BY DEF Mark
  <2>3. QED
    BY <1>2, <2>1, <2>2
<1>6. QED
  BY <1>2, <1>3, <1>4, <1>5, PlacesKept

LEMMA EncodeStep ==
  ASSUME IInv, Encode
  PROVE  IInv'
<1>1. /\ Emit(staged) /\ staged' = <<>> /\ nested' = nested /\ pc' = "run"
      /\ staged \in Seq(Runs)
  BY DEF Encode, IInv, TypeOK
<1>2. TypeOK'
  BY <1>1, EmitMarks DEF IInv, TypeOK, Emit
<1>3. EmptyInv' /\ RefusedOnlyByOwnBlobs'
  BY <1>1, EmitMarks DEF EmptyInv, RefusedOnlyByOwnBlobs
<1>4. PlaceInv' /\ SplitInv' /\ OrderInv'
  BY <1>1, EmitPlaces
<1>5. QED
  BY <1>1, <1>2, <1>3, <1>4, EmitMarks DEF IInv

LEMMA NestedEncodeStep ==
  ASSUME IInv, NestedEncode
  PROVE  IInv'
<1>1. /\ Emit(<<>>) /\ staged' = staged /\ pc' = pc /\ <<>> \in Seq(Runs)
      /\ pc \in {"drain", "drainAgain", "space"}
      /\ nested' = (nested \/ staged # <<>>)
  BY DEF NestedEncode
<1>2. TypeOK'
  BY <1>1, EmitMarks DEF IInv, TypeOK, Emit
<1>3. EmptyInv' /\ RefusedOnlyByOwnBlobs'
  BY <1>1, EmitMarks DEF IInv, EmptyInv, RefusedOnlyByOwnBlobs, Emit
<1>4. PlaceInv' /\ SplitInv' /\ OrderInv'
  <2>1. CASE staged = <<>>
    <3>1. nested' = nested
      BY <1>1, <2>1 DEF IInv, TypeOK
    <3>2. QED
      BY <1>1, <2>1, <3>1, EmitPlaces
  <2>2. CASE staged # <<>>
    BY <1>1, <2>2 DEF PlaceInv, SplitInv, OrderInv
  <2>3. QED
    BY <2>1, <2>2
<1>5. QED
  BY <1>1, <1>2, <1>3, <1>4, EmitMarks DEF IInv

LEMMA ReclaimStep ==
  ASSUME IInv, Reclaim
  PROVE  IInv'
<1>0. TypeOK /\ MarksInv /\ EmptyInv /\ InFlightBounded /\ PlaceInv /\ SplitInv
  BY DEF IInv
<1>1. PICK n \in 0..Len(marks) :
        /\ Consumed(n)
        /\ tail' = IF n > 0 /\ marks[n].cursor > tail THEN marks[n].cursor ELSE tail
        /\ marks' = SubSeq(marks, n + 1, Len(marks))
  BY DEF Reclaim
<1>2. /\ pc = "reclaim" /\ pc' = "rebaseAgain"
      /\ UNCHANGED <<head, emitSeq, retired, need, waitSeq, staged, named, nested>>
  BY DEF Reclaim
<1>3. /\ Len(marks) \in Nat /\ n \in Nat /\ n <= Len(marks) /\ marks \in Seq(Marks)
      /\ head \in Nat /\ tail \in Nat /\ emitSeq \in Nat /\ retired \in Nat /\ Capacity \in Nat
      /\ DOMAIN marks = 1..Len(marks)
      /\ \A k \in 1..Len(marks) : marks[k].seq \in Nat /\ marks[k].cursor \in Nat
  BY <1>0, MarkTypes DEF TypeOK
<1>4. /\ marks' \in Seq(Marks) /\ Len(marks') = Len(marks) - n
      /\ DOMAIN marks' = 1..Len(marks) - n
      /\ \A k \in 1..Len(marks) - n : k + n \in 1..Len(marks) /\ marks'[k] = marks[k + n]
  <2>1. marks' \in Seq(Marks) /\ Len(marks') = Len(marks) - n
    <3>1. marks \in Seq(Marks) /\ n + 1 \in 1..Len(marks) + 1 /\ Len(marks) \in Nat
      BY <1>3
    <3>2. \A i \in n + 1 .. Len(marks) : marks[i] \in Marks
      BY <1>3, <3>1
    <3>3. n + 1 \in Int /\ Len(marks) \in Int
      BY <1>3
    <3>4. /\ SubSeq(marks, n + 1, Len(marks)) \in Seq(Marks)
          /\ Len(SubSeq(marks, n + 1, Len(marks)))
               = IF n + 1 <= Len(marks) THEN Len(marks) - (n + 1) + 1 ELSE 0
      BY <3>2, <3>3, SubSeqProperties
    <3>5. (IF n + 1 <= Len(marks) THEN Len(marks) - (n + 1) + 1 ELSE 0) = Len(marks) - n
      <4>1. n \in Nat /\ Len(marks) \in Nat /\ n <= Len(marks)
        BY <1>3
      <4>2. QED
        BY <4>1
    <3>6. QED
      BY <1>1, <3>4, <3>5
  <2>2. DOMAIN marks' = 1..Len(marks) - n
    BY <2>1
  <2>3. ASSUME NEW k \in 1..Len(marks) - n
        PROVE  k + n \in 1..Len(marks) /\ marks'[k] = marks[k + n]
    <3>1. k + n \in 1..Len(marks) /\ (n + 1) + k - 1 = k + n
      BY <1>3, <2>3
    <3>2. marks'[k] = marks[(n + 1) + k - 1]
      BY <1>1, <1>3, <2>3
    <3>3. QED
      BY <3>1, <3>2
  <2>4. QED
    BY <2>1, <2>2, <2>3
<1>5. /\ n = 0 => tail' = tail
      /\ n > 0 => n \in DOMAIN marks /\ tail' = marks[n].cursor /\ marks[n].seq <= retired
  <2>1. n > 0 => n \in DOMAIN marks /\ marks[n].cursor >= tail /\ marks[n].seq <= retired
    BY <1>0, <1>1, <1>3 DEF MarksInv, Consumed
  <2>2. QED
    BY <1>1, <1>3, <2>1
<1>6. tail' \in Nat /\ tail <= tail' /\ tail' <= head
  BY <1>0, <1>3, <1>5 DEF MarksInv, InFlightBounded
<1>7. TypeOK'
  BY <1>0, <1>2, <1>4, <1>6 DEF TypeOK
<1>8. InFlightBounded'
  <2>1. tail <= head /\ head - tail <= Capacity /\ head' = head
    BY <1>0, <1>2 DEF InFlightBounded
  <2>2. head \in Nat /\ tail \in Nat /\ Capacity \in Nat
    BY <1>3
  <2>3. tail' <= head /\ head - tail' <= Capacity
    <3>1. \A t, u, h, c \in Nat : t <= u /\ u <= h /\ h - t <= c => h - u <= c
      OBVIOUS
    <3>2. QED
      BY <1>6, <2>1, <2>2, <3>1
  <2>4. QED
    BY <2>1, <2>3 DEF InFlightBounded
<1>9. MarksInv'
  <2>1. Len(marks) - n >= emitSeq - retired
    <3>1. CASE n = 0
      BY <1>0, <1>3, <3>1 DEF MarksInv
    <3>2. CASE n > 0
      <4>1. marks[n].seq + Len(marks) = emitSeq + n /\ marks[n].seq <= retired
            /\ marks[n].seq \in Nat
        BY <1>0, <1>3, <1>5, <3>2 DEF MarksInv
      <4>2. \A a, b, c, d, e \in Nat : a + b = c + d /\ a <= e => b - d >= c - e
        OBVIOUS
      <4>3. QED
        BY <1>3, <4>1, <4>2
    <3>3. QED
      BY <1>3, <3>1, <3>2
  <2>2. ASSUME NEW k \in DOMAIN marks'
        PROVE  /\ marks'[k].seq + Len(marks') = emitSeq + k
               /\ tail' <= marks'[k].cursor /\ marks'[k].cursor <= head
    <3>1. k \in Nat /\ k + n \in DOMAIN marks /\ marks'[k] = marks[k + n]
      BY <1>3, <1>4
    <3>2. marks[k + n].seq + Len(marks) = emitSeq + (k + n) /\ marks[k + n].seq \in Nat
      BY <1>0, <1>3, <3>1 DEF MarksInv
    <3>3. PICK a \in Nat : a = marks[k + n].seq
      BY <3>2
    <3>4. marks[k + n].seq + (Len(marks) - n) = emitSeq + k
      <4>1. a + Len(marks) = emitSeq + (k + n)
        BY <3>2, <3>3
      <4>2. Len(marks) \in Nat /\ emitSeq \in Nat /\ k \in Nat /\ n \in Nat
        BY <1>3, <3>1
      <4>3. a + (Len(marks) - n) = emitSeq + k
        BY <4>1, <4>2
      <4>4. QED
        BY <3>3, <4>3
    <3>5. tail' <= marks[k + n].cursor /\ marks[k + n].cursor <= head
      <4>1. CASE n = 0
        BY <1>0, <1>5, <3>1, <4>1 DEF MarksInv
      <4>2. CASE n > 0
        <5>1. n \in DOMAIN marks /\ n <= k + n
          BY <1>3, <1>5, <3>1, <4>2
        <5>2. QED
          BY <1>0, <1>5, <3>1, <4>2, <5>1 DEF MarksInv
      <4>3. QED
        BY <1>3, <4>1, <4>2
    <3>6. QED
      BY <1>4, <3>1, <3>4, <3>5
  <2>3. ASSUME NEW k \in DOMAIN marks', NEW l \in DOMAIN marks', k <= l
        PROVE  marks'[k].cursor <= marks'[l].cursor
    <3>1. /\ k + n \in DOMAIN marks /\ marks'[k] = marks[k + n]
          /\ l + n \in DOMAIN marks /\ marks'[l] = marks[l + n]
          /\ k + n <= l + n
      BY <1>3, <1>4, <2>3
    <3>2. QED
      BY <1>0, <3>1 DEF MarksInv
  <2>4. QED
    BY <1>2, <1>4, <2>1, <2>2, <2>3 DEF MarksInv
<1>10. EmptyInv' /\ RefusedOnlyByOwnBlobs'
  <2>1. SUFFICES ASSUME staged = <<>>
                 PROVE  head = IF marks' = <<>> THEN tail' ELSE marks'[Len(marks')].cursor
    BY <1>0, <1>2 DEF EmptyInv, RefusedOnlyByOwnBlobs
  <2>2. head = IF marks = <<>> THEN tail ELSE marks[Len(marks)].cursor
    BY <1>0, <2>1 DEF EmptyInv
  <2>3. CASE n = Len(marks)
    <3>1. marks' = <<>>
      BY <1>3, <1>4, <2>3
    <3>2. CASE n = 0
      BY <1>3, <1>5, <2>2, <2>3, <3>1, <3>2
    <3>3. CASE n > 0
      BY <1>3, <1>5, <2>2, <2>3, <3>1, <3>3
    <3>4. QED
      BY <1>3, <3>2, <3>3
  <2>4. CASE n < Len(marks)
    <3>1. Len(marks') > 0 /\ Len(marks') \in DOMAIN marks' /\ marks' # <<>> /\ marks # <<>>
      BY <1>3, <1>4, <2>4
    <3>2. marks'[Len(marks')] = marks[Len(marks)]
      BY <1>3, <1>4, <3>1
    <3>3. QED
      BY <2>2, <3>1, <3>2
  <2>5. n = Len(marks) \/ n < Len(marks)
    <3>1. n \in Nat /\ Len(marks) \in Nat /\ n <= Len(marks)
      BY <1>3
    <3>2. QED
      BY <3>1
  <2>6. QED
    BY <2>1, <2>3, <2>4, <2>5
<1>11. PlaceInv' /\ SplitInv' /\ OrderInv'
  <2>1. \A r \in LiveRecords' : r \in LiveRecords /\ RunsOf(r)' = RunsOf(r)
    BY <1>2 DEF LiveRecords, RunsOf
  <2>2. ASSUME ~nested, NEW r \in LiveRecords, NEW i \in DOMAIN RunsOf(r)
        PROVE  tail' <= Begin(r, i)
    <3>1. CASE n = 0
      BY <1>0, <1>5, <2>2, <3>1 DEF PlaceInv
    <3>2. CASE n > 0
      <4>1. r \in Nat /\ r > retired
        BY <1>0, LiveTypes
      <4>2. marks[n].seq < r /\ n \in DOMAIN marks
        BY <1>3, <1>5, <3>2, <4>1
      <4>3. QED
        BY <1>0, <1>5, <2>2, <3>2, <4>2 DEF SplitInv
    <3>3. QED
      BY <1>3, <3>1, <3>2
  <2>3. \A k \in DOMAIN marks' : \E l \in DOMAIN marks : marks'[k] = marks[l]
    BY <1>3, <1>4
  <2>4. QED
    BY <1>2, <2>1, <2>2, <2>3, PlacesKept
<1>12. QED
  BY <1>7, <1>8, <1>9, <1>10, <1>11 DEF IInv

(* A rebase finds nothing live: a live run would lie between tail and head. *)
LEMMA BeginAttemptStep ==
  ASSUME IInv, BeginAttempt
  PROVE  IInv'
<1>0. TypeOK /\ MarksInv /\ EmptyInv /\ InFlightBounded /\ PlaceInv
  BY DEF IInv
<1>1. /\ Rebase /\ pc \in {"rebase", "rebaseAgain"} /\ pc' \in {"first", "again"}
      /\ UNCHANGED <<emitSeq, retired, need, waitSeq, staged, named, nested>>
  BY DEF BeginAttempt
<1>2. /\ Len(marks) \in Nat /\ DOMAIN marks = 1..Len(marks) /\ marks \in Seq(Marks)
      /\ \A k \in 1..Len(marks) : marks[k].seq \in Nat /\ marks[k].cursor \in Nat
      /\ head \in Nat /\ tail \in Nat /\ Capacity \in Nat
  BY <1>0, MarkTypes DEF TypeOK
<1>3. CASE head # tail
  <2>1. UNCHANGED <<head, tail, marks>>
    BY <1>1, <1>3 DEF Rebase
  <2>2. TypeOK'
    BY <1>0, <1>1, <2>1 DEF TypeOK
  <2>3. EmptyInv' /\ RefusedOnlyByOwnBlobs'
    BY <1>0, <1>1, <1>3, <2>1 DEF EmptyInv, RefusedOnlyByOwnBlobs
  <2>4. QED
    BY <1>1, <2>1, <2>2, <2>3, StageUntouched DEF IInv
<1>4. CASE head = tail
  <2>1. /\ head' = 0 /\ tail' = 0
        /\ marks' = [i \in 1..Len(marks) |-> [marks[i] EXCEPT !.cursor = 0]]
    BY <1>1, <1>2, <1>4 DEF Rebase
  <2>2. \A i \in 1..Len(marks) : /\ [marks[i] EXCEPT !.cursor = 0] \in Marks
                                 /\ [marks[i] EXCEPT !.cursor = 0].cursor = 0
                                 /\ [marks[i] EXCEPT !.cursor = 0].seq = marks[i].seq
    <3>1. \A i \in 1..Len(marks) : marks[i] \in Marks
      BY <1>2
    <3>2. \A m \in Marks : /\ [m EXCEPT !.cursor = 0] \in Marks
                           /\ [m EXCEPT !.cursor = 0].cursor = 0
                           /\ [m EXCEPT !.cursor = 0].seq = m.seq
      BY DEF Marks
    <3>3. QED
      BY <3>1, <3>2
  <2>3. /\ marks' \in Seq(Marks) /\ Len(marks') = Len(marks) /\ DOMAIN marks' = 1..Len(marks)
        /\ \A i \in 1..Len(marks) : marks'[i].cursor = 0 /\ marks'[i].seq = marks[i].seq
    <3>1. marks' \in [1..Len(marks) -> Marks]
      BY <2>1, <2>2
    <3>2. marks' \in Seq(Marks) /\ Len(marks') = Len(marks) /\ DOMAIN marks' = 1..Len(marks)
      BY <1>2, <3>1
    <3>3. QED
      BY <2>1, <2>2, <3>2
  <2>4. TypeOK'
    BY <1>0, <1>1, <2>1, <2>3 DEF TypeOK
  <2>5. InFlightBounded'
    BY <1>2, <2>1 DEF InFlightBounded
  <2>6. MarksInv'
    <3>1. Len(marks') >= emitSeq' - retired'
      BY <1>0, <1>1, <2>3 DEF MarksInv
    <3>2. \A k \in DOMAIN marks' :
            /\ marks'[k].seq + Len(marks') = emitSeq' + k
            /\ tail' <= marks'[k].cursor /\ marks'[k].cursor <= head'
      BY <1>0, <1>1, <1>2, <2>1, <2>3 DEF MarksInv
    <3>3. \A k, l \in DOMAIN marks' : k <= l => marks'[k].cursor <= marks'[l].cursor
      BY <2>3
    <3>4. QED
      BY <3>1, <3>2, <3>3 DEF MarksInv
  <2>7. EmptyInv' /\ RefusedOnlyByOwnBlobs'
    <3>1. marks' # <<>> => Len(marks') \in DOMAIN marks'
      BY <1>2, <2>3
    <3>2. head' = IF marks' = <<>> THEN tail' ELSE marks'[Len(marks')].cursor
      BY <2>1, <2>3, <3>1
    <3>3. need \in Sizes
      BY <1>0, <1>1 DEF EmptyInv
    <3>4. QED
      BY <1>1, <2>1, <3>2, <3>3 DEF EmptyInv, RefusedOnlyByOwnBlobs
  <2>8. ASSUME ~nested, NEW n \in LiveRecords, NEW i \in DOMAIN RunsOf(n)
        PROVE  FALSE
    <3>1. tail <= Begin(n, i) /\ End(n, i) <= head
      BY <1>0, <2>8 DEF PlaceInv
    <3>2. Begin(n, i) \in Nat /\ End(n, i) \in Nat /\ Begin(n, i) < End(n, i)
      BY <1>0, LiveTypes
    <3>3. QED
      BY <1>2, <1>4, <3>1, <3>2
  <2>9. nested' = nested /\ \A n \in LiveRecords' : n \in LiveRecords /\ RunsOf(n)' = RunsOf(n)
    BY <1>1 DEF LiveRecords, RunsOf
  <2>10. PlaceInv' /\ SplitInv' /\ OrderInv'
    BY <2>8, <2>9 DEF PlaceInv, SplitInv, OrderInv
  <2>11. QED
    BY <2>4, <2>5, <2>6, <2>7, <2>10 DEF IInv
<1>5. QED
  BY <1>3, <1>4

(* The new run goes past every other one, and past every mark.             *)
LEMMA TakeStep ==
  ASSUME IInv, Take
  PROVE  IInv'
<1> DEFINE p == head + Skip(head, need)
           last == Len(staged) + 1
<1>0. TypeOK /\ MarksInv /\ EmptyInv /\ InFlightBounded /\ PlaceInv /\ SplitInv /\ OrderInv
  BY DEF IInv
<1>1. /\ pc \in {"first", "again"} /\ Fits(head, tail, need)
      /\ staged' = Append(staged, Run(p, need)) /\ head' = p + need
      /\ pc' = "run" /\ need' = 0
      /\ UNCHANGED <<tail, marks, emitSeq, retired, waitSeq, named, nested>>
  BY DEF Take
<1>2. need \in Sizes /\ need \in 1..Capacity /\ need \in Nat /\ need > 0
  <2>1. need \in Sizes
    BY <1>0, <1>1 DEF EmptyInv
  <2>2. Capacity \in Nat /\ Sizes \subseteq 1..Capacity
    BY StageAssumption
  <2>3. need \in 1..Capacity
    BY <2>1, <2>2
  <2>4. QED
    BY <2>1, <2>2, <2>3
<1>3. /\ head \in Nat /\ tail \in Nat /\ Capacity \in Nat /\ emitSeq \in Nat /\ retired \in Nat
      /\ Len(marks) \in Nat /\ DOMAIN marks = 1..Len(marks)
      /\ \A k \in DOMAIN marks : marks[k].seq \in Nat /\ marks[k].cursor \in Nat
  BY <1>0, MarkTypes
<1>4. p \in Nat /\ p >= head /\ Offset(p) + need <= Capacity /\ Skip(head, need) \in Nat
  <2>1. /\ Skip(head, need) \in Nat /\ head + Skip(head, need) \in Nat
        /\ Offset(head + Skip(head, need)) + need <= Capacity
    BY <1>2, <1>3, SkipLands
  <2>2. \A a, b \in Nat : a + b >= a
    OBVIOUS
  <2>3. p >= head
    BY <1>3, <2>1, <2>2
  <2>4. QED
    BY <2>1, <2>3
<1>5. p + need - tail <= Capacity
  BY <1>1 DEF Fits
<1>6. Run(p, need) \in Runs /\ Run(p, need) = [at |-> Offset(p), len |-> need, pos |-> p]
  BY <1>2, <1>4, OffsetRange DEF Run, Runs
<1> HIDE DEF p
<1>7. /\ staged \in Seq(Runs) /\ staged' \in Seq(Runs) /\ staged' # <<>>
      /\ DOMAIN staged = 1..Len(staged) /\ Len(staged) \in Nat /\ DOMAIN staged' = 1..last
      /\ \A i \in 1..Len(staged) : staged'[i] = staged[i]
      /\ staged'[last] = Run(p, need)
  <2>1. staged \in Seq(Runs)
    BY <1>0 DEF TypeOK
  <2>2. QED
    BY <1>1, <1>6, <2>1
<1>8. head' \in Nat /\ head < head' /\ head' = p + need
  BY <1>1, <1>2, <1>3, <1>4
<1>9. TypeOK'
  BY <1>0, <1>1, <1>7, <1>8 DEF TypeOK
<1>10. InFlightBounded'
  <2>1. tail <= head'
    BY <1>0, <1>3, <1>8 DEF InFlightBounded
  <2>2. head' - tail <= Capacity
    <3>1. p \in Nat /\ need \in Nat /\ tail \in Nat /\ Capacity \in Nat
      BY <1>2, <1>3, <1>4
    <3>2. QED
      BY <1>5, <1>8, <3>1
  <2>3. tail' = tail
    BY <1>1
  <2>4. QED
    BY <2>1, <2>2, <2>3 DEF InFlightBounded
<1>11. MarksInv'
  <2>1. \A k \in DOMAIN marks : marks[k].cursor <= head'
    BY <1>0, <1>3, <1>8 DEF MarksInv
  <2>2. QED
    BY <1>0, <1>1, <2>1 DEF MarksInv
<1>12. EmptyInv' /\ RefusedOnlyByOwnBlobs'
  BY <1>1, <1>7 DEF EmptyInv, RefusedOnlyByOwnBlobs
<1>13. LiveRecords' = LiveRecords /\ nested' = nested
  BY <1>1 DEF LiveRecords
(* Every run of the new state is an old one or the run just taken. *)
<1>14. ASSUME NEW n \in LiveRecords, NEW i \in DOMAIN RunsOf(n)'
       PROVE  /\ n \in Nat /\ n <= emitSeq + 1 /\ i \in Nat
              /\ \/ n = emitSeq + 1 /\ i = last /\ RunsOf(n)'[i] = Run(p, need)
                 \/ /\ i \in DOMAIN RunsOf(n) /\ RunsOf(n)'[i] = RunsOf(n)[i]
                    /\ n = emitSeq + 1 => i < last
  <2>1. n \in Nat /\ n <= emitSeq + 1
    BY <1>3 DEF LiveRecords
  <2>2. CASE n <= emitSeq
    <3>1. RunsOf(n)' = RunsOf(n) /\ n # emitSeq + 1
      BY <1>1, <1>3, <2>1, <2>2 DEF RunsOf
    <3>2. DOMAIN RunsOf(n) = 1..Len(RunsOf(n)) /\ Len(RunsOf(n)) \in Nat
      BY <1>0, LiveTypes
    <3>3. QED
      BY <1>14, <2>1, <3>1, <3>2
  <2>3. CASE ~(n <= emitSeq)
    <3>1. RunsOf(n) = staged /\ RunsOf(n)' = staged' /\ n = emitSeq + 1
      BY <1>1, <1>3, <2>1, <2>3 DEF RunsOf
    <3>2. i \in 1..last
      BY <1>7, <1>14, <3>1
    <3>3. CASE i = last
      BY <1>7, <2>1, <3>1, <3>2, <3>3
    <3>4. CASE i # last
      <4>1. i \in 1..Len(staged) /\ i < last /\ i \in Nat
        BY <1>7, <3>2, <3>4
      <4>2. QED
        BY <1>7, <2>1, <3>1, <4>1
    <3>5. QED
      BY <3>3, <3>4
  <2>4. QED
    BY <2>2, <2>3
<1>15. Run(p, need).pos = p /\ Run(p, need).len = need /\ Run(p, need).at = Offset(p)
  BY <1>6
<1>16. ASSUME ~nested, NEW n \in LiveRecords, NEW i \in DOMAIN RunsOf(n)
       PROVE  /\ RunsOf(n)[i].pos \in Nat /\ RunsOf(n)[i].pos + RunsOf(n)[i].len \in Nat
              /\ tail <= RunsOf(n)[i].pos /\ RunsOf(n)[i].pos + RunsOf(n)[i].len <= head
              /\ RunsOf(n)[i].at = Offset(RunsOf(n)[i].pos)
              /\ Offset(RunsOf(n)[i].pos) + RunsOf(n)[i].len <= Capacity
  BY <1>0, <1>16, LiveTypes DEF PlaceInv, Begin, End
<1>17. PlaceInv'
  <2>1. SUFFICES ASSUME ~nested, NEW n \in LiveRecords, NEW i \in DOMAIN RunsOf(n)'
                 PROVE  /\ tail <= RunsOf(n)'[i].pos
                        /\ RunsOf(n)'[i].pos + RunsOf(n)'[i].len <= head'
                        /\ RunsOf(n)'[i].at = Offset(RunsOf(n)'[i].pos)
                        /\ Offset(RunsOf(n)'[i].pos) + RunsOf(n)'[i].len <= Capacity
    BY <1>1, <1>13 DEF PlaceInv, Begin, End, Offset
  <2>2. CASE RunsOf(n)'[i] = Run(p, need)
    <3>1. tail <= p
      BY <1>0, <1>3, <1>4 DEF InFlightBounded
    <3>2. p + need <= head'
      BY <1>2, <1>4, <1>8
    <3>3. QED
      BY <1>4, <1>15, <2>2, <3>1, <3>2
  <2>3. CASE i \in DOMAIN RunsOf(n) /\ RunsOf(n)'[i] = RunsOf(n)[i]
    <3>1. RunsOf(n)[i].pos + RunsOf(n)[i].len <= head'
      BY <1>3, <1>8, <1>16, <2>1, <2>3
    <3>2. QED
      BY <1>16, <2>1, <2>3, <3>1
  <2>4. QED
    BY <1>14, <2>2, <2>3
<1>18. SplitInv'
  <2>1. SUFFICES ASSUME ~nested, NEW n \in LiveRecords, NEW i \in DOMAIN RunsOf(n)',
                        NEW k \in DOMAIN marks
                 PROVE  IF marks[k].seq < n
                        THEN marks[k].cursor <= RunsOf(n)'[i].pos
                        ELSE RunsOf(n)'[i].pos + RunsOf(n)'[i].len <= marks[k].cursor
    BY <1>1, <1>13 DEF SplitInv, Begin, End
  <2>2. CASE n = emitSeq + 1 /\ RunsOf(n)'[i] = Run(p, need)
    <3>1. marks[k].seq < n
      <4>1. marks[k].seq + Len(marks) = emitSeq + k /\ k <= Len(marks) /\ k \in Nat
        BY <1>0, <1>3, <2>1 DEF MarksInv
      <4>2. PICK a \in Nat : a = marks[k].seq
        BY <1>3, <2>1
      <4>3. a + Len(marks) = emitSeq + k
        BY <4>1, <4>2
      <4>4. Len(marks) \in Nat /\ emitSeq \in Nat
        BY <1>3
      <4>5. a < emitSeq + 1
        BY <4>1, <4>3, <4>4
      <4>6. QED
        BY <2>2, <4>2, <4>5
    <3>2. marks[k].cursor <= head
      BY <1>0, <2>1 DEF MarksInv
    <3>3. marks[k].cursor <= p
      BY <1>3, <1>4, <2>1, <3>2
    <3>4. QED
      BY <1>15, <2>2, <3>1, <3>3
  <2>3. CASE i \in DOMAIN RunsOf(n) /\ RunsOf(n)'[i] = RunsOf(n)[i]
    BY <1>0, <2>1, <2>3 DEF SplitInv, Begin, End
  <2>4. QED
    BY <1>14, <2>2, <2>3
<1>19. OrderInv'
  <2>1. SUFFICES ASSUME ~nested, NEW m \in LiveRecords, NEW n \in LiveRecords,
                        NEW i \in DOMAIN RunsOf(m)', NEW j \in DOMAIN RunsOf(n)',
                        m < n \/ (m = n /\ i < j)
                 PROVE  RunsOf(m)'[i].pos + RunsOf(m)'[i].len <= RunsOf(n)'[j].pos
    BY <1>1, <1>13 DEF OrderInv, Begin, End
  <2>2. i \in DOMAIN RunsOf(m) /\ RunsOf(m)'[i] = RunsOf(m)[i]
    <3>1. ~(m = emitSeq + 1 /\ i = last)
      <4>1. SUFFICES ASSUME m = emitSeq + 1, i = last
                     PROVE  FALSE
        OBVIOUS
      <4>2. n <= emitSeq + 1 /\ n \in Nat /\ j \in Nat /\ (n = emitSeq + 1 => j <= last)
        BY <1>7, <1>14, <2>1
      <4>3. last \in Nat
        BY <1>7
      <4>4. QED
        BY <1>3, <2>1, <4>1, <4>2, <4>3
    <3>2. QED
      BY <1>14, <2>1, <3>1
  <2>3. CASE RunsOf(n)'[j] = Run(p, need)
    <3>1. RunsOf(m)[i].pos + RunsOf(m)[i].len <= head
      BY <1>16, <2>1, <2>2
    <3>2. RunsOf(m)[i].pos + RunsOf(m)[i].len \in Nat
      BY <1>16, <2>1, <2>2
    <3>3. RunsOf(m)[i].pos + RunsOf(m)[i].len <= p
      BY <1>3, <1>4, <3>1, <3>2
    <3>4. QED
      BY <1>15, <2>2, <2>3, <3>3
  <2>4. CASE j \in DOMAIN RunsOf(n) /\ RunsOf(n)'[j] = RunsOf(n)[j]
    BY <1>0, <2>1, <2>2, <2>4 DEF OrderInv, Begin, End
  <2>5. QED
    BY <1>14, <2>3, <2>4
<1>20. QED
  BY <1>9, <1>10, <1>11, <1>12, <1>17, <1>18, <1>19 DEF IInv

-----------------------------------------------------------------------------
(* The theorems *)

LEMMA InitHolds == Init => IInv
<1>1. SUFFICES ASSUME Init
               PROVE  IInv
  OBVIOUS
<1>2. /\ head = 0 /\ tail = 0 /\ marks = <<>> /\ emitSeq = 0 /\ retired = 0
      /\ pc = "run" /\ need = 0 /\ waitSeq = 0
      /\ staged = <<>> /\ named = <<>> /\ nested = FALSE
  BY <1>1 DEF Init
<1>3. Capacity \in Nat /\ MaxRecords \in Nat
  BY StageAssumption
<1>4. TypeOK
  <2>1. <<>> \in Seq(Marks) /\ <<>> \in Seq(Runs) /\ <<>> \in Seq(Seq(Runs)) /\ Len(<<>>) = 0
    OBVIOUS
  <2>2. 0 \in 0..MaxRecords /\ 0 \in 0..0 /\ 0 \in Nat
    BY <1>3
  <2>3. QED
    BY <1>2, <2>1, <2>2, Zenon DEF TypeOK
<1>5. InFlightBounded /\ EmptyInv /\ RefusedOnlyByOwnBlobs
  BY <1>2, <1>3 DEF InFlightBounded, EmptyInv, RefusedOnlyByOwnBlobs
<1>6. MarksInv
  BY <1>2 DEF MarksInv
<1>7. \A n \in LiveRecords : DOMAIN RunsOf(n) = {}
  <2>1. \A n \in LiveRecords : RunsOf(n) = <<>>
    BY <1>2 DEF LiveRecords, RunsOf
  <2>2. DOMAIN <<>> = {}
    OBVIOUS
  <2>3. QED
    BY <2>1, <2>2
<1>8. PlaceInv /\ SplitInv /\ OrderInv
  BY <1>7 DEF PlaceInv, SplitInv, OrderInv
<1>9. QED
  BY <1>4, <1>5, <1>6, <1>8 DEF IInv

LEMMA NextKeeps ==
  ASSUME IInv, [Next]_vars
  PROVE  IInv'
<1>1. CASE \E n \in Sizes : Stage(n)
  BY <1>1, StageStep
<1>2. CASE BeginAttempt
  BY <1>2, BeginAttemptStep
<1>3. CASE Take
  BY <1>3, TakeStep
<1>4. CASE NoRoom
  BY <1>4, NoRoomStep
<1>5. CASE Drained \/ Woken \/ CmdRingFull
  BY <1>5, WaitStep
<1>6. CASE Reclaim
  BY <1>6, ReclaimStep
<1>7. CASE Encode
  BY <1>7, EncodeStep
<1>8. CASE NestedEncode
  BY <1>8, NestedEncodeStep
<1>9. CASE Retire
  BY <1>9, RetireStep
<1>10. CASE UNCHANGED vars
  <2>1. UNCHANGED <<head, tail, marks, emitSeq, retired, pc, need, waitSeq, staged, named, nested>>
    BY <1>10 DEF vars
  <2>2. TypeOK'
    BY <2>1 DEF IInv, TypeOK
  <2>3. EmptyInv' /\ RefusedOnlyByOwnBlobs'
    BY <2>1 DEF IInv, EmptyInv, RefusedOnlyByOwnBlobs
  <2>4. QED
    BY <2>1, <2>2, <2>3, StageUntouched DEF IInv
<1>11. QED
  BY <1>1, <1>2, <1>3, <1>4, <1>5, <1>6, <1>7, <1>8, <1>9, <1>10 DEF Next, Allocate

(* The invariant of the allocator holds, for every size of the segment and *)
(* every length of the session.                                            *)
THEOREM StageInvariant == Spec => []IInv
<1>1. IInv /\ [Next]_vars => IInv'
  BY NextKeeps
<1>2. QED
  BY InitHolds, <1>1, PTL DEF Spec

(* While no record nests, no byte of an unretired record's blobs, or of    *)
(* the blobs being staged, is given out again: across every skip, rebase   *)
(* and reclaim of TryStageAllocate and ReclaimStagedBytes.                 *)
THEOREM StagedBytesAreKept == Spec => []DisjointUnlessNested
<1>1. IInv => DisjointUnlessNested
  BY PlacedDisjoint DEF IInv
<1>2. QED
  BY <1>1, StageInvariant, PTL

(* Tail and head stay in order and a segment apart at most, nested or not: *)
(* the difference StagedBytesInFlight takes does not wrap.                 *)
THEOREM CursorsStayInOrder == Spec => []InFlightBounded
<1>1. IInv => InFlightBounded
  BY DEF IInv
<1>2. QED
  BY <1>1, StageInvariant, PTL

(* The allocator gives up (RingOverrun) only on a record that has blobs    *)
(* staged already: an empty stage takes any blob of the segment's size.    *)
THEOREM RefusalIsOwnBlobs == Spec => []RefusedOnlyByOwnBlobs
<1>1. IInv => RefusedOnlyByOwnBlobs
  BY DEF IInv
<1>2. QED
  BY <1>1, StageInvariant, PTL
=============================================================================
