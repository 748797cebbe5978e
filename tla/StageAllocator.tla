----------------------------- MODULE StageAllocator -----------------------------
(***************************************************************************)
(* The client's allocator of SEG_STAGE (Wire/PipeWireCodec.cpp): the blobs *)
(* a record names are staged first, the record is encoded after them, and  *)
(* the bytes come back when the server has retired the record.  Head and   *)
(* tail are monotonic byte counts; an encode pushes a mark, "where the     *)
(* head stood", and a reclaim moves the tail to the newest retired mark.   *)
(*                                                                         *)
(* A stage wait and a command-space wait drain the reverse channel, and a  *)
(* surface-changed event delivered there publishes records of its own: the *)
(* encoder is then entered while another record is still being staged.     *)
(***************************************************************************)
EXTENDS Naturals, Sequences

CONSTANTS
  Capacity,    \* of the segment, in the allocator's 8-byte units
  Sizes,       \* the sizes of blobs
  MaxBlobs,    \* bound on the blobs of one record
  MaxRecords   \* bound on the records of a behaviour

ASSUME StageAssumption ==
  /\ Capacity \in Nat \ {0}
  /\ Sizes \subseteq 1..Capacity
  /\ MaxBlobs \in Nat /\ MaxRecords \in Nat

VARIABLES
  head,     \* m_stageHead
  tail,     \* m_stageTail
  marks,    \* m_stageMarks from m_stageMarkFront on
  emitSeq,  \* m_emitSeq: records encoded (and published)
  retired,  \* retiredSeq
  pc,       \* where StageAllocate stands
  need,     \* the size it was asked for
  waitSeq,  \* the mark it waits for
  staged,   \* the runs staged for the record not yet encoded
  (* history: not state of the program *)
  named,    \* sequence number -> the runs its record names, until it is retired
  nested    \* a record was encoded while another one's runs were staged

vars == <<head, tail, marks, emitSeq, retired, pc, need, waitSeq, staged, named, nested>>

Init ==
  /\ head = 0 /\ tail = 0 /\ marks = <<>>
  /\ emitSeq = 0 /\ retired = 0
  /\ pc = "run" /\ need = 0 /\ waitSeq = 0
  /\ staged = <<>> /\ named = <<>> /\ nested = FALSE

(* Where a cursor stands in the segment.                                   *)
Offset(cursor) == cursor % Capacity

(* A run: its offset and its length.  Its place in the count of bytes is   *)
(* history.                                                                *)
Run(pos, len) == [at |-> Offset(pos), len |-> len, pos |-> pos]

-----------------------------------------------------------------------------
(* Allocation *)

(* RebaseEmptyStage.  Slip: never. *)
NeverRebase == UNCHANGED <<head, tail, marks>>
Rebase ==
  IF head = tail
  THEN /\ head' = 0 /\ tail' = 0
       /\ marks' = [i \in DOMAIN marks |-> [marks[i] EXCEPT !.cursor = 0]]
  ELSE UNCHANGED <<head, tail, marks>>

(* A run that would straddle the end skips to offset zero; the skipped     *)
(* bytes are charged with it.                                              *)
Skip(h, n) == IF Offset(h) + n > Capacity THEN Capacity - Offset(h) ELSE 0
Fits(h, t, n) == h + Skip(h, n) + n - t <= Capacity

(* StageBytes / StageAllocate: the blob's size, then the loop of attempts. *)
Stage(n) ==
  /\ pc = "run" /\ Len(staged) < MaxBlobs /\ emitSeq < MaxRecords
  /\ need' = n
  /\ pc' = "rebase"
  /\ UNCHANGED <<head, tail, marks, emitSeq, retired, waitSeq, staged, named, nested>>

BeginAttempt ==
  /\ pc \in {"rebase", "rebaseAgain"}
  /\ Rebase
  /\ pc' = IF pc = "rebase" THEN "first" ELSE "again"
  /\ UNCHANGED <<emitSeq, retired, need, waitSeq, staged, named, nested>>

Take ==
  /\ pc \in {"first", "again"} /\ Fits(head, tail, need)
  /\ staged' = Append(staged, Run(head + Skip(head, need), need))
  /\ head' = head + Skip(head, need) + need
  /\ pc' = "run" /\ need' = 0
  /\ UNCHANGED <<tail, marks, emitSeq, retired, waitSeq, named, nested>>

(* The first failure reclaims what has retired; a later one waits for the  *)
(* oldest mark, or gives up when there is none (Fatal RingOverrun).        *)
NoRoom ==
  /\ pc \in {"first", "again"} /\ ~Fits(head, tail, need)
  /\ \/ pc = "first" /\ pc' = "reclaim" /\ UNCHANGED waitSeq
     \/ pc = "again" /\ marks = <<>> /\ pc' = "fatal" /\ UNCHANGED waitSeq
     \/ /\ pc = "again" /\ marks # <<>>
        /\ waitSeq' = marks[1].seq
        /\ pc' = IF retired >= marks[1].seq THEN "reclaim" ELSE "drain"
  /\ UNCHANGED <<head, tail, marks, emitSeq, retired, need, staged, named, nested>>

(* The stage wait's hook: SEG_EVENT is drained before the park and after.  *)
Drained ==
  /\ pc \in {"drain", "drainAgain"}
  /\ pc' = IF pc = "drain" THEN "park" ELSE "reclaim"
  /\ UNCHANGED <<head, tail, marks, emitSeq, retired, need, waitSeq, staged, named, nested>>

(* The wait is over at the mark itself.  Slip: only past it.               *)
WokenPastMark ==
  /\ pc = "park" /\ retired > waitSeq
  /\ pc' = "drainAgain"
  /\ UNCHANGED <<head, tail, marks, emitSeq, retired, need, waitSeq, staged, named, nested>>
Woken ==
  /\ pc = "park" /\ retired >= waitSeq
  /\ pc' = "drainAgain"
  /\ UNCHANGED <<head, tail, marks, emitSeq, retired, need, waitSeq, staged, named, nested>>

(* ReclaimStagedBytes.  Slip: up to the newest mark, retired or not.       *)
ReclaimAll ==
  /\ pc = "reclaim"
  /\ tail' = IF marks = <<>> THEN tail ELSE marks[Len(marks)].cursor
  /\ marks' = <<>>
  /\ pc' = "rebaseAgain"
  /\ UNCHANGED <<head, emitSeq, retired, need, waitSeq, staged, named, nested>>
Consumed(n) ==
  /\ \A k \in 1..n : marks[k].seq <= retired
  /\ n < Len(marks) => marks[n + 1].seq > retired
Reclaim ==
  /\ pc = "reclaim"
  /\ \E n \in 0..Len(marks) :
       /\ Consumed(n)
       /\ tail' = IF n > 0 /\ marks[n].cursor > tail THEN marks[n].cursor ELSE tail
       /\ marks' = SubSeq(marks, n + 1, Len(marks))
  /\ pc' = "rebaseAgain"
  /\ UNCHANGED <<head, emitSeq, retired, need, waitSeq, staged, named, nested>>

-----------------------------------------------------------------------------
(* Records *)

(* The mark of a record.  Slip: pushed before the sequence number moves.   *)
MarkBeforeSeq(seq) == [seq |-> seq - 1, cursor |-> head]
Mark(seq) == [seq |-> seq, cursor |-> head]

(* EncodeRecord, and the publish that follows it: a mark for every record, *)
(* with or without blobs.                                                  *)
Emit(runs) ==
  /\ emitSeq < MaxRecords
  /\ emitSeq' = emitSeq + 1
  /\ marks' = Append(marks, Mark(emitSeq + 1))
  /\ named' = Append(named, runs)
  /\ UNCHANGED <<head, tail, retired, need, waitSeq>>

Encode ==
  /\ pc \in {"run", "space"}
  /\ Emit(staged)
  /\ staged' = <<>> /\ pc' = "run"
  /\ UNCHANGED nested

(* No room in SEG_CMD: the record's blobs are staged, it waits for command *)
(* space, drains, and encodes again (EmitAndWaitTails).                    *)
CmdRingFull ==
  /\ pc = "run" /\ pc' = "space"
  /\ UNCHANGED <<head, tail, marks, emitSeq, retired, need, waitSeq, staged, named, nested>>

(* A record without blobs published by a drain: the one in the stage wait, *)
(* or the one after the wait for command space.                            *)
NestedEncode ==
  /\ pc \in {"drain", "drainAgain", "space"}
  /\ Emit(<<>>)
  /\ nested' = (nested \/ staged # <<>>)
  /\ UNCHANGED <<pc, staged>>

(* The server retires a batch. *)
Retire ==
  /\ \E seq \in retired + 1 .. emitSeq :
       /\ retired' = seq
       /\ named' = [i \in DOMAIN named |-> IF i <= seq THEN <<>> ELSE named[i]]
  /\ UNCHANGED <<head, tail, marks, emitSeq, pc, need, waitSeq, staged, nested>>

Allocate == BeginAttempt \/ Take \/ NoRoom \/ Drained \/ Woken \/ Reclaim

Next ==
  \/ \E n \in Sizes : Stage(n)
  \/ Allocate
  \/ Encode
  \/ CmdRingFull
  \/ NestedEncode
  \/ Retire

Spec == Init /\ [][Next]_vars

(* The GL thread inside an allocation goes on, and the server retires what *)
(* was published.                                                          *)
FairSpec == Spec /\ WF_vars(Allocate) /\ WF_vars(Retire)

-----------------------------------------------------------------------------
(* Properties *)

(* Every variable has its type. *)
Runs == [at : 0..Capacity - 1, len : Sizes, pos : Nat]
Marks == [seq : Nat, cursor : Nat]
TypeOK ==
  /\ head \in Nat /\ tail \in Nat
  /\ marks \in Seq(Marks)
  /\ emitSeq \in 0..MaxRecords /\ retired \in 0..emitSeq
  /\ pc \in {"run", "rebase", "rebaseAgain", "first", "again", "reclaim", "drain", "park",
             "drainAgain", "space", "fatal"}
  /\ nested \in BOOLEAN
  /\ need \in {0} \cup Sizes /\ waitSeq \in Nat
  /\ staged \in Seq(Runs)
  /\ named \in Seq(Seq(Runs)) /\ Len(named) = emitSeq

(* The runs nothing may write over, by record and place: those of the      *)
(* records the server has not retired, and of the record being staged.     *)
RunsOf(n) == IF n <= emitSeq THEN named[n] ELSE staged
LiveRecords == retired + 1 .. emitSeq + 1

Overlap(r, s) == r.at < s.at + s.len /\ s.at < r.at + r.len

(* No live run shares a byte with another: "what it may not do is free     *)
(* ahead of retiredSeq" (ReclaimStagedBytes).                              *)
LiveRunsDisjoint ==
  \A m, n \in LiveRecords : \A i \in DOMAIN RunsOf(m), j \in DOMAIN RunsOf(n) :
    <<m, i>> # <<n, j>> => ~Overlap(RunsOf(m)[i], RunsOf(n)[j])

(* And in a session where no drain encodes a record in the middle of       *)
(* another one, that is so across every wrap, rebase and reclaim.          *)
DisjointUnlessNested == ~nested => LiveRunsDisjoint

(* The cursors stay in order and no more is in flight than the segment     *)
(* holds, across every rebase: StagedBytesInFlight cannot underflow.       *)
InFlightBounded == tail <= head /\ head - tail <= Capacity

(* A blob the segment holds whole is refused only because of the blobs     *)
(* already staged for the same record: an empty stage takes any blob,      *)
(* wherever the cursors stand.                                             *)
RefusedOnlyByOwnBlobs == pc = "fatal" => staged # <<>>

(* The marks are those of the last records encoded, the ones not retired   *)
(* among them, and their cursors lie in order between tail and head.       *)
MarksInv ==
  /\ Len(marks) >= emitSeq - retired
  /\ \A k \in DOMAIN marks :
       /\ marks[k].seq + Len(marks) = emitSeq + k
       /\ tail <= marks[k].cursor /\ marks[k].cursor <= head
  /\ \A k, l \in DOMAIN marks : k <= l => marks[k].cursor <= marks[l].cursor

(* With nothing staged, everything up to the head has a mark or is back;   *)
(* an attempt finds an empty stage rebased, and its blob may fit.          *)
EmptyInv ==
  /\ staged = <<>> => head = IF marks = <<>> THEN tail ELSE marks[Len(marks)].cursor
  /\ pc \in {"first", "again"} => head # tail \/ head = 0
  /\ pc \in {"rebase", "rebaseAgain", "first", "again", "reclaim", "drain", "park",
            "drainAgain"} => need \in Sizes

(* While no record nests, the live runs lie between tail and head, whole,  *)
(* one after another, and a record's mark is past its runs and before the  *)
(* next record's.                                                          *)
Begin(n, i) == RunsOf(n)[i].pos
End(n, i) == RunsOf(n)[i].pos + RunsOf(n)[i].len

PlaceInv ==
  ~nested => \A n \in LiveRecords : \A i \in DOMAIN RunsOf(n) :
    /\ tail <= Begin(n, i) /\ End(n, i) <= head
    /\ RunsOf(n)[i].at = Offset(Begin(n, i))
    /\ Offset(Begin(n, i)) + RunsOf(n)[i].len <= Capacity

SplitInv ==
  ~nested => \A n \in LiveRecords : \A i \in DOMAIN RunsOf(n), k \in DOMAIN marks :
    IF marks[k].seq < n THEN marks[k].cursor <= Begin(n, i) ELSE End(n, i) <= marks[k].cursor

OrderInv ==
  ~nested => \A m, n \in LiveRecords : \A i \in DOMAIN RunsOf(m), j \in DOMAIN RunsOf(n) :
    m < n \/ (m = n /\ i < j) => End(m, i) <= Begin(n, j)

(* The inductive invariant (StageAllocatorProofs). *)
IInv ==
  /\ TypeOK /\ InFlightBounded /\ MarksInv /\ EmptyInv /\ RefusedOnlyByOwnBlobs
  /\ PlaceInv /\ SplitInv /\ OrderInv

(* An allocation ends: it succeeds, or it is refused.                      *)
AllocationEnds == pc = "rebase" ~> pc \in {"run", "fatal"}
=============================================================================
