-------------------------- MODULE StreamLinkProofs --------------------------
(***************************************************************************)
(* The link over a byte stream keeps its invariant, for every size of the  *)
(* event ring, of the create window and of the store of answers, and every *)
(* length of a session.                                                    *)
(*                                                                         *)
(* The argument: the counts of records and of events are in order from one *)
(* side to the other, and frames arrive in the order they were sent.  A    *)
(* watermark is sent after the events of the records it counts and after   *)
(* their answers, so when the client sees it both are on its side.  The    *)
(* answers the GL thread will read are those of the deferred creates and   *)
(* the one it waits for, and each is wanted or kept; so none is overtaken, *)
(* none missing when it is read, and no more than the window and one are   *)
(* kept.  An answer says of a create what the server holds, and that only  *)
(* grows, so the mark kept after the answer is read is true.               *)
(***************************************************************************)
EXTENDS StreamLink, FiniteSetTheorems, SequenceTheorems, TLAPS

Kinds == {"post", "read", "create", "unread"}
Records == [kind : Kinds, object : Nat]
Places == [pc : {"run", "park", "wait", "drain", "clear", "take", "settle", "oldest", "poll",
                 "peek", "gone"},
           seq : Nat, object : Nat, block : BOOLEAN]
Answers == [seq : Nat, ok : BOOLEAN]
EventFrames == [kind : {"event"}, head : Nat]
ProgressFrames == [kind : {"progress"}, applied : Nat, full : BOOLEAN]
ReplyFrames == [kind : {"reply"}, seq : Nat, ok : BOOLEAN]
Frames == EventFrames \union ProgressFrames \union ReplyFrames
ServerFrames == [head : Nat, tail : Nat]

TypeOK ==
  /\ log \in Seq(Records) /\ gl \in Places
  /\ drained \in Nat /\ pending \in Seq(Nat) /\ latched \subseteq Nat /\ suspects \subseteq Nat
  /\ eventHead \in Nat /\ appliedSeen \in Nat /\ fullSeen \in BOOLEAN
  /\ wanted \in Seq(Nat) /\ retained \subseteq Answers /\ replySeq \in Nat
  /\ toServer \in Seq(ServerFrames) /\ toClient \in Seq(Frames)
  /\ cmdHead \in Nat /\ eventTail \in Nat /\ sio \in {"idle", "clear", "keep"}
  /\ applied \in Nat /\ placed \in Nat /\ sentEvents \in Nat /\ full \in BOOLEAN
  /\ spc \in {"idle", "parked", "reserve", "publish", "latch", "offer", "wait", "reply", "apply"}
  /\ held \subseteq Nat /\ gone \in BOOLEAN

(* The counts of events and of records are in order from one side to the   *)
(* other.                                                                  *)
CountInv ==
  /\ eventTail <= drained /\ drained <= eventHead /\ eventHead <= sentEvents
  /\ sentEvents <= placed /\ placed <= eventTail + EventSlots
  /\ appliedSeen <= applied /\ applied <= cmdHead /\ cmdHead <= Len(log)
  /\ spc \notin {"idle", "parked"} => applied < cmdHead
  /\ spc = "reply" => HasAnswer(Current)

(* What is on its way to the server is in order too.                       *)
ToServerInv ==
  /\ \A k \in DOMAIN toServer :
       /\ cmdHead <= toServer[k].head /\ toServer[k].head <= Len(log)
       /\ eventTail <= toServer[k].tail /\ toServer[k].tail <= drained
  /\ \A j, k \in DOMAIN toServer : j < k =>
       toServer[j].head <= toServer[k].head /\ toServer[j].tail <= toServer[k].tail
  /\ sio # "idle" => toServer # <<>> 

(* The events placed are those of the records applied, and the one of the  *)
(* record in hand.                                                         *)
InHand == spc = "publish" \/ (spc \in {"reply", "apply"} /\ HasEvent(Current))
PlacedInv == 
  /\ spc \in {"reserve", "latch", "offer", "wait", "publish"} => HasEvent(Current)
  /\ placed = EventsUpTo(applied) + (IF InHand THEN 1 ELSE 0)

(* Events reach the client in order, all that were sent, and before the    *)
(* watermark that counts them.                                             *)
EventAt(k) == toClient[k].kind = "event"
ProgressAt(k) == toClient[k].kind = "progress"
ReplyAt(k) == toClient[k].kind = "reply"

EventInv ==
  /\ \A k \in DOMAIN toClient : EventAt(k) =>
       eventHead < toClient[k].head /\ toClient[k].head <= sentEvents
  /\ \A j, k \in DOMAIN toClient : EventAt(j) /\ EventAt(k) /\ j < k =>
       toClient[j].head < toClient[k].head
  /\ eventHead < sentEvents =>
       \E k \in DOMAIN toClient : EventAt(k) /\ toClient[k].head = sentEvents

ProgressInv ==
  \A k \in DOMAIN toClient : ProgressAt(k) =>
    /\ toClient[k].applied <= applied
    /\ \/ EventsUpTo(toClient[k].applied) <= eventHead
       \/ \E j \in 1..k - 1 : EventAt(j) /\ EventsUpTo(toClient[k].applied) <= toClient[j].head

(* So do answers; an answer says of a create what the server did.          *)
TrueAnswer(seq, ok) == ok /\ log[seq].kind = "create" => log[seq].object \in held

ReplyInv ==
  /\ \A k \in DOMAIN toClient : ReplyAt(k) =>
       /\ replySeq < toClient[k].seq /\ toClient[k].seq <= applied + 1
       /\ toClient[k].seq = applied + 1 => spc = "apply"
       /\ TrueAnswer(toClient[k].seq, toClient[k].ok)
  /\ \A j, k \in DOMAIN toClient : ReplyAt(j) /\ ReplyAt(k) /\ j < k =>
       toClient[j].seq < toClient[k].seq
  /\ replySeq <= applied + 1 /\ (replySeq = applied + 1 => spc = "apply")

(* An answer that is wanted is still to be given, or on its way before the *)
(* watermark of its record.                                                *)
Unanswered(seq) == seq > applied + 1 \/ (seq = applied + 1 /\ spc # "apply")

WantedInv ==
  /\ \A i \in DOMAIN wanted :
       /\ wanted[i] \in DOMAIN log /\ Declared(log[wanted[i]]) /\ wanted[i] > appliedSeen
       /\ \/ Unanswered(wanted[i])
          \/ \E k \in DOMAIN toClient : ReplyAt(k) /\ toClient[k].seq = wanted[i]
       /\ \A k \in DOMAIN toClient : ProgressAt(k) /\ toClient[k].applied >= wanted[i] =>
            \E j \in 1..k - 1 : ReplyAt(j) /\ toClient[j].seq = wanted[i]
  /\ \A i, j \in DOMAIN wanted : i < j => wanted[i] < wanted[j]

(* What the GL thread will read: the answers of the deferred creates and   *)
(* the one it waits for.                                                   *)
Waiting == gl.pc \in {"park", "wait", "drain", "clear", "take"} /\ gl.seq # 0
Due == {pending[i] : i \in DOMAIN pending} \union (IF Waiting THEN {gl.seq} ELSE {})

PendingInv ==
  /\ Len(pending) <= Window
  /\ \A i \in DOMAIN pending : pending[i] \in DOMAIN log /\ log[pending[i]].kind = "create"
  /\ \A i, j \in DOMAIN pending : i < j => pending[i] < pending[j]
  /\ \A n \in DOMAIN log : log[n].kind = "create" => log[n].object # NoObject

PlaceInv ==
  /\ gl.pc \in {"settle", "oldest", "poll", "peek"} => gl.object # NoObject
  /\ gl.pc \in {"settle", "oldest", "peek"} => pending # <<>>
  /\ gl.pc \in {"park", "wait", "take"} => gl.seq # 0
  /\ gl.pc = "take" => gl.seq <= appliedSeen
  /\ gl.pc = "gone" => gone
  /\ Waiting =>
       /\ gl.seq \in DOMAIN log /\ \A i \in DOMAIN pending : pending[i] # gl.seq
       /\ log[gl.seq].kind = "create" => log[gl.seq].object = gl.object

WindowInv == PendingInv /\ PlaceInv

(* What will be read is wanted or kept, and nothing else is.               *)
StoreOf(due, awaited, kept) ==
  /\ \A seq \in due : (\E i \in DOMAIN awaited : awaited[i] = seq) \/ \E a \in kept : a.seq = seq
  /\ \A i \in DOMAIN awaited : awaited[i] \in due /\ \A a \in kept : a.seq # awaited[i]
  /\ \A a \in kept : a.seq \in due /\ TrueAnswer(a.seq, a.ok)
  /\ \A a, b \in kept : a.seq = b.seq => a = b

StoreInv == gl.pc # "gone" => StoreOf(Due, wanted, retained)

IInv ==
  /\ TypeOK /\ NothingIsFatal /\ CountInv /\ ToServerInv /\ PlacedInv /\ EventInv /\ ProgressInv
  /\ ReplyInv /\ WantedInv /\ WindowInv /\ StoreInv
  /\ EventsPrecedeWatermark /\ SettledLatchIsTrue
-----------------------------------------------------------------------------
(* Sequences of frames, numbers and records *)

LEMMA Appended ==
  ASSUME NEW S, NEW s \in Seq(S), NEW e \in S
  PROVE  /\ Append(s, e) \in Seq(S) /\ Append(s, e) # <<>>
         /\ Len(s) \in Nat /\ Len(Append(s, e)) = Len(s) + 1
         /\ DOMAIN s = 1..Len(s) /\ DOMAIN Append(s, e) = 1..Len(s) + 1
         /\ \A k \in 1..Len(s) : Append(s, e)[k] = s[k]
         /\ Append(s, e)[Len(s) + 1] = e
OBVIOUS

LEMMA Shortened ==
  ASSUME NEW S, NEW s \in Seq(S), s # <<>>
  PROVE  /\ Tail(s) \in Seq(S) /\ Head(s) = s[1] /\ Head(s) \in S
         /\ Len(s) \in Nat /\ Len(s) > 0 /\ Len(Tail(s)) = Len(s) - 1
         /\ DOMAIN s = 1..Len(s) /\ DOMAIN Tail(s) = 1..Len(s) - 1
         /\ \A k \in 1..Len(s) - 1 : k + 1 \in 1..Len(s) /\ Tail(s)[k] = s[k + 1]
OBVIOUS

LEMMA Indexed ==
  ASSUME NEW S, NEW s \in Seq(S)
  PROVE  /\ Len(s) \in Nat /\ DOMAIN s = 1..Len(s) /\ (s = <<>> <=> Len(s) = 0)
         /\ \A k \in DOMAIN s : s[k] \in S
OBVIOUS

LEMMA Dropped ==
  ASSUME NEW S, NEW s \in Seq(S), NEW n \in 0..Len(s)
  PROVE  /\ SubSeq(s, n + 1, Len(s)) \in Seq(S)
         /\ n = 0 => SubSeq(s, n + 1, Len(s)) = s
<1>1. Len(s) \in Nat /\ n \in Nat /\ n + 1 \in Int /\ Len(s) \in Int
  OBVIOUS
<1>2. \A i \in n + 1 .. Len(s) : s[i] \in S
  BY <1>1
<1>3. /\ SubSeq(s, n + 1, Len(s)) \in Seq(S)
      /\ Len(SubSeq(s, n + 1, Len(s))) = IF n + 1 <= Len(s) THEN Len(s) - (n + 1) + 1 ELSE 0
      /\ \A i \in 1 .. Len(s) - (n + 1) + 1 : SubSeq(s, n + 1, Len(s))[i] = s[(n + 1) + i - 1]
  BY <1>1, <1>2, SubSeqProperties
<1>4. ASSUME n = 0
      PROVE  SubSeq(s, n + 1, Len(s)) = s
  <2>1. PICK t \in Seq(S) : t = SubSeq(s, n + 1, Len(s))
    BY <1>3
  <2>2. Len(t) = Len(s)
    BY <1>1, <1>3, <1>4, <2>1
  <2>3. \A i \in 1..Len(s) : t[i] = s[i]
    BY <1>1, <1>3, <1>4, <2>1
  <2>4. t = s
    BY <2>2, <2>3, SeqEqual
  <2>5. QED
    BY <2>1, <2>4
<1>5. QED
  BY <1>3, <1>4

LEMMA FrameTypes ==
  ASSUME TypeOK
  PROVE  /\ Len(toClient) \in Nat /\ DOMAIN toClient = 1..Len(toClient)
         /\ \A k \in DOMAIN toClient :
              /\ EventAt(k) => toClient[k].head \in Nat /\ ~ProgressAt(k) /\ ~ReplyAt(k)
              /\ ProgressAt(k) => /\ toClient[k].applied \in Nat /\ toClient[k].full \in BOOLEAN
                                  /\ ~ReplyAt(k)
              /\ ReplyAt(k) => toClient[k].seq \in Nat /\ toClient[k].ok \in BOOLEAN
<1>1. toClient \in Seq(Frames)
  BY DEF TypeOK
<1>2. \A f \in Frames :
        /\ f.kind = "event" => f.head \in Nat
        /\ f.kind = "progress" => f.applied \in Nat /\ f.full \in BOOLEAN
        /\ f.kind = "reply" => f.seq \in Nat /\ f.ok \in BOOLEAN
  BY DEF Frames, EventFrames, ProgressFrames, ReplyFrames
<1>3. QED
  BY <1>1, <1>2, Indexed DEF EventAt, ProgressAt, ReplyAt

-----------------------------------------------------------------------------
(* Types *)

LEMMA EmitTypes ==
  ASSUME TypeOK, NEW kind \in Kinds, NEW object \in Nat, Record(kind, object)
  PROVE  log' \in Seq(Records) /\ wanted' \in Seq(Nat) /\ Len(log) + 1 \in Nat
<1>1. log \in Seq(Records) /\ wanted \in Seq(Nat) /\ Len(log) + 1 \in Nat
  <2>1. log \in Seq(Records) /\ wanted \in Seq(Nat)
    BY DEF TypeOK
  <2>2. QED
    BY <2>1, Indexed
<1>2. log' = Append(log, [kind |-> kind, object |-> object])
      /\ [kind |-> kind, object |-> object] \in Records
  BY DEF Record, Records
<1>3. wanted' = wanted \/ wanted' = Append(wanted, Len(log) + 1)
  BY DEF Record, DeclareReplyRead
<1>4. log' \in Seq(Records)
  BY <1>1, <1>2, Appended
<1>5. Append(wanted, Len(log) + 1) \in Seq(Nat)
  BY <1>1, Appended
<1>6. QED
  BY <1>1, <1>3, <1>4, <1>5

LEMMA FlushTypes ==
  ASSUME TypeOK, Flush(drained)
  PROVE  toServer' \in Seq(ServerFrames)
<1>1. toServer \in Seq(ServerFrames) /\ log \in Seq(Records) /\ drained \in Nat
  BY DEF TypeOK
<1>2. [head |-> Len(log), tail |-> drained] \in ServerFrames
  BY <1>1, Indexed DEF ServerFrames
<1>3. QED
  BY <1>1, <1>2, Appended DEF Flush

(* The sequence of frames to the client after a SendProgress.              *)
LEMMA Sent ==
  ASSUME TypeOK, applied' \in Nat, NEW frames \in Seq(Frames), SendProgress(frames)
  PROVE  /\ toClient' \in Seq(Frames) /\ sentEvents' = placed
         /\ toClient' = Append(toClient \o frames \o EventFrame,
                               [kind |-> "progress", applied |-> applied', full |-> full])
         /\ toClient \o frames \o EventFrame \in Seq(Frames)
         /\ EventFrame \in Seq(Frames)
<1>1. toClient \in Seq(Frames) /\ placed \in Nat /\ full \in BOOLEAN
  BY DEF TypeOK
<1>2. [kind |-> "event", head |-> placed] \in Frames
      /\ [kind |-> "progress", applied |-> applied', full |-> full] \in Frames
  BY <1>1 DEF Frames, EventFrames, ProgressFrames
<1>3. EventFrame \in Seq(Frames)
  BY <1>2 DEF EventFrame
<1>4. toClient \o frames \in Seq(Frames) /\ toClient \o frames \o EventFrame \in Seq(Frames)
  BY <1>1, <1>3
<1>5. toClient' = (toClient \o frames \o EventFrame) \o ProgressFrame
  BY DEF SendProgress
<1>6. QED
  BY <1>2, <1>3, <1>4, <1>5 DEF SendProgress, ProgressFrame

ClientAct == FireAndForget \/ Read \/ PollEntry \/ Create \/ ClientStep

(* What a step of the GL thread leaves alone.                              *)
LEMMA ClientKeeps ==
  ASSUME ClientAct
  PROVE  UNCHANGED <<eventHead, appliedSeen, replySeq, toClient, applied, placed, sentEvents, spc,
                     held, cmdHead, eventTail, sio, full, gone>>
BY DEF ClientAct, ClientStep, FireAndForget, Read, PollEntry, Create, Park, WaitEnds, Drain,
       ClearAndFlush, TakeAnswer, OldestTaken, PollEnds, Hangup, cioVars, srvVars, sioVars

LEMMA GoTypes ==
  ASSUME TypeOK, NEW pc \in {"run", "park", "wait", "drain", "clear", "take", "settle", "oldest",
                             "poll", "peek", "gone"}, Go(pc)
  PROVE  gl' \in Places
BY DEF TypeOK, Go, Places

LEMMA ClientTypes ==
  ASSUME TypeOK, WindowInv, ClientAct
  PROVE  TypeOK'
<1>0. /\ log \in Seq(Records) /\ gl \in Places
      /\ drained \in Nat /\ pending \in Seq(Nat) /\ latched \subseteq Nat /\ suspects \subseteq Nat
      /\ fullSeen \in BOOLEAN /\ wanted \in Seq(Nat) /\ retained \subseteq Answers
      /\ toServer \in Seq(ServerFrames) /\ eventHead \in Nat
  BY DEF TypeOK
<1>1. SUFFICES /\ log' \in Seq(Records) /\ gl' \in Places
               /\ drained' \in Nat /\ pending' \in Seq(Nat)
               /\ latched' \subseteq Nat /\ suspects' \subseteq Nat
               /\ fullSeen' \in BOOLEAN /\ wanted' \in Seq(Nat) /\ retained' \subseteq Answers
               /\ toServer' \in Seq(ServerFrames)
  BY ClientKeeps DEF TypeOK
<1>2. CASE FireAndForget
  <2>1. PICK kind \in {"post", "unread"} : Record(kind, NoObject)
    BY <1>2 DEF FireAndForget
  <2>2. log' \in Seq(Records) /\ wanted' \in Seq(Nat)
    BY <2>1, EmitTypes DEF Kinds, NoObject
  <2>3. QED
    BY <1>0, <1>2, <2>2 DEF FireAndForget
<1>3. CASE Read
  <2>1. log' \in Seq(Records) /\ wanted' \in Seq(Nat) /\ Len(log) + 1 \in Nat
    BY <1>3, EmitTypes DEF Read, Kinds, NoObject
  <2>2. gl' \in Places
    BY <1>0, <1>3, <2>1 DEF Read, Places
  <2>3. QED
    BY <1>0, <1>3, <2>1, <2>2 DEF Read
<1>4. CASE PollEntry
  <2>1. gl' \in Places
    BY <1>0, <1>4 DEF PollEntry, Places
  <2>2. QED
    BY <1>0, <1>4, <2>1, FlushTypes DEF PollEntry, storeVars
<1>5. CASE Create
  <2>1. PICK o \in (1..Objects) \ latched :
          gl' = [gl EXCEPT !.object = o, !.block = o \in suspects,
                           !.pc = IF o \in suspects /\ pending # <<>> THEN "settle" ELSE "poll"]
    BY <1>5 DEF Create
  <2>2. o \in Nat /\ (o \in suspects) \in BOOLEAN
    BY StreamAssumption
  <2>3. gl' \in Places
    BY <1>0, <2>1, <2>2 DEF Places
  <2>4. QED
    BY <1>0, <1>5, <2>3 DEF Create, storeVars
<1>6. CASE Park
  <2>1. gl.pc \in {"park", "settle", "poll"} /\ Flush(drained)
        /\ Go(CASE gl.pc = "park" -> "wait" [] gl.pc = "settle" -> "oldest"
              [] gl.pc = "poll" -> "peek")
    BY <1>6 DEF Park
  <2>2. gl' \in Places
    <3>1. CASE gl.pc = "park"
      BY <2>1, <3>1, GoTypes
    <3>2. CASE gl.pc = "settle"
      BY <2>1, <3>2, GoTypes
    <3>3. CASE gl.pc = "poll"
      BY <2>1, <3>3, GoTypes
    <3>4. QED
      BY <2>1, <3>1, <3>2, <3>3
  <2>3. QED
    BY <1>0, <1>6, <2>1, <2>2, FlushTypes DEF Park, storeVars
<1>7. CASE WaitEnds
  <2>1. gl' \in Places
    BY <1>7, GoTypes DEF WaitEnds
  <2>2. QED
    BY <1>0, <1>7, <2>1 DEF WaitEnds, storeVars
<1>8. CASE Drain
  <2>1. gl' \in Places
    BY <1>8, GoTypes DEF Drain
  <2>2. QED
    BY <1>0, <1>8, <2>1 DEF Drain, storeVars
<1>9. CASE ClearAndFlush
  <2>1. gl' \in Places
    BY <1>9, GoTypes DEF ClearAndFlush
  <2>2. QED
    BY <1>0, <1>9, <2>1, FlushTypes DEF ClearAndFlush, storeVars
<1>10. CASE TakeAnswer
  <2>1. gl' \in Places
    BY <1>10, GoTypes DEF TakeAnswer
  <2>2. retained' \subseteq Answers
    BY <1>0, <1>10 DEF TakeAnswer, ReadReply, TakeReply
  <2>3. latched' \subseteq Nat /\ suspects' \subseteq Nat
    BY <1>0, <1>10 DEF TakeAnswer, Places
  <2>4. QED
    BY <1>0, <1>10, <2>1, <2>2, <2>3 DEF TakeAnswer
<1>11. CASE OldestTaken
  <2>1. gl' \in Places
    BY <1>11, GoTypes DEF OldestTaken
  <2>2. retained' \subseteq Answers
    BY <1>0, <1>11 DEF OldestTaken, ReadReply, TakeReply
  <2>3. latched' \subseteq Nat /\ suspects' \subseteq suspects \union {log[pending[1]].object}
    BY <1>0, <1>11 DEF OldestTaken, Unlatch
  <2>4. log[pending[1]].object \in Nat
    <3>1. pending # <<>>
      BY <1>11 DEF OldestTaken, WindowInv, PlaceInv
    <3>2. 1 \in DOMAIN pending
      BY <1>0, <3>1, Indexed
    <3>3. pending[1] \in DOMAIN log
      BY <3>2 DEF WindowInv, PendingInv
    <3>4. log[pending[1]] \in Records
      BY <1>0, <3>3, Indexed
    <3>5. QED
      BY <3>4 DEF Records
  <2>5. suspects' \subseteq Nat
    BY <1>0, <2>3, <2>4
  <2>6. pending' \in Seq(Nat)
    <3>1. pending # <<>> /\ pending' = Tail(pending)
      BY <1>11 DEF OldestTaken, WindowInv, PlaceInv
    <3>2. QED
      BY <1>0, <3>1, Shortened
  <2>7. QED
    BY <1>0, <1>11, <2>1, <2>2, <2>3, <2>5, <2>6 DEF OldestTaken
<1>12. CASE PollEnds
  <2>1. CASE CreateEmitted
    <3>1. gl.object \in Nat
      BY <1>0 DEF Places
    <3>2. log' \in Seq(Records) /\ wanted' \in Seq(Nat) /\ Len(log) + 1 \in Nat
      BY <2>1, <3>1, EmitTypes DEF CreateEmitted, Kinds
    <3>3. gl' \in Places
      BY <1>0, <2>1, <3>2 DEF CreateEmitted, Places
    <3>4. pending' \in Seq(Nat) /\ latched' \subseteq Nat
      <4>1. pending' = pending \/ pending' = Append(pending, Len(log) + 1)
        BY <2>1 DEF CreateEmitted
      <4>2. Append(pending, Len(log) + 1) \in Seq(Nat)
        BY <1>0, <3>2, Appended
      <4>3. latched' = latched \/ latched' = latched \union {gl.object}
        BY <2>1 DEF CreateEmitted
      <4>4. QED
        BY <1>0, <3>1, <4>1, <4>2, <4>3
    <3>5. QED
      BY <1>0, <1>12, <3>2, <3>3, <3>4 DEF PollEnds
  <2>2. CASE Go("settle") /\ UNCHANGED <<log, wanted, pending, latched>>
    <3>1. gl' \in Places
      BY <2>2, GoTypes
    <3>2. QED
      BY <1>0, <1>12, <2>2, <3>1 DEF PollEnds
  <2>3. QED
    BY <1>12, <2>1, <2>2 DEF PollEnds
<1>13. CASE Hangup
  <2>1. gl' \in Places
    BY <1>13, GoTypes DEF Hangup
  <2>2. QED
    BY <1>0, <1>13, <2>1 DEF Hangup, storeVars
<1>14. QED
  BY <1>2, <1>3, <1>4, <1>5, <1>6, <1>7, <1>8, <1>9, <1>10, <1>11, <1>12, <1>13
    DEF ClientAct, ClientStep

LEMMA ClientIoTypes ==
  ASSUME TypeOK, ClientIo
  PROVE  TypeOK'
<1>0. toClient \in Seq(Frames) /\ wanted \in Seq(Nat) /\ retained \subseteq Answers
      /\ eventHead \in Nat /\ appliedSeen \in Nat /\ fullSeen \in BOOLEAN /\ replySeq \in Nat
  BY DEF TypeOK
<1>1. toClient # <<>> /\ toClient' = Tail(toClient)
  BY DEF ClientIo, ReceiveEvents, ReceiveProgress, ReceiveReply, Receives
<1>2. toClient' \in Seq(Frames) /\ Head(toClient) \in Frames
  BY <1>0, <1>1, Shortened
<1>3. /\ UNCHANGED <<glVars, toServer, srvVars, sioVars, full, gone>>
      /\ UNCHANGED eventHead \/ ReceiveEvents
      /\ UNCHANGED <<appliedSeen, fullSeen>> \/ ReceiveProgress
      /\ UNCHANGED <<replySeq, storeVars>> \/ ReceiveReply
  BY DEF ClientIo, ReceiveEvents, ReceiveProgress, ReceiveReply
<1>4. \A f \in Frames :
        /\ f.kind = "event" => f.head \in Nat
        /\ f.kind = "progress" => f.applied \in Nat /\ f.full \in BOOLEAN
        /\ f.kind = "reply" => f.seq \in Nat /\ f.ok \in BOOLEAN
  BY DEF Frames, EventFrames, ProgressFrames, ReplyFrames
<1>5. ASSUME ReceiveEvents PROVE eventHead' \in Nat
  <2>1. Head(toClient).head \in Nat
    BY <1>2, <1>4, <1>5 DEF ReceiveEvents, Receives
  <2>2. eventHead' = eventHead \/ eventHead' = Head(toClient).head
    BY <1>5 DEF ReceiveEvents
  <2>3. QED
    BY <1>0, <2>1, <2>2
<1>6. ASSUME ReceiveProgress PROVE appliedSeen' \in Nat /\ fullSeen' \in BOOLEAN
  <2>1. Head(toClient).applied \in Nat /\ Head(toClient).full \in BOOLEAN
    BY <1>2, <1>4, <1>6 DEF ReceiveProgress, Receives
  <2>2. /\ appliedSeen' = appliedSeen \/ appliedSeen' = Head(toClient).applied
        /\ fullSeen' = fullSeen \/ fullSeen' = Head(toClient).full
    BY <1>6 DEF ReceiveProgress
  <2>3. QED
    BY <1>0, <2>1, <2>2
<1>7. ASSUME ReceiveReply PROVE replySeq' \in Nat /\ wanted' \in Seq(Nat) /\ retained' \subseteq Answers
  <2> DEFINE answer == [seq |-> Head(toClient).seq, ok |-> Head(toClient).ok]
  <2>1. Head(toClient).seq \in Nat /\ answer \in Answers
    BY <1>2, <1>4, <1>7 DEF ReceiveReply, Receives, Answers
  <2>2. PICK n \in 0..Len(wanted) :
          /\ replySeq' = replySeq \/ replySeq' = answer.seq
          /\ \/ wanted' = wanted \/ wanted' = StillWanted(n)
             \/ StillWanted(n) # <<>> /\ wanted' = Tail(StillWanted(n))
          /\ retained' = retained \/ retained' = retained \union {answer}
    BY <1>7 DEF ReceiveReply, storeVars
  <2>3. StillWanted(n) \in Seq(Nat)
    BY <1>0, Dropped DEF StillWanted
  <2>4. StillWanted(n) # <<>> => Tail(StillWanted(n)) \in Seq(Nat)
    <3> HIDE DEF answer
    <3>1. QED
      BY <2>3, Shortened
  <2>5. wanted' \in Seq(Nat)
    BY <1>0, <2>2, <2>3, <2>4
  <2>6. QED
    BY <1>0, <2>1, <2>2, <2>5
<1>8. /\ eventHead' \in Nat /\ appliedSeen' \in Nat /\ fullSeen' \in BOOLEAN
      /\ replySeq' \in Nat /\ wanted' \in Seq(Nat) /\ retained' \subseteq Answers
  BY <1>0, <1>3, <1>5, <1>6, <1>7 DEF storeVars
<1>9. QED
  BY <1>2, <1>3, <1>8 DEF TypeOK, glVars, srvVars, sioVars

LEMMA HeadTypes ==
  ASSUME TypeOK, toServer # <<>>
  PROVE  Head(toServer).head \in Nat /\ Head(toServer).tail \in Nat
<1>1. Head(toServer) \in ServerFrames
  <2>1. toServer \in Seq(ServerFrames)
    BY DEF TypeOK
  <2>2. QED
    BY <2>1, Shortened
<1>2. QED
  BY <1>1 DEF ServerFrames

LEMMA ServerIoTypes ==
  ASSUME TypeOK, ServerIo, sio # "idle" => toServer # <<>>
  PROVE  TypeOK'
<1>0. toServer \in Seq(ServerFrames) /\ eventTail \in Nat /\ cmdHead \in Nat /\ full \in BOOLEAN
  BY DEF TypeOK
<1>1. CASE ReceiveClientProgress
  <2>0. toServer # <<>>
    BY <1>1 DEF ReceiveClientProgress
  <2>1. Head(toServer).tail \in Nat
    BY <2>0, HeadTypes
  <2>2. eventTail' \in Nat /\ sio' \in {"idle", "clear", "keep"}
    BY <1>0, <1>1, <2>1 DEF ReceiveClientProgress
  <2>3. QED
    BY <1>1, <2>2 DEF ReceiveClientProgress, TypeOK, glVars, cioVars, storeVars, srvVars
<1>2. CASE AdvanceHead
  <2>1. toServer # <<>>
    BY <1>2 DEF AdvanceHead
  <2>2. Head(toServer).head \in Nat /\ Tail(toServer) \in Seq(ServerFrames)
    BY <1>0, <2>1, Shortened, HeadTypes
  <2>3. QED
    BY <1>0, <1>2, <2>2 DEF AdvanceHead, TypeOK, glVars, cioVars, storeVars, srvVars
<1>3. QED
  BY <1>1, <1>2 DEF ServerIo

ReplyFrame(ok) == [kind |-> "reply", seq |-> applied + 1, ok |-> ok]

(* A step of the apply thread sends nothing, or one SendProgress.          *)
LEMMA ServerKeepsRest ==
  ASSUME ServerStep
  PROVE  UNCHANGED <<log, gl, drained, pending, latched, suspects, eventHead, appliedSeen, replySeq,
                     fullSeen, wanted, retained, toServer, cmdHead, eventTail, sio, gone, failed>>
BY DEF ServerStep, TakeRecord, WaitForWork, ReserveEvent, RaiseLatch, PublishEvents,
       BacklogDrained, PostReply, AdvanceApplied, ServerKeeps, glVars, cioVars, sioVars, storeVars

LEMMA ServerTypes ==
  ASSUME TypeOK, ServerStep, spc \notin {"idle", "parked"} => applied + 1 \in DOMAIN log
  PROVE  TypeOK'
<1>0. /\ applied \in Nat /\ placed \in Nat /\ sentEvents \in Nat /\ full \in BOOLEAN
      /\ held \subseteq Nat /\ toClient \in Seq(Frames) /\ log \in Seq(Records)
      /\ spc \in {"idle", "parked", "reserve", "publish", "latch", "offer", "wait", "reply",
                  "apply"}
  BY DEF TypeOK
<1>1. SUFFICES /\ applied' \in Nat /\ placed' \in Nat /\ sentEvents' \in Nat
               /\ full' \in BOOLEAN /\ held' \subseteq Nat /\ toClient' \in Seq(Frames)
               /\ spc' \in {"idle", "parked", "reserve", "publish", "latch", "offer", "wait",
                            "reply", "apply"}
  BY ServerKeepsRest DEF TypeOK
<1>2. <<>> \in Seq(Frames)
  OBVIOUS
<1>3. CASE TakeRecord
  BY <1>0, <1>3 DEF TakeRecord, AfterEvents
<1>4. CASE WaitForWork
  BY <1>0, <1>2, <1>4, Sent DEF WaitForWork
<1>5. CASE ReserveEvent
  BY <1>0, <1>5 DEF ReserveEvent
<1>6. CASE RaiseLatch
  BY <1>0, <1>6 DEF RaiseLatch
<1>7. CASE PublishEvents
  BY <1>0, <1>2, <1>7, Sent DEF PublishEvents, AfterEvents
<1>8. CASE BacklogDrained
  BY <1>0, <1>8 DEF BacklogDrained
<1>9. CASE PostReply
  <2>1. PICK ok \in BOOLEAN :
          /\ held' = IF ok /\ Current.object # NoObject THEN held \union {Current.object} ELSE held
          /\ SendProgress(<<ReplyFrame(ok)>>)
    BY <1>9 DEF PostReply, ReplyFrame
  <2>2. applied' = applied /\ placed' = placed /\ full' = full /\ spc' = "apply" /\ spc = "reply"
    BY <1>9 DEF PostReply
  <2>3. ReplyFrame(ok) \in Frames
    BY <1>0 DEF ReplyFrame, Frames, ReplyFrames
  <2>4. <<ReplyFrame(ok)>> \in Seq(Frames)
    BY <2>3
  <2>5. toClient' \in Seq(Frames) /\ sentEvents' = placed
    BY <1>0, <2>1, <2>2, <2>4, Sent
  <2>6. Current.object \in Nat
    <3>1. Current \in Records
      BY <1>0, <2>2, Indexed DEF Current
    <3>2. QED
      BY <3>1 DEF Records
  <2>7. QED
    BY <1>0, <2>1, <2>2, <2>5, <2>6
<1>10. CASE AdvanceApplied
  <2>1. applied' = applied + 1 /\ placed' = placed /\ held' = held /\ full' = full /\ spc' = "idle"
    BY <1>10 DEF AdvanceApplied
  <2>2. toClient' \in Seq(Frames) /\ sentEvents' \in Nat
    <3>0. applied' \in Nat
      BY <1>0, <2>1
    <3>1. CASE SendProgress(<<>>)
      BY <1>0, <1>2, <3>0, <3>1, Sent
    <3>2. CASE UNCHANGED <<toClient, sentEvents>>
      BY <1>0, <3>2
    <3>3. QED
      BY <1>10, <3>1, <3>2 DEF AdvanceApplied
  <2>3. QED
    BY <1>0, <2>1, <2>2
<1>11. QED
  BY <1>3, <1>4, <1>5, <1>6, <1>7, <1>8, <1>9, <1>10 DEF ServerStep

-----------------------------------------------------------------------------
(* The events of a prefix of the log *)

LEMMA EventsType ==
  ASSUME NEW seq \in Nat
  PROVE  /\ IsFiniteSet({n \in 1..seq : HasEvent(log[n])})
         /\ EventsUpTo(seq) \in Nat
<1>1. IsFiniteSet(1..seq)
  BY FS_Interval
<1>2. IsFiniteSet({n \in 1..seq : HasEvent(log[n])})
  BY <1>1, FS_Subset
<1>3. QED
  BY <1>2, FS_CardinalityType DEF EventsUpTo

LEMMA EventsNext ==
  ASSUME NEW seq \in Nat
  PROVE  EventsUpTo(seq + 1) = EventsUpTo(seq) + (IF HasEvent(log[seq + 1]) THEN 1 ELSE 0)
<1> DEFINE Set(s) == {n \in 1..s : HasEvent(log[n])}
<1>1. IsFiniteSet(Set(seq)) /\ seq + 1 \notin Set(seq) /\ EventsUpTo(seq) \in Nat
  BY EventsType
<1>2. CASE HasEvent(log[seq + 1])
  <2>1. Set(seq + 1) = Set(seq) \union {seq + 1}
    BY <1>2
  <2>2. Cardinality(Set(seq) \union {seq + 1}) = Cardinality(Set(seq)) + 1
    BY <1>1, FS_AddElement
  <2>3. QED
    BY <1>2, <2>1, <2>2 DEF EventsUpTo
<1>3. CASE ~HasEvent(log[seq + 1])
  <2>1. Set(seq + 1) = Set(seq)
    BY <1>3
  <2>2. QED
    BY <1>1, <1>3, <2>1 DEF EventsUpTo
<1>4. QED
  BY <1>2, <1>3

(* The log only grows. *)
LogKept == Len(log) <= Len(log') /\ \A n \in 1..Len(log) : log'[n] = log[n]

LEMMA EventsKept ==
  ASSUME TypeOK, LogKept, NEW seq \in 0..Len(log)
  PROVE  EventsUpTo(seq)' = EventsUpTo(seq)
<1>1. Len(log) \in Nat
  <2>1. log \in Seq(Records)
    BY DEF TypeOK
  <2>2. QED
    BY <2>1, Indexed
<1>2. \A n \in 1..seq : log'[n] = log[n]
  BY <1>1 DEF LogKept
<1>3. {n \in 1..seq : HasEvent(log'[n])} = {n \in 1..seq : HasEvent(log[n])}
  BY <1>2
<1>4. QED
  BY <1>3 DEF EventsUpTo, HasEvent

-----------------------------------------------------------------------------
(* What a step of the GL thread does *)

LEMMA Emitted ==
  ASSUME TypeOK, WantedInv, NEW kind \in Kinds, NEW object \in Nat, Record(kind, object)
  PROVE  /\ [kind |-> kind, object |-> object] \in Records
         /\ log' = Append(log, [kind |-> kind, object |-> object])
         /\ IF kind \in {"read", "create"} THEN wanted' = Append(wanted, Len(log) + 1)
            ELSE wanted' = wanted
<1>1. log \in Seq(Records) /\ wanted \in Seq(Nat)
  BY DEF TypeOK
<1>2. Len(log) \in Nat /\ DOMAIN log = 1..Len(log)
      /\ Len(wanted) \in Nat /\ DOMAIN wanted = 1..Len(wanted) /\ (wanted = <<>> <=> Len(wanted) = 0)
  BY <1>1, Indexed
<1>3. wanted # <<>> => ~(Len(log) + 1 <= wanted[Len(wanted)])
  <2>1. SUFFICES ASSUME wanted # <<>> PROVE ~(Len(log) + 1 <= wanted[Len(wanted)])
    OBVIOUS
  <2>2. Len(wanted) \in DOMAIN wanted
    BY <1>2, <2>1
  <2>3. wanted[Len(wanted)] \in 1..Len(log)
    BY <1>2, <2>2 DEF WantedInv
  <2>4. QED
    BY <1>2, <2>3
<1>4. QED
  BY <1>3 DEF Record, DeclareReplyRead, Declared, Records

ClientEffect ==
  /\ UNCHANGED <<eventHead, appliedSeen, replySeq, toClient, applied, placed, sentEvents, spc,
                 held, cmdHead, eventTail, sio, full, gone>>
  /\ \/ UNCHANGED <<log, wanted>>
     \/ \E rec \in Records :
          /\ log' = Append(log, rec)
          /\ \/ UNCHANGED wanted
             \/ Declared(rec) /\ wanted' = Append(wanted, Len(log) + 1)
  /\ drained' = drained \/ (drained' = eventHead /\ toServer' = toServer)
  /\ \/ toServer' = toServer
     \/ toServer' = Append(toServer, [head |-> Len(log'), tail |-> drained'])

LEMMA RecordEffect ==
  ASSUME TypeOK, WantedInv, ClientAct, NEW kind \in Kinds, NEW object \in Nat,
         Record(kind, object), drained' = drained, toServer' = toServer
  PROVE  ClientEffect
<1> DEFINE rec == [kind |-> kind, object |-> object]
<1>1. /\ rec \in Records /\ log' = Append(log, rec)
      /\ IF kind \in {"read", "create"} THEN wanted' = Append(wanted, Len(log) + 1)
         ELSE wanted' = wanted
  BY Emitted
<1>2. kind \in {"read", "create"} => Declared(rec)
  BY DEF Declared
<1>3. wanted' = wanted \/ (Declared(rec) /\ wanted' = Append(wanted, Len(log) + 1))
  BY <1>1, <1>2
<1> HIDE DEF rec
<1>4. QED
  BY <1>1, <1>3, ClientKeeps DEF ClientEffect

LEMMA ClientStepEffect ==
  ASSUME TypeOK, WantedInv, ClientAct
  PROVE  ClientEffect
<1>1. CASE FireAndForget
  <2>1. PICK kind \in {"post", "unread"} : Record(kind, NoObject)
    BY <1>1 DEF FireAndForget
  <2>2. QED
    BY <1>1, <2>1, RecordEffect DEF FireAndForget, Kinds, NoObject
<1>2. CASE Read
  BY <1>2, RecordEffect DEF Read, Kinds, NoObject
<1>3. CASE PollEntry
  BY <1>3, ClientKeeps DEF PollEntry, Flush, storeVars, ClientEffect
<1>4. CASE Create
  BY <1>4, ClientKeeps DEF Create, storeVars, ClientEffect
<1>5. CASE Park
  BY <1>5, ClientKeeps DEF Park, Flush, storeVars, ClientEffect
<1>6. CASE WaitEnds
  BY <1>6, ClientKeeps DEF WaitEnds, storeVars, ClientEffect
<1>7. CASE Drain
  BY <1>7, ClientKeeps DEF Drain, storeVars, ClientEffect
<1>8. CASE ClearAndFlush
  BY <1>8, ClientKeeps DEF ClearAndFlush, Flush, storeVars, ClientEffect
<1>9. CASE TakeAnswer
  BY <1>9, ClientKeeps DEF TakeAnswer, ClientEffect
<1>10. CASE OldestTaken
  BY <1>10, ClientKeeps DEF OldestTaken, ClientEffect
<1>11. CASE PollEnds
  <2>1. drained' = drained /\ toServer' = toServer
    BY <1>11 DEF PollEnds
  <2>2. CASE CreateEmitted
    <3>1. gl.object \in Nat
      BY DEF TypeOK, Places
    <3>2. QED
      BY <2>1, <2>2, <3>1, RecordEffect DEF CreateEmitted, Kinds
  <2>3. CASE Go("settle") /\ UNCHANGED <<log, wanted, pending, latched>>
    BY <2>1, <2>3, ClientKeeps DEF ClientEffect
  <2>4. QED
    BY <1>11, <2>2, <2>3 DEF PollEnds
<1>12. CASE Hangup
  BY <1>12, ClientKeeps DEF Hangup, storeVars, ClientEffect
<1>13. QED
  BY <1>1, <1>2, <1>3, <1>4, <1>5, <1>6, <1>7, <1>8, <1>9, <1>10, <1>11, <1>12
    DEF ClientAct, ClientStep

(* The log after it. *)
LEMMA ClientLog ==
  ASSUME TypeOK, ClientEffect
  PROVE  /\ log \in Seq(Records) /\ Len(log) \in Nat /\ DOMAIN log = 1..Len(log)
         /\ Len(log') \in Nat /\ DOMAIN log' = 1..Len(log') /\ LogKept
         /\ wanted' # wanted => Declared(log'[Len(log) + 1]) /\ Len(log') = Len(log) + 1
<1>1. log \in Seq(Records)
  BY DEF TypeOK
<1>2. Len(log) \in Nat /\ DOMAIN log = 1..Len(log)
  BY <1>1, Indexed
<1>3. CASE UNCHANGED <<log, wanted>>
  BY <1>1, <1>2, <1>3 DEF LogKept
<1>4. ASSUME NEW rec \in Records, log' = Append(log, rec),
             UNCHANGED wanted \/ (Declared(rec) /\ wanted' = Append(wanted, Len(log) + 1))
      PROVE  /\ Len(log') \in Nat /\ DOMAIN log' = 1..Len(log') /\ LogKept
             /\ wanted' # wanted => Declared(log'[Len(log) + 1]) /\ Len(log') = Len(log) + 1
  <2>1. /\ Len(log') = Len(log) + 1 /\ DOMAIN log' = 1..Len(log) + 1
        /\ \A k \in 1..Len(log) : log'[k] = log[k]
        /\ log'[Len(log) + 1] = rec
    BY <1>1, <1>4, Appended
  <2>2. QED
    BY <1>2, <1>4, <2>1 DEF LogKept
<1>5. QED
  BY <1>1, <1>2, <1>3, <1>4 DEF ClientEffect

(* The numbers of a state that satisfies TypeOK. *)
LEMMA Numbers ==
  ASSUME TypeOK
  PROVE  /\ drained \in Nat /\ eventHead \in Nat /\ appliedSeen \in Nat /\ replySeq \in Nat
         /\ cmdHead \in Nat /\ eventTail \in Nat /\ applied \in Nat /\ placed \in Nat
         /\ sentEvents \in Nat /\ EventSlots \in Nat
BY StreamAssumption DEF TypeOK

LEMMA ClientCount ==
  ASSUME TypeOK, CountInv, ClientEffect
  PROVE  CountInv'
<1>1. /\ Len(log) \in Nat /\ Len(log') \in Nat /\ LogKept
  BY ClientLog
<1>2. UNCHANGED <<eventHead, appliedSeen, applied, placed, sentEvents, spc, cmdHead, eventTail>>
      /\ (drained' = drained \/ drained' = eventHead)
  BY DEF ClientEffect
<1>3. spc = "reply" => log'[applied + 1] = log[applied + 1]
  <2>1. spc = "reply" => applied < cmdHead /\ cmdHead <= Len(log)
    BY DEF CountInv
  <2>2. spc = "reply" => applied + 1 \in 1..Len(log)
    BY <1>1, <2>1, Numbers
  <2>3. QED
    BY <1>1, <2>2 DEF LogKept
<1>4. spc = "reply" => HasAnswer(Current)'
  BY <1>2, <1>3 DEF CountInv, Current, HasAnswer
<1>5. /\ eventTail <= drained' /\ drained' <= eventHead /\ cmdHead <= Len(log')
  BY <1>1, <1>2, Numbers DEF CountInv, LogKept
<1>6. QED
  BY <1>2, <1>4, <1>5 DEF CountInv

LEMMA ClientToServer ==
  ASSUME TypeOK, CountInv, ToServerInv, ClientEffect
  PROVE  ToServerInv'
<1>0. toServer \in Seq(ServerFrames)
  BY DEF TypeOK
<1>1. /\ Len(log) \in Nat /\ Len(log') \in Nat /\ Len(log) <= Len(log')
  BY ClientLog DEF LogKept
<1>2. UNCHANGED <<cmdHead, eventTail, sio>>
  BY DEF ClientEffect
<1>3. drained \in Nat /\ drained' \in Nat /\ drained <= drained'
  BY Numbers DEF ClientEffect, CountInv
<1>4. \A k \in DOMAIN toServer : toServer[k].head \in Nat /\ toServer[k].tail \in Nat
  <2>1. \A k \in DOMAIN toServer : toServer[k] \in ServerFrames
    BY <1>0, Indexed
  <2>2. QED
    BY <2>1 DEF ServerFrames
<1>5. CASE toServer' = toServer
  <2>1. \A k \in DOMAIN toServer : toServer[k].head <= Len(log') /\ toServer[k].tail <= drained'
    BY <1>1, <1>3, <1>4 DEF ToServerInv
  <2>2. QED
    BY <1>2, <1>5, <2>1 DEF ToServerInv
<1>6. CASE toServer' = Append(toServer, [head |-> Len(log'), tail |-> drained'])
  <2> DEFINE last == Len(toServer) + 1
  <2>1. [head |-> Len(log'), tail |-> drained'] \in ServerFrames
    BY <1>1, <1>3 DEF ServerFrames
  <2>2. /\ toServer' # <<>> /\ Len(toServer) \in Nat
        /\ DOMAIN toServer = 1..Len(toServer) /\ DOMAIN toServer' = 1..last
        /\ \A k \in 1..Len(toServer) : toServer'[k] = toServer[k]
        /\ toServer'[last] = [head |-> Len(log'), tail |-> drained']
    BY <1>0, <1>6, <2>1, Appended
  <2>3. ASSUME NEW k \in DOMAIN toServer'
        PROVE  /\ cmdHead <= toServer'[k].head /\ toServer'[k].head <= Len(log')
               /\ eventTail <= toServer'[k].tail /\ toServer'[k].tail <= drained'
    <3>1. CASE k = last
      <4>1. cmdHead <= Len(log') /\ eventTail <= drained'
        BY <1>1, <1>3, Numbers DEF CountInv
      <4>2. QED
        BY <1>1, <1>3, <2>2, <3>1, <4>1
    <3>2. CASE k # last
      <4>1. k \in DOMAIN toServer /\ toServer'[k] = toServer[k]
        BY <2>2, <2>3, <3>2
      <4>2. QED
        BY <1>1, <1>3, <1>4, <4>1 DEF ToServerInv
    <3>3. QED
      BY <3>1, <3>2
  <2>4. ASSUME NEW j \in DOMAIN toServer', NEW k \in DOMAIN toServer', j < k
        PROVE  toServer'[j].head <= toServer'[k].head /\ toServer'[j].tail <= toServer'[k].tail
    <3>1. j \in DOMAIN toServer /\ toServer'[j] = toServer[j]
      BY <2>2, <2>4
    <3>2. CASE k = last
      BY <2>2, <2>3, <3>1, <3>2
    <3>3. CASE k # last
      <4>1. k \in DOMAIN toServer /\ toServer'[k] = toServer[k]
        BY <2>2, <2>4, <3>3
      <4>2. QED
        BY <2>4, <3>1, <4>1 DEF ToServerInv
    <3>4. QED
      BY <3>2, <3>3
  <2>5. QED
    BY <1>2, <2>2, <2>3, <2>4 DEF ToServerInv
<1>7. QED
  BY <1>5, <1>6 DEF ClientEffect

LEMMA ClientEvents ==
  ASSUME TypeOK, CountInv, PlacedInv, EventInv, ProgressInv, EventsPrecedeWatermark, ClientEffect
  PROVE  PlacedInv' /\ EventInv' /\ ProgressInv' /\ EventsPrecedeWatermark'
<1>1. /\ Len(log) \in Nat /\ LogKept
  BY ClientLog
<1>2. UNCHANGED <<eventHead, appliedSeen, toClient, applied, placed, sentEvents, spc>>
  BY DEF ClientEffect
<1>3. applied \in 0..Len(log) /\ appliedSeen \in 0..Len(log)
      /\ (spc \notin {"idle", "parked"} => applied + 1 \in 1..Len(log))
  BY <1>1, Numbers DEF CountInv
<1>4. \A seq \in 0..Len(log) : EventsUpTo(seq)' = EventsUpTo(seq)
  BY <1>1, EventsKept
<1>5. EventsUpTo(applied)' = EventsUpTo(applied)
      /\ EventsUpTo(appliedSeen)' = EventsUpTo(appliedSeen)
  <2>1. /\ EventsUpTo(applied)' = Cardinality({n \in 1..applied : HasEvent(log'[n])})
        /\ EventsUpTo(appliedSeen)' = Cardinality({n \in 1..appliedSeen : HasEvent(log'[n])})
    BY <1>2 DEF EventsUpTo, HasEvent
  <2>2. \A seq \in 0..Len(log) :
          Cardinality({n \in 1..seq : HasEvent(log'[n])}) = EventsUpTo(seq)
    BY <1>4 DEF EventsUpTo, HasEvent
  <2>3. QED
    BY <1>3, <2>1, <2>2
<1>6. spc \notin {"idle", "parked"} => HasEvent(Current)' = HasEvent(Current)
  BY <1>1, <1>2, <1>3 DEF LogKept, Current, HasEvent
<1>7. PlacedInv'
  BY <1>2, <1>5, <1>6 DEF PlacedInv, InHand
<1>8. EventInv'
  BY <1>2 DEF EventInv, EventAt
<1>9. ProgressInv'
  <2>1. \A k \in DOMAIN toClient : ProgressAt(k) =>
          toClient[k].applied \in 0..Len(log) /\ toClient[k].applied <= applied
    BY <1>1, <1>3, FrameTypes DEF ProgressInv
  <2>2. \A seq \in 0..Len(log) :
          Cardinality({n \in 1..seq : HasEvent(log'[n])}) = EventsUpTo(seq)
    BY <1>4 DEF EventsUpTo, HasEvent
  <2>3. \A k \in DOMAIN toClient : ProgressAt(k) =>
          Cardinality({n \in 1..toClient[k].applied : HasEvent(log'[n])})
          = EventsUpTo(toClient[k].applied)
    BY <2>1, <2>2
  <2>4. ProgressInv' <=>
          \A k \in DOMAIN toClient : ProgressAt(k) =>
            /\ toClient[k].applied <= applied
            /\ \/ Cardinality({n \in 1..toClient[k].applied : HasEvent(log'[n])}) <= eventHead
               \/ \E j \in 1..k - 1 :
                    /\ EventAt(j)
                    /\ Cardinality({n \in 1..toClient[k].applied : HasEvent(log'[n])})
                       <= toClient[j].head
    BY <1>2 DEF ProgressInv, ProgressAt, EventAt, EventsUpTo, HasEvent
  <2>5. QED
    BY <2>3, <2>4 DEF ProgressInv
<1>10. EventsPrecedeWatermark'
  BY <1>2, <1>5 DEF EventsPrecedeWatermark
<1>11. QED
  BY <1>7, <1>8, <1>9, <1>10

LEMMA ClientReplies ==
  ASSUME TypeOK, CountInv, ReplyInv, ClientEffect
  PROVE  ReplyInv'
<1>1. /\ Len(log) \in Nat /\ LogKept
  BY ClientLog
<1>2. UNCHANGED <<replySeq, toClient, applied, spc, held>>
  BY DEF ClientEffect
<1>3. applied \in 0..Len(log) /\ (spc = "apply" => applied + 1 \in 1..Len(log))
  BY <1>1, Numbers DEF CountInv
<1>4. ASSUME NEW k \in DOMAIN toClient, ReplyAt(k)
      PROVE  TrueAnswer(toClient[k].seq, toClient[k].ok)'
  <2>1. toClient[k].seq \in 1..Len(log)
    <3>1. toClient[k].seq \in Nat /\ replySeq \in Nat
      BY <1>4, FrameTypes, Numbers
    <3>2. replySeq < toClient[k].seq /\ toClient[k].seq <= applied + 1
          /\ (toClient[k].seq = applied + 1 => spc = "apply")
      BY <1>4 DEF ReplyInv
    <3>3. QED
      BY <1>1, <1>3, <3>1, <3>2, Numbers
  <2>2. log'[toClient[k].seq] = log[toClient[k].seq]
    BY <1>1, <2>1 DEF LogKept
  <2>3. TrueAnswer(toClient[k].seq, toClient[k].ok)
    BY <1>4 DEF ReplyInv
  <2>4. QED
    BY <1>2, <2>2, <2>3 DEF TrueAnswer
<1>5. QED
  <2>1. \A k \in DOMAIN toClient' : ReplyAt(k)' => ReplyAt(k)
    BY <1>2 DEF ReplyAt
  <2>2. /\ \A k \in DOMAIN toClient' : ReplyAt(k)' =>
             /\ replySeq' < toClient'[k].seq /\ toClient'[k].seq <= applied' + 1
             /\ toClient'[k].seq = applied' + 1 => spc' = "apply"
        /\ \A j, k \in DOMAIN toClient' : ReplyAt(j)' /\ ReplyAt(k)' /\ j < k =>
             toClient'[j].seq < toClient'[k].seq
        /\ replySeq' <= applied' + 1 /\ (replySeq' = applied' + 1 => spc' = "apply")
    BY <1>2, <2>1 DEF ReplyInv
  <2>3. \A k \in DOMAIN toClient' : ReplyAt(k)' => TrueAnswer(toClient[k].seq, toClient[k].ok)'
    BY <1>2, <1>4, <2>1
  <2>4. QED
    BY <2>2, <2>3 DEF ReplyInv

LEMMA ClientWanted ==
  ASSUME TypeOK, CountInv, ProgressInv, WantedInv, ClientEffect
  PROVE  WantedInv'
<1>0. wanted \in Seq(Nat)
  BY DEF TypeOK
<1>1. /\ Len(log) \in Nat /\ Len(log') \in Nat /\ DOMAIN log = 1..Len(log)
      /\ DOMAIN log' = 1..Len(log') /\ LogKept
      /\ wanted' # wanted => Declared(log'[Len(log) + 1]) /\ Len(log') = Len(log) + 1
  BY ClientLog
<1>1a. Len(log) \in Nat /\ Len(log') \in Nat
  BY <1>1
<1>1b. /\ DOMAIN log = 1..Len(log) /\ DOMAIN log' = 1..Len(log') /\ Len(log) <= Len(log')
       /\ \A n \in 1..Len(log) : log'[n] = log[n]
  BY <1>1 DEF LogKept
<1>1c. \A n \in 1..Len(log) : n \in DOMAIN log'
  BY <1>1a, <1>1b
<1>2. UNCHANGED <<appliedSeen, toClient, applied, spc>>
  BY DEF ClientEffect
<1>3. applied \in 0..Len(log) /\ appliedSeen \in 0..Len(log)
      /\ (spc \notin {"idle", "parked"} => applied + 1 \in 1..Len(log))
  BY <1>1a, Numbers DEF CountInv
<1> DEFINE Fine(seq) ==
      /\ seq \in DOMAIN log' /\ Declared(log'[seq]) /\ seq > appliedSeen
      /\ \/ Unanswered(seq)
         \/ \E k \in DOMAIN toClient : ReplyAt(k) /\ toClient[k].seq = seq
      /\ \A k \in DOMAIN toClient : ProgressAt(k) /\ toClient[k].applied >= seq =>
           \E j \in 1..k - 1 : ReplyAt(j) /\ toClient[j].seq = seq
<1>4. \A i \in DOMAIN wanted : Fine(wanted[i])
  <2>1. SUFFICES ASSUME NEW i \in DOMAIN wanted PROVE Fine(wanted[i])
    OBVIOUS
  <2>2. wanted[i] \in 1..Len(log) /\ Declared(log[wanted[i]])
    BY <1>1 DEF WantedInv
  <2>3. wanted[i] \in DOMAIN log' /\ Declared(log'[wanted[i]])
    BY <1>1b, <1>1c, <2>2
  <2>4. QED
    BY <2>3 DEF WantedInv
<1>5. ASSUME wanted' # wanted PROVE Fine(Len(log) + 1)
  <2>1. Len(log) + 1 \in DOMAIN log' /\ Declared(log'[Len(log) + 1])
    BY <1>1, <1>5
  <2>2. Len(log) + 1 > appliedSeen /\ Unanswered(Len(log) + 1)
    BY <1>1a, <1>3 DEF Unanswered
  <2>3. \A k \in DOMAIN toClient : ProgressAt(k) => ~(toClient[k].applied >= Len(log) + 1)
    BY <1>1a, <1>3, FrameTypes DEF ProgressInv
  <2>4. QED
    BY <2>1, <2>2, <2>3
<1>6. WantedInv' <=>
        /\ \A i \in DOMAIN wanted' : Fine(wanted'[i])
        /\ \A i, j \in DOMAIN wanted' : i < j => wanted'[i] < wanted'[j]
  BY <1>2 DEF WantedInv, Unanswered, ReplyAt, ProgressAt
<1> HIDE DEF Fine
<1>7. CASE wanted' = wanted
  BY <1>4, <1>6, <1>7 DEF WantedInv
<1>8. CASE wanted' # wanted
  <2>1. wanted' = Append(wanted, Len(log) + 1)
    BY <1>8 DEF ClientEffect
  <2>2. /\ Len(wanted) \in Nat /\ DOMAIN wanted = 1..Len(wanted)
        /\ DOMAIN wanted' = 1..Len(wanted) + 1
        /\ \A k \in 1..Len(wanted) : wanted'[k] = wanted[k]
        /\ wanted'[Len(wanted) + 1] = Len(log) + 1
    <3>1. Len(log) + 1 \in Nat
      BY <1>1a
    <3>2. QED
      BY <1>0, <2>1, <3>1, Appended
  <2>3. \A i \in DOMAIN wanted' : Fine(wanted'[i])
    BY <1>4, <1>5, <1>8, <2>2
  <2>4. ASSUME NEW i \in DOMAIN wanted', NEW j \in DOMAIN wanted', i < j
        PROVE  wanted'[i] < wanted'[j]
    <3>1. i \in DOMAIN wanted /\ wanted'[i] = wanted[i] /\ wanted[i] \in 1..Len(log)
      <4>1. i \in DOMAIN wanted /\ wanted'[i] = wanted[i]
        BY <2>2, <2>4
      <4>2. QED
        BY <1>1b, <4>1 DEF WantedInv
    <3>2. CASE j = Len(wanted) + 1
      BY <1>1a, <2>2, <3>1, <3>2
    <3>3. CASE j # Len(wanted) + 1
      BY <2>2, <2>4, <3>1, <3>3 DEF WantedInv
    <3>4. QED
      BY <3>2, <3>3
  <2>5. QED
    BY <1>6, <2>3, <2>4
<1>9. QED
  BY <1>7, <1>8

-----------------------------------------------------------------------------
(* The window of deferred creates *)

(* The numbers of the records the GL thread has to do with. *)
LEMMA DueInLog ==
  ASSUME TypeOK, WindowInv
  PROVE  Due \subseteq DOMAIN log
BY DEF WindowInv, PendingInv, PlaceInv, Due

LEMMA PendingKept ==
  ASSUME TypeOK, PendingInv, ClientEffect, pending' = pending,
         \A n \in DOMAIN log' : n \notin DOMAIN log /\ log'[n].kind = "create"
                                  => log'[n].object # NoObject
  PROVE  PendingInv'
<1>1. /\ DOMAIN log = 1..Len(log) /\ DOMAIN log' = 1..Len(log')
      /\ Len(log) \in Nat /\ Len(log') \in Nat /\ LogKept
  BY ClientLog
<1>2. \A n \in DOMAIN log : n \in DOMAIN log' /\ log'[n] = log[n]
  BY <1>1 DEF LogKept
<1>3. QED
  BY <1>2 DEF PendingInv

LEMMA PlaceKept ==
  ASSUME TypeOK, PlaceInv, ClientEffect, pending' = pending, gl'.seq = gl.seq,
         gl'.object = gl.object, Waiting' => Waiting,
         gl'.pc \in {"settle", "oldest", "poll", "peek"} =>
           gl.pc \in {"settle", "oldest", "poll", "peek"},
         gl'.pc \in {"settle", "oldest", "peek"} => pending # <<>>,
         gl'.pc \in {"park", "wait", "take"} => gl.seq # 0,
         gl'.pc = "take" => gl.seq <= appliedSeen,
         gl'.pc = "gone" => gone
  PROVE  PlaceInv'
<1>1. /\ DOMAIN log = 1..Len(log) /\ DOMAIN log' = 1..Len(log')
      /\ Len(log) \in Nat /\ Len(log') \in Nat /\ LogKept
  BY ClientLog
<1>2. \A n \in DOMAIN log : n \in DOMAIN log' /\ log'[n] = log[n]
  BY <1>1 DEF LogKept
<1>3. UNCHANGED <<appliedSeen, gone>>
  BY DEF ClientEffect
<1>4. ASSUME Waiting'
      PROVE  /\ gl'.seq \in DOMAIN log' /\ \A i \in DOMAIN pending' : pending'[i] # gl'.seq
             /\ log'[gl'.seq].kind = "create" => log'[gl'.seq].object = gl'.object
  <2>1. /\ gl.seq \in DOMAIN log /\ \A i \in DOMAIN pending : pending[i] # gl.seq
        /\ log[gl.seq].kind = "create" => log[gl.seq].object = gl.object
    BY <1>4 DEF PlaceInv
  <2>2. QED
    BY <1>2, <2>1
<1>5. QED
  BY <1>3, <1>4 DEF PlaceInv

(* The GL thread starts to wait for the record it has just emitted, or     *)
(* defers it.                                                              *)
LEMMA EmittedWindow ==
  ASSUME TypeOK, WindowInv, ClientAct, WantedInv,
         NEW kind \in Kinds, NEW object \in Nat, Record(kind, object),
         kind = "create" => object # NoObject
  PROVE  /\ \A n \in DOMAIN log' : n \notin DOMAIN log /\ log'[n].kind = "create"
                                     => log'[n].object # NoObject
         /\ Len(log) + 1 \in DOMAIN log' /\ Len(log) + 1 \notin DOMAIN log
         /\ log'[Len(log) + 1] = [kind |-> kind, object |-> object]
         /\ \A n \in DOMAIN log : n \in DOMAIN log' /\ log'[n] = log[n] /\ n < Len(log) + 1
         /\ \A i \in DOMAIN pending : pending[i] # Len(log) + 1
<1>1. log \in Seq(Records)
  BY DEF TypeOK
<1>2. [kind |-> kind, object |-> object] \in Records
      /\ log' = Append(log, [kind |-> kind, object |-> object])
  BY Emitted
<1>3. /\ Len(log) \in Nat /\ DOMAIN log = 1..Len(log) /\ DOMAIN log' = 1..Len(log) + 1
      /\ \A k \in 1..Len(log) : log'[k] = log[k]
      /\ log'[Len(log) + 1] = [kind |-> kind, object |-> object]
  BY <1>1, <1>2, Appended
<1>4. \A n \in DOMAIN log' : n \notin DOMAIN log => n = Len(log) + 1
  BY <1>3
<1>5. \A n \in DOMAIN log : n \in DOMAIN log' /\ log'[n] = log[n] /\ n < Len(log) + 1
  BY <1>3
<1>6. Len(log) + 1 \in DOMAIN log' /\ Len(log) + 1 \notin DOMAIN log
  BY <1>3
<1>7. \A i \in DOMAIN pending : pending[i] # Len(log) + 1
  BY <1>6 DEF WindowInv, PendingInv
<1>8. \A n \in DOMAIN log' : n \notin DOMAIN log /\ log'[n].kind = "create"
                               => log'[n].object # NoObject
  BY <1>3, <1>4
<1>9. QED
  BY <1>3, <1>5, <1>6, <1>7, <1>8


LEMMA Went ==
  ASSUME TypeOK, NEW pc, Go(pc)
  PROVE  gl'.pc = pc /\ gl'.seq = gl.seq /\ gl'.object = gl.object /\ gl'.block = gl.block
BY DEF TypeOK, Go, Places

LEMMA ClientWindow ==
  ASSUME TypeOK, WindowInv, WantedInv, ClientAct
  PROVE  WindowInv'
<1>0. /\ ClientEffect /\ gl \in Places /\ pending \in Seq(Nat) /\ Len(log) \in Nat
  BY ClientStepEffect, ClientLog DEF TypeOK
<1>1. CASE FireAndForget
  <2>1. PICK kind \in {"post", "unread"} : Record(kind, NoObject)
    BY <1>1 DEF FireAndForget
  <2>2. \A n \in DOMAIN log' : n \notin DOMAIN log /\ log'[n].kind = "create"
                                 => log'[n].object # NoObject
    BY <2>1, EmittedWindow DEF Kinds, NoObject
  <2>3. pending' = pending /\ gl' = gl /\ gl.pc = "run"
    BY <1>1 DEF FireAndForget
  <2>4. PendingInv'
    BY <1>0, <2>2, <2>3, PendingKept DEF WindowInv
  <2>5. ~Waiting'
    BY <2>3 DEF Waiting
  <2>6. PlaceInv'
    BY <2>3, <2>5 DEF PlaceInv
  <2>7. QED
    BY <2>4, <2>6 DEF WindowInv
<1>2. CASE Read
  <2>1. Record("read", NoObject) /\ pending' = pending /\ gl.pc = "run"
        /\ gl' = [gl EXCEPT !.pc = "park", !.seq = Len(log) + 1]
    BY <1>2 DEF Read
  <2>2. /\ \A n \in DOMAIN log' : n \notin DOMAIN log /\ log'[n].kind = "create"
                                    => log'[n].object # NoObject
        /\ Len(log) + 1 \in DOMAIN log'
        /\ log'[Len(log) + 1] = [kind |-> "read", object |-> NoObject]
        /\ \A i \in DOMAIN pending : pending[i] # Len(log) + 1
    BY <2>1, EmittedWindow DEF Kinds, NoObject
  <2>3. PendingInv'
    BY <1>0, <2>1, <2>2, PendingKept DEF WindowInv
  <2>4. gl'.pc = "park" /\ gl'.seq = Len(log) + 1 /\ gl'.seq # 0
    BY <1>0, <2>1 DEF Places
  <2>5. PlaceInv'
    BY <2>1, <2>2, <2>4 DEF PlaceInv, Waiting
  <2>6. QED
    BY <2>3, <2>5 DEF WindowInv
<1>3. CASE PollEntry
  <2>1. gl'.pc = "drain" /\ gl'.seq = 0 /\ pending' = pending /\ log' = log
    BY <1>0, <1>3 DEF PollEntry, Places
  <2>2. PendingInv'
    BY <1>0, <2>1, PendingKept DEF WindowInv
  <2>3. PlaceInv'
    BY <2>1 DEF PlaceInv, Waiting
  <2>4. QED
    BY <2>2, <2>3 DEF WindowInv
<1>4. CASE Create
  <2>1. PICK o \in (1..Objects) \ latched :
          gl' = [gl EXCEPT !.object = o, !.block = o \in suspects,
                           !.pc = IF o \in suspects /\ pending # <<>> THEN "settle" ELSE "poll"]
    BY <1>4 DEF Create
  <2>2. pending' = pending /\ log' = log /\ o # NoObject
    BY <1>4, StreamAssumption DEF Create, NoObject
  <2>3. gl'.object = o /\ (gl'.pc = "poll" \/ (gl'.pc = "settle" /\ pending # <<>>))
    BY <1>0, <2>1 DEF Places
  <2>4. PendingInv'
    BY <1>0, <2>2, PendingKept DEF WindowInv
  <2>5. PlaceInv'
    BY <2>2, <2>3 DEF PlaceInv, Waiting
  <2>6. QED
    BY <2>4, <2>5 DEF WindowInv
<1>5. ASSUME NEW pc, Go(pc), pending' = pending, log' = log,
             \/ /\ gl.pc \in {"park", "wait", "drain", "clear"}
                /\ pc \in {"wait", "drain", "clear", "take", "park"}
             \/ pc \in {"run", "settle", "oldest", "peek", "gone"},
             pc \in {"settle", "oldest", "peek"} =>
               gl.pc \in {"settle", "oldest", "poll", "peek"} /\ pending # <<>>,
             pc \in {"park", "wait", "take"} => gl.seq # 0,
             pc = "take" => gl.seq <= appliedSeen, pc = "gone" => gone
      PROVE  WindowInv'
  <2>1. gl'.pc = pc /\ gl'.seq = gl.seq /\ gl'.object = gl.object
    BY <1>5, Went
  <2>2. PendingInv'
    BY <1>0, <1>5, PendingKept DEF WindowInv
  <2>3. Waiting' => Waiting
    BY <1>5, <2>1 DEF Waiting
  <2>4. PlaceInv'
    BY <1>0, <1>5, <2>1, <2>3, PlaceKept DEF WindowInv
  <2>5. QED
    BY <2>2, <2>4 DEF WindowInv
<1>6. CASE Park
  <2>1. /\ gl.pc \in {"park", "settle", "poll"} /\ (gl.pc = "poll" => pending # <<>>)
        /\ Go(CASE gl.pc = "park" -> "wait" [] gl.pc = "settle" -> "oldest"
              [] gl.pc = "poll" -> "peek")
        /\ pending' = pending /\ log' = log
    BY <1>6 DEF Park
  <2>2. (gl.pc = "settle" => pending # <<>>) /\ (gl.pc = "park" => gl.seq # 0)
    BY DEF WindowInv, PlaceInv
  <2>3. CASE gl.pc = "park"
    <3>1. Go("wait")
      BY <2>1, <2>3
    <3>2. QED
      BY <1>5, <2>1, <2>2, <2>3, <3>1
  <2>4. CASE gl.pc = "settle"
    <3>1. Go("oldest")
      BY <2>1, <2>4
    <3>2. QED
      BY <1>5, <2>1, <2>2, <2>4, <3>1
  <2>5. CASE gl.pc = "poll"
    <3>1. Go("peek")
      BY <2>1, <2>5
    <3>2. QED
      BY <1>5, <2>1, <2>2, <2>5, <3>1
  <2>6. QED
    BY <2>1, <2>3, <2>4, <2>5
<1>7. CASE WaitEnds
  BY <1>5, <1>7 DEF WaitEnds
<1>8. CASE Drain
  BY <1>5, <1>8 DEF Drain
<1>9. CASE ClearAndFlush
  <2>1. /\ gl.pc = "clear" /\ pending' = pending /\ log' = log
        /\ Go(IF gl.seq = 0 THEN "run" ELSE IF appliedSeen >= gl.seq THEN "take" ELSE "park")
    BY <1>9 DEF ClearAndFlush
  <2>2. CASE gl.seq = 0
    <3>1. Go("run")
      BY <2>1, <2>2
    <3>2. QED
      BY <1>5, <2>1, <3>1
  <2>3. CASE gl.seq # 0 /\ appliedSeen >= gl.seq
    <3>1. Go("take")
      BY <2>1, <2>3
    <3>2. gl.seq <= appliedSeen
      BY <1>0, <2>3, Numbers DEF Places
    <3>3. QED
      BY <1>5, <2>1, <2>3, <3>1, <3>2
  <2>4. CASE gl.seq # 0 /\ ~(appliedSeen >= gl.seq)
    <3>1. Go("park")
      BY <2>1, <2>4
    <3>2. QED
      BY <1>5, <2>1, <2>4, <3>1
  <2>5. QED
    BY <2>2, <2>3, <2>4
<1>10. CASE TakeAnswer
  BY <1>5, <1>10 DEF TakeAnswer
<1>11. CASE OldestTaken
  <2>1. pending' = Tail(pending) /\ gl.pc \in {"oldest", "peek"} /\ Go("poll") /\ log' = log
    BY <1>11 DEF OldestTaken
  <2>2. pending # <<>> /\ gl.object # NoObject
    BY <2>1 DEF WindowInv, PlaceInv
  <2>3. /\ Len(pending) \in Nat /\ Len(pending') = Len(pending) - 1
        /\ DOMAIN pending = 1..Len(pending) /\ DOMAIN pending' = 1..Len(pending) - 1
        /\ \A k \in 1..Len(pending) - 1 : k + 1 \in 1..Len(pending) /\ pending'[k] = pending[k + 1]
    BY <1>0, <2>1, <2>2, Shortened
  <2>4. gl'.pc = "poll" /\ gl'.object # NoObject
    BY <2>1, <2>2, Went
  <2>5. PlaceInv'
    BY <2>4 DEF PlaceInv, Waiting
  <2>6. Len(pending') <= Window
    BY <2>3, StreamAssumption DEF WindowInv, PendingInv
  <2>7. ASSUME NEW i \in DOMAIN pending'
        PROVE  pending'[i] \in DOMAIN log /\ log[pending'[i]].kind = "create"
    BY <2>3, <2>7 DEF WindowInv, PendingInv
  <2>8. ASSUME NEW i \in DOMAIN pending', NEW j \in DOMAIN pending', i < j
        PROVE  pending'[i] < pending'[j]
    <3>1. /\ i + 1 \in DOMAIN pending /\ j + 1 \in DOMAIN pending /\ i + 1 < j + 1
          /\ pending'[i] = pending[i + 1] /\ pending'[j] = pending[j + 1]
      BY <2>3, <2>8
    <3>2. QED
      BY <3>1 DEF WindowInv, PendingInv
  <2>9. PendingInv'
    BY <2>1, <2>6, <2>7, <2>8 DEF WindowInv, PendingInv
  <2>10. QED
    BY <2>5, <2>9 DEF WindowInv
<1>12. CASE PollEnds
  <2>0. gl.pc \in {"poll", "peek"} /\ gl.object # NoObject /\ gl.object \in Nat
    BY <1>0, <1>12 DEF PollEnds, WindowInv, PlaceInv, Places
  <2>1. CASE WindowFull /\ ~gl.block
    <3>1. Go("settle") /\ pending' = pending /\ log' = log
      BY <1>12, <2>1 DEF PollEnds
    <3>2. pending # <<>>
      <4>1. Len(pending) \in Nat /\ (pending = <<>> <=> Len(pending) = 0) /\ Len(pending) >= Window
        BY <1>0, <2>1, Indexed DEF WindowFull
      <4>2. QED
        BY <4>1, StreamAssumption
    <3>3. QED
      BY <1>5, <2>0, <3>1, <3>2
  <2>2. CASE ~(WindowFull /\ ~gl.block)
    <3>1. CreateEmitted
      BY <1>12, <2>2 DEF PollEnds
    <3>2. Record("create", gl.object)
      BY <3>1 DEF CreateEmitted
    <3>3. /\ \A n \in DOMAIN log' : n \notin DOMAIN log /\ log'[n].kind = "create"
                                      => log'[n].object # NoObject
          /\ Len(log) + 1 \in DOMAIN log' /\ Len(log) + 1 \notin DOMAIN log
          /\ log'[Len(log) + 1] = [kind |-> "create", object |-> gl.object]
          /\ \A n \in DOMAIN log : n \in DOMAIN log' /\ log'[n] = log[n] /\ n < Len(log) + 1
          /\ \A i \in DOMAIN pending : pending[i] # Len(log) + 1
      BY <2>0, <3>2, EmittedWindow DEF Kinds
    <3>4. CASE gl.block
      <4>1. gl' = [gl EXCEPT !.pc = "park", !.seq = Len(log) + 1] /\ pending' = pending
        BY <3>1, <3>4 DEF CreateEmitted
      <4>2. gl'.pc = "park" /\ gl'.seq = Len(log) + 1 /\ gl'.object = gl.object /\ gl'.seq # 0
        BY <1>0, <4>1 DEF Places
      <4>3. PendingInv'
        BY <1>0, <3>3, <4>1, PendingKept DEF WindowInv
      <4>4. PlaceInv'
        BY <3>3, <4>1, <4>2 DEF PlaceInv, Waiting
      <4>5. QED
        BY <4>3, <4>4 DEF WindowInv
    <3>5. CASE ~gl.block
      <4>1. gl' = [gl EXCEPT !.pc = "run"] /\ pending' = Append(pending, Len(log) + 1)
        BY <3>1, <3>5 DEF CreateEmitted
      <4>2. gl'.pc = "run"
        BY <1>0, <4>1 DEF Places
      <4>3. PlaceInv'
        BY <4>2 DEF PlaceInv, Waiting
      <4>4. Len(log) + 1 \in Nat
        BY <1>0
      <4>5. /\ Len(pending) \in Nat /\ Len(pending') = Len(pending) + 1
            /\ DOMAIN pending = 1..Len(pending) /\ DOMAIN pending' = 1..Len(pending) + 1
            /\ \A k \in 1..Len(pending) : pending'[k] = pending[k]
            /\ pending'[Len(pending) + 1] = Len(log) + 1
        BY <1>0, <4>1, <4>4, Appended
      <4>6. Len(pending') <= Window
        BY <2>2, <3>5, <4>5, StreamAssumption DEF WindowFull
      <4>7. ASSUME NEW i \in DOMAIN pending'
            PROVE  pending'[i] \in DOMAIN log' /\ log'[pending'[i]].kind = "create"
        BY <3>3, <4>5, <4>7 DEF WindowInv, PendingInv
      <4>8. ASSUME NEW i \in DOMAIN pending', NEW j \in DOMAIN pending', i < j
            PROVE  pending'[i] < pending'[j]
        <5>1. i \in DOMAIN pending /\ pending'[i] = pending[i] /\ pending[i] < Len(log) + 1
          BY <3>3, <4>5, <4>8 DEF WindowInv, PendingInv
        <5>2. CASE j = Len(pending) + 1
          BY <4>5, <5>1, <5>2
        <5>3. CASE j # Len(pending) + 1
          BY <4>5, <4>8, <5>1, <5>3 DEF WindowInv, PendingInv
        <5>4. QED
          BY <5>2, <5>3
      <4>9. \A n \in DOMAIN log' : log'[n].kind = "create" => log'[n].object # NoObject
        BY <3>3 DEF WindowInv, PendingInv
      <4>10. PendingInv'
        BY <4>6, <4>7, <4>8, <4>9 DEF PendingInv
      <4>11. QED
        BY <4>3, <4>10 DEF WindowInv
    <3>6. QED
      BY <1>0, <3>4, <3>5 DEF Places
  <2>3. QED
    BY <2>1, <2>2
<1>13. CASE Hangup
  BY <1>5, <1>13 DEF Hangup
<1>14. QED
  BY <1>1, <1>2, <1>3, <1>4, <1>6, <1>7, <1>8, <1>9, <1>10, <1>11, <1>12, <1>13
    DEF ClientAct, ClientStep


-----------------------------------------------------------------------------
(* The answers the GL thread reads *)

LEMMA Pending ==
  ASSUME TypeOK, WindowInv
  PROVE  /\ Len(pending) \in Nat /\ DOMAIN pending = 1..Len(pending)
         /\ \A i \in DOMAIN pending : pending[i] \in Nat
BY Indexed DEF TypeOK

(* The records already emitted keep their answers' meaning. *)
LEMMA TrueKept ==
  ASSUME TypeOK, WindowInv, LogKept, held \subseteq held', NEW seq \in Due, NEW ok,
         TrueAnswer(seq, ok)
  PROVE  TrueAnswer(seq, ok)'
<1>1. log \in Seq(Records)
  BY DEF TypeOK
<1>2. seq \in 1..Len(log)
  BY <1>1, DueInLog, Indexed
<1>3. log'[seq] = log[seq]
  BY <1>2 DEF LogKept
<1>4. QED
  BY <1>3 DEF TrueAnswer

LEMMA StoreKept ==
  ASSUME TypeOK, WindowInv, StoreInv, LogKept, held \subseteq held',
         gl'.pc # "gone" => gl.pc # "gone",
         Due' = Due, wanted' = wanted, retained' = retained
  PROVE  StoreInv'
<1>1. SUFFICES ASSUME gl'.pc # "gone" PROVE StoreOf(Due, wanted, retained)'
  BY DEF StoreInv
<1>2. StoreOf(Due, wanted, retained)
  BY <1>1 DEF StoreInv
<1>3. \A a \in retained : TrueAnswer(a.seq, a.ok)'
  BY <1>2, TrueKept DEF StoreOf
<1>4. QED
  BY <1>2, <1>3 DEF StoreOf

(* The answer of the record just emitted is due, and declared. *)
LEMMA StoreEmitted ==
  ASSUME TypeOK, WindowInv, StoreInv, LogKept, held \subseteq held', gl.pc # "gone",
         Due' = Due \union {Len(log) + 1}, wanted' = Append(wanted, Len(log) + 1),
         retained' = retained
  PROVE  StoreInv'
<1>1. StoreOf(Due, wanted, retained)
  BY DEF StoreInv
<1>2. \A a \in retained : TrueAnswer(a.seq, a.ok)'
  BY <1>1, TrueKept DEF StoreOf
<1>3. Len(log) \in Nat /\ Len(log) + 1 \notin Due
  <2>1. log \in Seq(Records)
    BY DEF TypeOK
  <2>2. Len(log) \in Nat /\ DOMAIN log = 1..Len(log)
    BY <2>1, Indexed
  <2>3. Len(log) + 1 \notin DOMAIN log
    BY <2>2
  <2>4. QED
    BY <2>2, <2>3, DueInLog
<1>4. /\ DOMAIN wanted = 1..Len(wanted) /\ DOMAIN wanted' = 1..Len(wanted) + 1
      /\ Len(wanted) \in Nat
      /\ \A k \in 1..Len(wanted) : wanted'[k] = wanted[k]
      /\ wanted'[Len(wanted) + 1] = Len(log) + 1
  <2>1. wanted \in Seq(Nat) /\ Len(log) + 1 \in Nat
    BY <1>3 DEF TypeOK
  <2>2. QED
    BY <2>1, Appended
<1>5. \A seq \in Due' :
        (\E i \in DOMAIN wanted' : wanted'[i] = seq) \/ \E a \in retained : a.seq = seq
  <2>1. SUFFICES ASSUME NEW seq \in Due', ~ \E a \in retained : a.seq = seq
                 PROVE  \E i \in DOMAIN wanted' : wanted'[i] = seq
    OBVIOUS
  <2>2. CASE seq = Len(log) + 1
    BY <1>4, <2>2
  <2>3. CASE seq # Len(log) + 1
    <3>1. PICK i \in DOMAIN wanted : wanted[i] = seq
      BY <1>1, <2>1, <2>3 DEF StoreOf
    <3>2. i \in DOMAIN wanted' /\ wanted'[i] = seq
      BY <1>4, <3>1
    <3>3. QED
      BY <3>2
  <2>4. QED
    BY <2>2, <2>3
<1>6. \A i \in DOMAIN wanted' : wanted'[i] \in Due' /\ \A a \in retained : a.seq # wanted'[i]
  <2>1. SUFFICES ASSUME NEW i \in DOMAIN wanted'
                 PROVE  wanted'[i] \in Due' /\ \A a \in retained : a.seq # wanted'[i]
    OBVIOUS
  <2>2. CASE i = Len(wanted) + 1
    BY <1>1, <1>3, <1>4, <2>2 DEF StoreOf
  <2>3. CASE i # Len(wanted) + 1
    <3>1. i \in DOMAIN wanted /\ wanted'[i] = wanted[i]
      BY <1>4, <2>1, <2>3
    <3>2. QED
      BY <1>1, <3>1 DEF StoreOf
  <2>4. QED
    BY <2>2, <2>3
<1>7. StoreOf(Due, wanted, retained)'
  BY <1>1, <1>2, <1>5, <1>6 DEF StoreOf
<1>8. QED
  BY <1>7 DEF StoreInv

(* An answer that is due and whose record is applied is there: reading it  *)
(* takes it.                                                               *)
LEMMA Taken ==
  ASSUME TypeOK, WindowInv, WantedInv, StoreInv, gl.pc # "gone",
         NEW seq \in Due, seq <= appliedSeen, ReadReply(seq)
  PROVE  /\ failed' = failed
         /\ \E answer \in retained : answer.seq = seq /\ retained' = retained \ {answer}
         /\ Accepted(seq) => TrueAnswer(seq, TRUE)
<1>1. StoreOf(Due, wanted, retained)
  BY DEF StoreInv
<1>2. \A i \in DOMAIN wanted : wanted[i] # seq
  <2>1. log \in Seq(Records) /\ wanted \in Seq(Nat)
    BY DEF TypeOK
  <2>2. DOMAIN log = 1..Len(log) /\ Len(log) \in Nat
        /\ \A i \in DOMAIN wanted : wanted[i] \in Nat
    BY <2>1, Indexed
  <2>3. seq \in Nat
    BY <2>2, DueInLog
  <2>4. \A i \in DOMAIN wanted : wanted[i] > appliedSeen
    BY DEF WantedInv
  <2>5. QED
    BY <2>2, <2>3, <2>4, Numbers
<1>3. \E answer \in retained : answer.seq = seq
  BY <1>1, <1>2 DEF StoreOf
<1>4. Accepted(seq) => TrueAnswer(seq, TRUE)
  BY <1>1 DEF Accepted, StoreOf
<1>5. QED
  BY <1>3, <1>4 DEF ReadReply, TakeReply

LEMMA StoreTaken ==
  ASSUME TypeOK, WindowInv, StoreInv, LogKept, held \subseteq held', gl.pc # "gone",
         NEW answer \in retained, retained' = retained \ {answer}, wanted' = wanted,
         Due' = Due \ {answer.seq}
  PROVE  StoreInv'
<1>1. StoreOf(Due, wanted, retained)
  BY DEF StoreInv
<1>2. \A a \in retained : TrueAnswer(a.seq, a.ok)'
  BY <1>1, TrueKept DEF StoreOf
<1>3. \A a \in retained' : a \in retained /\ a.seq # answer.seq
  BY <1>1 DEF StoreOf
<1>4. \A seq \in Due' :
        (\E i \in DOMAIN wanted : wanted[i] = seq) \/ \E a \in retained' : a.seq = seq
  BY <1>1 DEF StoreOf
<1>5. \A i \in DOMAIN wanted : wanted[i] # answer.seq
  BY <1>1 DEF StoreOf
<1>6. StoreOf(Due, wanted, retained)'
  BY <1>1, <1>2, <1>3, <1>4, <1>5 DEF StoreOf
<1>7. QED
  BY <1>6 DEF StoreInv

LEMMA LatchKept ==
  ASSUME TypeOK, WindowInv, SettledLatchIsTrue, LogKept, held \subseteq held',
         latched' = latched, pending' = pending
  PROVE  SettledLatchIsTrue'
<1>1. log \in Seq(Records)
  BY DEF TypeOK
<1>2. DOMAIN log = 1..Len(log)
  BY <1>1, Indexed
<1>3. \A i \in DOMAIN pending : pending[i] \in 1..Len(log)
  BY <1>2 DEF WindowInv, PendingInv
<1>4. \A i \in DOMAIN pending : log'[pending[i]] = log[pending[i]]
  BY <1>3 DEF LogKept
<1>5. Deferred' = Deferred
  BY <1>4 DEF Deferred
<1>6. QED
  BY <1>5 DEF SettledLatchIsTrue

LEMMA ClientStore ==
  ASSUME TypeOK, WindowInv, WantedInv, StoreInv, SettledLatchIsTrue, NothingIsFatal, ClientAct
  PROVE  StoreInv' /\ SettledLatchIsTrue' /\ NothingIsFatal'
<1>0. /\ ClientEffect /\ gl \in Places /\ LogKept /\ Len(log) \in Nat
      /\ held \subseteq held'
  BY ClientStepEffect, ClientLog DEF TypeOK, ClientEffect
<1>1. Up => gl.pc # "gone"
  BY DEF Up, WindowInv, PlaceInv
<1>2. ASSUME NEW kind \in {"read", "create"}, NEW object \in Nat, Record(kind, object)
      PROVE  wanted' = Append(wanted, Len(log) + 1)
  BY <1>2, Emitted DEF Kinds
<1>3. CASE FireAndForget
  <2>1. PICK kind \in {"post", "unread"} : Record(kind, NoObject)
    BY <1>3 DEF FireAndForget
  <2>2. wanted' = wanted
    BY <2>1, Emitted DEF Kinds, NoObject
  <2>3. UNCHANGED <<gl, pending, latched, retained, failed>> /\ gl.pc = "run"
    BY <1>3 DEF FireAndForget
  <2>4. Due' = Due
    BY <2>3 DEF Due, Waiting
  <2>5. QED
    BY <1>0, <2>2, <2>3, <2>4, StoreKept, LatchKept DEF NothingIsFatal
<1>4. CASE Read
  <2>1. Record("read", NoObject) /\ gl.pc = "run" /\ UNCHANGED <<pending, latched, retained, failed>>
        /\ gl' = [gl EXCEPT !.pc = "park", !.seq = Len(log) + 1]
    BY <1>4 DEF Read
  <2>2. gl'.pc = "park" /\ gl'.seq = Len(log) + 1 /\ gl'.seq # 0
    BY <1>0, <2>1 DEF Places
  <2>3. Due' = Due \union {Len(log) + 1}
    BY <2>1, <2>2 DEF Due, Waiting
  <2>4. wanted' = Append(wanted, Len(log) + 1)
    BY <1>2, <2>1 DEF NoObject
  <2>5. StoreInv'
    BY <1>0, <2>1, <2>3, <2>4, StoreEmitted
  <2>6. QED
    BY <1>0, <2>1, <2>5, LatchKept DEF NothingIsFatal
<1>5. ASSUME UNCHANGED <<pending, latched, wanted, retained, failed>>, Up,
             Waiting' <=> Waiting, Waiting => gl'.seq = gl.seq
      PROVE  StoreInv' /\ SettledLatchIsTrue' /\ NothingIsFatal'
  <2>1. Due' = Due
    BY <1>5 DEF Due
  <2>2. QED
    BY <1>0, <1>1, <1>5, <2>1, StoreKept, LatchKept DEF NothingIsFatal
<1>6. ASSUME NEW pc, Go(pc), UNCHANGED <<pending, latched, wanted, retained, failed>>, Up,
             \/ /\ gl.pc \in {"park", "wait", "drain", "clear", "take"}
                /\ pc \in {"park", "wait", "drain", "clear", "take"} \/ gl.seq = 0
             \/ /\ gl.pc \notin {"park", "wait", "drain", "clear", "take"}
                /\ pc \notin {"park", "wait", "drain", "clear", "take"}
      PROVE  StoreInv' /\ SettledLatchIsTrue' /\ NothingIsFatal'
  <2>1. gl'.pc = pc /\ gl'.seq = gl.seq
    BY <1>6, Went
  <2>2. (Waiting' <=> Waiting) /\ (Waiting => gl'.seq = gl.seq)
    BY <1>6, <2>1 DEF Waiting
  <2>3. QED
    BY <1>5, <1>6, <2>2
<1>7. CASE PollEntry
  <2>1. gl'.pc = "drain" /\ gl'.seq = 0 /\ gl.pc = "run"
    BY <1>0, <1>7 DEF PollEntry, Places
  <2>2. ~Waiting /\ ~Waiting'
    BY <2>1 DEF Waiting
  <2>3. QED
    BY <1>5, <1>7, <2>2 DEF PollEntry, storeVars
<1>8. CASE Create
  <2>1. PICK o \in (1..Objects) \ latched :
          gl' = [gl EXCEPT !.object = o, !.block = o \in suspects,
                           !.pc = IF o \in suspects /\ pending # <<>> THEN "settle" ELSE "poll"]
    BY <1>8 DEF Create
  <2>2. gl'.pc \in {"poll", "settle"} /\ gl.pc = "run"
    BY <1>0, <1>8, <2>1 DEF Places, Create
  <2>3. ~Waiting /\ ~Waiting'
    BY <2>2 DEF Waiting
  <2>4. QED
    BY <1>5, <1>8, <2>3 DEF Create, storeVars
<1>9. CASE Park
  <2>1. /\ gl.pc \in {"park", "settle", "poll"} /\ Up
        /\ Go(CASE gl.pc = "park" -> "wait" [] gl.pc = "settle" -> "oldest"
              [] gl.pc = "poll" -> "peek")
        /\ UNCHANGED <<pending, latched, wanted, retained, failed>>
    BY <1>9 DEF Park, storeVars
  <2>2. CASE gl.pc = "park"
    <3>1. Go("wait")
      BY <2>1, <2>2
    <3>2. QED
      BY <1>6, <2>1, <2>2, <3>1
  <2>3. CASE gl.pc = "settle"
    <3>1. Go("oldest")
      BY <2>1, <2>3
    <3>2. QED
      BY <1>6, <2>1, <2>3, <3>1
  <2>4. CASE gl.pc = "poll"
    <3>1. Go("peek")
      BY <2>1, <2>4
    <3>2. QED
      BY <1>6, <2>1, <2>4, <3>1
  <2>5. QED
    BY <2>1, <2>2, <2>3, <2>4
<1>10. CASE WaitEnds
  BY <1>6, <1>10 DEF WaitEnds, storeVars
<1>11. CASE Drain
  BY <1>6, <1>11 DEF Drain, storeVars
<1>12. CASE ClearAndFlush
  <2>1. /\ gl.pc = "clear" /\ Up /\ UNCHANGED <<pending, latched, wanted, retained, failed>>
        /\ Go(IF gl.seq = 0 THEN "run" ELSE IF appliedSeen >= gl.seq THEN "take" ELSE "park")
    BY <1>12 DEF ClearAndFlush, storeVars
  <2>2. CASE gl.seq = 0
    <3>1. Go("run")
      BY <2>1, <2>2
    <3>2. QED
      BY <1>6, <2>1, <2>2, <3>1
  <2>3. CASE gl.seq # 0 /\ appliedSeen >= gl.seq
    <3>1. Go("take")
      BY <2>1, <2>3
    <3>2. QED
      BY <1>6, <2>1, <3>1
  <2>4. CASE gl.seq # 0 /\ ~(appliedSeen >= gl.seq)
    <3>1. Go("park")
      BY <2>1, <2>4
    <3>2. QED
      BY <1>6, <2>1, <3>1
  <2>5. QED
    BY <2>2, <2>3, <2>4
<1>13. CASE Hangup
  <2>1. Go("gone") /\ UNCHANGED <<pending, latched, failed>>
    BY <1>13 DEF Hangup
  <2>2. gl'.pc = "gone"
    BY <2>1, Went
  <2>3. StoreInv'
    BY <2>2 DEF StoreInv
  <2>4. QED
    BY <1>0, <2>1, <2>3, LatchKept DEF NothingIsFatal
<1>14. CASE TakeAnswer
  <2>1. /\ gl.pc = "take" /\ Up /\ ReadReply(gl.seq) /\ Go("run")
        /\ pending' = pending /\ wanted' = wanted /\ log' = log
        /\ IF Accepted(gl.seq) /\ log[gl.seq].kind = "create"
           THEN latched' = latched \union {gl.object}
           ELSE latched' = latched
    BY <1>14 DEF TakeAnswer
  <2>2. Waiting /\ gl.seq \in Due /\ gl.seq <= appliedSeen /\ gl.seq \in DOMAIN log
        /\ (\A i \in DOMAIN pending : pending[i] # gl.seq)
        /\ (log[gl.seq].kind = "create" => log[gl.seq].object = gl.object)
    BY <2>1 DEF WindowInv, PlaceInv, Waiting, Due
  <2>3. /\ failed' = failed
        /\ \E answer \in retained : answer.seq = gl.seq /\ retained' = retained \ {answer}
        /\ Accepted(gl.seq) => TrueAnswer(gl.seq, TRUE)
    BY <1>1, <2>1, <2>2, Taken
  <2>4. gl'.pc = "run"
    BY <2>1, Went
  <2>5. Due' = Due \ {gl.seq}
    <3>1. Due = {pending[i] : i \in DOMAIN pending} \union {gl.seq}
      BY <2>2 DEF Due
    <3>2. Due' = {pending[i] : i \in DOMAIN pending}
      BY <2>1, <2>4 DEF Due, Waiting
    <3>3. QED
      BY <2>2, <3>1, <3>2
  <2>6. StoreInv'
    BY <1>0, <1>1, <2>1, <2>3, <2>5, StoreTaken
  <2>7. latched' = latched \/ (latched' = latched \union {gl.object} /\ gl.object \in held)
    BY <2>1, <2>2, <2>3 DEF TrueAnswer
  <2>8. Deferred' = Deferred
    BY <2>1 DEF Deferred
  <2>9. SettledLatchIsTrue'
    BY <1>0, <2>7, <2>8 DEF SettledLatchIsTrue
  <2>10. QED
    BY <2>3, <2>6, <2>9 DEF NothingIsFatal
<1>15. CASE OldestTaken
  <2> DEFINE object == log[pending[1]].object
  <2>1. /\ gl.pc \in {"oldest", "peek"} /\ Up /\ appliedSeen >= pending[1]
        /\ ReadReply(pending[1]) /\ pending' = Tail(pending) /\ Go("poll")
        /\ wanted' = wanted /\ log' = log
        /\ IF Accepted(pending[1]) THEN latched' = latched ELSE latched' = latched \ {object}
    BY <1>15 DEF OldestTaken, Unlatch
  <2>2. pending # <<>>
    BY <2>1 DEF WindowInv, PlaceInv
  <2>3. pending \in Seq(Nat)
    BY DEF TypeOK
  <2>4. /\ Len(pending) \in Nat /\ Len(pending) > 0
        /\ DOMAIN pending = 1..Len(pending) /\ DOMAIN pending' = 1..Len(pending) - 1
        /\ \A k \in 1..Len(pending) - 1 : k + 1 \in 1..Len(pending) /\ pending'[k] = pending[k + 1]
    BY <2>1, <2>2, <2>3, Shortened
  <2>5. 1 \in DOMAIN pending /\ pending[1] \in Nat
    BY <2>3, <2>4, Indexed
  <2>6. pending[1] \in Due /\ pending[1] <= appliedSeen /\ log[pending[1]].kind = "create"
    BY <2>1, <2>5, Numbers DEF Due, WindowInv, PendingInv
  <2>7. /\ failed' = failed
        /\ \E answer \in retained : answer.seq = pending[1] /\ retained' = retained \ {answer}
        /\ Accepted(pending[1]) => TrueAnswer(pending[1], TRUE)
    BY <1>1, <2>1, <2>6, Taken
  <2>8. gl'.pc = "poll" /\ ~Waiting /\ ~Waiting'
    BY <2>1, Went DEF Waiting
  <2>9. \A i \in DOMAIN pending : i # 1 =>
          /\ i - 1 \in DOMAIN pending' /\ pending'[i - 1] = pending[i] /\ pending[i] # pending[1]
    <3>1. SUFFICES ASSUME NEW i \in DOMAIN pending, i # 1
                   PROVE  /\ i - 1 \in DOMAIN pending' /\ pending'[i - 1] = pending[i]
                          /\ pending[i] # pending[1]
      OBVIOUS
    <3>2. i - 1 \in 1..Len(pending) - 1 /\ 1 < i
      BY <2>4, <3>1
    <3>3. pending'[i - 1] = pending[i]
      BY <2>4, <3>2
    <3>4. pending[1] < pending[i]
      BY <2>5, <3>2 DEF WindowInv, PendingInv
    <3>5. QED
      BY <2>4, <2>5, <3>2, <3>3, <3>4
  <2>10. \A k \in DOMAIN pending' : \E i \in DOMAIN pending : i # 1 /\ pending'[k] = pending[i]
    BY <2>4
  <2>11. Due' = Due \ {pending[1]}
    <3>1. Due = {pending[i] : i \in DOMAIN pending}
      BY <2>8 DEF Due
    <3>2. Due' = {pending'[i] : i \in DOMAIN pending'}
      BY <2>8 DEF Due
    <3>3. QED
      BY <2>5, <2>9, <2>10, <3>1, <3>2
  <2>12. StoreInv'
    BY <1>0, <1>1, <2>1, <2>7, <2>11, StoreTaken
  <2>13. Deferred \subseteq Deferred' \union {object}
    <3>1. SUFFICES ASSUME NEW i \in DOMAIN pending, i # 1
                   PROVE  log[pending[i]].object \in Deferred'
      BY DEF Deferred
    <3>2. i - 1 \in DOMAIN pending' /\ pending'[i - 1] = pending[i]
      BY <2>9, <3>1
    <3>3. QED
      BY <2>1, <3>2 DEF Deferred
  <2>14. object \in latched' => object \in held
    BY <2>1, <2>6, <2>7 DEF TrueAnswer
  <2>15. SettledLatchIsTrue'
    BY <1>0, <2>1, <2>13, <2>14 DEF SettledLatchIsTrue
  <2>16. QED
    BY <2>7, <2>12, <2>15 DEF NothingIsFatal
<1>16. CASE PollEnds
  <2>0. Up /\ gl.pc \in {"poll", "peek"} /\ gl.object \in Nat /\ retained' = retained
        /\ failed' = failed
    BY <1>0, <1>16 DEF PollEnds, Places
  <2>1. CASE WindowFull /\ ~gl.block
    <3>1. Go("settle") /\ UNCHANGED <<wanted, pending, latched>>
      BY <1>16, <2>1 DEF PollEnds
    <3>2. QED
      BY <1>6, <2>0, <3>1
  <2>2. CASE ~(WindowFull /\ ~gl.block)
    <3>1. CreateEmitted
      BY <1>16, <2>2 DEF PollEnds
    <3>2. Record("create", gl.object)
      BY <3>1 DEF CreateEmitted
    <3>3. wanted' = Append(wanted, Len(log) + 1)
      BY <1>2, <2>0, <3>2
    <3>4. ~Waiting
      BY <2>0 DEF Waiting
    <3>5. CASE gl.block
      <4>1. gl' = [gl EXCEPT !.pc = "park", !.seq = Len(log) + 1] /\ pending' = pending
            /\ latched' = latched
        BY <3>1, <3>5 DEF CreateEmitted
      <4>2. gl'.pc = "park" /\ gl'.seq = Len(log) + 1 /\ gl'.seq # 0
        BY <1>0, <4>1 DEF Places
      <4>3. Due' = Due \union {Len(log) + 1}
        BY <3>4, <4>1, <4>2 DEF Due, Waiting
      <4>4. StoreInv'
        BY <1>0, <1>1, <2>0, <3>3, <4>3, StoreEmitted
      <4>5. QED
        BY <1>0, <2>0, <4>1, <4>4, LatchKept DEF NothingIsFatal
    <3>6. CASE ~gl.block
      <4>1. gl' = [gl EXCEPT !.pc = "run"] /\ pending' = Append(pending, Len(log) + 1)
            /\ latched' = latched \union {gl.object}
        BY <3>1, <3>6 DEF CreateEmitted
      <4>2. gl'.pc = "run"
        BY <1>0, <4>1 DEF Places
      <4>3. pending \in Seq(Nat) /\ Len(log) + 1 \in Nat
        BY <1>0 DEF TypeOK
      <4>4. /\ Len(pending) \in Nat
            /\ DOMAIN pending = 1..Len(pending) /\ DOMAIN pending' = 1..Len(pending) + 1
            /\ \A k \in 1..Len(pending) : pending'[k] = pending[k]
            /\ pending'[Len(pending) + 1] = Len(log) + 1
        BY <4>1, <4>3, Appended
      <4>5. /\ \A i \in DOMAIN pending : i \in DOMAIN pending' /\ pending'[i] = pending[i]
            /\ \A k \in DOMAIN pending' : k \in DOMAIN pending \/ k = Len(pending) + 1
            /\ Len(pending) + 1 \in DOMAIN pending'
        BY <4>4
      <4>6. Due' = Due \union {Len(log) + 1}
        <5>1. Due = {pending[i] : i \in DOMAIN pending}
          BY <3>4 DEF Due
        <5>2. Due' = {pending'[i] : i \in DOMAIN pending'}
          BY <4>2 DEF Due, Waiting
        <5>3. QED
          BY <4>4, <4>5, <5>1, <5>2
      <4>7. StoreInv'
        BY <1>0, <1>1, <2>0, <3>3, <4>6, StoreEmitted
      <4>8. /\ \A n \in DOMAIN log : log'[n] = log[n]
            /\ log'[Len(log) + 1] = [kind |-> "create", object |-> gl.object]
        BY <2>0, <3>2, EmittedWindow DEF Kinds, WindowInv, PlaceInv
      <4>9. Deferred \subseteq Deferred'
        <5>1. SUFFICES ASSUME NEW i \in DOMAIN pending
                       PROVE  log[pending[i]].object \in Deferred'
          BY DEF Deferred
        <5>2. log'[pending'[i]] = log[pending[i]]
          BY <4>5, <4>8 DEF WindowInv, PendingInv
        <5>3. QED
          BY <4>5, <5>2 DEF Deferred
      <4>10. gl.object \in Deferred'
        <5>1. log'[pending'[Len(pending) + 1]].object = gl.object
          BY <4>4, <4>8
        <5>2. QED
          BY <4>5, <5>1 DEF Deferred
      <4>11. SettledLatchIsTrue'
        BY <1>0, <4>1, <4>9, <4>10 DEF SettledLatchIsTrue
      <4>12. QED
        BY <2>0, <4>7, <4>11 DEF NothingIsFatal
    <3>7. QED
      BY <3>5, <3>6
  <2>3. QED
    BY <2>1, <2>2
<1>17. QED
  BY <1>3, <1>4, <1>7, <1>8, <1>9, <1>10, <1>11, <1>12, <1>13, <1>14, <1>15, <1>16
    DEF ClientAct, ClientStep


LEMMA ClientKeepsInv ==
  ASSUME IInv, ClientAct
  PROVE  IInv'
<1>1. ClientEffect
  BY ClientStepEffect DEF IInv
<1>2. TypeOK'
  BY ClientTypes DEF IInv
<1>3. CountInv' /\ ToServerInv'
  BY <1>1, ClientCount, ClientToServer DEF IInv
<1>4. PlacedInv' /\ EventInv' /\ ProgressInv' /\ EventsPrecedeWatermark'
  BY <1>1, ClientEvents DEF IInv
<1>5. ReplyInv' /\ WantedInv'
  BY <1>1, ClientReplies, ClientWanted DEF IInv
<1>6. WindowInv'
  BY ClientWindow DEF IInv
<1>7. StoreInv' /\ SettledLatchIsTrue' /\ NothingIsFatal'
  BY ClientStore DEF IInv
<1>8. QED
  BY <1>2, <1>3, <1>4, <1>5, <1>6, <1>7 DEF IInv

-----------------------------------------------------------------------------
(* What a step of the client's io thread does: the first frame is gone and *)
(* the others move up.                                                     *)
Popped == toClient # <<>> /\ toClient' = Tail(toClient)

LEMMA MovedUp ==
  ASSUME TypeOK, Popped
  PROVE  /\ Len(toClient) \in Nat /\ Len(toClient) > 0
         /\ DOMAIN toClient = 1..Len(toClient) /\ 1 \in DOMAIN toClient
         /\ DOMAIN toClient' = 1..Len(toClient) - 1
         /\ Head(toClient) = toClient[1]
         /\ \A k \in DOMAIN toClient' :
              k + 1 \in DOMAIN toClient /\ 1 < k + 1 /\ toClient'[k] = toClient[k + 1]
         /\ \A k \in DOMAIN toClient :
              k # 1 => k - 1 \in DOMAIN toClient' /\ toClient'[k - 1] = toClient[k] /\ 1 < k
<1>1. toClient \in Seq(Frames)
  BY DEF TypeOK
<1>2. /\ Len(toClient) \in Nat /\ Len(toClient) > 0
      /\ DOMAIN toClient = 1..Len(toClient)
      /\ DOMAIN toClient' = 1..Len(toClient) - 1
      /\ Head(toClient) = toClient[1]
      /\ \A k \in 1..Len(toClient) - 1 : 
           k + 1 \in 1..Len(toClient) /\ toClient'[k] = toClient[k + 1]
  BY <1>1, Shortened DEF Popped
<1>3. ASSUME NEW k \in DOMAIN toClient, k # 1
      PROVE  k - 1 \in DOMAIN toClient' /\ toClient'[k - 1] = toClient[k] /\ 1 < k
  <2>1. k - 1 \in 1..Len(toClient) - 1 /\ (k - 1) + 1 = k /\ 1 < k
    BY <1>2, <1>3
  <2>2. QED
    BY <1>2, <2>1
<1>4. QED
  BY <1>2, <1>3

LEMMA PoppedEvents ==
  ASSUME TypeOK, EventInv, Popped, ~EventAt(1), eventHead' = eventHead, sentEvents' = sentEvents
  PROVE  EventInv'
<1>1. \A k \in DOMAIN toClient' : EventAt(k)' => EventAt(k + 1)
  BY MovedUp DEF EventAt
<1>2. \A k \in DOMAIN toClient' : EventAt(k)' =>
        eventHead' < toClient'[k].head /\ toClient'[k].head <= sentEvents'
  BY <1>1, MovedUp DEF EventInv
<1>3. ASSUME NEW j \in DOMAIN toClient', NEW k \in DOMAIN toClient', EventAt(j)', EventAt(k)', j < k
      PROVE  toClient'[j].head < toClient'[k].head
  <2>1. j + 1 \in DOMAIN toClient /\ k + 1 \in DOMAIN toClient /\ j + 1 < k + 1
    BY <1>3, MovedUp
  <2>2. toClient[j + 1].head < toClient[k + 1].head
    BY <1>1, <1>3, <2>1 DEF EventInv
  <2>3. QED
    BY <2>2, MovedUp
<1>4. ASSUME eventHead < sentEvents
      PROVE  \E k \in DOMAIN toClient' : EventAt(k)' /\ toClient'[k].head = sentEvents
  <2>1. PICK k \in DOMAIN toClient : EventAt(k) /\ toClient[k].head = sentEvents
    BY <1>4 DEF EventInv
  <2>2. k - 1 \in DOMAIN toClient' /\ toClient'[k - 1] = toClient[k]
    BY <2>1, MovedUp
  <2>3. EventAt(k - 1)' /\ toClient'[k - 1].head = sentEvents
    BY <2>1, <2>2 DEF EventAt
  <2>4. QED
    BY <2>2, <2>3
<1>5. QED
  BY <1>2, <1>3, <1>4 DEF EventInv


LEMMA PoppedProgress ==
  ASSUME TypeOK, ProgressInv, Popped, ~EventAt(1), UNCHANGED <<eventHead, applied, log>>
  PROVE  ProgressInv'
<1>2. ASSUME NEW k \in DOMAIN toClient', ProgressAt(k)'
      PROVE  /\ toClient'[k].applied <= applied
             /\ \/ EventsUpTo(toClient[k + 1].applied) <= eventHead
                \/ \E j \in 1..k - 1 :
                     EventAt(j)' /\ EventsUpTo(toClient[k + 1].applied) <= toClient'[j].head
  <2>1. k + 1 \in DOMAIN toClient /\ toClient'[k] = toClient[k + 1] /\ ProgressAt(k + 1)
    BY <1>2, MovedUp DEF ProgressAt
  <2>2. toClient[k + 1].applied <= applied
    BY <2>1 DEF ProgressInv
  <2>3. CASE EventsUpTo(toClient[k + 1].applied) <= eventHead
    BY <2>1, <2>2, <2>3
  <2>4. CASE ~(EventsUpTo(toClient[k + 1].applied) <= eventHead)
    <3>1. k \in Nat
      BY MovedUp
    <3>2. PICK j \in 1..(k + 1) - 1 :
            EventAt(j) /\ EventsUpTo(toClient[k + 1].applied) <= toClient[j].head
      BY <2>1, <2>4 DEF ProgressInv
    <3>3. j # 1 /\ j \in DOMAIN toClient /\ j - 1 \in 1..k - 1
      BY <2>1, <3>1, <3>2, MovedUp
    <3>4. toClient'[j - 1] = toClient[j]
      BY <3>3, MovedUp
    <3>5. EventAt(j - 1)' /\ EventsUpTo(toClient[k + 1].applied) <= toClient'[j - 1].head
      BY <3>2, <3>4 DEF EventAt
    <3>6. QED
      BY <2>1, <2>2, <3>3, <3>5
  <2>5. QED
    BY <2>3, <2>4
<1>3. \A k \in DOMAIN toClient' : toClient'[k] = toClient[k + 1]
  BY MovedUp
<1>4. QED
  BY <1>2, <1>3 DEF ProgressInv, EventsUpTo, HasEvent

LEMMA PoppedReplies ==
  ASSUME TypeOK, ReplyInv, Popped, UNCHANGED <<applied, spc, log, held>>,
         \/ ~ReplyAt(1) /\ replySeq' = replySeq
         \/ ReplyAt(1) /\ replySeq' = toClient[1].seq
  PROVE  ReplyInv'
<1>1. \A k \in DOMAIN toClient' : ReplyAt(k)' => ReplyAt(k + 1)
  BY MovedUp DEF ReplyAt
<1>2. ASSUME NEW j \in DOMAIN toClient', NEW k \in DOMAIN toClient', ReplyAt(j)', ReplyAt(k)', j < k
      PROVE  toClient'[j].seq < toClient'[k].seq
  <2>1. j + 1 \in DOMAIN toClient /\ k + 1 \in DOMAIN toClient /\ j + 1 < k + 1
    BY <1>2, MovedUp
  <2>2. toClient[j + 1].seq < toClient[k + 1].seq
    BY <1>1, <1>2, <2>1 DEF ReplyInv
  <2>3. QED
    BY <2>2, MovedUp
<1>3. ASSUME NEW k \in DOMAIN toClient', ReplyAt(k)'
      PROVE  /\ replySeq' < toClient'[k].seq /\ toClient'[k].seq <= applied + 1
             /\ toClient'[k].seq = applied + 1 => spc = "apply"
             /\ TrueAnswer(toClient[k + 1].seq, toClient[k + 1].ok)
  <2>1. /\ k + 1 \in DOMAIN toClient /\ 1 < k + 1 /\ 1 \in DOMAIN toClient
        /\ toClient'[k] = toClient[k + 1] /\ ReplyAt(k + 1)
    BY <1>1, <1>3, MovedUp
  <2>2. replySeq' < toClient[k + 1].seq
    BY <2>1 DEF ReplyInv
  <2>3. QED
    BY <2>1, <2>2 DEF ReplyInv
<1>4. replySeq' <= applied + 1 /\ (replySeq' = applied + 1 => spc = "apply")
  BY MovedUp DEF ReplyInv
<1>5. \A k \in DOMAIN toClient' : toClient'[k] = toClient[k + 1]
  BY MovedUp
<1>6. QED
  BY <1>2, <1>3, <1>4, <1>5 DEF ReplyInv, TrueAnswer

(* The answers still wanted come after the one received. *)
LEMMA PoppedWanted ==
  ASSUME TypeOK, WantedInv, Popped, UNCHANGED <<applied, spc, log>>,
         \A i \in DOMAIN wanted' : \E h \in DOMAIN wanted :
            /\ wanted'[i] = wanted[h] /\ wanted[h] > appliedSeen'
            /\ ReplyAt(1) => wanted[h] # toClient[1].seq,
         \A i, j \in DOMAIN wanted' : i < j => wanted'[i] < wanted'[j]
  PROVE  WantedInv'
<1>1. ASSUME NEW i \in DOMAIN wanted'
      PROVE  /\ wanted'[i] \in DOMAIN log /\ Declared(log[wanted'[i]]) /\ wanted'[i] > appliedSeen'
             /\ \/ Unanswered(wanted'[i])
                \/ \E k \in DOMAIN toClient' : ReplyAt(k)' /\ toClient'[k].seq = wanted'[i]
             /\ \A k \in DOMAIN toClient' : ProgressAt(k)' /\ toClient'[k].applied >= wanted'[i] =>
                  \E j \in 1..k - 1 : ReplyAt(j)' /\ toClient'[j].seq = wanted'[i]
  <2>1. PICK h \in DOMAIN wanted :
            /\ wanted'[i] = wanted[h] /\ wanted[h] > appliedSeen'
            /\ ReplyAt(1) => wanted[h] # toClient[1].seq
    OBVIOUS
  <2>2. wanted[h] \in DOMAIN log /\ Declared(log[wanted[h]])
    BY DEF WantedInv
  <2>3. \/ Unanswered(wanted[h])
        \/ \E k \in DOMAIN toClient' : ReplyAt(k)' /\ toClient'[k].seq = wanted[h]
    <3>1. SUFFICES ASSUME ~Unanswered(wanted[h])
                   PROVE  \E k \in DOMAIN toClient' : ReplyAt(k)' /\ toClient'[k].seq = wanted[h]
      OBVIOUS
    <3>2. PICK k \in DOMAIN toClient : ReplyAt(k) /\ toClient[k].seq = wanted[h]
      BY <3>1 DEF WantedInv
    <3>3. k - 1 \in DOMAIN toClient' /\ toClient'[k - 1] = toClient[k]
      BY <2>1, <3>2, MovedUp
    <3>4. ReplyAt(k - 1)' /\ toClient'[k - 1].seq = wanted[h]
      BY <3>2, <3>3 DEF ReplyAt
    <3>5. QED
      BY <3>3, <3>4
  <2>4. ASSUME NEW k \in DOMAIN toClient', ProgressAt(k)', toClient'[k].applied >= wanted[h]
        PROVE  \E j \in 1..k - 1 : ReplyAt(j)' /\ toClient'[j].seq = wanted[h]
    <3>1. k + 1 \in DOMAIN toClient /\ toClient'[k] = toClient[k + 1] /\ k \in Nat
      BY MovedUp
    <3>2. ProgressAt(k + 1) /\ toClient[k + 1].applied >= wanted[h]
      BY <2>4, <3>1 DEF ProgressAt
    <3>3. PICK j \in 1..(k + 1) - 1 : ReplyAt(j) /\ toClient[j].seq = wanted[h]
      BY <3>1, <3>2 DEF WantedInv
    <3>4. j # 1 /\ j \in DOMAIN toClient /\ j - 1 \in 1..k - 1
      BY <2>1, <3>1, <3>3, MovedUp
    <3>5. toClient'[j - 1] = toClient[j]
      BY <3>4, MovedUp
    <3>6. ReplyAt(j - 1)' /\ toClient'[j - 1].seq = wanted[h]
      BY <3>3, <3>5 DEF ReplyAt
    <3>7. QED
      BY <3>4, <3>6
  <2>5. QED
    BY <2>1, <2>2, <2>3, <2>4
<1>2. QED
  BY <1>1 DEF WantedInv, Unanswered


(* What it leaves alone stays in order. *)
LEMMA ClientIoRest ==
  ASSUME IInv, ClientIo, appliedSeen <= appliedSeen'
  PROVE  /\ ToServerInv' /\ PlacedInv' /\ WindowInv' /\ SettledLatchIsTrue' /\ Popped
         /\ UNCHANGED <<glVars, toServer, srvVars, sioVars, full, gone>> /\ gl.pc # "gone"
<1>1. /\ UNCHANGED <<glVars, toServer, srvVars, sioVars, full, gone>> /\ Popped /\ Up
  BY DEF ClientIo, ReceiveEvents, ReceiveProgress, ReceiveReply, Receives, Popped
<1>2. /\ UNCHANGED <<log, gl, drained, pending, latched, toServer, applied, placed, spc, held, gone>>
      /\ UNCHANGED <<cmdHead, eventTail, sio>>
  BY <1>1 DEF glVars, srvVars, sioVars
<1>3. ToServerInv'
  BY <1>2 DEF IInv, ToServerInv
<1>4. PlacedInv'
  BY <1>2 DEF IInv, PlacedInv, InHand, Current, HasEvent, EventsUpTo
<1>5. PendingInv'
  BY <1>2 DEF IInv, WindowInv, PendingInv
<1>6. PlaceInv'
  <2>1. gl.pc = "take" => gl.seq <= appliedSeen'
    <3>1. gl.pc = "take" => gl.seq <= appliedSeen
      BY DEF IInv, WindowInv, PlaceInv
    <3>2. TypeOK /\ TypeOK'
      BY ClientIoTypes DEF IInv
    <3>3. gl.seq \in Nat /\ appliedSeen \in Nat /\ appliedSeen' \in Nat
      BY <3>2 DEF TypeOK, Places
    <3>4. QED
      BY <3>1, <3>3
  <2>2. QED
    BY <1>2, <2>1 DEF IInv, WindowInv, PlaceInv, Waiting
<1>7. SettledLatchIsTrue'
  BY <1>2 DEF IInv, SettledLatchIsTrue, Deferred
<1>8. gl.pc # "gone"
  BY <1>1 DEF IInv, WindowInv, PlaceInv, Up
<1>9. QED
  BY <1>1, <1>3, <1>4, <1>5, <1>6, <1>7, <1>8 DEF WindowInv

LEMMA ReceiveEventsKeepsInv ==
  ASSUME IInv, ReceiveEvents
  PROVE  IInv'
<1>0. TypeOK /\ TypeOK' /\ ClientIo /\ appliedSeen' = appliedSeen
  BY ClientIoTypes DEF IInv, ClientIo, ReceiveEvents
<1>1. /\ ToServerInv' /\ PlacedInv' /\ WindowInv' /\ SettledLatchIsTrue' /\ Popped
      /\ UNCHANGED <<glVars, toServer, srvVars, sioVars, full, gone>>
  BY <1>0, Numbers, ClientIoRest
<1>2. UNCHANGED <<log, gl, drained, pending, applied, placed, sentEvents, spc, held, cmdHead,
                  eventTail, wanted, retained, replySeq>>
  BY <1>1 DEF glVars, srvVars, sioVars, storeVars, ReceiveEvents
<1>3. 1 \in DOMAIN toClient /\ Head(toClient) = toClient[1] /\ EventAt(1)
  BY <1>0, <1>1, MovedUp DEF ReceiveEvents, Receives, EventAt
<1>4. toClient[1].head \in Nat /\ eventHead < toClient[1].head /\ toClient[1].head <= sentEvents
      /\ ~ReplyAt(1) /\ ~ProgressAt(1)
  BY <1>0, <1>3, FrameTypes DEF IInv, EventInv
<1>5. toClient[1].head > eventHead /\ toClient[1].head - drained <= EventSlots
  <2>1. drained <= eventHead /\ sentEvents <= placed /\ placed <= eventTail + EventSlots
        /\ eventTail <= drained
    BY DEF IInv, CountInv
  <2>2. QED
    BY <1>0, <1>4, <2>1, Numbers
<1>6. eventHead' = toClient[1].head /\ failed' = failed
  BY <1>3, <1>5 DEF ReceiveEvents
<1>7. CountInv'
  BY <1>0, <1>2, <1>4, <1>6, Numbers DEF IInv, CountInv, Current, HasAnswer
<1>8. EventInv'
  <2>1. \A k \in DOMAIN toClient' : EventAt(k)' => EventAt(k + 1)
    BY <1>0, <1>1, MovedUp DEF EventAt
  <2>2. ASSUME NEW k \in DOMAIN toClient', EventAt(k)'
        PROVE  eventHead' < toClient'[k].head /\ toClient'[k].head <= sentEvents'
    <3>1. k + 1 \in DOMAIN toClient /\ 1 < k + 1 /\ toClient'[k] = toClient[k + 1] /\ EventAt(k + 1)
      BY <1>0, <1>1, <2>1, <2>2, MovedUp
    <3>2. QED
      BY <1>2, <1>3, <1>6, <3>1 DEF IInv, EventInv
  <2>3. ASSUME NEW j \in DOMAIN toClient', NEW k \in DOMAIN toClient', EventAt(j)', EventAt(k)',
               j < k
        PROVE  toClient'[j].head < toClient'[k].head
    <3>1. j + 1 \in DOMAIN toClient /\ k + 1 \in DOMAIN toClient /\ j + 1 < k + 1
      BY <1>0, <1>1, <2>3, MovedUp
    <3>2. toClient[j + 1].head < toClient[k + 1].head
      BY <2>1, <2>3, <3>1 DEF IInv, EventInv
    <3>3. QED
      BY <1>0, <1>1, <3>2, MovedUp
  <2>4. ASSUME eventHead' < sentEvents
        PROVE  \E k \in DOMAIN toClient' : EventAt(k)' /\ toClient'[k].head = sentEvents
    <3>1. PICK k \in DOMAIN toClient : EventAt(k) /\ toClient[k].head = sentEvents
      BY <1>0, <1>4, <1>6, <2>4, Numbers DEF IInv, EventInv
    <3>2. k # 1
      BY <1>0, <1>6, <2>4, <3>1, Numbers
    <3>3. k - 1 \in DOMAIN toClient' /\ toClient'[k - 1] = toClient[k]
      BY <1>0, <1>1, <3>2, MovedUp
    <3>4. EventAt(k - 1)' /\ toClient'[k - 1].head = sentEvents
      BY <3>1, <3>3 DEF EventAt
    <3>5. QED
      BY <3>3, <3>4
  <2>5. QED
    BY <1>2, <2>2, <2>3, <2>4 DEF EventInv
<1>9. ProgressInv'
  <2>1. ASSUME NEW k \in DOMAIN toClient', ProgressAt(k)'
        PROVE  /\ toClient'[k].applied <= applied
               /\ \/ EventsUpTo(toClient'[k].applied) <= eventHead'
                  \/ \E j \in 1..k - 1 :
                       EventAt(j)' /\ EventsUpTo(toClient'[k].applied) <= toClient'[j].head
    <3>1. k + 1 \in DOMAIN toClient /\ toClient'[k] = toClient[k + 1] /\ ProgressAt(k + 1) /\ k \in Nat
      BY <1>0, <1>1, <2>1, MovedUp DEF ProgressAt
    <3>2. toClient[k + 1].applied <= applied /\ toClient[k + 1].applied \in Nat
      BY <1>0, <3>1, FrameTypes DEF IInv, ProgressInv
    <3> DEFINE count == EventsUpTo(toClient[k + 1].applied)
    <3>3. count \in Nat
      BY <3>2, EventsType
    <3>4. CASE count <= eventHead
      <4>1. count <= eventHead'
        BY <1>0, <1>4, <1>6, <3>3, <3>4, Numbers
      <4>2. QED
        BY <3>1, <3>2, <4>1
    <3>5. CASE ~(count <= eventHead)
      <4>1. PICK j \in 1..(k + 1) - 1 : EventAt(j) /\ count <= toClient[j].head
        BY <3>1, <3>5 DEF IInv, ProgressInv
      <4>2. CASE j = 1
        BY <1>6, <3>1, <3>2, <4>1, <4>2
      <4>3. CASE j # 1
        <5>1. j \in DOMAIN toClient /\ j - 1 \in 1..k - 1
          BY <1>0, <1>1, <3>1, <4>1, <4>3, MovedUp
        <5>2. toClient'[j - 1] = toClient[j]
          BY <1>0, <1>1, <4>3, <5>1, MovedUp
        <5>3. EventAt(j - 1)' /\ count <= toClient'[j - 1].head
          BY <4>1, <5>2 DEF EventAt
        <5>4. QED
          BY <3>1, <3>2, <5>1, <5>3
      <4>4. QED
        BY <4>2, <4>3
    <3>6. QED
      BY <3>4, <3>5
  <2>2. QED
    BY <1>2, <2>1 DEF ProgressInv, EventsUpTo, HasEvent
<1>10. ReplyInv'
  BY <1>0, <1>1, <1>2, <1>4, PoppedReplies DEF IInv
<1>11. WantedInv'
  <2>1. \A i \in DOMAIN wanted : wanted[i] > appliedSeen
    BY DEF IInv, WantedInv
  <2>2. \A i, j \in DOMAIN wanted : i < j => wanted[i] < wanted[j]
    BY DEF IInv, WantedInv
  <2>3. QED
    BY <1>0, <1>1, <1>2, <1>4, <2>1, <2>2, PoppedWanted DEF IInv
<1>12. StoreInv'
  <2>1. Due' = Due
    BY <1>2 DEF Due, Waiting
  <2>2. QED
    BY <1>2, <2>1 DEF IInv, StoreInv, StoreOf, TrueAnswer
<1>13. EventsPrecedeWatermark'
  <2>1. EventsUpTo(appliedSeen)' = EventsUpTo(appliedSeen)
    BY <1>0, <1>2 DEF EventsUpTo, HasEvent
  <2>2. EventsUpTo(appliedSeen) \in Nat
    BY <1>0, Numbers, EventsType
  <2>3. QED
    BY <1>0, <1>4, <1>6, <2>1, <2>2, Numbers DEF IInv, EventsPrecedeWatermark
<1>14. QED
  BY <1>0, <1>1, <1>6, <1>7, <1>8, <1>9, <1>10, <1>11, <1>12, <1>13 DEF IInv, NothingIsFatal


LEMMA ReceiveProgressKeepsInv ==
  ASSUME IInv, ReceiveProgress
  PROVE  IInv'
<1>0. TypeOK /\ TypeOK' /\ ClientIo /\ Popped
  BY ClientIoTypes DEF IInv, ClientIo, ReceiveProgress, Receives, Popped
<1>1. 1 \in DOMAIN toClient /\ Head(toClient) = toClient[1] /\ ProgressAt(1)
  BY <1>0, MovedUp DEF ReceiveProgress, Receives, ProgressAt
<1>2. /\ toClient[1].applied \in Nat /\ toClient[1].applied <= applied
      /\ ~ReplyAt(1) /\ ~EventAt(1)
      /\ EventsUpTo(toClient[1].applied) <= eventHead
  <2>1. toClient[1].applied \in Nat /\ ~ReplyAt(1) /\ ~EventAt(1)
    BY <1>0, <1>1, FrameTypes
  <2>2. /\ toClient[1].applied <= applied
        /\ \/ EventsUpTo(toClient[1].applied) <= eventHead
           \/ \E j \in 1..1 - 1 : EventAt(j) /\ EventsUpTo(toClient[1].applied) <= toClient[j].head
    BY <1>1 DEF IInv, ProgressInv
  <2>3. 1..1 - 1 = {}
    OBVIOUS
  <2>4. QED
    BY <2>1, <2>2, <2>3
<1>3. Len(log) \in Nat /\ ~(toClient[1].applied > Len(log))
  <2>1. log \in Seq(Records)
    BY <1>0 DEF TypeOK
  <2>2. Len(log) \in Nat
    BY <2>1, Indexed
  <2>3. applied <= cmdHead /\ cmdHead <= Len(log)
    BY DEF IInv, CountInv
  <2>4. QED
    BY <1>0, <1>2, <2>2, <2>3, Numbers
<1>4. failed' = failed
      /\ appliedSeen' = IF toClient[1].applied > appliedSeen THEN toClient[1].applied ELSE appliedSeen
  BY <1>1, <1>3 DEF ReceiveProgress
<1>5. appliedSeen <= appliedSeen' /\ appliedSeen' <= applied
  BY <1>0, <1>2, <1>4, Numbers DEF IInv, CountInv
<1>6. /\ ToServerInv' /\ PlacedInv' /\ WindowInv' /\ SettledLatchIsTrue'
      /\ UNCHANGED <<glVars, toServer, srvVars, sioVars, full, gone>>
  BY <1>0, <1>5, ClientIoRest
<1>7. UNCHANGED <<log, gl, drained, pending, applied, placed, sentEvents, spc, held, cmdHead,
                  eventTail, wanted, retained, replySeq, eventHead>>
  BY <1>6 DEF glVars, srvVars, sioVars, storeVars, ReceiveProgress
<1>8. CountInv'
  BY <1>5, <1>7 DEF IInv, CountInv, Current, HasAnswer
<1>9. EventInv' /\ ProgressInv'
  BY <1>0, <1>2, <1>7, PoppedEvents, PoppedProgress DEF IInv
<1>10. ReplyInv'
  BY <1>0, <1>2, <1>7, PoppedReplies DEF IInv
<1>11. WantedInv'
  <2>1. ASSUME NEW i \in DOMAIN wanted PROVE wanted[i] > appliedSeen'
    <3>1. wanted[i] \in Nat
      <4>1. wanted \in Seq(Nat)
        BY <1>0 DEF TypeOK
      <4>2. QED
        BY <4>1, Indexed
    <3>2. ~(toClient[1].applied >= wanted[i])
      <4>1. SUFFICES ASSUME toClient[1].applied >= wanted[i] PROVE FALSE
        OBVIOUS
      <4>2. \E j \in 1..1 - 1 : ReplyAt(j) /\ toClient[j].seq = wanted[i]
        BY <1>1, <4>1 DEF IInv, WantedInv
      <4>3. QED
        BY <4>2
    <3>3. wanted[i] > appliedSeen
      BY DEF IInv, WantedInv
    <3>4. QED
      BY <1>0, <1>2, <1>4, <3>1, <3>2, <3>3, Numbers
  <2>2. \A i, j \in DOMAIN wanted : i < j => wanted[i] < wanted[j]
    BY DEF IInv, WantedInv
  <2>3. QED
    BY <1>0, <1>2, <1>7, <2>1, <2>2, PoppedWanted DEF IInv
<1>12. StoreInv'
  <2>1. Due' = Due
    BY <1>7 DEF Due, Waiting
  <2>2. QED
    BY <1>7, <2>1 DEF IInv, StoreInv, StoreOf, TrueAnswer
<1>13. EventsPrecedeWatermark'
  <2>1. EventsUpTo(appliedSeen') <= eventHead
    BY <1>0, <1>2, <1>4, Numbers, EventsType DEF IInv, EventsPrecedeWatermark
  <2>2. EventsUpTo(appliedSeen)' = EventsUpTo(appliedSeen')
    BY <1>7 DEF EventsUpTo, HasEvent
  <2>3. appliedSeen' \in Nat
    BY <1>0, Numbers DEF TypeOK
  <2>4. EventsUpTo(appliedSeen') \in Nat
    BY <2>3, EventsType
  <2>5. QED
    BY <1>0, <1>7, <2>1, <2>2, <2>4, Numbers DEF EventsPrecedeWatermark
<1>14. QED
  BY <1>0, <1>4, <1>6, <1>8, <1>9, <1>10, <1>11, <1>12, <1>13 DEF IInv, NothingIsFatal

(* What is due fits the window and one answer more, so the answers kept    *)
(* beside one still wanted fit the window.                                 *)
LEMMA StoreHasRoom ==
  ASSUME TypeOK, WindowInv, StoreInv, gl.pc # "gone", NEW i \in DOMAIN wanted
  PROVE  Cardinality(retained) \in Nat /\ Cardinality(retained) <= Window
<1> DEFINE Deferrals == {pending[k] : k \in DOMAIN pending}
<1>1. StoreOf(Due, wanted, retained)
  BY DEF StoreInv
<1>2. Window \in Nat /\ Len(pending) \in Nat /\ Len(pending) <= Window
      /\ DOMAIN pending = 1..Len(pending) /\ pending \in Seq(Nat)
  BY Pending, StreamAssumption DEF WindowInv, PendingInv, TypeOK
<1>3. IsFiniteSet(1..Len(pending)) /\ Cardinality(1..Len(pending)) = Len(pending)
  <2>1. 1 \in Int /\ Len(pending) \in Int /\ Len(pending) >= 0
    BY <1>2
  <2>2. /\ IsFiniteSet(1..Len(pending))
        /\ Cardinality(1..Len(pending)) = IF 1 > Len(pending) THEN 0 ELSE Len(pending) - 1 + 1
    BY <2>1, FS_Interval
  <2>3. QED
    BY <2>1, <2>2
<1>4. IsFiniteSet(Deferrals) /\ Cardinality(Deferrals) <= Len(pending)
  <2>1. pending \in [1..Len(pending) -> Deferrals]
    BY <1>2
  <2>2. pending \in Surjection(1..Len(pending), Deferrals)
    BY <1>2, <2>1 DEF Surjection
  <2>3. QED
    BY <1>3, <2>2, FS_Surjection
<1>5. IsFiniteSet(Due) /\ Cardinality(Due) <= Window + 1
  <2>1. Cardinality(Deferrals) \in Nat
    BY <1>4, FS_CardinalityType
  <2>2. CASE Waiting
    <3>1. Due = Deferrals \union {gl.seq}
      BY <2>2 DEF Due
    <3> HIDE DEF Deferrals
    <3>2. /\ IsFiniteSet(Due)
          /\ Cardinality(Due) = IF gl.seq \in Deferrals THEN Cardinality(Deferrals)
                                ELSE Cardinality(Deferrals) + 1
      BY <1>4, <3>1, FS_AddElement
    <3>3. QED
      BY <1>2, <1>4, <2>1, <3>2
  <2>3. CASE ~Waiting
    <3>1. Due = Deferrals
      BY <2>3 DEF Due
    <3>2. QED
      BY <1>2, <1>4, <2>1, <3>1
  <2>4. QED
    BY <2>2, <2>3
<1> DEFINE Rest == Due \ {wanted[i]}
<1>6. IsFiniteSet(Rest) /\ Cardinality(Rest) <= Window /\ Cardinality(Rest) \in Nat
  <2>1. wanted[i] \in Due
    BY <1>1 DEF StoreOf
  <2>2. IsFiniteSet(Rest) /\ Cardinality(Rest) = Cardinality(Due) - 1
    BY <1>5, <2>1, FS_RemoveElement
  <2>3. Cardinality(Due) \in Nat /\ Cardinality(Rest) \in Nat
    BY <1>5, <2>2, FS_CardinalityType
  <2>4. QED
    BY <1>2, <1>5, <2>2, <2>3
<1>7. IsFiniteSet(retained) /\ Cardinality(retained) <= Cardinality(Rest)
  <2> DEFINE number == [a \in retained |-> a.seq]
  <2>1. \A a \in retained : a.seq \in Rest
    BY <1>1 DEF StoreOf
  <2>2. \A a, b \in retained : a.seq = b.seq => a = b
    BY <1>1 DEF StoreOf
  <2>3. number \in [retained -> Rest]
    BY <2>1
  <2>4. number \in Injection(retained, Rest)
    BY <2>2, <2>3 DEF Injection, IsInjective
  <2>5. QED
    BY <1>6, <2>4, FS_Injection
<1>8. QED
  BY <1>2, <1>6, <1>7, FS_CardinalityType


LEMMA ReceiveReplyKeepsInv ==
  ASSUME IInv, ReceiveReply
  PROVE  IInv'
<1> DEFINE answer == [seq |-> Head(toClient).seq, ok |-> Head(toClient).ok]
<1>0. TypeOK /\ TypeOK' /\ ClientIo /\ Popped /\ appliedSeen' = appliedSeen /\ appliedSeen \in Nat
  BY ClientIoTypes, Numbers DEF IInv, ClientIo, ReceiveReply, Receives, Popped
<1>1. 1 \in DOMAIN toClient /\ Head(toClient) = toClient[1] /\ ReplyAt(1)
  BY <1>0, MovedUp DEF ReceiveReply, Receives, ReplyAt
<1>2. /\ answer.seq = toClient[1].seq /\ answer.ok = toClient[1].ok
      /\ answer.seq \in Nat /\ ~EventAt(1)
      /\ replySeq < answer.seq /\ answer.seq <= applied + 1
      /\ answer.seq = applied + 1 => spc = "apply"
      /\ TrueAnswer(answer.seq, answer.ok)
  <2>1. toClient[1].seq \in Nat /\ ~EventAt(1)
    BY <1>0, <1>1, FrameTypes
  <2>2. QED
    BY <1>1, <2>1 DEF IInv, ReplyInv
<1>3. /\ ToServerInv' /\ PlacedInv' /\ WindowInv' /\ SettledLatchIsTrue' /\ gl.pc # "gone"
      /\ UNCHANGED <<glVars, toServer, srvVars, sioVars, full, gone>>
  BY <1>0, ClientIoRest
<1>4. UNCHANGED <<log, gl, drained, pending, applied, placed, sentEvents, spc, held, cmdHead,
                  eventTail, eventHead>>
  BY <1>3 DEF glVars, srvVars, sioVars, ReceiveReply
<1>5. wanted \in Seq(Nat) /\ Len(wanted) \in Nat /\ DOMAIN wanted = 1..Len(wanted)
      /\ (wanted = <<>> <=> Len(wanted) = 0) /\ \A i \in DOMAIN wanted : wanted[i] \in Nat
  <2>1. wanted \in Seq(Nat)
    BY <1>0 DEF TypeOK
  <2>2. QED
    BY <2>1, Indexed
<1>6. \A i \in DOMAIN wanted : ~(wanted[i] < answer.seq)
  <2>1. SUFFICES ASSUME NEW i \in DOMAIN wanted, wanted[i] < answer.seq PROVE FALSE
    OBVIOUS
  <2>2. wanted[i] \in Nat
    BY <1>5
  <2>3. ~Unanswered(wanted[i])
    BY <1>0, <1>2, <2>1, <2>2, Numbers DEF Unanswered
  <2>4. PICK k \in DOMAIN toClient : ReplyAt(k) /\ toClient[k].seq = wanted[i]
    BY <2>3 DEF IInv, WantedInv
  <2>5. k # 1
    BY <1>2, <2>1, <2>2, <2>4
  <2>6. 1 < k
    BY <1>0, <2>5, MovedUp
  <2>7. toClient[1].seq < toClient[k].seq
    BY <1>1, <2>4, <2>6 DEF IInv, ReplyInv
  <2>8. QED
    BY <1>2, <2>1, <2>2, <2>4, <2>7
<1> DEFINE declared == wanted # <<>> /\ wanted[1] = answer.seq
<1>7. StoreOf(Due, wanted, retained)
  BY <1>3 DEF IInv, StoreInv
<1>8. /\ replySeq' = answer.seq /\ failed' = failed
      /\ wanted' = IF declared THEN Tail(wanted) ELSE wanted
      /\ retained' = IF declared THEN retained \union {answer} ELSE retained
  <2>1. PICK n \in 0..Len(wanted) :
          LET due == StillWanted(n)
              taken == due # <<>> /\ Head(due) = answer.seq
          IN  /\ Overtaken(n, answer.seq)
              /\ IF answer.seq <= replySeq \/ (taken /\ Cardinality(retained) >= StoreCap)
                 THEN failed' = "Corrupt" /\ UNCHANGED <<replySeq, storeVars>>
                 ELSE /\ replySeq' = answer.seq
                      /\ wanted' = IF taken THEN Tail(due) ELSE due
                      /\ retained' = IF taken THEN retained \union {answer} ELSE retained
                      /\ UNCHANGED failed
    BY DEF ReceiveReply
  <2>2. n = 0
    <3>1. SUFFICES ASSUME n # 0 PROVE FALSE
      OBVIOUS
    <3>2. 1 \in 1..n /\ 1 \in DOMAIN wanted
      BY <1>5, <3>1
    <3>3. wanted[1] < answer.seq
      BY <2>1, <3>2 DEF Overtaken
    <3>4. QED
      BY <1>6, <3>2, <3>3
  <2>3. StillWanted(n) = wanted
    BY <1>5, <2>2, Dropped DEF StillWanted
  <2>4. wanted # <<>> => Head(wanted) = wanted[1]
    BY <1>5, Shortened
  <2>5. ~(answer.seq <= replySeq)
    BY <1>0, <1>2, Numbers
  <2>6. declared => ~(Cardinality(retained) >= StoreCap)
    <3>1. SUFFICES ASSUME declared PROVE ~(Cardinality(retained) >= StoreCap)
      OBVIOUS
    <3>2. 1 \in DOMAIN wanted
      BY <1>5, <3>1
    <3>3. Cardinality(retained) \in Nat /\ Cardinality(retained) <= Window
      BY <1>0, <1>3, <3>2, StoreHasRoom DEF IInv
    <3>4. Window < StoreCap
      BY StreamAssumption
    <3>5. QED
      BY <3>3, <3>4, StreamAssumption
  <2> HIDE DEF answer
  <2>7. QED
    BY <2>1, <2>3, <2>4, <2>5, <2>6
<1>9. \A i \in DOMAIN wanted' : \E h \in DOMAIN wanted :
        wanted'[i] = wanted[h] /\ wanted[h] > appliedSeen /\ wanted[h] # answer.seq
  <2>1. \A h \in DOMAIN wanted : wanted[h] > appliedSeen
    BY DEF IInv, WantedInv
  <2>2. ASSUME declared, NEW i \in DOMAIN wanted'
        PROVE  \E h \in DOMAIN wanted : wanted'[i] = wanted[h] /\ wanted[h] # answer.seq
    <3>1. i + 1 \in DOMAIN wanted /\ wanted'[i] = wanted[i + 1] /\ 1 \in DOMAIN wanted /\ 1 < i + 1
      BY <1>5, <1>8, <2>2, Shortened
    <3>2. wanted[1] < wanted[i + 1]
      BY <3>1 DEF IInv, WantedInv
    <3>3. wanted[i + 1] # answer.seq
      BY <1>5, <2>2, <3>1, <3>2
    <3>4. QED
      BY <3>1, <3>3
  <2>3. ASSUME ~declared, NEW i \in DOMAIN wanted
        PROVE  wanted[i] # answer.seq
    <3>1. 1 \in DOMAIN wanted /\ wanted # <<>>
      BY <1>5
    <3>2. wanted[1] # answer.seq /\ ~(wanted[1] < answer.seq)
      BY <1>6, <2>3, <3>1
    <3>3. CASE i = 1
      BY <3>2, <3>3
    <3>4. CASE i # 1
      <4>1. 1 < i
        BY <1>5, <3>4
      <4>2. wanted[1] < wanted[i]
        BY <3>1, <4>1 DEF IInv, WantedInv
      <4>3. QED
        BY <1>2, <1>5, <3>1, <3>2, <4>2
    <3>5. QED
      BY <3>3, <3>4
  <2>4. CASE declared
    BY <2>1, <2>2, <2>4
  <2>5. CASE ~declared
    <3>1. wanted' = wanted
      BY <1>8, <2>5
    <3>2. QED
      BY <2>1, <2>3, <2>5, <3>1
  <2>6. QED
    BY <2>4, <2>5
<1>10. \A i, j \in DOMAIN wanted' : i < j => wanted'[i] < wanted'[j]
  <2>1. CASE declared
    <3>1. SUFFICES ASSUME NEW i \in DOMAIN wanted', NEW j \in DOMAIN wanted', i < j
                   PROVE  wanted'[i] < wanted'[j]
      OBVIOUS
    <3>2. /\ i + 1 \in DOMAIN wanted /\ wanted'[i] = wanted[i + 1]
          /\ j + 1 \in DOMAIN wanted /\ wanted'[j] = wanted[j + 1] /\ i + 1 < j + 1
      BY <1>5, <1>8, <2>1, <3>1, Shortened
    <3>3. QED
      BY <3>2 DEF IInv, WantedInv
  <2>2. CASE ~declared
    <3>1. wanted' = wanted
      BY <1>8, <2>2
    <3>2. QED
      BY <3>1 DEF IInv, WantedInv
  <2>3. QED
    BY <2>1, <2>2
<1>11. WantedInv'
  BY <1>0, <1>2, <1>4, <1>9, <1>10, PoppedWanted DEF IInv
<1>12. ReplyInv'
  BY <1>0, <1>1, <1>2, <1>4, <1>8, PoppedReplies DEF IInv
<1>13. EventInv' /\ ProgressInv'
  BY <1>0, <1>2, <1>4, PoppedEvents, PoppedProgress DEF IInv
<1>14. CountInv'
  BY <1>0, <1>4 DEF IInv, CountInv, Current, HasAnswer
<1>15. EventsPrecedeWatermark'
  BY <1>0, <1>4 DEF IInv, EventsPrecedeWatermark, EventsUpTo, HasEvent
<1>16. StoreInv'
  <2>1. Due' = Due
    BY <1>4 DEF Due, Waiting
  <2>2. StoreOf(Due, wanted', retained')
    <3>1. CASE ~declared
      BY <1>7, <1>8, <3>1
    <3>2. CASE declared
      <4>1. 1 \in DOMAIN wanted /\ wanted[1] \in Due /\ \A a \in retained : a.seq # wanted[1]
        BY <1>5, <1>7, <3>2 DEF StoreOf
      <4>2. /\ \A k \in DOMAIN wanted' : k + 1 \in DOMAIN wanted /\ wanted'[k] = wanted[k + 1]
            /\ \A k \in DOMAIN wanted : k # 1 => k - 1 \in DOMAIN wanted' /\ wanted'[k - 1] = wanted[k]
        <5>1. /\ DOMAIN wanted' = 1..Len(wanted) - 1
              /\ \A k \in 1..Len(wanted) - 1 : wanted'[k] = wanted[k + 1]
          BY <1>5, <1>8, <3>2, Shortened
        <5>2. \A k \in DOMAIN wanted : k # 1 =>
                k - 1 \in 1..Len(wanted) - 1 /\ (k - 1) + 1 = k
          BY <1>5
        <5>3. \A k \in DOMAIN wanted : k # 1 => wanted'[k - 1] = wanted[k]
          BY <5>1, <5>2
        <5>4. QED
          BY <1>5, <5>1, <5>2, <5>3
      <4>3. \A seq \in Due :
              (\E k \in DOMAIN wanted' : wanted'[k] = seq) \/ \E a \in retained' : a.seq = seq
        <5>1. SUFFICES ASSUME NEW seq \in Due, ~ \E a \in retained' : a.seq = seq
                       PROVE  \E k \in DOMAIN wanted' : wanted'[k] = seq
          OBVIOUS
        <5>2. seq # answer.seq /\ ~ \E a \in retained : a.seq = seq
          BY <1>8, <3>2, <5>1
        <5>3. PICK k \in DOMAIN wanted : wanted[k] = seq
          BY <1>7, <5>2 DEF StoreOf
        <5>4. k # 1
          BY <3>2, <5>2, <5>3
        <5>5. QED
          BY <4>2, <5>3, <5>4
      <4>4. \A k \in DOMAIN wanted' : wanted'[k] \in Due /\ \A a \in retained' : a.seq # wanted'[k]
        <5>1. SUFFICES ASSUME NEW k \in DOMAIN wanted'
                       PROVE  wanted'[k] \in Due /\ \A a \in retained' : a.seq # wanted'[k]
          OBVIOUS
        <5>2. wanted'[k] # answer.seq
          BY <1>9
        <5>3. wanted'[k] \in Due /\ \A a \in retained : a.seq # wanted'[k]
          BY <1>7, <4>2 DEF StoreOf
        <5>4. QED
          BY <1>8, <3>2, <5>2, <5>3
      <4>5. answer.seq \in Due /\ TrueAnswer(answer.seq, answer.ok)
            /\ \A a \in retained : a.seq # answer.seq
        BY <1>2, <3>2, <4>1
      <4> HIDE DEF answer
      <4>6. QED
        BY <1>7, <1>8, <3>2, <4>3, <4>4, <4>5 DEF StoreOf
    <3>3. QED
      BY <3>1, <3>2
  <2>3. QED
    BY <1>3, <1>4, <2>1, <2>2 DEF StoreInv, StoreOf, TrueAnswer
<1>17. QED
  BY <1>0, <1>3, <1>8, <1>11, <1>12, <1>13, <1>14, <1>15, <1>16 DEF IInv, NothingIsFatal


-----------------------------------------------------------------------------
(* What a step of the server's io thread does *)

LEMMA ReceiveClientProgressKeepsInv ==
  ASSUME IInv, ReceiveClientProgress
  PROVE  IInv'
<1>0. TypeOK /\ TypeOK' /\ toServer # <<>>
  BY ServerIoTypes DEF IInv, ToServerInv, ServerIo, ReceiveClientProgress
<1>1. toServer \in Seq(ServerFrames) /\ 1 \in DOMAIN toServer /\ Head(toServer) = toServer[1]
      /\ \A k \in DOMAIN toServer : 1 <= k /\ k \in Nat /\ toServer[k] \in ServerFrames
  <2>1. toServer \in Seq(ServerFrames)
    BY <1>0 DEF TypeOK
  <2>2. /\ Len(toServer) \in Nat /\ Len(toServer) > 0 /\ DOMAIN toServer = 1..Len(toServer)
        /\ Head(toServer) = toServer[1]
    BY <1>0, <2>1, Shortened
  <2>3. \A k \in DOMAIN toServer : toServer[k] \in ServerFrames
    BY <2>1, Indexed
  <2>4. QED
    BY <2>1, <2>2, <2>3
<1>2. toServer[1].tail \in Nat /\ eventTail <= toServer[1].tail /\ toServer[1].tail <= drained
  BY <1>1 DEF IInv, ToServerInv, ServerFrames
<1>3. ~(toServer[1].tail > placed)
  <2>1. drained <= eventHead /\ eventHead <= sentEvents /\ sentEvents <= placed
    BY DEF IInv, CountInv
  <2>2. QED
    BY <1>0, <1>2, <2>1, Numbers
<1>4. /\ eventTail' = toServer[1].tail /\ failed' = failed
      /\ UNCHANGED <<glVars, cioVars, fullSeen, storeVars, toServer, toClient, srvVars, cmdHead,
                     full, gone>>
  BY <1>1, <1>3 DEF ReceiveClientProgress
<1>5. UNCHANGED <<log, gl, drained, pending, latched, suspects, eventHead, appliedSeen, replySeq,
                  wanted, retained, toServer, toClient, applied, placed, sentEvents, spc, held,
                  cmdHead, gone>>
  BY <1>4 DEF glVars, cioVars, storeVars, srvVars
<1>6. CountInv'
  <2>1. eventTail <= eventTail' /\ eventTail' <= drained /\ eventTail' \in Nat
    BY <1>2, <1>4
  <2>2. placed <= eventTail + EventSlots
    BY DEF IInv, CountInv
  <2>3. placed <= eventTail' + EventSlots
    BY <1>0, <2>1, <2>2, Numbers
  <2>4. QED
    BY <1>5, <2>1, <2>3 DEF IInv, CountInv, Current, HasAnswer
<1>7. ToServerInv'
  <2>1. ASSUME NEW k \in DOMAIN toServer PROVE toServer[1].tail <= toServer[k].tail
    <3>1. CASE k = 1
      BY <1>2, <3>1
    <3>2. CASE k # 1
      <4>1. 1 < k
        BY <1>1, <3>2
      <4>2. QED
        BY <1>1, <4>1 DEF IInv, ToServerInv
    <3>3. QED
      BY <3>1, <3>2
  <2>2. QED
    BY <1>0, <1>4, <1>5, <2>1 DEF IInv, ToServerInv
<1>8. PlacedInv'
  BY <1>5 DEF IInv, PlacedInv, InHand, Current, HasEvent, EventsUpTo
<1>9. EventInv' /\ ProgressInv'
  BY <1>5 DEF IInv, EventInv, ProgressInv, EventAt, ProgressAt, HasEvent, EventsUpTo
<1>10. ReplyInv' /\ WantedInv'
  BY <1>5 DEF IInv, ReplyInv, WantedInv, ReplyAt, ProgressAt, TrueAnswer, Unanswered
<1>11. WindowInv' /\ StoreInv'
  BY <1>5 DEF IInv, WindowInv, PendingInv, PlaceInv, Waiting, StoreInv, StoreOf, Due, TrueAnswer
<1>12. EventsPrecedeWatermark' /\ SettledLatchIsTrue'
  BY <1>5 DEF IInv, EventsPrecedeWatermark, EventsUpTo, HasEvent, SettledLatchIsTrue, Deferred
<1>13. QED
  BY <1>0, <1>4, <1>6, <1>7, <1>8, <1>9, <1>10, <1>11, <1>12 DEF IInv, NothingIsFatal

LEMMA AdvanceHeadKeepsInv ==
  ASSUME IInv, AdvanceHead
  PROVE  IInv'
<1>0. TypeOK /\ TypeOK' /\ toServer # <<>> /\ toServer' = Tail(toServer) /\ sio' = "idle"
      /\ cmdHead' = Head(toServer).head
  BY ServerIoTypes DEF IInv, ToServerInv, ServerIo, AdvanceHead
<1>1. toServer \in Seq(ServerFrames)
  BY <1>0 DEF TypeOK
<1>2. /\ Len(toServer) \in Nat /\ Len(toServer) > 0 /\ DOMAIN toServer = 1..Len(toServer)
      /\ Head(toServer) = toServer[1] /\ 1 \in DOMAIN toServer
      /\ DOMAIN toServer' = 1..Len(toServer) - 1
      /\ \A k \in 1..Len(toServer) - 1 :
           k + 1 \in 1..Len(toServer) /\ toServer'[k] = toServer[k + 1]
  BY <1>0, <1>1, Shortened
<1>3. /\ cmdHead' = toServer[1].head /\ cmdHead <= cmdHead' /\ cmdHead' <= Len(log)
      /\ cmdHead \in Nat /\ cmdHead' \in Nat
  BY <1>0, <1>2 DEF IInv, ToServerInv, TypeOK
<1>4. UNCHANGED <<log, gl, drained, pending, latched, suspects, eventHead, appliedSeen, replySeq,
                  wanted, retained, toClient, applied, placed, sentEvents, spc, held, eventTail,
                  gone, failed>>
  BY DEF AdvanceHead, glVars, cioVars, storeVars, srvVars
<1>5. CountInv'
  <2>1. applied <= cmdHead /\ (spc \notin {"idle", "parked"} => applied < cmdHead)
    BY DEF IInv, CountInv
  <2>2. cmdHead <= cmdHead' /\ cmdHead \in Nat /\ cmdHead' \in Nat /\ applied \in Nat
    BY <1>0, <1>3, Numbers
  <2>3. applied <= cmdHead' /\ (applied < cmdHead => applied < cmdHead')
    BY <2>1, <2>2
  <2>4. QED
    BY <1>3, <1>4, <2>1, <2>3 DEF IInv, CountInv, Current, HasAnswer
<1>6. ToServerInv'
  <2>1. \A k \in DOMAIN toServer' : /\ k + 1 \in DOMAIN toServer /\ 1 < k + 1
                                    /\ toServer'[k] = toServer[k + 1]
    BY <1>2
  <2>2. ASSUME NEW k \in DOMAIN toServer'
        PROVE  cmdHead' <= toServer'[k].head /\ toServer'[k].head <= Len(log)
               /\ eventTail <= toServer'[k].tail /\ toServer'[k].tail <= drained
    BY <1>2, <1>3, <2>1 DEF IInv, ToServerInv
  <2>3. ASSUME NEW j \in DOMAIN toServer', NEW k \in DOMAIN toServer', j < k
        PROVE  toServer'[j].head <= toServer'[k].head /\ toServer'[j].tail <= toServer'[k].tail
    <3>1. j + 1 < k + 1
      BY <1>2, <2>3
    <3>2. QED
      BY <2>1, <3>1 DEF IInv, ToServerInv
  <2>4. QED
    BY <1>0, <1>4, <2>2, <2>3 DEF ToServerInv
<1>7. PlacedInv'
  BY <1>4 DEF IInv, PlacedInv, InHand, Current, HasEvent, EventsUpTo
<1>8. EventInv' /\ ProgressInv'
  BY <1>4 DEF IInv, EventInv, ProgressInv, EventAt, ProgressAt, HasEvent, EventsUpTo
<1>9. ReplyInv' /\ WantedInv'
  BY <1>4 DEF IInv, ReplyInv, WantedInv, ReplyAt, ProgressAt, TrueAnswer, Unanswered
<1>10. WindowInv' /\ StoreInv'
  BY <1>4 DEF IInv, WindowInv, PendingInv, PlaceInv, Waiting, StoreInv, StoreOf, Due, TrueAnswer
<1>11. EventsPrecedeWatermark' /\ SettledLatchIsTrue' /\ NothingIsFatal'
  BY <1>4 DEF IInv, EventsPrecedeWatermark, EventsUpTo, HasEvent, SettledLatchIsTrue, Deferred,
              NothingIsFatal
<1>12. QED
  BY <1>0, <1>5, <1>6, <1>7, <1>8, <1>9, <1>10, <1>11 DEF IInv


-----------------------------------------------------------------------------
(* What a step of the apply thread does *)

LEMMA OneMore ==
  ASSUME NEW S, NEW s \in Seq(S), NEW e \in S
  PROVE  s \o <<>> = s /\ s \o <<e>> = Append(s, e)
OBVIOUS

(* The frames of one SendProgress: those before it, the answer if there is *)
(* one, the events if there are new ones, the watermark.                   *)
Sending(frames) ==
  /\ Len(toClient) \in Nat /\ Len(toClient') \in Nat /\ Len(toClient) < Len(toClient')
  /\ DOMAIN toClient = 1..Len(toClient) /\ DOMAIN toClient' = 1..Len(toClient')
  /\ \A k \in DOMAIN toClient : toClient'[k] = toClient[k]
  /\ toClient'[Len(toClient')] = [kind |-> "progress", applied |-> applied', full |-> full]
  /\ frames # <<>> =>
       Len(toClient) + 1 < Len(toClient') /\ toClient'[Len(toClient) + 1] = frames[1]
  /\ placed > sentEvents =>
       /\ Len(toClient) < Len(toClient') - 1
       /\ toClient'[Len(toClient') - 1] = [kind |-> "event", head |-> placed]
  /\ \A k \in DOMAIN toClient' \ DOMAIN toClient :
       \/ k = Len(toClient')
       \/ frames # <<>> /\ k = Len(toClient) + 1 /\ toClient'[k] = frames[1]
       \/ placed > sentEvents /\ k = Len(toClient') - 1
          /\ toClient'[k] = [kind |-> "event", head |-> placed]

LEMMA Sends ==
  ASSUME TypeOK, applied' \in Nat, NEW frames, SendProgress(frames),
         frames = <<>> \/ \E r \in Frames : frames = <<r>>
  PROVE  Sending(frames) /\ sentEvents' = placed
<1> DEFINE event == [kind |-> "event", head |-> placed]
           progress == [kind |-> "progress", applied |-> applied', full |-> full]
           first == toClient \o frames
           second == first \o EventFrame
<1>1. toClient \in Seq(Frames) /\ placed \in Nat /\ sentEvents \in Nat /\ full \in BOOLEAN
  BY DEF TypeOK
<1>2. event \in Frames /\ progress \in Frames
  BY <1>1 DEF Frames, EventFrames, ProgressFrames
<1>3. frames \in Seq(Frames)
  <2>1. \A r \in Frames : <<r>> \in Seq(Frames)
    OBVIOUS
  <2>2. <<>> \in Seq(Frames)
    OBVIOUS
  <2>3. QED
    BY <2>1, <2>2
<1>4. /\ first \in Seq(Frames) /\ Len(toClient) \in Nat /\ DOMAIN toClient = 1..Len(toClient)
      /\ \A k \in 1..Len(toClient) : first[k] = toClient[k]
      /\ frames = <<>> => Len(first) = Len(toClient)
      /\ frames # <<>> => Len(first) = Len(toClient) + 1 /\ first[Len(toClient) + 1] = frames[1]
  <2>1. CASE frames = <<>>
    <3>1. first = toClient
      BY <1>1, <2>1, OneMore
    <3>2. QED
      BY <1>1, <2>1, <3>1, Indexed
  <2>2. ASSUME NEW r \in Frames, frames = <<r>>
        PROVE  <1>4
    <3>1. first = Append(toClient, r) /\ frames # <<>> /\ frames[1] = r
      BY <1>1, <2>2, OneMore
    <3>2. QED
      BY <1>1, <3>1, Appended
  <2>3. QED
    BY <2>1, <2>2
<1>5. /\ second \in Seq(Frames)
      /\ \A k \in 1..Len(first) : second[k] = first[k]
      /\ ~(placed > sentEvents) => Len(second) = Len(first)
      /\ placed > sentEvents => Len(second) = Len(first) + 1 /\ second[Len(first) + 1] = event
  <2> HIDE DEF first
  <2>1. CASE ~(placed > sentEvents)
    <3>1. EventFrame = <<>>
      BY <2>1 DEF EventFrame
    <3>2. second = first
      BY <1>4, <3>1, OneMore
    <3>3. QED
      BY <1>4, <2>1, <3>2
  <2>2. CASE placed > sentEvents
    <3>1. EventFrame = <<event>>
      BY <2>2 DEF EventFrame
    <3> HIDE DEF event
    <3>2. second = Append(first, event)
      BY <1>2, <1>4, <3>1, OneMore
    <3> HIDE DEF second
    <3>3. QED
      BY <1>2, <1>4, <2>2, <3>2, Appended
  <2>3. QED
    BY <2>1, <2>2
<1>6. toClient' = Append(second, progress) /\ sentEvents' = placed
  BY <1>3, Sent
<1> HIDE DEF event, progress, first, second
<1>7. /\ Len(second) \in Nat /\ Len(toClient') = Len(second) + 1
      /\ DOMAIN toClient' = 1..Len(second) + 1
      /\ \A k \in 1..Len(second) : toClient'[k] = second[k]
      /\ toClient'[Len(second) + 1] = progress
  BY <1>2, <1>5, <1>6, Appended
<1>8. /\ Len(toClient') \in Nat /\ Len(toClient) < Len(toClient')
      /\ \A k \in DOMAIN toClient : toClient'[k] = toClient[k]
      /\ toClient'[Len(toClient')] = progress
      /\ DOMAIN toClient' = 1..Len(toClient')
  <2>1. /\ Len(toClient) \in Nat /\ Len(first) \in Nat
        /\ Len(first) = Len(toClient) \/ Len(first) = Len(toClient) + 1
        /\ Len(second) = Len(first) \/ Len(second) = Len(first) + 1
    BY <1>4, <1>5
  <2>2. Len(toClient) <= Len(second) /\ 1..Len(toClient) \subseteq 1..Len(second)
        /\ Len(first) <= Len(second) /\ 1..Len(toClient) \subseteq 1..Len(first)
    BY <1>7, <2>1
  <2>3. \A k \in DOMAIN toClient : toClient'[k] = toClient[k]
    BY <1>4, <1>5, <1>7, <2>2
  <2>4. QED
    BY <1>7, <2>1, <2>2, <2>3
<1>8a. /\ Len(toClient) \in Nat /\ Len(first) \in Nat /\ Len(second) \in Nat
       /\ Len(toClient) <= Len(first) /\ Len(first) <= Len(second)
       /\ Len(toClient') = Len(second) + 1
  <2>1. Len(first) \in Nat
    BY <1>4
  <2>2. Len(second) = Len(first) \/ Len(second) = Len(first) + 1
    BY <1>5
  <2>3. Len(first) = Len(toClient) \/ Len(first) = Len(toClient) + 1
    BY <1>4
  <2>4. QED
    BY <1>4, <1>7, <2>1, <2>2, <2>3
<1>9. ASSUME frames # <<>>
      PROVE  Len(toClient) + 1 < Len(toClient') /\ toClient'[Len(toClient) + 1] = frames[1]
  <2>1. Len(first) = Len(toClient) + 1 /\ first[Len(toClient) + 1] = frames[1]
    BY <1>4, <1>9
  <2>2. Len(toClient) + 1 \in 1..Len(first) /\ Len(toClient) + 1 \in 1..Len(second)
    BY <1>8a, <2>1
  <2>3. toClient'[Len(toClient) + 1] = first[Len(toClient) + 1]
    BY <1>5, <1>7, <2>2
  <2>4. QED
    BY <1>8a, <2>1, <2>3
<1>10. ASSUME placed > sentEvents
       PROVE  Len(toClient) < Len(toClient') - 1 /\ toClient'[Len(toClient') - 1] = event
  <2>1. Len(second) = Len(first) + 1 /\ second[Len(first) + 1] = event
    BY <1>5, <1>10
  <2>2. Len(toClient') - 1 = Len(first) + 1 /\ Len(first) + 1 \in 1..Len(second)
        /\ Len(toClient) < Len(first) + 1
    BY <1>8a, <2>1
  <2>3. toClient'[Len(first) + 1] = second[Len(first) + 1]
    BY <1>7, <2>2
  <2>4. QED
    BY <2>1, <2>2, <2>3
<1>11. ASSUME NEW k \in DOMAIN toClient' \ DOMAIN toClient
       PROVE  \/ k = Len(toClient')
              \/ frames # <<>> /\ k = Len(toClient) + 1 /\ toClient'[k] = frames[1]
              \/ placed > sentEvents /\ k = Len(toClient') - 1 /\ toClient'[k] = event
  <2>1. k \in Nat /\ Len(toClient) < k /\ k <= Len(toClient')
    BY <1>4, <1>8, <1>8a, <1>11
  <2>2. /\ IF frames # <<>> THEN Len(first) = Len(toClient) + 1 ELSE Len(first) = Len(toClient)
        /\ IF placed > sentEvents THEN Len(second) = Len(first) + 1 ELSE Len(second) = Len(first)
    BY <1>4, <1>5
  <2>3. \/ k = Len(toClient')
        \/ k = Len(toClient) + 1 /\ frames # <<>>
        \/ k = Len(toClient') - 1 /\ placed > sentEvents
    <3> DEFINE more == placed > sentEvents
               some == frames # <<>>
    <3>1. /\ some => Len(first) = Len(toClient) + 1
          /\ ~some => Len(first) = Len(toClient)
          /\ more => Len(second) = Len(first) + 1
          /\ ~more => Len(second) = Len(first)
      BY <2>2
    <3> HIDE DEF more, some
    <3>2. k = Len(toClient') \/ (k = Len(toClient) + 1 /\ some) \/ (k = Len(toClient') - 1 /\ more)
      <4>1. CASE some /\ more
        BY <1>8a, <2>1, <3>1, <4>1
      <4>2. CASE some /\ ~more
        BY <1>8a, <2>1, <3>1, <4>2
      <4>3. CASE ~some /\ more
        BY <1>8a, <2>1, <3>1, <4>3
      <4>4. CASE ~some /\ ~more
        BY <1>8a, <2>1, <3>1, <4>4
      <4>5. QED
        BY <4>1, <4>2, <4>3, <4>4
    <3>3. QED
      BY <3>2 DEF more, some
  <2>4. QED
    BY <1>9, <1>10, <2>3
<1>12. QED
  BY <1>4, <1>6, <1>8, <1>9, <1>10, <1>11 DEF Sending, event, progress


(* A step of the apply thread: where it may go, the answer it may give and *)
(* the frames it may send.                                                 *)
ServerEffect(frames) ==
  /\ UNCHANGED <<log, gl, drained, pending, latched, suspects, eventHead, appliedSeen, replySeq,
                 wanted, retained, toServer, cmdHead, eventTail, sio, gone, failed>>
  /\ held \subseteq held' /\ sentEvents' >= sentEvents
  /\ \/ /\ applied' = applied /\ (spc = "apply" => spc' = "apply")
        /\ spc' = "apply" => spc = "apply" \/ ~Declared(Current) \/ frames # <<>>
     \/ applied' = applied + 1 /\ spc = "apply" /\ spc' = "idle"
  /\ \/ frames = <<>>
     \/ \E ok \in BOOLEAN :
          /\ frames = <<ReplyFrame(ok)>> /\ ReplyFrame(ok) \in Frames
          /\ spc = "reply" /\ spc' = "apply" /\ applied' = applied
          /\ TrueAnswer(applied + 1, ok)'
  /\ \/ frames = <<>> /\ toClient' = toClient /\ sentEvents' = sentEvents
     \/ Sending(frames) /\ sentEvents' = placed

LEMMA AnswerSent ==
  ASSUME NEW frames, ServerEffect(frames), frames # <<>>
  PROVE  /\ frames[1].kind = "reply" /\ frames[1].seq = applied + 1
         /\ spc = "reply" /\ spc' = "apply" /\ applied' = applied
         /\ TrueAnswer(applied + 1, frames[1].ok)'
<1>1. PICK ok \in BOOLEAN :
          /\ frames = <<ReplyFrame(ok)>>
          /\ spc = "reply" /\ spc' = "apply" /\ applied' = applied
          /\ TrueAnswer(applied + 1, ok)'
  BY DEF ServerEffect
<1>2. frames[1] = ReplyFrame(ok)
  BY <1>1
<1>3. frames[1].kind = "reply" /\ frames[1].seq = applied + 1 /\ frames[1].ok = ok
  BY <1>2 DEF ReplyFrame
<1>4. QED
  BY <1>1, <1>3 DEF TrueAnswer

LEMMA EffectEvents ==
  ASSUME TypeOK, CountInv, EventInv, NEW frames, ServerEffect(frames)
  PROVE  EventInv'
<1>0. /\ eventHead' = eventHead /\ eventHead \in Nat /\ sentEvents \in Nat /\ placed \in Nat
      /\ eventHead <= sentEvents /\ sentEvents <= placed
      /\ \A k \in DOMAIN toClient : EventAt(k) => toClient[k].head \in Nat
  BY Numbers, FrameTypes DEF ServerEffect, CountInv
<1>1. CASE toClient' = toClient /\ sentEvents' = sentEvents
  BY <1>0, <1>1 DEF EventInv, EventAt
<1>2. CASE Sending(frames) /\ sentEvents' = placed
  <2>0. \A k \in DOMAIN toClient : k \in DOMAIN toClient' /\ toClient'[k] = toClient[k]
    BY <1>2 DEF Sending
  <2>1. ASSUME NEW k \in DOMAIN toClient', EventAt(k)'
        PROVE  \/ k \in DOMAIN toClient /\ EventAt(k) /\ toClient'[k] = toClient[k]
               \/ /\ k \notin DOMAIN toClient /\ k = Len(toClient') - 1
                  /\ placed > sentEvents /\ toClient'[k].head = placed
    <3>1. CASE k \in DOMAIN toClient
      BY <2>0, <2>1, <3>1 DEF EventAt
    <3>2. CASE k \notin DOMAIN toClient
      <4>1. k # Len(toClient')
        BY <1>2, <2>1 DEF Sending, EventAt
      <4>2. ~(frames # <<>> /\ toClient'[k] = frames[1])
        BY <2>1, AnswerSent DEF EventAt
      <4>3. placed > sentEvents /\ k = Len(toClient') - 1
            /\ toClient'[k] = [kind |-> "event", head |-> placed]
        BY <1>2, <3>2, <4>1, <4>2 DEF Sending
      <4>4. QED
        BY <3>2, <4>3
    <3>3. QED
      BY <3>1, <3>2
  <2>2. ASSUME NEW k \in DOMAIN toClient', EventAt(k)'
        PROVE  eventHead' < toClient'[k].head /\ toClient'[k].head <= sentEvents'
    <3>1. CASE k \in DOMAIN toClient /\ EventAt(k) /\ toClient'[k] = toClient[k]
      <4>1. eventHead < toClient[k].head /\ toClient[k].head <= sentEvents
        BY <3>1 DEF EventInv
      <4>2. QED
        BY <1>0, <1>2, <3>1, <4>1
    <3>2. CASE placed > sentEvents /\ toClient'[k].head = placed
      BY <1>0, <1>2, <3>2
    <3>3. QED
      BY <2>1, <2>2, <3>1, <3>2
  <2>3. ASSUME NEW j \in DOMAIN toClient', NEW k \in DOMAIN toClient', EventAt(j)', EventAt(k)',
               j < k
        PROVE  toClient'[j].head < toClient'[k].head
    <3>1. j \in DOMAIN toClient /\ EventAt(j) /\ toClient'[j] = toClient[j]
      <4>1. SUFFICES ASSUME j \notin DOMAIN toClient PROVE FALSE
        BY <2>1, <2>3
      <4>2. j = Len(toClient') - 1
        BY <2>1, <2>3, <4>1
      <4>3. k \notin DOMAIN toClient
        BY <1>2, <2>3, <4>1 DEF Sending
      <4>4. k = Len(toClient') - 1
        BY <2>1, <2>3, <4>3
      <4>5. QED
        BY <1>2, <2>3, <4>2, <4>4 DEF Sending
    <3>2. CASE k \in DOMAIN toClient /\ EventAt(k) /\ toClient'[k] = toClient[k]
      BY <2>3, <3>1, <3>2 DEF EventInv
    <3>3. CASE placed > sentEvents /\ toClient'[k].head = placed
      <4>1. toClient[j].head <= sentEvents
        BY <3>1 DEF EventInv
      <4>2. QED
        BY <1>0, <3>1, <3>3, <4>1
    <3>4. QED
      BY <2>1, <2>3, <3>2, <3>3
  <2>4. ASSUME eventHead < placed
        PROVE  \E k \in DOMAIN toClient' : EventAt(k)' /\ toClient'[k].head = placed
    <3>1. CASE placed > sentEvents
      <4>1. Len(toClient') - 1 \in DOMAIN toClient'
            /\ toClient'[Len(toClient') - 1] = [kind |-> "event", head |-> placed]
        BY <1>2, <3>1 DEF Sending
      <4>2. QED
        BY <4>1 DEF EventAt
    <3>2. CASE ~(placed > sentEvents)
      <4>1. placed = sentEvents
        BY <1>0, <3>2
      <4>2. PICK k \in DOMAIN toClient : EventAt(k) /\ toClient[k].head = sentEvents
        BY <2>4, <4>1 DEF EventInv
      <4>3. k \in DOMAIN toClient' /\ EventAt(k)' /\ toClient'[k].head = placed
        BY <2>0, <4>1, <4>2 DEF EventAt
      <4>4. QED
        BY <4>3
    <3>3. QED
      BY <3>1, <3>2
  <2>5. QED
    BY <1>0, <1>2, <2>2, <2>3, <2>4 DEF EventInv
<1>3. QED
  BY <1>1, <1>2 DEF ServerEffect

LEMMA EffectProgress ==
  ASSUME TypeOK, TypeOK', CountInv, ProgressInv, EventInv', NEW frames, ServerEffect(frames),
         EventsUpTo(applied') <= placed
  PROVE  ProgressInv'
<1>0. /\ UNCHANGED <<eventHead, log>> /\ applied \in Nat /\ applied' \in Nat /\ applied <= applied'
      /\ eventHead \in Nat /\ placed \in Nat /\ EventsUpTo(applied') \in Nat
  <2>1. applied \in Nat /\ applied' \in Nat /\ eventHead \in Nat /\ placed \in Nat
    BY DEF TypeOK
  <2>2. UNCHANGED <<eventHead, log>> /\ (applied' = applied \/ applied' = applied + 1)
    BY DEF ServerEffect
  <2>3. EventsUpTo(applied') \in Nat
    BY <2>1, EventsType
  <2>4. QED
    BY <2>1, <2>2, <2>3
<1>1. ASSUME NEW k \in DOMAIN toClient, k \in DOMAIN toClient', toClient'[k] = toClient[k],
             ProgressAt(k), \A j \in 1..k - 1 : toClient'[j] = toClient[j]
      PROVE  /\ toClient'[k].applied <= applied'
             /\ \/ EventsUpTo(toClient'[k].applied) <= eventHead
                \/ \E j \in 1..k - 1 :
                     EventAt(j)' /\ EventsUpTo(toClient'[k].applied) <= toClient'[j].head
  <2>1. toClient[k].applied <= applied /\ toClient[k].applied \in Nat
    BY <1>1, FrameTypes DEF ProgressInv
  <2>2. toClient'[k].applied <= applied'
    BY <1>0, <1>1, <2>1
  <2>3. CASE EventsUpTo(toClient[k].applied) <= eventHead
    BY <1>1, <2>2, <2>3
  <2>4. CASE ~(EventsUpTo(toClient[k].applied) <= eventHead)
    <3>1. PICK j \in 1..k - 1 : EventAt(j) /\ EventsUpTo(toClient[k].applied) <= toClient[j].head
      BY <1>1, <2>4 DEF ProgressInv
    <3>2. EventAt(j)' /\ EventsUpTo(toClient'[k].applied) <= toClient'[j].head
      BY <1>1, <3>1 DEF EventAt
    <3>3. QED
      BY <2>2, <3>2
  <2>5. QED
    BY <2>3, <2>4
<1>2. ASSUME NEW k \in DOMAIN toClient', ProgressAt(k)'
      PROVE  /\ toClient'[k].applied <= applied'
             /\ \/ EventsUpTo(toClient'[k].applied) <= eventHead
                \/ \E j \in 1..k - 1 :
                     EventAt(j)' /\ EventsUpTo(toClient'[k].applied) <= toClient'[j].head
  <2>1. CASE toClient' = toClient
    <3>1. ProgressAt(k)
      BY <1>2, <2>1 DEF ProgressAt
    <3>2. QED
      BY <1>1, <1>2, <2>1, <3>1
  <2>2. CASE Sending(frames) /\ sentEvents' = placed
    <3>1. CASE k \in DOMAIN toClient
      <4>1. toClient'[k] = toClient[k] /\ \A j \in 1..k - 1 : toClient'[j] = toClient[j]
        BY <2>2, <3>1 DEF Sending
      <4>2. ProgressAt(k)
        BY <1>2, <4>1 DEF ProgressAt
      <4>3. QED
        BY <1>1, <1>2, <3>1, <4>1, <4>2
    <3>2. CASE k \notin DOMAIN toClient
      <4>1. k = Len(toClient')
        <5>1. ~(frames # <<>> /\ toClient'[k] = frames[1])
          BY <1>2, AnswerSent DEF ProgressAt
        <5>2. toClient'[k] # [kind |-> "event", head |-> placed]
          BY <1>2 DEF ProgressAt
        <5>3. QED
          BY <2>2, <3>2, <5>1, <5>2 DEF Sending
      <4>2. toClient'[k].applied = applied'
        BY <2>2, <4>1 DEF Sending
      <4>3. CASE placed <= eventHead
        BY <1>0, <4>2, <4>3
      <4>4. CASE ~(placed <= eventHead)
        <5>1. PICK j \in DOMAIN toClient' : EventAt(j)' /\ toClient'[j].head = placed
          BY <1>0, <2>2, <4>4 DEF EventInv
        <5>2. j # k
          BY <1>2, <5>1 DEF EventAt, ProgressAt
        <5>3. j \in 1..k - 1
          BY <2>2, <4>1, <5>1, <5>2 DEF Sending
        <5>4. QED
          BY <1>0, <4>2, <5>1, <5>3
      <4>5. QED
        BY <4>3, <4>4
    <3>3. QED
      BY <3>1, <3>2
  <2>3. QED
    BY <2>1, <2>2 DEF ServerEffect
<1>3. QED
  BY <1>0, <1>2 DEF ProgressInv, EventsUpTo, HasEvent


LEMMA EffectReplies ==
  ASSUME TypeOK, TypeOK', ReplyInv, NEW frames, ServerEffect(frames)
  PROVE  ReplyInv'
<1>0. /\ UNCHANGED <<replySeq, log>> /\ held \subseteq held'
      /\ replySeq \in Nat /\ applied \in Nat /\ applied' \in Nat
      /\ \/ applied' = applied /\ (spc = "apply" => spc' = "apply")
         \/ applied' = applied + 1
  BY DEF ServerEffect, TypeOK
<1>1. ASSUME NEW seq \in Nat, seq <= applied + 1, seq = applied + 1 => spc = "apply"
      PROVE  seq <= applied' + 1 /\ (seq = applied' + 1 => spc' = "apply")
  <2>1. CASE applied' = applied /\ (spc = "apply" => spc' = "apply")
    BY <1>0, <1>1, <2>1
  <2>2. CASE applied' = applied + 1
    <3>1. seq <= applied' + 1 /\ seq # applied' + 1
      BY <1>0, <1>1, <2>2
    <3>2. QED
      BY <3>1
  <2>3. QED
    BY <1>0, <2>1, <2>2
<1>2. ASSUME NEW k \in DOMAIN toClient', ReplyAt(k)'
      PROVE  \/ /\ k \in DOMAIN toClient /\ ReplyAt(k) /\ toClient'[k] = toClient[k]
                /\ toClient[k].seq \in Nat
             \/ /\ frames # <<>> /\ Sending(frames) /\ k = Len(toClient) + 1
                /\ toClient'[k] = frames[1]
  <2>1. CASE k \in DOMAIN toClient /\ toClient'[k] = toClient[k]
    BY <1>2, <2>1, FrameTypes DEF ReplyAt
  <2>2. CASE Sending(frames) /\ k \notin DOMAIN toClient
    <3>1. k # Len(toClient') /\ toClient'[k] # [kind |-> "event", head |-> placed]
      BY <1>2, <2>2 DEF Sending, ReplyAt
    <3>2. QED
      BY <2>2, <3>1 DEF Sending
  <2>3. \/ toClient' = toClient
        \/ Sending(frames)
    BY DEF ServerEffect
  <2>4. CASE toClient' = toClient
    BY <2>1, <2>4
  <2>5. CASE Sending(frames)
    <3>1. k \in DOMAIN toClient => toClient'[k] = toClient[k]
      BY <2>5 DEF Sending
    <3>2. QED
      BY <2>1, <2>2, <2>5, <3>1
  <2>6. QED
    BY <2>3, <2>4, <2>5
<1>3. ASSUME NEW k \in DOMAIN toClient', ReplyAt(k)'
      PROVE  /\ replySeq < toClient'[k].seq /\ toClient'[k].seq <= applied' + 1
             /\ toClient'[k].seq = applied' + 1 => spc' = "apply"
             /\ TrueAnswer(toClient[k].seq, toClient[k].ok)'
  <2>1. CASE /\ k \in DOMAIN toClient /\ ReplyAt(k) /\ toClient'[k] = toClient[k]
             /\ toClient[k].seq \in Nat
    <3>1. /\ replySeq < toClient[k].seq /\ toClient[k].seq <= applied + 1
          /\ toClient[k].seq = applied + 1 => spc = "apply"
          /\ TrueAnswer(toClient[k].seq, toClient[k].ok)
      BY <2>1 DEF ReplyInv
    <3>2. toClient[k].seq <= applied' + 1 /\ (toClient[k].seq = applied' + 1 => spc' = "apply")
      BY <1>1, <2>1, <3>1
    <3>3. TrueAnswer(toClient[k].seq, toClient[k].ok)'
      BY <1>0, <2>1, <3>1 DEF TrueAnswer
    <3>4. QED
      BY <2>1, <3>1, <3>2, <3>3
  <2>2. CASE frames # <<>> /\ toClient'[k] = frames[1]
    <3>1. /\ toClient'[k].seq = applied + 1 /\ spc = "reply" /\ spc' = "apply"
          /\ applied' = applied /\ TrueAnswer(applied + 1, frames[1].ok)'
      BY <2>2, AnswerSent
    <3>2. replySeq < applied + 1
      BY <1>0, <3>1 DEF ReplyInv
    <3>3. TrueAnswer(toClient[k].seq, toClient[k].ok)'
      BY <2>2, <3>1 DEF TrueAnswer
    <3>4. QED
      BY <1>0, <3>1, <3>2, <3>3
  <2>3. QED
    BY <1>2, <1>3, <2>1, <2>2
<1>4. ASSUME NEW j \in DOMAIN toClient', NEW k \in DOMAIN toClient', ReplyAt(j)', ReplyAt(k)', j < k
      PROVE  toClient'[j].seq < toClient'[k].seq
  <2>1. CASE frames # <<>> /\ Sending(frames) /\ k = Len(toClient) + 1 /\ toClient'[k] = frames[1]
    <3>1. toClient'[k].seq = applied + 1 /\ spc = "reply"
      BY <2>1, AnswerSent
    <3>2. /\ j \in DOMAIN toClient /\ ReplyAt(j) /\ toClient'[j] = toClient[j]
          /\ toClient[j].seq \in Nat
      <4>1. j # Len(toClient) + 1
        BY <1>4, <2>1 DEF Sending
      <4>2. QED
        BY <1>2, <1>4, <4>1
    <3>3. toClient[j].seq <= applied + 1 /\ toClient[j].seq # applied + 1
      BY <3>1, <3>2 DEF ReplyInv
    <3>4. QED
      BY <1>0, <3>1, <3>2, <3>3
  <2>2. CASE k \in DOMAIN toClient /\ ReplyAt(k) /\ toClient'[k] = toClient[k]
    <3>1. /\ j \in DOMAIN toClient /\ ReplyAt(j) /\ toClient'[j] = toClient[j]
      <4>1. Len(toClient) \in Nat /\ DOMAIN toClient = 1..Len(toClient)
        BY FrameTypes
      <4>2. j # Len(toClient) + 1
        BY <1>4, <2>2, <4>1
      <4>3. QED
        BY <1>2, <1>4, <4>2
    <3>2. QED
      BY <1>4, <2>2, <3>1 DEF ReplyInv
  <2>3. QED
    BY <1>2, <1>4, <2>1, <2>2
<1>5. replySeq <= applied' + 1 /\ (replySeq = applied' + 1 => spc' = "apply")
  BY <1>0, <1>1 DEF ReplyInv
<1>6. QED
  BY <1>0, <1>3, <1>4, <1>5 DEF ReplyInv, TrueAnswer


LEMMA EffectWanted ==
  ASSUME TypeOK, TypeOK', WantedInv, NEW frames, ServerEffect(frames)
  PROVE  WantedInv'
<1>0. /\ UNCHANGED <<wanted, log, appliedSeen>> /\ applied \in Nat /\ applied' \in Nat
      /\ \A i \in DOMAIN wanted : wanted[i] \in Nat
  <2>1. wanted \in Seq(Nat) /\ applied \in Nat /\ applied' \in Nat
    BY DEF TypeOK
  <2>2. \A i \in DOMAIN wanted : wanted[i] \in Nat
    BY <2>1, Indexed
  <2>3. QED
    BY <2>1, <2>2 DEF ServerEffect
<1>1. /\ \A k \in DOMAIN toClient :
           k \in DOMAIN toClient' /\ toClient'[k] = toClient[k] /\ (ReplyAt(k) => ReplyAt(k)')
      /\ \A k \in DOMAIN toClient : \A j \in 1..k - 1 : toClient'[j] = toClient[j]
  <2>1. CASE toClient' = toClient
    BY <2>1 DEF ReplyAt
  <2>2. CASE Sending(frames)
    BY <2>2 DEF Sending, ReplyAt
  <2>3. QED
    BY <2>1, <2>2 DEF ServerEffect
<1>2. ASSUME NEW i \in DOMAIN wanted
      PROVE  \/ Unanswered(wanted[i])'
             \/ \E k \in DOMAIN toClient' : ReplyAt(k)' /\ toClient'[k].seq = wanted[i]
  <2>1. CASE \E k \in DOMAIN toClient : ReplyAt(k) /\ toClient[k].seq = wanted[i]
    BY <1>1, <2>1
  <2>2. CASE Unanswered(wanted[i])
    <3>1. CASE applied' = applied + 1 /\ spc = "apply" /\ spc' = "idle"
      <4>1. wanted[i] > applied + 1
        BY <2>2, <3>1 DEF Unanswered
      <4>2. wanted[i] > applied' + 1 \/ wanted[i] = applied' + 1
        BY <1>0, <3>1, <4>1
      <4>3. QED
        BY <1>0, <3>1, <4>2 DEF Unanswered
    <3>2. CASE applied' = applied /\ (wanted[i] > applied + 1 \/ spc' # "apply")
      BY <1>0, <2>2, <3>2 DEF Unanswered
    <3>3. CASE /\ applied' = applied /\ ~(wanted[i] > applied + 1) /\ spc' = "apply"
               /\ spc' = "apply" => spc = "apply" \/ ~Declared(Current) \/ frames # <<>>
      <4>1. wanted[i] = applied + 1 /\ spc # "apply"
        BY <2>2, <3>3 DEF Unanswered
      <4>2. Declared(Current)
        BY <4>1 DEF WantedInv, Current
      <4>3. frames # <<>>
        BY <3>3, <4>1, <4>2
      <4>4. Sending(frames)
        BY <4>3 DEF ServerEffect
      <4>5. Len(toClient) + 1 \in DOMAIN toClient' /\ toClient'[Len(toClient) + 1] = frames[1]
        BY <4>3, <4>4 DEF Sending
      <4>6. frames[1].kind = "reply" /\ frames[1].seq = applied + 1
        BY <4>3, AnswerSent
      <4>7. toClient'[Len(toClient) + 1].kind = "reply"
            /\ toClient'[Len(toClient) + 1].seq = wanted[i]
        BY <4>1, <4>5, <4>6
      <4>8. QED
        BY <4>5, <4>7 DEF ReplyAt
    <3>4. QED
      BY <3>1, <3>2, <3>3 DEF ServerEffect
  <2>3. QED
    BY <2>1, <2>2 DEF WantedInv
<1>3. ASSUME NEW i \in DOMAIN wanted, NEW k \in DOMAIN toClient', ProgressAt(k)',
             toClient'[k].applied >= wanted[i]
      PROVE  \E j \in 1..k - 1 : ReplyAt(j)' /\ toClient'[j].seq = wanted[i]
  <2>1. CASE k \in DOMAIN toClient
    <3>1. ProgressAt(k) /\ toClient[k].applied >= wanted[i]
      BY <1>1, <1>3, <2>1 DEF ProgressAt
    <3>2. PICK j \in 1..k - 1 : ReplyAt(j) /\ toClient[j].seq = wanted[i]
      BY <2>1, <3>1 DEF WantedInv
    <3>3. ReplyAt(j)' /\ toClient'[j].seq = wanted[i]
      BY <1>1, <2>1, <3>2 DEF ReplyAt
    <3>4. QED
      BY <3>3
  <2>2. CASE k \notin DOMAIN toClient
    <3>1. Sending(frames)
      BY <1>3, <2>2 DEF ServerEffect
    <3>2. k = Len(toClient')
      <4>1. ~(frames # <<>> /\ toClient'[k] = frames[1])
        BY <1>3, AnswerSent DEF ProgressAt
      <4>2. toClient'[k] # [kind |-> "event", head |-> placed]
        BY <1>3 DEF ProgressAt
      <4>3. QED
        BY <1>3, <2>2, <3>1, <4>1, <4>2 DEF Sending
    <3>3. toClient'[k].applied = applied'
      BY <3>1, <3>2 DEF Sending
    <3>4. ~Unanswered(wanted[i])
      <4>1. wanted[i] <= applied'
        BY <1>0, <1>3, <3>3
      <4>2. CASE applied' = applied
        BY <1>0, <4>1, <4>2 DEF Unanswered
      <4>3. CASE applied' = applied + 1 /\ spc = "apply"
        BY <1>0, <4>1, <4>3 DEF Unanswered
      <4>4. QED
        BY <4>2, <4>3 DEF ServerEffect
    <3>5. PICK j \in DOMAIN toClient : ReplyAt(j) /\ toClient[j].seq = wanted[i]
      BY <3>4 DEF WantedInv
    <3>6. j \in 1..k - 1
      BY <3>1, <3>2, <3>5 DEF Sending
    <3>7. QED
      BY <1>1, <3>5, <3>6
  <2>3. QED
    BY <2>1, <2>2
<1>4. ASSUME NEW i \in DOMAIN wanted
      PROVE  wanted[i] \in DOMAIN log /\ Declared(log[wanted[i]]) /\ wanted[i] > appliedSeen
  BY DEF WantedInv
<1>5. \A i, j \in DOMAIN wanted : i < j => wanted[i] < wanted[j]
  BY DEF WantedInv
<1>6. QED
  BY <1>0, <1>2, <1>3, <1>4, <1>5 DEF WantedInv, Unanswered

(* What the apply thread leaves alone, the objects it comes to hold aside. *)
LEMMA EffectRest ==
  ASSUME IInv, NEW frames, ServerEffect(frames)
  PROVE  /\ ToServerInv' /\ WindowInv' /\ StoreInv' /\ EventsPrecedeWatermark'
         /\ SettledLatchIsTrue' /\ NothingIsFatal'
<1>1. UNCHANGED <<log, gl, drained, pending, latched, eventHead, appliedSeen, wanted, retained,
                  toServer, cmdHead, eventTail, sio, gone, failed>> /\ held \subseteq held'
  BY DEF ServerEffect
<1>2. ToServerInv'
  BY <1>1 DEF IInv, ToServerInv
<1>3. WindowInv'
  BY <1>1 DEF IInv, WindowInv, PendingInv, PlaceInv, Waiting
<1>4. LogKept
  <2>1. log \in Seq(Records)
    BY DEF IInv, TypeOK
  <2>2. Len(log) \in Nat
    BY <2>1, Indexed
  <2>3. QED
    BY <1>1, <2>2 DEF LogKept
<1>5. StoreInv'
  <2>1. Due' = Due
    BY <1>1 DEF Due, Waiting
  <2>2. QED
    BY <1>1, <1>4, <2>1, StoreKept DEF IInv
<1>6. EventsPrecedeWatermark'
  BY <1>1 DEF IInv, EventsPrecedeWatermark, EventsUpTo, HasEvent
<1>7. SettledLatchIsTrue'
  BY <1>1, <1>4, LatchKept DEF IInv
<1>8. QED
  BY <1>1, <1>2, <1>3, <1>5, <1>6, <1>7 DEF IInv, NothingIsFatal


(* The counts when the apply thread stays at its record. *)
LEMMA Stays ==
  ASSUME IInv, NEW frames, ServerEffect(frames), applied' = applied, placed' = placed,
         spc' \notin {"idle", "parked"} => applied < cmdHead,
         spc' = "reply" => HasAnswer(Current),
         spc' \in {"reserve", "latch", "offer", "wait", "publish"} => HasEvent(Current),
         (spc' = "publish" \/ (spc' \in {"reply", "apply"} /\ HasEvent(Current))) <=> InHand
  PROVE  CountInv' /\ PlacedInv' /\ EventsUpTo(applied') <= placed
<1>1. UNCHANGED <<log, drained, eventHead, appliedSeen, cmdHead, eventTail>>
      /\ (sentEvents' = sentEvents \/ sentEvents' = placed)
  BY DEF ServerEffect
<1>2. TypeOK /\ CountInv /\ PlacedInv
  BY DEF IInv
<1>3. EventsUpTo(applied)' = EventsUpTo(applied) /\ EventsUpTo(applied') = EventsUpTo(applied)
      /\ Current' = Current /\ EventsUpTo(applied) \in Nat
  <2>1. EventsUpTo(applied) \in Nat
    BY <1>2, Numbers, EventsType
  <2>2. QED
    BY <1>1, <2>1 DEF EventsUpTo, HasEvent, Current
<1>4. CountInv'
  <2>1. eventHead <= sentEvents' /\ sentEvents' <= placed
    BY <1>1, <1>2, Numbers DEF CountInv
  <2>2. QED
    BY <1>1, <1>2, <1>3, <2>1 DEF CountInv, HasAnswer
<1>5. InHand' <=> InHand
  BY <1>1, <1>3 DEF InHand, HasEvent
<1>6. PlacedInv'
  BY <1>2, <1>3, <1>5 DEF PlacedInv, HasEvent
<1>7. EventsUpTo(applied') <= placed
  BY <1>2, <1>3, Numbers DEF PlacedInv
<1>8. QED
  BY <1>4, <1>6, <1>7

(* One SendProgress without an answer. *)
LEMMA ProgressSent ==
  ASSUME TypeOK, CountInv, applied' \in Nat, SendProgress(<<>>)
  PROVE  Sending(<<>>) /\ sentEvents' = placed /\ sentEvents' >= sentEvents
<1>1. Sending(<<>>) /\ sentEvents' = placed
  BY Sends
<1>2. QED
  BY <1>1, Numbers DEF CountInv

LEMMA ServerStepEffect ==
  ASSUME IInv, ServerStep
  PROVE  /\ \E frames : ServerEffect(frames)
         /\ CountInv' /\ PlacedInv' /\ EventsUpTo(applied') <= placed
<1>0. /\ TypeOK /\ CountInv /\ PlacedInv
      /\ applied \in Nat /\ cmdHead \in Nat /\ sentEvents \in Nat /\ placed \in Nat
      /\ sentEvents >= sentEvents /\ held \subseteq held
  BY Numbers DEF IInv
<1>1. UNCHANGED <<log, gl, drained, pending, latched, suspects, eventHead, appliedSeen, replySeq,
                  wanted, retained, toServer, cmdHead, eventTail, sio, gone, failed>>
  BY ServerKeepsRest
<1>2. CASE TakeRecord
  <2>1. /\ applied' = applied /\ placed' = placed /\ sentEvents' = sentEvents /\ held' = held
        /\ toClient' = toClient /\ spc \in {"idle", "parked"} /\ applied < cmdHead
        /\ spc' = IF HasEvent(Current) THEN "reserve" ELSE AfterEvents
    BY <1>2 DEF TakeRecord
  <2>2. /\ spc' = "apply" => ~Declared(Current)
        /\ spc' = "reply" => HasAnswer(Current)
        /\ spc' \in {"reserve", "reply", "apply"}
        /\ spc' = "reserve" <=> HasEvent(Current)
    BY <2>1 DEF AfterEvents, HasEvent, HasAnswer, Declared
  <2>3. ServerEffect(<<>>)
    BY <1>0, <1>1, <2>1, <2>2 DEF ServerEffect
  <2>4. QED
    BY <2>1, <2>2, <2>3, Stays DEF InHand
<1>3. CASE WaitForWork
  <2>1. /\ applied' = applied /\ placed' = placed /\ held' = held
        /\ SendProgress(<<>>) /\ spc = "idle" /\ spc' = "parked"
    BY <1>3 DEF WaitForWork
  <2>2. Sending(<<>>) /\ sentEvents' = placed /\ sentEvents' >= sentEvents
    BY <1>0, <2>1, ProgressSent
  <2>3. ServerEffect(<<>>)
    BY <1>0, <1>1, <2>1, <2>2 DEF ServerEffect
  <2>4. QED
    BY <2>1, <2>3, Stays DEF InHand
<1>4. CASE ReserveEvent
  <2>1. /\ applied' = applied /\ sentEvents' = sentEvents /\ held' = held
        /\ toClient' = toClient /\ spc = "reserve"
        /\ IF placed - eventTail < EventSlots
           THEN placed' = placed + 1 /\ spc' = "publish"
           ELSE spc' = "latch" /\ placed' = placed
    BY <1>4 DEF ReserveEvent
  <2>2. ServerEffect(<<>>)
    BY <1>0, <1>1, <2>1 DEF ServerEffect
  <2>3. HasEvent(Current) /\ applied < cmdHead /\ ~InHand
    BY <1>0, <2>1 DEF PlacedInv, CountInv, InHand
  <2>4. CASE placed - eventTail < EventSlots
    <3>1. placed' = placed + 1 /\ spc' = "publish"
      BY <2>1, <2>4
    <3>2. placed + 1 <= eventTail + EventSlots /\ sentEvents <= placed + 1
      BY <1>0, <2>4, Numbers DEF CountInv
    <3>3. CountInv'
      BY <1>0, <1>1, <2>1, <2>3, <3>1, <3>2 DEF CountInv
    <3>4. EventsUpTo(applied)' = EventsUpTo(applied) /\ Current' = Current /\ InHand'
          /\ EventsUpTo(applied') = EventsUpTo(applied)
      BY <1>1, <2>1, <3>1 DEF EventsUpTo, HasEvent, Current, InHand
    <3>5. EventsUpTo(applied) \in Nat /\ placed = EventsUpTo(applied)
      <4>1. EventsUpTo(applied) \in Nat
        BY <1>0, EventsType
      <4>2. placed = EventsUpTo(applied) + 0
        BY <1>0, <2>3 DEF PlacedInv
      <4>3. QED
        BY <4>1, <4>2
    <3>6. PlacedInv'
      BY <2>3, <3>1, <3>4, <3>5 DEF PlacedInv, HasEvent
    <3>7. EventsUpTo(applied') <= placed
      BY <1>0, <3>4, <3>5
    <3>8. QED
      BY <2>2, <3>3, <3>6, <3>7
  <2>5. CASE ~(placed - eventTail < EventSlots)
    <3>1. placed' = placed /\ spc' = "latch"
      BY <2>1, <2>5
    <3>2. QED
      BY <2>1, <2>2, <2>3, <3>1, Stays DEF InHand
  <2>6. QED
    BY <2>4, <2>5
<1>5. CASE RaiseLatch
  <2>1. /\ applied' = applied /\ placed' = placed /\ sentEvents' = sentEvents /\ held' = held
        /\ toClient' = toClient /\ spc = "latch" /\ spc' = "offer"
    BY <1>5 DEF RaiseLatch
  <2>2. ServerEffect(<<>>)
    BY <1>0, <1>1, <2>1 DEF ServerEffect
  <2>3. HasEvent(Current) /\ applied < cmdHead /\ ~InHand
    BY <1>0, <2>1 DEF PlacedInv, CountInv, InHand
  <2>4. QED
    BY <2>1, <2>2, <2>3, Stays
<1>6. CASE PublishEvents
  <2>1. /\ applied' = applied /\ placed' = placed /\ held' = held
        /\ SendProgress(<<>>) /\ spc \in {"offer", "publish"}
        /\ spc' = IF spc = "offer" THEN "wait" ELSE AfterEvents
    BY <1>6 DEF PublishEvents
  <2>2. Sending(<<>>) /\ sentEvents' = placed /\ sentEvents' >= sentEvents
    BY <1>0, <2>1, ProgressSent
  <2>3. HasEvent(Current) /\ applied < cmdHead /\ (InHand <=> spc = "publish")
    BY <1>0, <2>1 DEF PlacedInv, CountInv, InHand
  <2>4. /\ spc = "offer" => spc' = "wait"
        /\ spc = "publish" => spc' \in {"reply", "apply"}
        /\ spc' = "apply" => ~Declared(Current)
        /\ spc' = "reply" => HasAnswer(Current)
    BY <2>1 DEF AfterEvents, HasAnswer, Declared
  <2>5. ServerEffect(<<>>)
    BY <1>0, <1>1, <2>1, <2>2, <2>4 DEF ServerEffect
  <2>6. QED
    BY <2>1, <2>3, <2>4, <2>5, Stays
<1>7. CASE BacklogDrained
  <2>1. /\ applied' = applied /\ placed' = placed /\ sentEvents' = sentEvents /\ held' = held
        /\ toClient' = toClient /\ spc = "wait" /\ spc' = "reserve"
    BY <1>7 DEF BacklogDrained
  <2>2. ServerEffect(<<>>)
    BY <1>0, <1>1, <2>1 DEF ServerEffect
  <2>3. HasEvent(Current) /\ applied < cmdHead /\ ~InHand
    BY <1>0, <2>1 DEF PlacedInv, CountInv, InHand
  <2>4. QED
    BY <2>1, <2>2, <2>3, Stays
<1>8. CASE PostReply
  <2>1. PICK ok \in BOOLEAN :
          /\ held' = IF ok /\ Current.object # NoObject THEN held \union {Current.object} ELSE held
          /\ SendProgress(<<ReplyFrame(ok)>>)
    BY <1>8 DEF PostReply, ReplyFrame
  <2>2. applied' = applied /\ placed' = placed /\ spc = "reply" /\ spc' = "apply"
    BY <1>8 DEF PostReply
  <2>3. applied < cmdHead /\ HasAnswer(Current) /\ applied + 1 \in DOMAIN log
    <3>1. log \in Seq(Records)
      BY <1>0 DEF TypeOK
    <3>2. Len(log) \in Nat /\ DOMAIN log = 1..Len(log)
      BY <3>1, Indexed
    <3>3. applied < cmdHead /\ HasAnswer(Current) /\ cmdHead <= Len(log)
      BY <1>0, <2>2 DEF CountInv
    <3>4. QED
      BY <1>0, <3>2, <3>3
  <2>4. ReplyFrame(ok) \in Frames
    BY <1>0 DEF ReplyFrame, Frames, ReplyFrames
  <2>5. Sending(<<ReplyFrame(ok)>>) /\ sentEvents' = placed
    BY <1>0, <2>1, <2>2, <2>4, Sends
  <2>6. sentEvents' >= sentEvents
    BY <1>0, <2>5 DEF CountInv
  <2>7. TrueAnswer(applied + 1, ok)'
    <3>1. Current.kind = "create" => Current.object # NoObject
      BY <2>3 DEF IInv, WindowInv, PendingInv, Current
    <3>2. ok /\ Current.kind = "create" => Current.object \in held'
      BY <2>1, <3>1
    <3>3. QED
      BY <1>1, <2>2, <3>2 DEF TrueAnswer, Current
  <2>8. held \subseteq held'
    BY <2>1
  <2>9. ServerEffect(<<ReplyFrame(ok)>>)
    BY <1>1, <2>2, <2>4, <2>5, <2>6, <2>7, <2>8 DEF ServerEffect
  <2>10. (spc' \in {"reply", "apply"} /\ HasEvent(Current)) <=> InHand
    BY <2>2 DEF InHand
  <2>11. QED
    BY <2>2, <2>3, <2>9, <2>10, Stays
<1>9. CASE AdvanceApplied
  <2>1. /\ applied' = applied + 1 /\ placed' = placed /\ held' = held
        /\ spc = "apply" /\ spc' = "idle" /\ applied' \in Nat
        /\ SendProgress(<<>>) \/ UNCHANGED <<toClient, sentEvents>>
    BY <1>0, <1>9 DEF AdvanceApplied
  <2>2. \/ Sending(<<>>) /\ sentEvents' = placed /\ sentEvents' >= sentEvents
        \/ UNCHANGED <<toClient, sentEvents>>
    BY <1>0, <2>1, ProgressSent
  <2>3. ServerEffect(<<>>)
    BY <1>0, <1>1, <2>1, <2>2 DEF ServerEffect
  <2>4. EventsUpTo(applied') = placed /\ EventsUpTo(applied') \in Nat
    <3>1. EventsUpTo(applied + 1) = EventsUpTo(applied) + (IF HasEvent(Current) THEN 1 ELSE 0)
      BY <1>0, EventsNext DEF Current
    <3>2. InHand <=> HasEvent(Current)
      BY <2>1 DEF InHand
    <3>3. QED
      BY <1>0, <2>1, <3>1, <3>2 DEF PlacedInv
  <2>5. EventsUpTo(applied)' = EventsUpTo(applied')
    BY <1>1 DEF EventsUpTo, HasEvent
  <2>6. PlacedInv'
    BY <1>0, <2>1, <2>4, <2>5 DEF PlacedInv, InHand
  <2>7. CountInv'
    <3>1. applied < cmdHead
      BY <1>0, <2>1 DEF CountInv
    <3>2. applied' <= cmdHead /\ appliedSeen <= applied'
      BY <1>0, <2>1, <3>1, Numbers DEF CountInv
    <3>3. eventHead <= sentEvents' /\ sentEvents' <= placed
      BY <1>0, <2>2, Numbers DEF CountInv
    <3>4. QED
      BY <1>0, <1>1, <2>1, <3>2, <3>3 DEF CountInv
  <2>8. EventsUpTo(applied') <= placed
    BY <1>0, <2>4
  <2>9. QED
    BY <2>3, <2>6, <2>7, <2>8
<1>10. QED
  BY <1>2, <1>3, <1>4, <1>5, <1>6, <1>7, <1>8, <1>9 DEF ServerStep

LEMMA ServerKeepsInv ==
  ASSUME IInv, ServerStep
  PROVE  IInv'
<1>1. CountInv' /\ PlacedInv' /\ EventsUpTo(applied') <= placed
  BY ServerStepEffect
<1>2. PICK frames : ServerEffect(frames)
  BY ServerStepEffect
<1>3. TypeOK /\ TypeOK'
  <2>1. log \in Seq(Records) /\ TypeOK
    BY DEF IInv, TypeOK
  <2>2. Len(log) \in Nat /\ DOMAIN log = 1..Len(log)
    BY <2>1, Indexed
  <2>3. cmdHead <= Len(log) /\ (spc \notin {"idle", "parked"} => applied < cmdHead)
    BY DEF IInv, CountInv
  <2>4. spc \notin {"idle", "parked"} => applied + 1 \in DOMAIN log
    BY <2>1, <2>2, <2>3, Numbers
  <2>5. QED
    BY <2>1, <2>4, ServerTypes
<1>4. EventInv'
  BY <1>2, EffectEvents DEF IInv
<1>5. ProgressInv'
  BY <1>1, <1>2, <1>3, <1>4, EffectProgress DEF IInv
<1>6. ReplyInv' /\ WantedInv'
  BY <1>2, <1>3, EffectReplies, EffectWanted DEF IInv
<1>7. /\ ToServerInv' /\ WindowInv' /\ StoreInv' /\ EventsPrecedeWatermark'
      /\ SettledLatchIsTrue' /\ NothingIsFatal'
  BY <1>2, EffectRest
<1>8. QED
  BY <1>1, <1>3, <1>4, <1>5, <1>6, <1>7 DEF IInv

-----------------------------------------------------------------------------
(* The invariant *)

LEMMA InitInv ==
  ASSUME Init
  PROVE  IInv
<1>1. TypeOK /\ NothingIsFatal
  <2>1. [pc |-> "run", seq |-> 0, object |-> 0, block |-> FALSE] \in Places
    BY DEF Places
  <2>2. gl \in Places
    BY <2>1 DEF Init, NoObject
  <2>3. log \in Seq(Records) /\ pending \in Seq(Nat) /\ wanted \in Seq(Nat)
        /\ toServer \in Seq(ServerFrames) /\ toClient \in Seq(Frames)
    BY DEF Init
  <2>4. QED
    BY <2>2, <2>3 DEF Init, TypeOK, NothingIsFatal
<1>2. EventsUpTo(0) = 0
  <2>1. {n \in 1..0 : HasEvent(log[n])} = {}
    OBVIOUS
  <2>2. QED
    BY <2>1, FS_EmptySet DEF EventsUpTo
<1>3. CountInv /\ ToServerInv
  BY StreamAssumption DEF Init, CountInv, ToServerInv
<1>4. PlacedInv /\ EventInv /\ ProgressInv /\ ReplyInv /\ WantedInv
  BY <1>2 DEF Init, PlacedInv, InHand, EventInv, ProgressInv, ReplyInv, WantedInv
<1>5. WindowInv /\ StoreInv
  <2>1. ~Waiting /\ Due = {}
    BY DEF Init, Waiting, Due
  <2>2. PendingInv /\ PlaceInv
    BY <2>1, StreamAssumption DEF Init, PendingInv, PlaceInv
  <2>3. StoreInv
    BY <2>1 DEF Init, StoreInv, StoreOf
  <2>4. QED
    BY <2>2, <2>3 DEF WindowInv
<1>6. EventsPrecedeWatermark /\ SettledLatchIsTrue
  BY <1>2 DEF Init, EventsPrecedeWatermark, SettledLatchIsTrue
<1>7. QED
  BY <1>1, <1>3, <1>4, <1>5, <1>6 DEF IInv

LEMMA PatienceKeepsInv ==
  ASSUME IInv, Patience
  PROVE  IInv'
<1>1. UNCHANGED <<glVars, cioVars, fullSeen, storeVars, toServer, toClient, srvVars, sioVars, full,
                  failed>> /\ gone' = TRUE
  BY DEF Patience
<1>2. UNCHANGED <<log, gl, drained, pending, latched, suspects, eventHead, appliedSeen, replySeq,
                  fullSeen, wanted, retained, toServer, toClient, applied, placed, sentEvents, spc,
                  held, cmdHead, eventTail, sio, full, failed>>
  BY <1>1 DEF glVars, cioVars, storeVars, srvVars, sioVars
<1>3. TypeOK' /\ NothingIsFatal'
  BY <1>1, <1>2 DEF IInv, TypeOK, NothingIsFatal
<1>4. CountInv' /\ ToServerInv' /\ PlacedInv'
  BY <1>2 DEF IInv, CountInv, ToServerInv, PlacedInv, InHand, Current, HasEvent, HasAnswer, EventsUpTo
<1>5. EventInv' /\ ProgressInv'
  BY <1>2 DEF IInv, EventInv, ProgressInv, EventAt, ProgressAt, HasEvent, EventsUpTo
<1>6. ReplyInv' /\ WantedInv'
  BY <1>2 DEF IInv, ReplyInv, WantedInv, ReplyAt, ProgressAt, TrueAnswer, Unanswered
<1>7. WindowInv' /\ StoreInv'
  BY <1>1, <1>2 DEF IInv, WindowInv, PendingInv, PlaceInv, Waiting, StoreInv, StoreOf, Due, TrueAnswer
<1>8. EventsPrecedeWatermark' /\ SettledLatchIsTrue'
  BY <1>2 DEF IInv, EventsPrecedeWatermark, EventsUpTo, HasEvent, SettledLatchIsTrue, Deferred
<1>9. QED
  BY <1>3, <1>4, <1>5, <1>6, <1>7, <1>8 DEF IInv

LEMMA StutterKeepsInv ==
  ASSUME IInv, UNCHANGED vars
  PROVE  IInv'
<1>1. UNCHANGED <<log, gl, drained, pending, latched, suspects, eventHead, appliedSeen, replySeq,
                  fullSeen, wanted, retained, toServer, toClient, applied, placed, sentEvents, spc,
                  held, cmdHead, eventTail, sio, full, gone, failed>>
  BY DEF vars, glVars, cioVars, storeVars, srvVars, sioVars
<1>2. TypeOK' /\ NothingIsFatal'
  BY <1>1 DEF IInv, TypeOK, NothingIsFatal
<1>3. CountInv' /\ ToServerInv' /\ PlacedInv'
  BY <1>1 DEF IInv, CountInv, ToServerInv, PlacedInv, InHand, Current, HasEvent, HasAnswer, EventsUpTo
<1>4. EventInv' /\ ProgressInv'
  BY <1>1 DEF IInv, EventInv, ProgressInv, EventAt, ProgressAt, HasEvent, EventsUpTo
<1>5. ReplyInv' /\ WantedInv'
  BY <1>1 DEF IInv, ReplyInv, WantedInv, ReplyAt, ProgressAt, TrueAnswer, Unanswered
<1>6. WindowInv' /\ StoreInv'
  BY <1>1 DEF IInv, WindowInv, PendingInv, PlaceInv, Waiting, StoreInv, StoreOf, Due, TrueAnswer
<1>7. EventsPrecedeWatermark' /\ SettledLatchIsTrue'
  BY <1>1 DEF IInv, EventsPrecedeWatermark, EventsUpTo, HasEvent, SettledLatchIsTrue, Deferred
<1>8. QED
  BY <1>2, <1>3, <1>4, <1>5, <1>6, <1>7 DEF IInv

(* The inductive invariant of the link: both sides' counts are in order,   *)
(* events, answers and watermarks travel in the order the server produced  *)
(* them, and every answer the GL thread will read is still to come or      *)
(* kept.                                                                   *)
THEOREM LinkInvariant == Spec => []IInv
<1>1. Init => IInv
  BY InitInv
<1>2. IInv /\ [Next]_vars => IInv'
  <2>1. SUFFICES ASSUME IInv, [Next]_vars PROVE IInv'
    OBVIOUS
  <2>2. CASE FireAndForget \/ Read \/ PollEntry \/ Create \/ ClientStep
    BY <2>1, <2>2, ClientKeepsInv DEF ClientAct
  <2>3. CASE ClientIo
    BY <2>1, <2>3, ReceiveEventsKeepsInv, ReceiveProgressKeepsInv, ReceiveReplyKeepsInv
      DEF ClientIo
  <2>4. CASE ServerIo
    BY <2>1, <2>4, ReceiveClientProgressKeepsInv, AdvanceHeadKeepsInv DEF ServerIo
  <2>5. CASE ServerStep
    BY <2>1, <2>5, ServerKeepsInv
  <2>6. CASE Patience
    BY <2>1, <2>6, PatienceKeepsInv
  <2>7. CASE UNCHANGED vars
    BY <2>1, <2>7, StutterKeepsInv
  <2>8. QED
    BY <2>1, <2>2, <2>3, <2>4, <2>5, <2>6, <2>7 DEF Next
<1>3. QED
  BY <1>1, <1>2, PTL DEF Spec

(* No session ends for a missing, a late or a surplus answer, or for a     *)
(* frame that fails a check of its receiver (ReadReply, the io loops of    *)
(* StreamLink.cpp).                                                        *)
THEOREM NoSessionIsFatal == Spec => []NothingIsFatal
<1>1. IInv => NothingIsFatal
  BY DEF IInv
<1>2. QED
  BY <1>1, LinkInvariant, PTL

(* The events of every record the client sees applied are on its side      *)
(* (SendProgress sends them before the watermark).                         *)
THEOREM EventsArriveFirst == Spec => []EventsPrecedeWatermark
<1>1. IInv => EventsPrecedeWatermark
  BY DEF IInv
<1>2. QED
  BY <1>1, LinkInvariant, PTL

(* What the client believes published, the deferred creates aside, the     *)
(* server holds (DrainCreateWindow and Wire_ResourceCreate).               *)
THEOREM LatchIsTrueOnceSettled == Spec => []SettledLatchIsTrue
<1>1. IInv => SettledLatchIsTrue
  BY DEF IInv
<1>2. QED
  BY <1>1, LinkInvariant, PTL
=============================================================================
