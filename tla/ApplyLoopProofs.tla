---------------------------- MODULE ApplyLoopProofs ----------------------------
(***************************************************************************)
(* The apply thread keeps its invariants for every number of records,      *)
(* control frames and window requests.                                     *)
(*                                                                         *)
(* The argument.  A drain knows where it returns to (ret), so what it has  *)
(* left undone is known there: a batch not retired (DrainInv), a queue not *)
(* empty on the way out (ExitInv), records older than the teardown in hand *)
(* (FrameInv), a window request not looked at (WindowInv).                 *)
(***************************************************************************)
EXTENDS ApplyLoop, TLAPS

USE LoopAssumption
USE DEF InDrain, Points, Kinds, ringVars, boxVars, signalVars, threadVars, posterVars, ghostVars

(* Every step of every thread preserves the invariant: first the flags,    *)
(* then the other types, then each of the five parts.                      *)
LEMMA StepKeepsInvariant ==
  ASSUME IInv, Next
  PROVE  IInv'
<1>0. TypeOK /\ Flags /\ OwnerInv /\ DrainInv /\ ExitInv /\ FrameInv /\ WindowInv
  BY DEF IInv, TypeOK
<1>1. CASE PumpWindow
  <2>1. CASE window
    <3>1. Flags'
      BY <1>0, <1>1, <2>1, ZenonT(30) DEF Flags, PumpWindow, HandleWindow
    <3>2. TypeOK'
      BY <1>0, <1>1, <2>1, <3>1 DEF TypeOK, PumpWindow, HandleWindow
    <3>3. OwnerInv'
      BY <1>0, <1>1, <2>1 DEF OwnerInv, PumpWindow
    <3>4. DrainInv'
      BY <1>0, <1>1, <2>1 DEF DrainInv, PumpWindow
    <3>5. ExitInv'
      BY <1>0, <1>1, <2>1 DEF ExitInv, SessionOver, PumpWindow, HandleWindow
    <3>6. FrameInv'
      BY <1>0, <1>1, <2>1 DEF FrameInv, SessionOver, PumpWindow
    <3>7. WindowInv'
      BY <1>0, <1>1, <2>1 DEF WindowInv, PumpWindow, HandleWindow
    <3>8. QED
      BY <3>2, <3>3, <3>4, <3>5, <3>6, <3>7 DEF IInv
  <2>2. CASE ~window
    <3>1. Flags'
      BY <1>0, <1>1, <2>2 DEF Flags, PumpWindow
    <3>2. TypeOK'
      BY <1>0, <1>1, <2>2, <3>1 DEF TypeOK, PumpWindow
    <3>3. OwnerInv'
      BY <1>0, <1>1, <2>2 DEF OwnerInv, PumpWindow
    <3>4. DrainInv'
      BY <1>0, <1>1, <2>2 DEF DrainInv, PumpWindow
    <3>5. ExitInv'
      BY <1>0, <1>1, <2>2 DEF ExitInv, SessionOver, PumpWindow
    <3>6. FrameInv'
      BY <1>0, <1>1, <2>2 DEF FrameInv, SessionOver, PumpWindow
    <3>7. WindowInv'
      BY <1>0, <1>1, <2>2 DEF WindowInv, PumpWindow
    <3>8. QED
      BY <3>2, <3>3, <3>4, <3>5, <3>6, <3>7 DEF IInv
  <2>3. QED
    BY <2>1, <2>2
<1>2. CASE TakeFrame
  <2>1. Flags'
    BY <1>0, <1>2, ZenonT(30) DEF Flags, TakeFrame
  <2>2. TypeOK'
    BY <1>0, <1>2, <2>1 DEF TypeOK, TakeFrame
  <2>3. OwnerInv'
    BY <1>0, <1>2 DEF OwnerInv, TakeFrame
  <2>4. DrainInv'
    BY <1>0, <1>2 DEF DrainInv, TakeFrame
  <2>5. ExitInv'
    BY <1>0, <1>2 DEF ExitInv, SessionOver, TakeFrame
  <2>6. FrameInv'
    BY <1>0, <1>2 DEF FrameInv, TypeOK, SessionOver, TakeFrame
  <2>7. WindowInv'
    BY <1>0, <1>2 DEF WindowInv, TakeFrame
  <2>8. QED
    BY <2>2, <2>3, <2>4, <2>5, <2>6, <2>7 DEF IInv
<1>3. CASE DeclineFrame
  <2>1. Flags'
    BY <1>0, <1>3, ZenonT(30) DEF Flags, DeclineFrame
  <2>2. TypeOK'
    BY <1>0, <1>3, <2>1 DEF TypeOK, DeclineFrame, GoOn, AfterPump
  <2>3. OwnerInv'
    BY <1>0, <1>3 DEF OwnerInv, DeclineFrame, GoOn, AfterPump
  <2>4. DrainInv'
    BY <1>0, <1>3 DEF DrainInv, DeclineFrame, GoOn, AfterPump
  <2>5. ExitInv'
    BY <1>0, <1>3 DEF ExitInv, SessionOver, DeclineFrame, GoOn, AfterPump
  <2>6. FrameInv'
    BY <1>0, <1>3 DEF FrameInv, SessionOver, DeclineFrame, GoOn, AfterPump
  <2>7. WindowInv'
    BY <1>0, <1>3 DEF WindowInv, DeclineFrame
  <2>8. QED
    BY <2>2, <2>3, <2>4, <2>5, <2>6, <2>7 DEF IInv
<1>4. CASE NoFrame
  <2>1. Flags'
    BY <1>0, <1>4 DEF Flags, NoFrame
  <2>2. TypeOK'
    BY <1>0, <1>4, <2>1 DEF TypeOK, NoFrame, GoOn, AfterPump
  <2>3. OwnerInv'
    BY <1>0, <1>4 DEF OwnerInv, NoFrame, GoOn, AfterPump
  <2>4. DrainInv'
    BY <1>0, <1>4 DEF DrainInv, NoFrame, GoOn, AfterPump
  <2>5. ExitInv'
    BY <1>0, <1>4 DEF ExitInv, SessionOver, NoFrame, GoOn, AfterPump
  <2>6. FrameInv'
    BY <1>0, <1>4 DEF FrameInv, SessionOver, NoFrame, GoOn, AfterPump
  <2>7. WindowInv'
    BY <1>0, <1>4 DEF WindowInv, NoFrame
  <2>8. QED
    BY <2>2, <2>3, <2>4, <2>5, <2>6, <2>7 DEF IInv
<1>5. CASE Dispatch
  <2>1. Flags'
    BY <1>0, <1>5 DEF Flags, Dispatch
  <2>2. TypeOK'
    BY <1>0, <1>5, <2>1 DEF TypeOK, Dispatch, Begin
  <2>3. OwnerInv'
    BY <1>0, <1>5 DEF OwnerInv, Dispatch
  <2>4. DrainInv'
    BY <1>0, <1>5 DEF DrainInv, Dispatch
  <2>5. ExitInv'
    BY <1>0, <1>5 DEF ExitInv, SessionOver, Dispatch
  <2>6. FrameInv'
    BY <1>0, <1>5 DEF FrameInv, SessionOver, Dispatch
  <2>7. WindowInv'
    BY <1>0, <1>5 DEF WindowInv, TypeOK, DrainInv, Dispatch, Begin
  <2>8. QED
    BY <2>2, <2>3, <2>4, <2>5, <2>6, <2>7 DEF IInv
<1>6. CASE Reply
  <2>1. Flags'
    BY <1>0, <1>6, ZenonT(30) DEF Flags, Reply
  <2>2. TypeOK'
    BY <1>0, <1>6, <2>1 DEF TypeOK, FrameInv, SessionOver, Reply, GoOn, AfterPump
  <2>3. OwnerInv'
    BY <1>0, <1>6 DEF OwnerInv, Reply, GoOn, AfterPump
  <2>4. DrainInv'
    BY <1>0, <1>6 DEF DrainInv, Reply, GoOn, AfterPump
  <2>5. ExitInv'
    BY <1>0, <1>6 DEF ExitInv, SessionOver, Reply, GoOn, AfterPump
  <2>6. FrameInv'
    BY <1>0, <1>6 DEF FrameInv, SessionOver, Reply, GoOn, AfterPump
  <2>7. WindowInv'
    BY <1>0, <1>6 DEF WindowInv, Reply, GoOn, AfterPump
  <2>8. QED
    BY <2>2, <2>3, <2>4, <2>5, <2>6, <2>7 DEF IInv
<1>7. CASE NextRecord
  <2>1. CASE latched
    <3>1. Flags'
      BY <1>0, <1>7, <2>1 DEF Flags, NextRecord
    <3>2. TypeOK'
      BY <1>0, <1>7, <2>1, <3>1 DEF TypeOK, NextRecord
    <3>3. OwnerInv'
      BY <1>0, <1>7, <2>1 DEF OwnerInv, NextRecord
    <3>4. DrainInv'
      BY <1>0, <1>7, <2>1 DEF DrainInv, NextRecord
    <3>5. ExitInv'
      BY <1>0, <1>7, <2>1 DEF ExitInv, SessionOver, NextRecord
    <3>6. FrameInv'
      BY <1>0, <1>7, <2>1 DEF FrameInv, SessionOver, NextRecord
    <3>7. WindowInv'
      BY <1>0, <1>7, <2>1 DEF WindowInv, NextRecord
    <3>8. QED
      BY <3>2, <3>3, <3>4, <3>5, <3>6, <3>7 DEF IInv
  <2>2. CASE ~latched /\ window
    <3>1. Flags'
      BY <1>0, <1>7, <2>2, ZenonT(30) DEF Flags, NextRecord, HandleWindow
    <3>2. TypeOK'
      BY <1>0, <1>7, <2>2, <3>1 DEF TypeOK, NextRecord, HandleWindow
    <3>3. OwnerInv'
      BY <1>0, <1>7, <2>2 DEF OwnerInv, NextRecord
    <3>4. DrainInv'
      BY <1>0, <1>7, <2>2 DEF DrainInv, NextRecord
    <3>5. ExitInv'
      BY <1>0, <1>7, <2>2 DEF ExitInv, SessionOver, NextRecord, HandleWindow
    <3>6. FrameInv'
      BY <1>0, <1>7, <2>2 DEF FrameInv, SessionOver, NextRecord
    <3>7. WindowInv'
      BY <1>0, <1>7, <2>2 DEF WindowInv, NextRecord, HandleWindow
    <3>8. QED
      BY <3>2, <3>3, <3>4, <3>5, <3>6, <3>7 DEF IInv
  <2>3. CASE ~latched /\ ~window
    <3>1. Flags'
      BY <1>0, <1>7, <2>3 DEF Flags, NextRecord
    <3>2. TypeOK'
      BY <1>0, <1>7, <2>3, <3>1 DEF TypeOK, NextRecord
    <3>3. OwnerInv'
      BY <1>0, <1>7, <2>3 DEF OwnerInv, NextRecord
    <3>4. DrainInv'
      BY <1>0, <1>7, <2>3 DEF DrainInv, NextRecord
    <3>5. ExitInv'
      BY <1>0, <1>7, <2>3 DEF ExitInv, SessionOver, NextRecord
    <3>6. FrameInv'
      BY <1>0, <1>7, <2>3 DEF FrameInv, SessionOver, NextRecord
    <3>7. WindowInv'
      BY <1>0, <1>7, <2>3 DEF WindowInv, NextRecord
    <3>8. QED
      BY <3>2, <3>3, <3>4, <3>5, <3>6, <3>7 DEF IInv
  <2>4. QED
    BY <2>1, <2>2, <2>3
<1>8. CASE PopRecord
  <2>1. Flags'
    BY <1>0, <1>8 DEF Flags, PopRecord
  <2>2. TypeOK'
    BY <1>0, <1>8, <2>1 DEF TypeOK, PopRecord
  <2>3. OwnerInv'
    BY <1>0, <1>8 DEF OwnerInv, PopRecord
  <2>4. DrainInv'
    BY <1>0, <1>8 DEF DrainInv, TypeOK, PopRecord
  <2>5. ExitInv'
    BY <1>0, <1>8 DEF ExitInv, TypeOK, SessionOver, PopRecord
  <2>6. FrameInv'
    BY <1>0, <1>8 DEF FrameInv, TypeOK, SessionOver, PopRecord
  <2>7. WindowInv'
    BY <1>0, <1>8 DEF WindowInv, PopRecord
  <2>8. QED
    BY <2>2, <2>3, <2>4, <2>5, <2>6, <2>7 DEF IInv
<1>9. CASE Admit
  <2>1. Flags'
    BY <1>0, <1>9 DEF Flags, Admit
  <2>2. TypeOK'
    BY <1>0, <1>9, <2>1 DEF TypeOK, Admit, Begin
  <2>3. OwnerInv'
    BY <1>0, <1>9 DEF OwnerInv, Admit
  <2>4. DrainInv'
    BY <1>0, <1>9 DEF DrainInv, Admit
  <2>5. ExitInv'
    BY <1>0, <1>9 DEF ExitInv, SessionOver, Admit
  <2>6. FrameInv'
    BY <1>0, <1>9 DEF FrameInv, SessionOver, Admit
  <2>7. WindowInv'
    BY <1>0, <1>9 DEF WindowInv, Admit, Begin
  <2>8. QED
    BY <2>2, <2>3, <2>4, <2>5, <2>6, <2>7 DEF IInv
<1>10. CASE FinishRecord
  <2>1. Flags'
    BY <1>0, <1>10 DEF Flags, FinishRecord
  <2>2. TypeOK'
    BY <1>0, <1>10, <2>1 DEF TypeOK, DrainInv, FinishRecord
  <2>3. OwnerInv'
    BY <1>0, <1>10 DEF OwnerInv, FinishRecord
  <2>4. DrainInv'
    BY <1>0, <1>10 DEF DrainInv, FinishRecord
  <2>5. ExitInv'
    BY <1>0, <1>10 DEF ExitInv, SessionOver, FinishRecord
  <2>6. FrameInv'
    BY <1>0, <1>10 DEF FrameInv, SessionOver, FinishRecord
  <2>7. WindowInv'
    BY <1>0, <1>10 DEF WindowInv, FinishRecord
  <2>8. QED
    BY <2>2, <2>3, <2>4, <2>5, <2>6, <2>7 DEF IInv
<1>11. CASE EndDrain
  <2>1. Flags'
    BY <1>0, <1>11, ZenonT(30) DEF Flags, EndDrain
  <2>2. TypeOK'
    BY <1>0, <1>11, <2>1 DEF TypeOK, DrainInv, EndDrain
  <2>3. OwnerInv'
    BY <1>0, <1>11 DEF OwnerInv, TypeOK, EndDrain
  <2>4. DrainInv'
    BY <1>0, <1>11 DEF DrainInv, TypeOK, EndDrain
  <2>5. ExitInv'
    BY <1>0, <1>11 DEF ExitInv, TypeOK, DrainInv, SessionOver, EndDrain
  <2>6. FrameInv'
    BY <1>0, <1>11 DEF FrameInv, TypeOK, SessionOver, EndDrain
  <2>7. WindowInv'
    BY <1>0, <1>11 DEF WindowInv, TypeOK, EndDrain
  <2>8. QED
    BY <2>2, <2>3, <2>4, <2>5, <2>6, <2>7 DEF IInv
<1>12. CASE BacklogDrained
  <2>1. CASE UNCHANGED full
    <3>1. Flags'
      BY <1>0, <1>12, <2>1 DEF Flags, BacklogDrained
    <3>2. TypeOK'
      BY <1>0, <1>12, <2>1, <3>1 DEF TypeOK, BacklogDrained, Unblock
    <3>3. OwnerInv'
      BY <1>0, <1>12, <2>1 DEF OwnerInv, BacklogDrained, Blocked, Unblock
    <3>4. DrainInv'
      BY <1>0, <1>12, <2>1 DEF DrainInv, BacklogDrained, Blocked, Unblock
    <3>5. ExitInv'
      BY <1>0, <1>12, <2>1 DEF ExitInv, SessionOver, BacklogDrained, Blocked, Unblock
    <3>6. FrameInv'
      BY <1>0, <1>12, <2>1 DEF FrameInv, SessionOver, BacklogDrained, Unblock
    <3>7. WindowInv'
      BY <1>0, <1>12, <2>1 DEF WindowInv, BacklogDrained, Unblock
    <3>8. QED
      BY <3>2, <3>3, <3>4, <3>5, <3>6, <3>7 DEF IInv
  <2>2. CASE full' = TRUE
    <3>1. Flags'
      BY <1>0, <1>12, <2>2 DEF Flags, BacklogDrained
    <3>2. TypeOK'
      BY <1>0, <1>12, <2>2, <3>1, Zenon DEF TypeOK, BacklogDrained, Blocked
    <3>3. OwnerInv'
      BY <1>0, <1>12, <2>2, Zenon DEF OwnerInv, BacklogDrained
    <3>4. DrainInv'
      BY <1>0, <1>12, <2>2, Zenon DEF DrainInv, BacklogDrained
    <3>5. ExitInv'
      BY <1>0, <1>12, <2>2, Zenon DEF ExitInv, SessionOver, BacklogDrained
    <3>6. FrameInv'
      BY <1>0, <1>12, <2>2, Zenon DEF FrameInv, SessionOver, BacklogDrained
    <3>7. WindowInv'
      BY <1>0, <1>12, <2>2, Zenon DEF WindowInv, BacklogDrained
    <3>8. QED
      BY <3>2, <3>3, <3>4, <3>5, <3>6, <3>7 DEF IInv
  <2>3. QED
    BY <2>1, <2>2, <1>12 DEF BacklogDrained
<1>13. CASE Check
  <2>1. Flags'
    BY <1>0, <1>13 DEF Flags, Check
  <2>2. TypeOK'
    BY <1>0, <1>13, <2>1 DEF TypeOK, Check, Leave
  <2>3. OwnerInv'
    BY <1>0, <1>13 DEF OwnerInv, Check, Leave
  <2>4. DrainInv'
    BY <1>0, <1>13 DEF DrainInv, ExitInv, SessionOver, Check, Leave, StopOrForfeit
  <2>5. ExitInv'
    BY <1>0, <1>13 DEF ExitInv, SessionOver, Check, Leave
  <2>6. FrameInv'
    BY <1>0, <1>13 DEF FrameInv, SessionOver, Check, Leave
  <2>7. WindowInv'
    BY <1>0, <1>13 DEF WindowInv, Check, Leave
  <2>8. QED
    BY <2>2, <2>3, <2>4, <2>5, <2>6, <2>7 DEF IInv
<1>14. CASE CheckAgain
  <2>1. Flags'
    BY <1>0, <1>14 DEF Flags, CheckAgain
  <2>2. TypeOK'
    BY <1>0, <1>14, <2>1 DEF TypeOK, CheckAgain
  <2>3. OwnerInv'
    BY <1>0, <1>14 DEF OwnerInv, CheckAgain
  <2>4. DrainInv'
    BY <1>0, <1>14 DEF DrainInv, CheckAgain
  <2>5. ExitInv'
    BY <1>0, <1>14 DEF ExitInv, SessionOver, CheckAgain
  <2>6. FrameInv'
    BY <1>0, <1>14 DEF FrameInv, SessionOver, CheckAgain
  <2>7. WindowInv'
    BY <1>0, <1>14 DEF WindowInv, CheckAgain
  <2>8. QED
    BY <2>2, <2>3, <2>4, <2>5, <2>6, <2>7 DEF IInv
<1>15. CASE Report
  <2>1. Flags'
    BY <1>0, <1>15 DEF Flags, Report
  <2>2. TypeOK'
    BY <1>0, <1>15, <2>1 DEF TypeOK, Report
  <2>3. OwnerInv'
    BY <1>0, <1>15 DEF OwnerInv, Report
  <2>4. DrainInv'
    BY <1>0, <1>15 DEF DrainInv, Report
  <2>5. ExitInv'
    BY <1>0, <1>15 DEF ExitInv, SessionOver, Report
  <2>6. FrameInv'
    BY <1>0, <1>15 DEF FrameInv, SessionOver, Report
  <2>7. WindowInv'
    BY <1>0, <1>15 DEF WindowInv, Report
  <2>8. QED
    BY <2>2, <2>3, <2>4, <2>5, <2>6, <2>7 DEF IInv
<1>16. CASE Rest
  <2>1. Flags'
    BY <1>0, <1>16 DEF Flags, Rest
  <2>2. TypeOK'
    BY <1>0, <1>16, <2>1 DEF TypeOK, Rest, Leave
  <2>3. OwnerInv'
    BY <1>0, <1>16 DEF OwnerInv, Rest, Leave
  <2>4. DrainInv'
    BY <1>0, <1>16 DEF DrainInv, Rest, Leave
  <2>5. ExitInv'
    BY <1>0, <1>16 DEF ExitInv, SessionOver, Rest, Leave
  <2>6. FrameInv'
    BY <1>0, <1>16 DEF FrameInv, SessionOver, Rest, Leave
  <2>7. WindowInv'
    BY <1>0, <1>16 DEF WindowInv, Rest, Leave
  <2>8. QED
    BY <2>2, <2>3, <2>4, <2>5, <2>6, <2>7 DEF IInv
<1>17. CASE Flush
  <2>1. Flags'
    BY <1>0, <1>17 DEF Flags, Flush
  <2>2. TypeOK'
    BY <1>0, <1>17, <2>1 DEF TypeOK, Flush
  <2>3. OwnerInv'
    BY <1>0, <1>17 DEF OwnerInv, Flush
  <2>4. DrainInv'
    BY <1>0, <1>17 DEF DrainInv, Flush
  <2>5. ExitInv'
    BY <1>0, <1>17 DEF ExitInv, SessionOver, Flush
  <2>6. FrameInv'
    BY <1>0, <1>17 DEF FrameInv, SessionOver, Flush
  <2>7. WindowInv'
    BY <1>0, <1>17 DEF WindowInv, Flush
  <2>8. QED
    BY <2>2, <2>3, <2>4, <2>5, <2>6, <2>7 DEF IInv
<1>18. CASE Wake
  <2>1. Flags'
    BY <1>0, <1>18 DEF Flags, Wake
  <2>2. TypeOK'
    BY <1>0, <1>18, <2>1 DEF TypeOK, Wake
  <2>3. OwnerInv'
    BY <1>0, <1>18 DEF OwnerInv, Wake
  <2>4. DrainInv'
    BY <1>0, <1>18 DEF DrainInv, Wake
  <2>5. ExitInv'
    BY <1>0, <1>18 DEF ExitInv, SessionOver, Wake
  <2>6. FrameInv'
    BY <1>0, <1>18 DEF FrameInv, SessionOver, Wake
  <2>7. WindowInv'
    BY <1>0, <1>18 DEF WindowInv, Wake
  <2>8. QED
    BY <2>2, <2>3, <2>4, <2>5, <2>6, <2>7 DEF IInv
<1>19. CASE BeginExit
  <2>1. Flags'
    BY <1>0, <1>19 DEF Flags, BeginExit
  <2>2. TypeOK'
    BY <1>0, <1>19, <2>1 DEF TypeOK, BeginExit
  <2>3. OwnerInv'
    BY <1>0, <1>19 DEF OwnerInv, BeginExit
  <2>4. DrainInv'
    BY <1>0, <1>19 DEF DrainInv, BeginExit
  <2>5. ExitInv'
    BY <1>0, <1>19, Zenon DEF ExitInv, SessionOver, BeginExit
  <2>6. FrameInv'
    BY <1>0, <1>19 DEF FrameInv, SessionOver, BeginExit
  <2>7. WindowInv'
    BY <1>0, <1>19 DEF WindowInv, BeginExit
  <2>8. QED
    BY <2>2, <2>3, <2>4, <2>5, <2>6, <2>7 DEF IInv
<1>20. CASE Detach
  <2>1. Flags'
    BY <1>0, <1>20, ZenonT(30) DEF Flags, Detach
  <2>2. TypeOK'
    BY <1>0, <1>20, <2>1 DEF TypeOK, Detach
  <2>3. OwnerInv'
    BY <1>0, <1>20 DEF OwnerInv, Detach
  <2>4. DrainInv'
    BY <1>0, <1>20 DEF DrainInv, Detach
  <2>5. ExitInv'
    BY <1>0, <1>20 DEF ExitInv, SessionOver, Detach
  <2>6. FrameInv'
    BY <1>0, <1>20 DEF FrameInv, SessionOver, Detach
  <2>7. WindowInv'
    BY <1>0, <1>20 DEF WindowInv, Detach
  <2>8. QED
    BY <2>2, <2>3, <2>4, <2>5, <2>6, <2>7 DEF IInv
<1>21. CASE Close
  <2>1. Flags'
    BY <1>0, <1>21, ZenonT(30) DEF Flags, Close
  <2>2. TypeOK'
    BY <1>0, <1>21, <2>1 DEF TypeOK, Close
  <2>3. OwnerInv'
    BY <1>0, <1>21 DEF OwnerInv, Close
  <2>4. DrainInv'
    BY <1>0, <1>21 DEF DrainInv, Close
  <2>5. ExitInv'
    BY <1>0, <1>21 DEF ExitInv, SessionOver, Close
  <2>6. FrameInv'
    BY <1>0, <1>21 DEF FrameInv, DrainInv, SessionOver, Close
  <2>7. WindowInv'
    BY <1>0, <1>21 DEF WindowInv, Close
  <2>8. QED
    BY <2>2, <2>3, <2>4, <2>5, <2>6, <2>7 DEF IInv
<1>22. CASE Blocks
  <2>1. Flags'
    BY <1>0, <1>22 DEF Flags, Blocks
  <2>2. TypeOK'
    BY <1>0, <1>22, <2>1 DEF TypeOK, Blocks
  <2>3. OwnerInv'
    BY <1>0, <1>22 DEF OwnerInv, Blocks
  <2>4. DrainInv'
    BY <1>0, <1>22 DEF DrainInv, Blocks
  <2>5. ExitInv'
    BY <1>0, <1>22 DEF ExitInv, SessionOver, Blocks
  <2>6. FrameInv'
    BY <1>0, <1>22 DEF FrameInv, SessionOver, Blocks
  <2>7. WindowInv'
    BY <1>0, <1>22 DEF WindowInv, Blocks
  <2>8. QED
    BY <2>2, <2>3, <2>4, <2>5, <2>6, <2>7 DEF IInv
<1>23. CASE Forfeit
  <2>1. Flags'
    BY <1>0, <1>23 DEF Flags, Forfeit
  <2>2. TypeOK'
    BY <1>0, <1>23, <2>1 DEF TypeOK, Forfeit, Unblock
  <2>3. OwnerInv'
    BY <1>0, <1>23 DEF OwnerInv, Forfeit, Blocked, Unblock
  <2>4. DrainInv'
    BY <1>0, <1>23 DEF DrainInv, Forfeit, Blocked, Unblock
  <2>5. ExitInv'
    BY <1>0, <1>23 DEF ExitInv, SessionOver, Forfeit, Blocked, Unblock
  <2>6. FrameInv'
    BY <1>0, <1>23 DEF FrameInv, SessionOver, Forfeit, Unblock
  <2>7. WindowInv'
    BY <1>0, <1>23 DEF WindowInv, Forfeit, Unblock
  <2>8. QED
    BY <2>2, <2>3, <2>4, <2>5, <2>6, <2>7 DEF IInv
<1>24. CASE BellDies
  <2>1. Flags'
    BY <1>0, <1>24 DEF Flags, BellDies
  <2>2. TypeOK'
    BY <1>0, <1>24, <2>1 DEF TypeOK, BellDies, Leave
  <2>3. OwnerInv'
    BY <1>0, <1>24 DEF OwnerInv, BellDies, Leave
  <2>4. DrainInv'
    BY <1>0, <1>24 DEF DrainInv, BellDies, Leave
  <2>5. ExitInv'
    BY <1>0, <1>24 DEF ExitInv, SessionOver, BellDies, Leave
  <2>6. FrameInv'
    BY <1>0, <1>24 DEF FrameInv, SessionOver, BellDies, Leave
  <2>7. WindowInv'
    BY <1>0, <1>24 DEF WindowInv, BellDies, Leave
  <2>8. QED
    BY <2>2, <2>3, <2>4, <2>5, <2>6, <2>7 DEF IInv
<1>25. CASE \E kind \in Kinds : Post(kind)
  <2>1. PICK kind \in Kinds : Post(kind)
    BY <1>25
  <2>2. CASE running
    <3>1. Flags'
      BY <1>0, <2>1, <2>2, ZenonT(30) DEF Flags, Post
    <3>2. TypeOK'
      BY <1>0, <2>1, <2>2, <3>1 DEF TypeOK, Post
    <3>3. OwnerInv'
      BY <1>0, <2>1, <2>2 DEF OwnerInv, Post
    <3>4. DrainInv'
      BY <1>0, <2>1, <2>2 DEF DrainInv, Post
    <3>5. ExitInv'
      BY <1>0, <2>1, <2>2 DEF ExitInv, SessionOver, Post
    <3>6. FrameInv'
      BY <1>0, <2>1, <2>2 DEF FrameInv, SessionOver, Post
    <3>7. WindowInv'
      BY <1>0, <2>1, <2>2 DEF WindowInv, Post
    <3>8. QED
      BY <3>2, <3>3, <3>4, <3>5, <3>6, <3>7 DEF IInv
  <2>3. CASE ~running
    <3>1. Flags'
      BY <1>0, <2>1, <2>3 DEF Flags, Post
    <3>2. TypeOK'
      BY <1>0, <2>1, <2>3, <3>1 DEF TypeOK, Post
    <3>3. OwnerInv'
      BY <1>0, <2>1, <2>3 DEF OwnerInv, Post
    <3>4. DrainInv'
      BY <1>0, <2>1, <2>3 DEF DrainInv, Post
    <3>5. ExitInv'
      BY <1>0, <2>1, <2>3 DEF ExitInv, SessionOver, Post
    <3>6. FrameInv'
      BY <1>0, <2>1, <2>3 DEF FrameInv, SessionOver, Post
    <3>7. WindowInv'
      BY <1>0, <2>1, <2>3 DEF WindowInv, Post
    <3>8. QED
      BY <3>2, <3>3, <3>4, <3>5, <3>6, <3>7 DEF IInv
  <2>4. QED
    BY <2>2, <2>3
<1>26. CASE Collect
  <2>1. Flags'
    BY <1>0, <1>26 DEF Flags, Collect
  <2>2. TypeOK'
    BY <1>0, <1>26, <2>1 DEF TypeOK, Collect
  <2>3. OwnerInv'
    BY <1>0, <1>26 DEF OwnerInv, Collect
  <2>4. DrainInv'
    BY <1>0, <1>26 DEF DrainInv, Collect
  <2>5. ExitInv'
    BY <1>0, <1>26 DEF ExitInv, SessionOver, Collect
  <2>6. FrameInv'
    BY <1>0, <1>26 DEF FrameInv, SessionOver, Collect
  <2>7. WindowInv'
    BY <1>0, <1>26 DEF WindowInv, Collect
  <2>8. QED
    BY <2>2, <2>3, <2>4, <2>5, <2>6, <2>7 DEF IInv
<1>27. CASE PublishRecord
  <2>1. Flags'
    BY <1>0, <1>27 DEF Flags, PublishRecord
  <2>2. TypeOK'
    BY <1>0, <1>27, <2>1 DEF TypeOK, PublishRecord
  <2>3. OwnerInv'
    BY <1>0, <1>27 DEF OwnerInv, PublishRecord
  <2>4. DrainInv'
    BY <1>0, <1>27 DEF DrainInv, TypeOK, PublishRecord
  <2>5. ExitInv'
    BY <1>0, <1>27 DEF ExitInv, SessionOver, PublishRecord
  <2>6. FrameInv'
    BY <1>0, <1>27 DEF FrameInv, SessionOver, PublishRecord
  <2>7. WindowInv'
    BY <1>0, <1>27 DEF WindowInv, PublishRecord
  <2>8. QED
    BY <2>2, <2>3, <2>4, <2>5, <2>6, <2>7 DEF IInv
<1>28. CASE ClientDrains
  <2>1. Flags'
    BY <1>0, <1>28, ZenonT(30) DEF Flags, ClientDrains
  <2>2. TypeOK'
    BY <1>0, <1>28, <2>1 DEF TypeOK, ClientDrains
  <2>3. OwnerInv'
    BY <1>0, <1>28 DEF OwnerInv, ClientDrains
  <2>4. DrainInv'
    BY <1>0, <1>28 DEF DrainInv, ClientDrains
  <2>5. ExitInv'
    BY <1>0, <1>28 DEF ExitInv, SessionOver, ClientDrains
  <2>6. FrameInv'
    BY <1>0, <1>28 DEF FrameInv, SessionOver, ClientDrains
  <2>7. WindowInv'
    BY <1>0, <1>28 DEF WindowInv, ClientDrains
  <2>8. QED
    BY <2>2, <2>3, <2>4, <2>5, <2>6, <2>7 DEF IInv
<1>29. CASE GpuSignals
  <2>1. Flags'
    BY <1>0, <1>29 DEF Flags, GpuSignals
  <2>2. TypeOK'
    BY <1>0, <1>29, <2>1 DEF TypeOK, GpuSignals
  <2>3. OwnerInv'
    BY <1>0, <1>29 DEF OwnerInv, GpuSignals
  <2>4. DrainInv'
    BY <1>0, <1>29 DEF DrainInv, GpuSignals
  <2>5. ExitInv'
    BY <1>0, <1>29 DEF ExitInv, SessionOver, GpuSignals
  <2>6. FrameInv'
    BY <1>0, <1>29 DEF FrameInv, SessionOver, GpuSignals
  <2>7. WindowInv'
    BY <1>0, <1>29 DEF WindowInv, GpuSignals
  <2>8. QED
    BY <2>2, <2>3, <2>4, <2>5, <2>6, <2>7 DEF IInv
<1>30. CASE Signal
  <2>1. CASE stop' = TRUE /\ UNCHANGED <<abandon, latched>>
    <3>1. Flags'
      BY <1>0, <1>30, <2>1 DEF Flags, Signal
    <3>2. TypeOK'
      BY <1>0, <1>30, <2>1, <3>1 DEF TypeOK, Signal
    <3>3. OwnerInv'
      BY <1>0, <1>30, <2>1 DEF OwnerInv, Signal
    <3>4. DrainInv'
      BY <1>0, <1>30, <2>1 DEF DrainInv, Signal
    <3>5. ExitInv'
      BY <1>0, <1>30, <2>1 DEF ExitInv, SessionOver, Signal
    <3>6. FrameInv'
      BY <1>0, <1>30, <2>1 DEF FrameInv, SessionOver, Signal
    <3>7. WindowInv'
      BY <1>0, <1>30, <2>1 DEF WindowInv, Signal
    <3>8. QED
      BY <3>2, <3>3, <3>4, <3>5, <3>6, <3>7 DEF IInv
  <2>2. CASE abandon' = TRUE /\ UNCHANGED <<stop, latched>>
    <3>1. Flags'
      BY <1>0, <1>30, <2>2 DEF Flags, Signal
    <3>2. TypeOK'
      BY <1>0, <1>30, <2>2, <3>1 DEF TypeOK, Signal
    <3>3. OwnerInv'
      BY <1>0, <1>30, <2>2 DEF OwnerInv, Signal
    <3>4. DrainInv'
      BY <1>0, <1>30, <2>2 DEF DrainInv, Signal
    <3>5. ExitInv'
      BY <1>0, <1>30, <2>2 DEF ExitInv, SessionOver, Signal
    <3>6. FrameInv'
      BY <1>0, <1>30, <2>2 DEF FrameInv, SessionOver, Signal
    <3>7. WindowInv'
      BY <1>0, <1>30, <2>2 DEF WindowInv, Signal
    <3>8. QED
      BY <3>2, <3>3, <3>4, <3>5, <3>6, <3>7 DEF IInv
  <2>3. CASE latched' = TRUE /\ UNCHANGED <<stop, abandon>>
    <3>1. Flags'
      BY <1>0, <1>30, <2>3 DEF Flags, Signal
    <3>2. TypeOK'
      BY <1>0, <1>30, <2>3, <3>1 DEF TypeOK, Signal
    <3>3. OwnerInv'
      BY <1>0, <1>30, <2>3 DEF OwnerInv, Signal
    <3>4. DrainInv'
      BY <1>0, <1>30, <2>3 DEF DrainInv, Signal
    <3>5. ExitInv'
      BY <1>0, <1>30, <2>3 DEF ExitInv, SessionOver, Signal
    <3>6. FrameInv'
      BY <1>0, <1>30, <2>3 DEF FrameInv, SessionOver, Signal
    <3>7. WindowInv'
      BY <1>0, <1>30, <2>3 DEF WindowInv, Signal
    <3>8. QED
      BY <3>2, <3>3, <3>4, <3>5, <3>6, <3>7 DEF IInv
  <2>4. QED
    BY <2>1, <2>2, <2>3, <1>30 DEF Signal
<1>31. CASE RequestWindow
  <2>1. Flags'
    BY <1>0, <1>31 DEF Flags, RequestWindow
  <2>2. TypeOK'
    BY <1>0, <1>31, <2>1 DEF TypeOK, RequestWindow
  <2>3. OwnerInv'
    BY <1>0, <1>31 DEF OwnerInv, RequestWindow
  <2>4. DrainInv'
    BY <1>0, <1>31 DEF DrainInv, RequestWindow
  <2>5. ExitInv'
    BY <1>0, <1>31 DEF ExitInv, SessionOver, RequestWindow
  <2>6. FrameInv'
    BY <1>0, <1>31 DEF FrameInv, SessionOver, RequestWindow
  <2>7. WindowInv'
    BY <1>0, <1>31 DEF WindowInv, RequestWindow
  <2>8. QED
    BY <2>2, <2>3, <2>4, <2>5, <2>6, <2>7 DEF IInv
<1>32. QED
  BY <1>1, <1>2, <1>3, <1>4, <1>5, <1>6, <1>7, <1>8, <1>9, <1>10, <1>11, <1>12, <1>13, <1>14,
    <1>15, <1>16, <1>17, <1>18, <1>19, <1>20, <1>21, <1>22, <1>23, <1>24, <1>25, <1>26, <1>27,
    <1>28, <1>29, <1>30, <1>31 DEF Next, ThreadStep

(* The invariant of the apply thread. *)
THEOREM LoopInvariant == Spec => []IInv
<1>1. Init => IInv
  <2>1. Init => Flags
    BY Zenon DEF Init, Flags
  <2>2. Init => TypeOK
    BY <2>1, SMTT(30) DEF Init, TypeOK
  <2>3. Init => OwnerInv /\ DrainInv /\ ExitInv /\ FrameInv /\ WindowInv
    BY DEF Init, OwnerInv, DrainInv, ExitInv, FrameInv, WindowInv
  <2>4. QED
    BY <2>2, <2>3 DEF IInv
<1>2. IInv /\ [Next]_vars => IInv'
  <2>1. CASE IInv /\ Next
    BY <2>1, StepKeepsInvariant
  <2>2. CASE IInv /\ UNCHANGED vars
    BY <2>2, ZenonT(30) DEF vars, IInv, TypeOK, Flags, OwnerInv, DrainInv, ExitInv, FrameInv,
      WindowInv, SessionOver
  <2>3. QED
    BY <2>1, <2>2
<1>3. QED
  BY <1>1, <1>2, PTL DEF Spec

(* Whenever the thread rests, everything it applied is retired, whichever  *)
(* way it left DrainRing.                                                  *)
THEOREM RestingIsRetired == Spec => []RestsRetired
<1>1. IInv => RestsRetired
  BY DEF IInv, DrainInv, RestsRetired
<1>2. QED
  BY <1>1, LoopInvariant, PTL

(* What the client had published when the thread left its loop is applied  *)
(* before the backend goes, unless the session is over.                    *)
THEOREM OrderlyExitDropsNothing == Spec => []QueueAppliedBeforeExit
<1>1. IInv => QueueAppliedBeforeExit
  BY DEF IInv, ExitInv, SessionOver, QueueAppliedBeforeExit
<1>2. QED
  BY <1>1, LoopInvariant, PTL

(* A window request is behind one record and one teardown at most, however *)
(* many records and frames are queued.                                     *)
THEOREM WindowIsNotStarved == Spec => []WindowNotStarved
<1>1. IInv => WindowNotStarved
  BY DEF IInv, WindowInv, WindowNotStarved
<1>2. QED
  BY <1>1, LoopInvariant, PTL

(* No control frame is posted to a backend without a thread. *)
THEOREM BackendHasItsThread == Spec => []NoThreadlessPost
<1>1. IInv => NoThreadlessPost
  BY DEF IInv, OwnerInv, NoThreadlessPost
<1>2. QED
  BY <1>1, LoopInvariant, PTL

(* A teardown is dispatched only behind the records its client published   *)
(* before it.                                                              *)
THEOREM TeardownsComeLast == Spec => TeardownAfterRecords
<1> DEFINE Dispatches == lpc # "dispatch" /\ lpc' = "dispatch" /\ frame = "teardown"
           Served == applied >= asked \/ latched \/ forfeited \/ abandon \/ full
<1>1. ASSUME IInv, Next, Dispatches
      PROVE  Served
  <2>1. CASE TakeFrame
    BY <1>1, <2>1 DEF TakeFrame
  <2>2. CASE EndDrain
    BY <1>1, <2>2 DEF EndDrain, IInv, FrameInv, SessionOver
  <2>3. TakeFrame \/ EndDrain
    BY <1>1, SMTT(30) DEF IInv, TypeOK, Next, ThreadStep, PumpWindow, DeclineFrame, NoFrame, GoOn,
      AfterPump, Dispatch, Reply, NextRecord, PopRecord, Admit, FinishRecord, BacklogDrained,
      Unblock, Check, CheckAgain, Report, Rest, Leave, Flush, Wake, BeginExit, Detach, Close,
      Blocks, Forfeit, BellDies, Post, Collect, PublishRecord, ClientDrains, GpuSignals, Signal,
      RequestWindow
  <2>4. QED
    BY <2>1, <2>2, <2>3
<1>2. IInv /\ [Next]_vars => [Dispatches => Served]_vars
  BY <1>1
<1>3. QED
  BY <1>2, LoopInvariant, PTL DEF Spec, TeardownAfterRecords
================================================================================
