------------------------------ MODULE DoorbellProofs ------------------------------
(***************************************************************************)
(* The safety of Doorbell, for any counters, any room of the socket and    *)
(* either kind of bell: no wakeup is lost and no wait claims an event that *)
(* did not happen.  The argument is the one of the two fences.  Behind its *)
(* own fence the waiter's announcement is visible (AnnouncedInv), behind   *)
(* the notifier's its publication is (PublisherInv); so a counter that     *)
(* reaches its goal after the waiter's re-test has a notifier that will    *)
(* find the flag raised, and the narrowing does not turn it away, for the  *)
(* target is the goal of this wait (TargetInv).  That waits end            *)
(* (ReadyEndsWait, DeathEndsWait) is left to the runs.                     *)
(***************************************************************************)
EXTENDS Doorbell, TLAPS

(* A store buffer: what is stored last is last, what is drained is first.  *)
LEMMA Stored == ASSUME NEW S, NEW s \in Seq(S), NEW e \in S
                PROVE  /\ Append(s, e) \in Seq(S) /\ Len(Append(s, e)) = Len(s) + 1
                       /\ Append(s, e) # <<>> /\ Append(s, e)[Len(s) + 1] = e
                       /\ Len(s) \in Nat /\ (s = <<>> <=> Len(s) = 0)
  OBVIOUS

LEMMA Emptiness == ASSUME NEW S, NEW s \in Seq(S)
                   PROVE  Len(s) \in Nat /\ (s = <<>> <=> Len(s) = 0)
  OBVIOUS

LEMMA Emptied == ASSUME NEW S, NEW s \in Seq(S), s # <<>>
                 PROVE  /\ Head(s) \in S /\ Tail(s) \in Seq(S) /\ Len(Tail(s)) = Len(s) - 1
                        /\ (IF Tail(s) = <<>> THEN Head(s) ELSE Tail(s)[Len(Tail(s))]) = s[Len(s)]
<1>1. Len(s) \in Nat /\ Len(s) > 0
  OBVIOUS
<1>2. Head(s) \in S /\ Head(s) = s[1] /\ Tail(s) \in Seq(S) /\ Len(Tail(s)) = Len(s) - 1
  OBVIOUS
<1>3. PICK t \in Seq(S) : t = Tail(s)
  BY <1>2
<1>4. Len(t) = Len(s) - 1 /\ (t = <<>> <=> Len(t) = 0)
  BY <1>2, <1>3, Emptiness
<1>5. CASE Len(s) = 1
  BY <1>2, <1>3, <1>4, <1>5
<1>6. CASE Len(s) > 1
  <2>1. Len(s) - 1 \in 1..Len(s) - 1 /\ Len(s) - 1 + 1 = Len(s)
    BY <1>1, <1>6
  <2>2. \A i \in 1..Len(s) - 1 : Tail(s)[i] = s[i + 1]
    OBVIOUS
  <2>3. t # <<>> /\ t[Len(t)] = s[Len(s)]
    BY <1>1, <1>3, <1>4, <1>6, <2>1, <2>2
  <2>4. QED
    BY <1>2, <1>3, <2>3
<1>7. QED
  BY <1>1, <1>5, <1>6

(* A store that becomes visible does not change what was announced last.   *)
LEMMA DrainKeepsAnnounced ==
  ASSUME parkBuf \in Seq({0, 1}), parkBuf # <<>>, parked' = Head(parkBuf), parkBuf' = Tail(parkBuf)
  PROVE  Announced' = Announced /\ Len(parkBuf') = Len(parkBuf) - 1
<1>1. (IF Tail(parkBuf) = <<>> THEN Head(parkBuf) ELSE Tail(parkBuf)[Len(Tail(parkBuf))])
        = parkBuf[Len(parkBuf)]
  BY Emptied
<1>2. Len(Tail(parkBuf)) = Len(parkBuf) - 1
  BY Emptied
<1>3. QED
  BY <1>1, <1>2 DEF Announced

LEMMA Nothing == DOMAIN NoTarget = {} /\ NoTarget \in Seq({0, 1}) /\ Len(NoTarget) = 0
  BY DEF NoTarget

(* What every wait of the program asks for: counters it does not have yet, *)
(* narrowed, if at all, to a counter of NotifyClient it asks for.          *)
Asked(g, t) ==
  /\ DOMAIN g \subseteq Counters /\ \A k \in DOMAIN g : g[k] \in Nat
  /\ t # NoTarget =>
       /\ t \in Narrowed \X (1..MaxProgress + 1)
       /\ t[1] \in DOMAIN g /\ g[t[1]] = t[2] /\ DOMAIN g \subseteq {t[1]} \cup Backlog

LEMMA WaitStarts == ASSUME TypeOK, StartWait
                    PROVE  \E g, t : \E f \in BOOLEAN : BeginWait(g, t, f) /\ Asked(g, t)
<1>1. PICK f \in BOOLEAN :
        \/ \E k \in Narrowed \cap Mine : \E n \in Later(k) : BeginWait([j \in {k} |-> n], <<k, n>>, f)
        \/ \E k \in Narrowed \cap Mine, b \in Backlog : \E n \in Later(k) :
             BeginWait([j \in {k, b} |-> IF j = k THEN n ELSE progress[b] + 1], <<k, n>>, f)
        \/ \E k \in Mine : \E n \in Later(k) : BeginWait([j \in {k} |-> n], NoTarget, f)
        \/ side = "server" /\ BeginWait([j \in ServerCounters |-> progress[j] + 1], NoTarget, f)
  BY DEF StartWait
<1>a. /\ Narrowed \subseteq Counters /\ Backlog \subseteq Counters /\ Mine \subseteq Counters
      /\ ServerCounters \subseteq Counters
  BY DEF Mine, Counters, ClientCounters, ServerCounters
<1>b. ASSUME NEW k \in Counters PROVE progress[k] \in 0..MaxProgress /\ progress[k] + 1 \in Nat
  BY CountersAssumption DEF TypeOK
<1>c. ASSUME NEW k \in Counters, NEW n \in Later(k) PROVE n \in Nat /\ n \in 1..MaxProgress + 1
  BY <1>b, CountersAssumption DEF Later
<1>3. ASSUME NEW k \in Narrowed, NEW n \in Later(k) PROVE Asked([j \in {k} |-> n], <<k, n>>)
  BY <1>a, <1>c DEF Asked
<1>4. ASSUME NEW k \in Narrowed, NEW b \in Backlog, NEW n \in Later(k)
      PROVE  Asked([j \in {k, b} |-> IF j = k THEN n ELSE progress[b] + 1], <<k, n>>)
  BY <1>a, <1>b, <1>c DEF Asked
<1>5. ASSUME NEW k \in Counters, NEW n \in Later(k) PROVE Asked([j \in {k} |-> n], NoTarget)
  BY <1>c DEF Asked
<1>6. Asked([j \in ServerCounters |-> progress[j] + 1], NoTarget)
  BY <1>a, <1>b DEF Asked
<1>8. CASE \E k \in Narrowed \cap Mine : \E n \in Later(k) : BeginWait([j \in {k} |-> n], <<k, n>>, f)
  BY <1>3, <1>8
<1>9. CASE \E k \in Narrowed \cap Mine, b \in Backlog : \E n \in Later(k) :
             BeginWait([j \in {k, b} |-> IF j = k THEN n ELSE progress[b] + 1], <<k, n>>, f)
  BY <1>4, <1>9
<1>10. CASE \E k \in Mine : \E n \in Later(k) : BeginWait([j \in {k} |-> n], NoTarget, f)
  BY <1>5, <1>a, <1>10
<1>11. CASE BeginWait([j \in ServerCounters |-> progress[j] + 1], NoTarget, f)
  BY <1>6, <1>11
<1>12. QED
  BY <1>1, <1>8, <1>9, <1>10, <1>11

(* An endpoint starts with nobody parked, nothing stored and no bell rung. *)
LEMMA InitIInv == Init => IInv
<1> SUFFICES ASSUME Init PROVE IInv
  OBVIOUS
<1> USE CountersAssumption DEF Init
<1>1. TypeOK
  <2>1. progress \in [Counters -> 0..MaxProgress] /\ pubBuf \in [Counters -> BOOLEAN]
    OBVIOUS
  <2>2. npc \in [Counters -> {"idle", "fence", "flag", "target", "ring"}]
    OBVIOUS
  <2>3. goal = NoTarget /\ wakeTarget = NoTarget /\ parkBuf = NoTarget
    BY DEF NoTarget
  <2>4. DOMAIN goal \subseteq Counters /\ \A k \in DOMAIN goal : goal[k] \in Nat
    BY <2>3, Nothing
  <2>5. parkBuf \in Seq({0, 1}) /\ Len(parkBuf) <= 2
    BY <2>3, Nothing
  <2>6. QED
    BY <2>1, <2>2, <2>3, <2>4, <2>5 DEF TypeOK
<1>2. AnnouncedInv /\ PublisherInv
  BY DEF AnnouncedInv, PublisherInv
<1>3. TargetInv /\ WakeupInv /\ ReachedIsTrue
  BY DEF TargetInv, WakeupInv, ReachedIsTrue
<1>4. QED
  BY <1>1, <1>2, <1>3 DEF IInv

(* The buffer holds two stores at most: a withdrawal that is still in it   *)
(* and the next announcement, which the fence lets out.                    *)
LEMMA TypeStep == ASSUME TypeOK, AnnouncedInv, PublisherInv, [Next]_vars PROVE TypeOK'
<1> USE CountersAssumption DEF TypeOK, AnnouncedInv, PublisherInv, vars, waiterVars, waitVars
<1>1. CASE StartWait
  <2>1. PICK g, t : \E f \in BOOLEAN : BeginWait(g, t, f) /\ Asked(g, t)
    BY <1>1, WaitStarts
  <2>2. QED
    BY <2>1 DEF BeginWait, Asked
<1>2. CASE EndWait
  BY <1>2, Nothing DEF EndWait, NoTarget
<1>3. CASE Test
  BY <1>3 DEF Test, Reaches, Ready, Return
<1>4. CASE Announce
  <2>1. \A v \in {0, 1} : Append(parkBuf, v) \in Seq({0, 1}) /\ Len(Append(parkBuf, v)) = Len(parkBuf) + 1
    BY Stored
  <2>2. QED
    BY <1>4, <2>1 DEF Announce, StoreParked
<1>5. CASE Fence
  BY <1>5 DEF Fence
<1>6. CASE Retest
  <2>1. CASE parkBuf' = Append(parkBuf, 0)
    <3>1. parkBuf = <<>> /\ Len(parkBuf) = 0
      BY <1>6 DEF Retest
    <3>2. parkBuf' \in Seq({0, 1}) /\ Len(parkBuf') = 1
      BY <2>1, <3>1, Stored
    <3>3. pc' \in {"return", "expired"} /\ result' \in {"reached", result} /\ UNCHANGED waitVars
      BY <1>6, <2>1, <3>1, <3>2 DEF Retest, Return
    <3>4. QED
      BY <3>2, <3>3
  <2>2. CASE UNCHANGED <<parkBuf, result>> /\ pc' = "parked"
    BY <1>6, <2>2 DEF Retest
  <2>3. QED
    BY <1>6, <2>1, <2>2 DEF Retest, StoreParked, Return
<1>7. CASE Expired
  BY <1>7 DEF Expired, Reaches, Ready, Return
<1>8. CASE Park
  BY <1>8 DEF Park
<1>9. CASE ClearParked
  <2>1. \A v \in {0, 1} : Append(parkBuf, v) \in Seq({0, 1}) /\ Len(Append(parkBuf, v)) = Len(parkBuf) + 1
    BY Stored
  <2>2. QED
    BY <1>9, <2>1 DEF ClearParked, StoreParked
<1>10. CASE Recheck
  BY <1>10 DEF Recheck, Reaches, Ready, Return
<1>11. CASE DrainParkBuf
  BY <1>11, Emptied DEF DrainParkBuf
<1>12. ASSUME NEW k \in Counters, Publish(k) PROVE TypeOK'
  BY <1>12 DEF Publish
<1>13. ASSUME NEW k \in Counters, DrainPubBuf(k) PROVE TypeOK'
  BY <1>13 DEF DrainPubBuf
<1>14. ASSUME NEW k \in Counters, NotifierFence(k) PROVE TypeOK'
  BY <1>14 DEF NotifierFence
<1>15. ASSUME NEW k \in Counters, ReadParked(k) PROVE TypeOK'
  BY <1>15 DEF ReadParked
<1>16. ASSUME NEW k \in Counters, ReadTarget(k) PROVE TypeOK'
  BY <1>16 DEF ReadTarget, TargetReached
<1>17. ASSUME NEW k \in Counters, Ring(k) PROVE TypeOK'
  BY <1>17 DEF Ring
<1>18. CASE Kill
  BY <1>18 DEF Kill
<1>19. CASE UNCHANGED vars
  BY <1>19
<1>20. QED
  BY <1>1, <1>2, <1>3, <1>4, <1>5, <1>6, <1>7, <1>8, <1>9, <1>10, <1>11, <1>12, <1>13, <1>14,
         <1>15, <1>16, <1>17, <1>18, <1>19 DEF Next, WaiterStep, NotifierStep

(* Nothing is stored to parked between the fence and the park's end.       *)
LEMMA AnnouncedStep == ASSUME TypeOK, AnnouncedInv, [Next]_vars PROVE AnnouncedInv'
<1> USE CountersAssumption DEF TypeOK, vars, waiterVars, waitVars
<1>1. CASE StartWait
  <2>1. PICK g, t : \E f \in BOOLEAN : BeginWait(g, t, f) /\ Asked(g, t)
    BY <1>1, WaitStarts
  <2>2. QED
    BY <2>1 DEF BeginWait, Asked, AnnouncedInv, Announced
<1>2. CASE EndWait
  BY <1>2 DEF EndWait, AnnouncedInv, Announced
<1>3. CASE Test
  BY <1>3 DEF Test, Reaches, Ready, Return, AnnouncedInv, Announced
<1>4. CASE Announce
  <2>1. parkBuf' = Append(parkBuf, 1) /\ pc' = "fence"
    BY <1>4 DEF Announce, StoreParked
  <2>2. parkBuf' # <<>> /\ parkBuf'[Len(parkBuf')] = 1
    BY <2>1, Stored
  <2>3. QED
    BY <2>1, <2>2 DEF AnnouncedInv, Announced
<1>5. CASE Fence
  BY <1>5 DEF Fence, AnnouncedInv, Announced
<1>6. CASE Retest
  <2>1. CASE parkBuf' = Append(parkBuf, 0)
    <3>1. parkBuf = <<>> /\ Len(parkBuf) = 0
      BY <1>6 DEF Retest, AnnouncedInv
    <3>2. parkBuf' \in Seq({0, 1}) /\ Len(parkBuf') = 1
      BY <2>1, <3>1, Stored
    <3>3. pc' \in {"return", "expired"} /\ result' \in {"reached", result} /\ UNCHANGED waitVars
      BY <1>6, <2>1, <3>1, <3>2 DEF Retest, Return
    <3>4. QED
      BY <3>2, <3>3 DEF AnnouncedInv
  <2>2. CASE UNCHANGED <<parkBuf, result>> /\ pc' = "parked"
    BY <1>6, <2>2 DEF Retest, AnnouncedInv
  <2>3. QED
    BY <1>6, <2>1, <2>2 DEF Retest, StoreParked, Return, AnnouncedInv, Announced
<1>7. CASE Expired
  BY <1>7 DEF Expired, Reaches, Ready, Return, AnnouncedInv, Announced
<1>8. CASE Park
  BY <1>8 DEF Park, AnnouncedInv, Announced
<1>9. CASE ClearParked
  BY <1>9 DEF ClearParked, StoreParked, AnnouncedInv, Announced
<1>10. CASE Recheck
  BY <1>10 DEF Recheck, Reaches, Ready, Return, AnnouncedInv, Announced
<1>11. CASE DrainParkBuf
  <2>1. /\ parked' = Head(parkBuf) /\ parkBuf' = Tail(parkBuf) /\ pc' = pc /\ parkBuf # <<>>
    BY <1>11 DEF DrainParkBuf
  <2>2. Announced' = Announced
    BY <2>1, DrainKeepsAnnounced
  <2>3. Len(parkBuf') = Len(parkBuf) - 1 /\ Len(parkBuf) \in Nat
    BY <2>1, DrainKeepsAnnounced, Emptiness
  <2>4. pc' = "fence" => Announced' = 1
    BY <2>1, <2>2 DEF AnnouncedInv
  <2>5. pc' \notin {"retest", "parked", "clear"}
    BY <2>1 DEF AnnouncedInv
  <2>6. pc' = pc
    BY <2>1
  <2>7. pc' # "fence" => Len(parkBuf') <= 1
    BY <2>3, <2>6 DEF AnnouncedInv
  <2>8. QED
    BY <2>4, <2>5, <2>7 DEF AnnouncedInv
<1>12. CASE Kill
  <2>1. UNCHANGED <<parkBuf, parked, pc>>
    BY <1>12 DEF Kill
  <2>2. QED
    BY <2>1 DEF AnnouncedInv, Announced
<1>13. ASSUME NEW k \in Counters, Publish(k) \/ DrainPubBuf(k) \/ NotifierFence(k) \/
       ReadParked(k) \/ ReadTarget(k) \/ Ring(k) PROVE AnnouncedInv'
  <2>1. UNCHANGED <<parkBuf, parked, pc>>
    BY <1>13 DEF Publish, DrainPubBuf, NotifierFence, ReadParked, ReadTarget, Ring
  <2>2. QED
    BY <2>1 DEF AnnouncedInv, Announced
<1>14. CASE UNCHANGED vars
  BY <1>14 DEF AnnouncedInv, Announced
<1>15. QED
  BY <1>1, <1>2, <1>3, <1>4, <1>5, <1>6, <1>7, <1>8, <1>9, <1>10, <1>11, <1>12, <1>13, <1>14 DEF
         Next, WaiterStep, NotifierStep

(* A notifier looks at the flag, or rings, only behind its publication.    *)
LEMMA PublisherStep == ASSUME TypeOK, PublisherInv, [Next]_vars PROVE PublisherInv'
<1> USE CountersAssumption DEF TypeOK, PublisherInv, vars, waiterVars, waitVars
<1>1. ASSUME NEW k \in Counters, Publish(k) PROVE PublisherInv'
  BY <1>1 DEF Publish
<1>2. ASSUME NEW k \in Counters, DrainPubBuf(k) PROVE PublisherInv'
  BY <1>2 DEF DrainPubBuf
<1>3. ASSUME NEW k \in Counters, NotifierFence(k) PROVE PublisherInv'
  BY <1>3 DEF NotifierFence
<1>4. ASSUME NEW k \in Counters, ReadParked(k) PROVE PublisherInv'
  BY <1>4 DEF ReadParked
<1>5. ASSUME NEW k \in Counters, ReadTarget(k) PROVE PublisherInv'
  BY <1>5 DEF ReadTarget, TargetReached
<1>6. ASSUME NEW k \in Counters, Ring(k) PROVE PublisherInv'
  BY <1>6 DEF Ring
<1>7. CASE StartWait \/ EndWait \/ Test \/ Announce \/ Fence \/ Retest \/ Expired \/ Park \/
       ClearParked \/ Recheck \/ DrainParkBuf \/ Kill
  <2>1. UNCHANGED <<npc, progress, pubBuf>>
    BY <1>7 DEF StartWait, EndWait, Test, Announce, Fence, Retest, Expired, Park, ClearParked,
           Recheck, DrainParkBuf, Kill, BeginWait
  <2>2. QED
    BY <2>1
<1>8. CASE UNCHANGED vars
  BY <1>8
<1>9. QED
  BY <1>1, <1>2, <1>3, <1>4, <1>5, <1>6, <1>7, <1>8 DEF Next, WaiterStep, NotifierStep

(* A wait's target goes with it, in and out.                               *)
LEMMA TargetStep == ASSUME TypeOK, TargetInv, [Next]_vars PROVE TargetInv'
<1> USE CountersAssumption DEF TypeOK, TargetInv, vars, waiterVars, waitVars
<1>1. CASE StartWait
  <2>1. PICK g, t : \E f \in BOOLEAN : BeginWait(g, t, f) /\ Asked(g, t)
    BY <1>1, WaitStarts
  <2>2. QED
    BY <2>1 DEF BeginWait, Asked
<1>2. CASE EndWait
  BY <1>2 DEF EndWait
<1>3. CASE Test
  BY <1>3 DEF Test, Reaches, Ready, Return
<1>4. CASE Announce
  BY <1>4 DEF Announce, StoreParked
<1>5. CASE Fence
  BY <1>5 DEF Fence
<1>6. CASE Retest
  BY <1>6 DEF Retest, Reaches, Ready, Return, StoreParked
<1>7. CASE Expired
  BY <1>7 DEF Expired, Reaches, Ready, Return
<1>8. CASE Park
  BY <1>8 DEF Park
<1>9. CASE ClearParked
  BY <1>9 DEF ClearParked, StoreParked
<1>10. CASE Recheck
  BY <1>10 DEF Recheck, Reaches, Ready, Return
<1>11. CASE DrainParkBuf \/ Kill
  <2>1. UNCHANGED <<goal, pc, wakeTarget>>
    BY <1>11 DEF DrainParkBuf, Kill
  <2>2. QED
    BY <2>1
<1>12. ASSUME NEW k \in Counters, Publish(k) \/ DrainPubBuf(k) \/ NotifierFence(k) \/
       ReadParked(k) \/ ReadTarget(k) \/ Ring(k) PROVE TargetInv'
  <2>1. UNCHANGED <<goal, pc, wakeTarget>>
    BY <1>12 DEF Publish, DrainPubBuf, NotifierFence, ReadParked, ReadTarget, Ring
  <2>2. QED
    BY <2>1
<1>13. CASE UNCHANGED vars
  BY <1>13
<1>14. QED
  BY <1>1, <1>2, <1>3, <1>4, <1>5, <1>6, <1>7, <1>8, <1>9, <1>10, <1>11, <1>12, <1>13 DEF Next,
         WaiterStep, NotifierStep

(* A counter that reaches its goal while the waiter is parked has a        *)
(* notifier before its fence or before its ring; the flag is up, and the   *)
(* counter is the target or a backlog the target does not hide.            *)
LEMMA WakeupStep == ASSUME TypeOK, AnnouncedInv, PublisherInv, TargetInv, WakeupInv, [Next]_vars PROVE WakeupInv'
<1> USE CountersAssumption DEF TypeOK, AnnouncedInv, PublisherInv, TargetInv, WakeupInv, vars,
       waiterVars, waitVars
<1>1. CASE StartWait
  <2>1. PICK g, t : \E f \in BOOLEAN : BeginWait(g, t, f) /\ Asked(g, t)
    BY <1>1, WaitStarts
  <2>2. QED
    BY <2>1 DEF BeginWait, Asked
<1>2. CASE EndWait
  BY <1>2 DEF EndWait
<1>3. CASE Test
  BY <1>3 DEF Test, Reaches, Ready, Return
<1>4. CASE Announce
  BY <1>4 DEF Announce, StoreParked
<1>5. CASE Fence
  BY <1>5 DEF Fence
<1>6. CASE Retest
  BY <1>6 DEF Retest, Reaches, Ready, Return, StoreParked
<1>7. CASE Expired
  BY <1>7 DEF Expired, Reaches, Ready, Return
<1>8. CASE Park
  BY <1>8 DEF Park
<1>9. CASE ClearParked
  BY <1>9 DEF ClearParked, StoreParked
<1>10. CASE Recheck
  BY <1>10 DEF Recheck, Reaches, Ready, Return
<1>11. ASSUME NEW k \in Counters, Publish(k) PROVE WakeupInv'
  BY <1>11 DEF Publish
<1>12. ASSUME NEW k \in Counters, DrainPubBuf(k) PROVE WakeupInv'
  BY <1>12 DEF DrainPubBuf
<1>13. ASSUME NEW k \in Counters, NotifierFence(k) PROVE WakeupInv'
  BY <1>13 DEF NotifierFence
<1>14. ASSUME NEW k \in Counters, ReadParked(k) PROVE WakeupInv'
  BY <1>14 DEF ReadParked
<1>15. ASSUME NEW k \in Counters, ReadTarget(k) PROVE WakeupInv'
  BY <1>15 DEF ReadTarget, TargetReached
<1>16. ASSUME NEW k \in Counters, Ring(k) PROVE WakeupInv'
  BY <1>16 DEF Ring
<1>17. CASE DrainParkBuf \/ Kill
  <2>1. UNCHANGED <<goal, npc, pc, progress, signals>>
    BY <1>17 DEF DrainParkBuf, Kill
  <2>2. QED
    BY <2>1
<1>18. CASE UNCHANGED vars
  BY <1>18
<1>19. QED
  BY <1>1, <1>2, <1>3, <1>4, <1>5, <1>6, <1>7, <1>8, <1>9, <1>10, <1>11, <1>12, <1>13, <1>14,
         <1>15, <1>16, <1>17, <1>18 DEF Next, WaiterStep, NotifierStep

(* Counters only grow, so a condition once met stays met.                  *)
LEMMA ReachedStep == ASSUME TypeOK, ReachedIsTrue, [Next]_vars PROVE ReachedIsTrue'
<1> USE CountersAssumption DEF TypeOK, ReachedIsTrue, Ready, Reaches, vars, waiterVars, waitVars
<1>1. CASE StartWait
  <2>1. PICK g, t : \E f \in BOOLEAN : BeginWait(g, t, f) /\ Asked(g, t)
    BY <1>1, WaitStarts
  <2>2. QED
    BY <2>1 DEF BeginWait, Asked
<1>2. CASE EndWait
  BY <1>2 DEF EndWait
<1>3. CASE Test
  BY <1>3 DEF Test, Return
<1>4. CASE Announce
  BY <1>4 DEF Announce, StoreParked
<1>5. CASE Fence
  BY <1>5 DEF Fence
<1>6. CASE Retest
  BY <1>6 DEF Retest, Return, StoreParked
<1>7. CASE Expired
  BY <1>7 DEF Expired, Return
<1>8. CASE Park
  BY <1>8 DEF Park
<1>9. CASE ClearParked
  BY <1>9 DEF ClearParked, StoreParked
<1>10. CASE Recheck
  BY <1>10 DEF Recheck, Return
<1>11. ASSUME NEW k \in Counters, DrainPubBuf(k) PROVE ReachedIsTrue'
  BY <1>11 DEF DrainPubBuf
<1>12. CASE DrainParkBuf \/ Kill
  <2>1. UNCHANGED <<goal, pc, progress, result>>
    BY <1>12 DEF DrainParkBuf, Kill
  <2>2. QED
    BY <2>1
<1>13. ASSUME NEW k \in Counters, Publish(k) \/ NotifierFence(k) \/ ReadParked(k) \/
       ReadTarget(k) \/ Ring(k) PROVE ReachedIsTrue'
  <2>1. UNCHANGED <<goal, pc, progress, result>>
    BY <1>13 DEF Publish, NotifierFence, ReadParked, ReadTarget, Ring
  <2>2. QED
    BY <2>1
<1>14. CASE UNCHANGED vars
  BY <1>14
<1>15. QED
  BY <1>1, <1>2, <1>3, <1>4, <1>5, <1>6, <1>7, <1>8, <1>9, <1>10, <1>11, <1>12, <1>13, <1>14 DEF
         Next, WaiterStep, NotifierStep

(* The strengthening is inductive.                                         *)
LEMMA NextIInv == ASSUME IInv, [Next]_vars PROVE IInv'
<1> USE DEF IInv
<1>1. TypeOK' /\ AnnouncedInv' /\ PublisherInv'
  BY TypeStep, AnnouncedStep, PublisherStep
<1>2. TargetInv' /\ WakeupInv' /\ ReachedIsTrue'
  BY TargetStep, WakeupStep, ReachedStep
<1>3. QED
  BY <1>1, <1>2

(* Whatever the threads, their buffers and the peer's death do, the        *)
(* announcement, the publications and the wake target stay as IInv says.   *)
THEOREM InvariantHolds == Spec => []IInv
<1>1. Init => IInv
  BY InitIInv
<1>2. IInv /\ [Next]_vars => IInv'
  BY NextIInv
<1>3. QED
  BY <1>1, <1>2, PTL DEF Spec

(* Doorbell::Wait against NotifyIfParked and NotifyClient: a waiter really *)
(* blocked with what it waits for published has a ring coming.             *)
THEOREM NoWakeupIsLost == Spec => []NoLostWakeup
<1>1. IInv => NoLostWakeup
  BY DEF IInv, WakeupInv, NoLostWakeup, Ready, Reaches
<1>2. QED
  BY <1>1, InvariantHolds, PTL

(* Doorbell::Wait's result: a wait that says its condition was reached is  *)
(* never wrong.                                                            *)
THEOREM ReachedMeansReached == Spec => []ReachedIsTrue
<1>1. IInv => ReachedIsTrue
  BY DEF IInv
<1>2. QED
  BY <1>1, InvariantHolds, PTL

==================================================================================
