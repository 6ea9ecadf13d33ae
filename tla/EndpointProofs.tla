--------------------------- MODULE EndpointProofs ---------------------------
(***************************************************************************)
(* Proofs about Endpoint, for any number of processes of either role.      *)
(*                                                                         *)
(* LockInv says who holds the primary-process lock; with it two processes  *)
(* of a host are never both between rte_eal_init() and the last step of    *)
(* the teardown.  StageInv relates what a process owns to how far it got.  *)
(* LinkInv says that a name once gone is only linked to newer segments.    *)
(*                                                                         *)
(* Then proofs about EndpointConfig, for texts and numbers of any size:    *)
(* ParserInv says that what was read so far is in the configuration.       *)
(***************************************************************************)
EXTENDS Endpoint, EndpointConfig, FiniteSetTheorems, TLAPS

\* Where the steps that matter stand in Plan.
PortStep(p) == IF Role[p] = "sender" THEN 3 ELSE 4
SegmentStep(p) == IF Role[p] = "sender" THEN 10 ELSE 3

LockInv ==
  \A p \in Procs :
    \/ pc[p] \in {"signals", "setup", "loop", "stats"}
    \/ pc[p] = "teardown" /\ at[p] <= 5
    => lock = p

StageInv ==
  \A p \in Procs :
    /\ pc[p] \in {"eal", "signals"} => dev[p] = "closed" /\ pool[p] = "none"
    /\ pc[p] \in {"eal", "signals"} => inode[p] = NoProc /\ at[p] = 1
    /\ pc[p] = "setup" =>
         /\ dev[p] # "closed" \/ pool[p] # "none" => at[p] > PortStep(p)
         /\ inode[p] # NoProc => at[p] > SegmentStep(p)
         /\ pool[p] # "freed"
    /\ pc[p] \in {"loop", "stats"} => pool[p] # "freed"
    /\ pc[p] = "teardown" =>
         /\ at[p] >= 2 /\ dev[p] = "running" => stuck[p]
         /\ at[p] >= 3 /\ dev[p] # "closed" => stuck[p]
         /\ at[p] >= 4 => pool[p] # "live"
         /\ pool[p] = "freed" => at[p] >= 4
    /\ Role[p] = "sender" => inode[p] = NoProc

\* The process is past the step that may create a segment in its name.
PastSegment(p) ==
  pc[p] \notin {"eal", "signals"} /\ (pc[p] = "setup" => at[p] > SegmentStep(p))

\* What a process has when it gets as far as the loop, and when it may end well.
ProgressInv ==
  \A p \in Procs :
    /\ pc[p] = "setup" => (at[p] > 6 => pool[p] = "live")
    /\ pc[p] = "setup" /\ Role[p] = "sender" => (at[p] > 9 => dev[p] = "running")
    /\ pc[p] \in {"eal", "signals", "setup"} => ~served[p]
    /\ pc[p] \in {"loop", "stats"} => pool[p] = "live"
    /\ pc[p] = "stats" /\ result[p] = 0 => stop[p]
    /\ pc[p] = "teardown" /\ result[p] = 0 =>
         /\ stop[p]
         /\ at[p] < 4 => pool[p] = "live"
         /\ at[p] >= 4 => pool[p] = "freed"
    /\ status[p] = 0 => pc[p] = "exited" \/ (pc[p] = "teardown" /\ at[p] = 6)

LinkInv ==
  /\ link # NoProc => PastSegment(link)
  /\ \A p \in Procs : inode[p] # NoProc => PastSegment(inode[p])
  /\ \A p \in Procs :
       pc[p] = "exited" \/ (pc[p] = "teardown" /\ at[p] >= 5) =>
         (inode[p] # NoProc => link # inode[p])
-----------------------------------------------------------------------------
(* Plan and Teardown *)

\* The sender's steps, one by one.
LEMMA SenderPlan ==
  ASSUME NEW p \in Procs, Role[p] = "sender"
  PROVE  /\ Len(Plan(p)) = 10
         /\ Plan(p)[1] = "config" /\ Plan(p)[2] = "info" /\ Plan(p)[3] = "port"
         /\ Plan(p)[4] = "configure" /\ Plan(p)[5] = "queue" /\ Plan(p)[6] = "pool"
         /\ Plan(p)[7] = "bulk" /\ Plan(p)[8] = "warmup" /\ Plan(p)[9] = "start"
         /\ Plan(p)[10] = "segment"
  BY DEF Plan, SetUpTx

\* The receiver's steps, one by one.
LEMMA ReceiverPlan ==
  ASSUME NEW p \in Procs, Role[p] = "receiver"
  PROVE  /\ Len(Plan(p)) = 10
         /\ Plan(p)[1] = "config" /\ Plan(p)[2] = "info" /\ Plan(p)[3] = "segment"
         /\ Plan(p)[4] = "port" /\ Plan(p)[5] = "configure" /\ Plan(p)[6] = "pool"
         /\ Plan(p)[7] = "bulk" /\ Plan(p)[8] = "warmup" /\ Plan(p)[9] = "queue"
         /\ Plan(p)[10] = "start"
  BY DEF Plan, SetUpRx

\* What the proofs need of the order of the steps.
LEMMA PlanFacts ==
  \A p \in Procs :
    /\ Len(Plan(p)) = 10
    /\ \A k \in 1..10 :
         /\ Plan(p)[k] = "port" <=> k = PortStep(p)
         /\ Plan(p)[k] = "segment" <=> k = SegmentStep(p)
         /\ Plan(p)[k] \in {"configure", "start", "pool"} => k > PortStep(p)
         /\ Plan(p)[k] = "pool" <=> k = 6
         /\ Plan(p)[k] = "configure" => k < 9
         /\ Role[p] = "sender" => (Plan(p)[k] = "start" <=> k = 9)
  <1> TAKE p \in Procs
  <1>1. CASE Role[p] = "sender"
    BY <1>1, SenderPlan DEF PortStep, SegmentStep
  <1>2. CASE Role[p] = "receiver"
    BY <1>2, ReceiverPlan DEF PortStep, SegmentStep
  <1> QED
    BY <1>1, <1>2, RoleAssumption

\* Where they stand, as numbers.
LEMMA StepNumbers ==
  \A p \in Procs :
    /\ Role[p] = "sender" => PortStep(p) = 3 /\ SegmentStep(p) = 10
    /\ Role[p] # "sender" => PortStep(p) = 4 /\ SegmentStep(p) = 3
  BY DEF PortStep, SegmentStep

\* The order of the destructors.
LEMMA TeardownFacts ==
  /\ Len(Teardown) = 5
  /\ \A k \in 1..5 :
       /\ Teardown[k] = "stop" <=> k = 1
       /\ Teardown[k] = "close" <=> k = 2
       /\ Teardown[k] = "free" <=> k = 3
       /\ Teardown[k] = "unlink" <=> k = 4
       /\ Teardown[k] = "cleanup" <=> k = 5
  BY DEF Teardown

\* The destructor of the port runs from the step after its constructor.
LEMMA ConstructedFacts ==
  ASSUME NEW p \in Procs, TypeOK
  PROVE  Constructed(p) <=> at[p] > PortStep(p)
  <1>1. at[p] \in 1..11
    BY PlanFacts DEF TypeOK
  <1>2. PortStep(p) \in 1..10
    BY DEF PortStep
  <1> QED
    BY <1>1, <1>2, PlanFacts DEF Constructed
-----------------------------------------------------------------------------
(* Types *)

\* The type invariant holds initially.
LEMMA TypeInit == Init => TypeOK
  BY PlanFacts, ProcsAssumption DEF Init, TypeOK, Ended

\* The type invariant is kept by every step.
LEMMA TypeStep == TypeOK /\ [Next]_vars => TypeOK'
  <1> SUFFICES ASSUME TypeOK, [Next]_vars PROVE TypeOK'
    OBVIOUS
  <1> USE PlanFacts, TeardownFacts DEF TypeOK, Ended
  <1>1. ASSUME NEW p \in Procs, EalInit(p) PROVE TypeOK'
    BY <1>1 DEF EalInit
  <1>2. ASSUME NEW p \in Procs, EalFails(p) PROVE TypeOK'
    BY <1>2 DEF EalFails, End, Released
  <1>3. ASSUME NEW p \in Procs, Sigaction(p) PROVE TypeOK'
    BY <1>3 DEF Sigaction, hostVars
  <1>4. ASSUME NEW p \in Procs, StepDone(p) PROVE TypeOK'
    BY <1>4, SMTT(60) DEF StepDone, InStep, Linked
  <1>5. ASSUME NEW p \in Procs, StepFails(p) PROVE TypeOK'
    BY <1>5 DEF StepFails, hostVars
  <1>6. ASSUME NEW p \in Procs, SegmentFails(p) PROVE TypeOK'
    BY <1>6 DEF SegmentFails, InStep, Linked, End, Released
  <1>7. ASSUME NEW p \in Procs, EnterLoop(p) PROVE TypeOK'
    BY <1>7 DEF EnterLoop, hostVars
  <1>8. ASSUME NEW p \in Procs, Serve(p) PROVE TypeOK'
    BY <1>8 DEF Serve, hostVars
  <1>9. ASSUME NEW p \in Procs, LeaveLoop(p) PROVE TypeOK'
    BY <1>9 DEF LeaveLoop, hostVars
  <1>10. ASSUME NEW p \in Procs, LoopFails(p) PROVE TypeOK'
    BY <1>10 DEF LoopFails, hostVars
  <1>11. ASSUME NEW p \in Procs, Stats(p) PROVE TypeOK'
    BY <1>11 DEF Stats, hostVars
  <1>12. ASSUME NEW p \in Procs, StopDevice(p) PROVE TypeOK'
    <2>1. dev' \in [Procs -> {"closed", "configured", "running"}]
      BY <1>12 DEF StopDevice
    <2>2. stuck' \in [Procs -> BOOLEAN]
      <3>1. CASE stuck' = stuck
        BY <3>1
      <3>2. CASE stuck' = [stuck EXCEPT ![p] = TRUE]
        BY <3>2
      <3> QED
        BY <1>12, <3>1, <3>2 DEF StopDevice
    <2>3. at' \in [Procs -> 1..11]
      BY <1>12 DEF StopDevice, InTeardown, Advance
    <2> QED
      BY <1>12, <2>1, <2>2, <2>3 DEF StopDevice, hostVars
  <1>13. ASSUME NEW p \in Procs, CloseDevice(p) PROVE TypeOK'
    BY <1>13 DEF CloseDevice, InTeardown, Advance, hostVars
  <1>14. ASSUME NEW p \in Procs, FreePool(p) PROVE TypeOK'
    BY <1>14 DEF FreePool, InTeardown, Advance, hostVars
  <1>15. ASSUME NEW p \in Procs, Unlink(p) PROVE TypeOK'
    BY <1>15 DEF Unlink, InTeardown, Advance
  <1>16. ASSUME NEW p \in Procs, Cleanup(p) PROVE TypeOK'
    BY <1>16 DEF Cleanup, InTeardown, Advance, ExitStatus, Released
  <1>17. ASSUME NEW p \in Procs, Return(p) PROVE TypeOK'
    BY <1>17 DEF Return, End, Released
  <1>18. ASSUME NEW p \in Procs, Signal(p) PROVE TypeOK'
    BY <1>18 DEF Signal, hostVars
  <1>19. ASSUME NEW p \in Procs, Kill(p) PROVE TypeOK'
    BY <1>19 DEF Kill, End, Released
  <1>20. CASE UNCHANGED vars
    BY <1>20 DEF vars, hostVars
  <1> QED
    BY <1>1, <1>2, <1>3, <1>4, <1>5, <1>6, <1>7, <1>8, <1>9, <1>10, <1>11,
       <1>12, <1>13, <1>14, <1>15, <1>16, <1>17, <1>18, <1>19, <1>20 DEF Next,
       Main

\* Type correctness, for any number of processes of either role.
THEOREM TypeCorrect == Spec => []TypeOK
  BY TypeInit, TypeStep, PTL DEF Spec
-----------------------------------------------------------------------------
(* The lock *)

\* LockInv holds initially.
LEMMA LockInit == Init => LockInv
  BY DEF Init, LockInv

\* LockInv is kept by every step.
LEMMA LockStep == TypeOK /\ LockInv /\ [Next]_vars => LockInv'
  <1> SUFFICES ASSUME TypeOK, LockInv, [Next]_vars PROVE LockInv'
    OBVIOUS
  <1> USE PlanFacts, StepNumbers, TeardownFacts DEF TypeOK, LockInv, Ended
  <1>1. ASSUME NEW p \in Procs, EalInit(p) PROVE LockInv'
    BY <1>1, ProcsAssumption DEF EalInit
  <1>2. ASSUME NEW p \in Procs, EalFails(p) PROVE LockInv'
    BY <1>2 DEF EalFails, End, Released
  <1>3. ASSUME NEW p \in Procs, Sigaction(p) PROVE LockInv'
    BY <1>3 DEF Sigaction, hostVars
  <1>4. ASSUME NEW p \in Procs, StepDone(p) PROVE LockInv'
    BY <1>4 DEF StepDone, InStep, Linked
  <1>5. ASSUME NEW p \in Procs, StepFails(p) PROVE LockInv'
    BY <1>5 DEF StepFails, hostVars
  <1>6. ASSUME NEW p \in Procs, SegmentFails(p) PROVE LockInv'
    BY <1>6 DEF SegmentFails, InStep, Linked, End, Released
  <1>7. ASSUME NEW p \in Procs, EnterLoop(p) PROVE LockInv'
    BY <1>7 DEF EnterLoop, hostVars
  <1>8. ASSUME NEW p \in Procs, Serve(p) PROVE LockInv'
    BY <1>8 DEF Serve, hostVars
  <1>9. ASSUME NEW p \in Procs, LeaveLoop(p) PROVE LockInv'
    BY <1>9 DEF LeaveLoop, hostVars
  <1>10. ASSUME NEW p \in Procs, LoopFails(p) PROVE LockInv'
    BY <1>10 DEF LoopFails, hostVars
  <1>11. ASSUME NEW p \in Procs, Stats(p) PROVE LockInv'
    BY <1>11 DEF Stats, hostVars
  <1>12. ASSUME NEW p \in Procs, StopDevice(p) PROVE LockInv'
    BY <1>12 DEF StopDevice, InTeardown, Advance, hostVars
  <1>13. ASSUME NEW p \in Procs, CloseDevice(p) PROVE LockInv'
    BY <1>13 DEF CloseDevice, InTeardown, Advance, hostVars
  <1>14. ASSUME NEW p \in Procs, FreePool(p) PROVE LockInv'
    BY <1>14 DEF FreePool, InTeardown, Advance, hostVars
  <1>15. ASSUME NEW p \in Procs, Unlink(p) PROVE LockInv'
    BY <1>15 DEF Unlink, InTeardown, Advance
  <1>16. ASSUME NEW p \in Procs, Cleanup(p) PROVE LockInv'
    BY <1>16 DEF Cleanup, InTeardown, Advance, ExitStatus, Released
  <1>17. ASSUME NEW p \in Procs, Return(p) PROVE LockInv'
    BY <1>17 DEF Return, End, Released
  <1>18. ASSUME NEW p \in Procs, Signal(p) PROVE LockInv'
    BY <1>18 DEF Signal, hostVars
  <1>19. ASSUME NEW p \in Procs, Kill(p) PROVE LockInv'
    BY <1>19 DEF Kill, End, Released
  <1>20. CASE UNCHANGED vars
    BY <1>20 DEF vars, hostVars
  <1> QED
    BY <1>1, <1>2, <1>3, <1>4, <1>5, <1>6, <1>7, <1>8, <1>9, <1>10, <1>11,
       <1>12, <1>13, <1>14, <1>15, <1>16, <1>17, <1>18, <1>19, <1>20 DEF Next,
       Main
-----------------------------------------------------------------------------
(* What a process owns, by stage *)

\* StageInv holds initially.
LEMMA StageInit == Init => StageInv
  <1>1. ASSUME Init, NEW p \in Procs
        PROVE  /\ pc[p] = "eal" /\ at[p] = 1 /\ dev[p] = "closed"
               /\ pool[p] = "none" /\ inode[p] = NoProc
    BY <1>1 DEF Init
  <1> QED
    BY <1>1 DEF StageInv

\* Where a failed step of the set-up goes on.
LEMMA FailsFacts ==
  ASSUME NEW p \in Procs, TypeOK, StepFails(p)
  PROVE  /\ at'[p] = IF at[p] > PortStep(p) THEN 1 ELSE 5
         /\ at' = [at EXCEPT ![p] = at'[p]] /\ pc' = [pc EXCEPT ![p] = "teardown"]
         /\ pc[p] = "setup" /\ at[p] \in 1..10
         /\ at[p] # PortStep(p) /\ at[p] # SegmentStep(p)
  <1> DEFINE target == IF Constructed(p) THEN 1 ELSE Len(Teardown)
  <1>1. at' = [at EXCEPT ![p] = target] /\ pc' = [pc EXCEPT ![p] = "teardown"]
        /\ pc[p] = "setup" /\ at[p] <= Len(Plan(p))
        /\ Plan(p)[at[p]] \notin {"port", "segment"}
    BY Zenon DEF StepFails
  <1>2. at[p] \in 1..10
    <2>1. at[p] \in 1..11
      BY DEF TypeOK
    <2>2. Len(Plan(p)) = 10
      BY PlanFacts
    <2> QED BY SMT, <1>1, <2>1, <2>2
  <1>3. at[p] # PortStep(p) /\ at[p] # SegmentStep(p)
    BY <1>1, <1>2, PlanFacts, Zenon
  <1>4. target = IF at[p] > PortStep(p) THEN 1 ELSE 5
    BY ConstructedFacts, TeardownFacts
  <1> HIDE DEF target
  <1>5. at'[p] = target
    BY <1>1 DEF TypeOK
  <1> QED
    BY <1>1, <1>2, <1>3, <1>4, <1>5, Zenon

\* StageInv is kept by every step.
LEMMA StageStep == TypeOK /\ StageInv /\ [Next]_vars => StageInv'
  <1> SUFFICES ASSUME TypeOK, StageInv, [Next]_vars PROVE StageInv'
    OBVIOUS
  <1> USE PlanFacts, StepNumbers, TeardownFacts DEF TypeOK, StageInv, Ended
  <1>1. ASSUME NEW p \in Procs, EalInit(p) PROVE StageInv'
    BY <1>1 DEF EalInit
  <1>2. ASSUME NEW p \in Procs, EalFails(p) PROVE StageInv'
    BY <1>2 DEF EalFails, End, Released
  <1>3. ASSUME NEW p \in Procs, Sigaction(p) PROVE StageInv'
    BY <1>3 DEF Sigaction, hostVars
  <1>4. ASSUME NEW p \in Procs, StepDone(p) PROVE StageInv'
    BY <1>4 DEF StepDone, InStep, Linked
  <1>5. ASSUME NEW p \in Procs, StepFails(p) PROVE StageInv'
    <2>1. at'[p] = IF at[p] > PortStep(p) THEN 1 ELSE 5
      BY <1>5, FailsFacts
    <2>2. at' = [at EXCEPT ![p] = at'[p]] /\ pc' = [pc EXCEPT ![p] = "teardown"]
          /\ pc[p] = "setup" /\ at[p] \in 1..10
          /\ at[p] # PortStep(p) /\ at[p] # SegmentStep(p)
      BY <1>5, FailsFacts
    <2>3. UNCHANGED <<dev, pool, inode, stuck, link>>
      BY <1>5 DEF StepFails, hostVars
    <2> QED
      BY <2>1, <2>2, <2>3
  <1>6. ASSUME NEW p \in Procs, SegmentFails(p) PROVE StageInv'
    BY <1>6 DEF SegmentFails, InStep, Linked, End, Released
  <1>7. ASSUME NEW p \in Procs, EnterLoop(p) PROVE StageInv'
    BY <1>7 DEF EnterLoop, hostVars
  <1>8. ASSUME NEW p \in Procs, Serve(p) PROVE StageInv'
    BY <1>8 DEF Serve, hostVars
  <1>9. ASSUME NEW p \in Procs, LeaveLoop(p) PROVE StageInv'
    BY <1>9 DEF LeaveLoop, hostVars
  <1>10. ASSUME NEW p \in Procs, LoopFails(p) PROVE StageInv'
    BY <1>10 DEF LoopFails, hostVars
  <1>11. ASSUME NEW p \in Procs, Stats(p) PROVE StageInv'
    BY <1>11 DEF Stats, hostVars
  <1>12. ASSUME NEW p \in Procs, StopDevice(p) PROVE StageInv'
    BY <1>12 DEF StopDevice, InTeardown, Advance, hostVars
  <1>13. ASSUME NEW p \in Procs, CloseDevice(p) PROVE StageInv'
    BY <1>13 DEF CloseDevice, InTeardown, Advance, hostVars
  <1>14. ASSUME NEW p \in Procs, FreePool(p) PROVE StageInv'
    BY <1>14 DEF FreePool, InTeardown, Advance, hostVars
  <1>15. ASSUME NEW p \in Procs, Unlink(p) PROVE StageInv'
    BY <1>15 DEF Unlink, InTeardown, Advance
  <1>16. ASSUME NEW p \in Procs, Cleanup(p) PROVE StageInv'
    BY <1>16 DEF Cleanup, InTeardown, Advance, ExitStatus, Released
  <1>17. ASSUME NEW p \in Procs, Return(p) PROVE StageInv'
    BY <1>17 DEF Return, End, Released
  <1>18. ASSUME NEW p \in Procs, Signal(p) PROVE StageInv'
    BY <1>18 DEF Signal, hostVars
  <1>19. ASSUME NEW p \in Procs, Kill(p) PROVE StageInv'
    BY <1>19 DEF Kill, End, Released
  <1>20. CASE UNCHANGED vars
    BY <1>20 DEF vars, hostVars
  <1> QED
    BY <1>1, <1>2, <1>3, <1>4, <1>5, <1>6, <1>7, <1>8, <1>9, <1>10, <1>11,
       <1>12, <1>13, <1>14, <1>15, <1>16, <1>17, <1>18, <1>19, <1>20 DEF Next,
       Main
-----------------------------------------------------------------------------
(* The name of the segment *)

\* LinkInv holds initially.
LEMMA LinkInit == Init => LinkInv
  BY ProcsAssumption DEF Init, LinkInv

\* LinkInv is kept by every step.
LEMMA LinkStep == TypeOK /\ StageInv /\ LinkInv /\ [Next]_vars => LinkInv'
  <1> SUFFICES ASSUME TypeOK, StageInv, LinkInv, [Next]_vars PROVE LinkInv'
    OBVIOUS
  <1> USE PlanFacts, StepNumbers, TeardownFacts, ProcsAssumption, RoleAssumption
      DEF TypeOK, StageInv, LinkInv, PastSegment, Ended
  <1>1. ASSUME NEW p \in Procs, EalInit(p) PROVE LinkInv'
    BY <1>1 DEF EalInit
  <1>2. ASSUME NEW p \in Procs, EalFails(p) PROVE LinkInv'
    BY <1>2 DEF EalFails, End, Released
  <1>3. ASSUME NEW p \in Procs, Sigaction(p) PROVE LinkInv'
    BY <1>3 DEF Sigaction, hostVars
  <1>4. ASSUME NEW p \in Procs, StepDone(p) PROVE LinkInv'
    BY <1>4, SMTT(60) DEF StepDone, InStep, Linked
  <1>5. ASSUME NEW p \in Procs, StepFails(p) PROVE LinkInv'
    <2>1. at'[p] = IF at[p] > PortStep(p) THEN 1 ELSE 5
      BY <1>5, FailsFacts
    <2>2. at' = [at EXCEPT ![p] = at'[p]] /\ pc' = [pc EXCEPT ![p] = "teardown"]
          /\ pc[p] = "setup" /\ at[p] \in 1..10
          /\ at[p] # PortStep(p) /\ at[p] # SegmentStep(p)
      BY <1>5, FailsFacts
    <2>3. UNCHANGED <<dev, pool, inode, stuck, link>>
      BY <1>5 DEF StepFails, hostVars
    <2> QED
      BY <2>1, <2>2, <2>3
  <1>6. ASSUME NEW p \in Procs, SegmentFails(p) PROVE LinkInv'
    BY <1>6, SMTT(60) DEF SegmentFails, InStep, Linked, End, Released
  <1>7. ASSUME NEW p \in Procs, EnterLoop(p) PROVE LinkInv'
    BY <1>7 DEF EnterLoop, hostVars
  <1>8. ASSUME NEW p \in Procs, Serve(p) PROVE LinkInv'
    BY <1>8 DEF Serve, hostVars
  <1>9. ASSUME NEW p \in Procs, LeaveLoop(p) PROVE LinkInv'
    BY <1>9 DEF LeaveLoop, hostVars
  <1>10. ASSUME NEW p \in Procs, LoopFails(p) PROVE LinkInv'
    BY <1>10 DEF LoopFails, hostVars
  <1>11. ASSUME NEW p \in Procs, Stats(p) PROVE LinkInv'
    BY <1>11 DEF Stats, hostVars
  <1>12. ASSUME NEW p \in Procs, StopDevice(p) PROVE LinkInv'
    BY <1>12 DEF StopDevice, InTeardown, Advance, hostVars
  <1>13. ASSUME NEW p \in Procs, CloseDevice(p) PROVE LinkInv'
    BY <1>13 DEF CloseDevice, InTeardown, Advance, hostVars
  <1>14. ASSUME NEW p \in Procs, FreePool(p) PROVE LinkInv'
    BY <1>14 DEF FreePool, InTeardown, Advance, hostVars
  <1>15. ASSUME NEW p \in Procs, Unlink(p) PROVE LinkInv'
    BY <1>15 DEF Unlink, InTeardown, Advance
  <1>16. ASSUME NEW p \in Procs, Cleanup(p) PROVE LinkInv'
    BY <1>16 DEF Cleanup, InTeardown, Advance, ExitStatus, Released
  <1>17. ASSUME NEW p \in Procs, Return(p) PROVE LinkInv'
    BY <1>17 DEF Return, End, Released
  <1>18. ASSUME NEW p \in Procs, Signal(p) PROVE LinkInv'
    BY <1>18 DEF Signal, hostVars
  <1>19. ASSUME NEW p \in Procs, Kill(p) PROVE LinkInv'
    BY <1>19 DEF Kill, End, Released
  <1>20. CASE UNCHANGED vars
    BY <1>20 DEF vars, hostVars
  <1> QED
    BY <1>1, <1>2, <1>3, <1>4, <1>5, <1>6, <1>7, <1>8, <1>9, <1>10, <1>11,
       <1>12, <1>13, <1>14, <1>15, <1>16, <1>17, <1>18, <1>19, <1>20 DEF Next,
       Main

\* What holds of every process at every stage; inductive.
IInv == TypeOK /\ LockInv /\ StageInv /\ LinkInv

\* The invariant on which the properties rest (main(), the destructors and the
\* lock of EAL).
THEOREM Invariant == Spec => []IInv
  <1>1. Init => IInv
    BY TypeInit, LockInit, StageInit, LinkInit DEF IInv
  <1>2. IInv /\ [Next]_vars => IInv'
    BY TypeStep, LockStep, StageStep, LinkStep DEF IInv
  <1> QED
    BY <1>1, <1>2, PTL DEF Spec
-----------------------------------------------------------------------------
(* Properties *)

\* PoolOutlivesDevice holds initially.
LEMMA PoolInit == Init => PoolOutlivesDevice
  BY ProcsAssumption DEF Init, PoolOutlivesDevice

\* PoolOutlivesDevice is kept by every step.
LEMMA PoolStep == IInv /\ PoolOutlivesDevice /\ [Next]_vars => PoolOutlivesDevice'
  <1> SUFFICES ASSUME IInv, PoolOutlivesDevice, [Next]_vars PROVE PoolOutlivesDevice'
    OBVIOUS
  <1> USE PlanFacts, StepNumbers, TeardownFacts, ProcsAssumption, RoleAssumption
      DEF IInv, TypeOK, LockInv, StageInv, LinkInv, PoolOutlivesDevice, Ended
  <1>1. ASSUME NEW p \in Procs, EalInit(p) PROVE PoolOutlivesDevice'
    BY <1>1 DEF EalInit
  <1>2. ASSUME NEW p \in Procs, EalFails(p) PROVE PoolOutlivesDevice'
    BY <1>2 DEF EalFails, End, Released
  <1>3. ASSUME NEW p \in Procs, Sigaction(p) PROVE PoolOutlivesDevice'
    BY <1>3 DEF Sigaction, hostVars
  <1>4. ASSUME NEW p \in Procs, StepDone(p) PROVE PoolOutlivesDevice'
    BY <1>4 DEF StepDone, InStep, Linked
  <1>5. ASSUME NEW p \in Procs, StepFails(p) PROVE PoolOutlivesDevice'
    BY <1>5 DEF StepFails, hostVars
  <1>6. ASSUME NEW p \in Procs, SegmentFails(p) PROVE PoolOutlivesDevice'
    BY <1>6 DEF SegmentFails, InStep, Linked, End, Released
  <1>7. ASSUME NEW p \in Procs, EnterLoop(p) PROVE PoolOutlivesDevice'
    BY <1>7 DEF EnterLoop, hostVars
  <1>8. ASSUME NEW p \in Procs, Serve(p) PROVE PoolOutlivesDevice'
    BY <1>8 DEF Serve, hostVars
  <1>9. ASSUME NEW p \in Procs, LeaveLoop(p) PROVE PoolOutlivesDevice'
    BY <1>9 DEF LeaveLoop, hostVars
  <1>10. ASSUME NEW p \in Procs, LoopFails(p) PROVE PoolOutlivesDevice'
    BY <1>10 DEF LoopFails, hostVars
  <1>11. ASSUME NEW p \in Procs, Stats(p) PROVE PoolOutlivesDevice'
    BY <1>11 DEF Stats, hostVars
  <1>12. ASSUME NEW p \in Procs, StopDevice(p) PROVE PoolOutlivesDevice'
    BY <1>12 DEF StopDevice, InTeardown, Advance, hostVars
  <1>13. ASSUME NEW p \in Procs, CloseDevice(p) PROVE PoolOutlivesDevice'
    BY <1>13 DEF CloseDevice, InTeardown, Advance, hostVars
  <1>14. ASSUME NEW p \in Procs, FreePool(p) PROVE PoolOutlivesDevice'
    BY <1>14 DEF FreePool, InTeardown, Advance, hostVars
  <1>15. ASSUME NEW p \in Procs, Unlink(p) PROVE PoolOutlivesDevice'
    BY <1>15 DEF Unlink, InTeardown, Advance
  <1>16. ASSUME NEW p \in Procs, Cleanup(p) PROVE PoolOutlivesDevice'
    BY <1>16 DEF Cleanup, InTeardown, Advance, ExitStatus, Released
  <1>17. ASSUME NEW p \in Procs, Return(p) PROVE PoolOutlivesDevice'
    BY <1>17 DEF Return, End, Released
  <1>18. ASSUME NEW p \in Procs, Signal(p) PROVE PoolOutlivesDevice'
    BY <1>18 DEF Signal, hostVars
  <1>19. ASSUME NEW p \in Procs, Kill(p) PROVE PoolOutlivesDevice'
    BY <1>19 DEF Kill, End, Released
  <1>20. CASE UNCHANGED vars
    BY <1>20 DEF vars, hostVars
  <1> QED
    BY <1>1, <1>2, <1>3, <1>4, <1>5, <1>6, <1>7, <1>8, <1>9, <1>10, <1>11,
       <1>12, <1>13, <1>14, <1>15, <1>16, <1>17, <1>18, <1>19, <1>20 DEF Next,
       Main

\* The pool of the NIC is freed under a running device only when stopping the
\* device failed (~DpdkTxPort, ~DpdkRxPort).
THEOREM PoolTheorem == Spec => []PoolOutlivesDevice
  BY Invariant, PoolInit, PoolStep, PTL DEF Spec

\* AllReleased holds initially.
LEMMA ReleasedInit == Init => AllReleased
  BY ProcsAssumption DEF Init, AllReleased

\* AllReleased is kept by every step.
LEMMA ReleasedStep == IInv /\ AllReleased /\ [Next]_vars => AllReleased'
  <1> SUFFICES ASSUME IInv, AllReleased, [Next]_vars PROVE AllReleased'
    OBVIOUS
  <1> USE PlanFacts, StepNumbers, TeardownFacts, ProcsAssumption, RoleAssumption
      DEF IInv, TypeOK, LockInv, StageInv, LinkInv, AllReleased, Ended
  <1>1. ASSUME NEW p \in Procs, EalInit(p) PROVE AllReleased'
    BY <1>1 DEF EalInit
  <1>2. ASSUME NEW p \in Procs, EalFails(p) PROVE AllReleased'
    BY <1>2 DEF EalFails, End, Released
  <1>3. ASSUME NEW p \in Procs, Sigaction(p) PROVE AllReleased'
    BY <1>3 DEF Sigaction, hostVars
  <1>4. ASSUME NEW p \in Procs, StepDone(p) PROVE AllReleased'
    <2>1. LinkInv'
      BY LinkStep
    <2>2. \A q \in Procs : pc'[q] = "exited" => pc[q] = "exited"
      BY <1>4 DEF StepDone
    <2>3. \A q \in Procs : q # p => dev'[q] = dev[q] /\ pool'[q] = pool[q]
      BY <1>4 DEF StepDone, InStep, Linked
    <2>4. pc'[p] # "exited" /\ UNCHANGED stuck
      BY <1>4 DEF StepDone, InStep, Linked
    <2>5. \A q \in Procs : pc'[q] = "exited" => lock' # q
      BY <1>4, <2>2, <2>4 DEF StepDone, InStep, Linked
    <2> QED
      BY <2>1, <2>2, <2>3, <2>4, <2>5
  <1>5. ASSUME NEW p \in Procs, StepFails(p) PROVE AllReleased'
    BY <1>5 DEF StepFails, hostVars
  <1>6. ASSUME NEW p \in Procs, SegmentFails(p) PROVE AllReleased'
    <2>1. LinkInv'
      BY LinkStep
    <2>2. \A q \in Procs : pc'[q] = "exited" => pc[q] = "exited"
      BY <1>6 DEF SegmentFails, End
    <2>3. \A q \in Procs : q # p => dev'[q] = dev[q] /\ pool'[q] = pool[q]
      BY <1>6 DEF SegmentFails, InStep, Linked, End, Released
    <2>4. pc'[p] # "exited" /\ UNCHANGED stuck
      BY <1>6 DEF SegmentFails, InStep, Linked, End, Released
    <2>5. \A q \in Procs : pc'[q] = "exited" => lock' # q
      BY <1>6, <2>2, <2>4 DEF SegmentFails, InStep, Linked, End, Released
    <2> QED
      BY <2>1, <2>2, <2>3, <2>4, <2>5
  <1>7. ASSUME NEW p \in Procs, EnterLoop(p) PROVE AllReleased'
    BY <1>7 DEF EnterLoop, hostVars
  <1>8. ASSUME NEW p \in Procs, Serve(p) PROVE AllReleased'
    BY <1>8 DEF Serve, hostVars
  <1>9. ASSUME NEW p \in Procs, LeaveLoop(p) PROVE AllReleased'
    BY <1>9 DEF LeaveLoop, hostVars
  <1>10. ASSUME NEW p \in Procs, LoopFails(p) PROVE AllReleased'
    BY <1>10 DEF LoopFails, hostVars
  <1>11. ASSUME NEW p \in Procs, Stats(p) PROVE AllReleased'
    BY <1>11 DEF Stats, hostVars
  <1>12. ASSUME NEW p \in Procs, StopDevice(p) PROVE AllReleased'
    BY <1>12 DEF StopDevice, InTeardown, Advance, hostVars
  <1>13. ASSUME NEW p \in Procs, CloseDevice(p) PROVE AllReleased'
    BY <1>13 DEF CloseDevice, InTeardown, Advance, hostVars
  <1>14. ASSUME NEW p \in Procs, FreePool(p) PROVE AllReleased'
    BY <1>14 DEF FreePool, InTeardown, Advance, hostVars
  <1>15. ASSUME NEW p \in Procs, Unlink(p) PROVE AllReleased'
    BY <1>15 DEF Unlink, InTeardown, Advance
  <1>16. ASSUME NEW p \in Procs, Cleanup(p) PROVE AllReleased'
    BY <1>16 DEF Cleanup, InTeardown, Advance, ExitStatus, Released
  <1>17. ASSUME NEW p \in Procs, Return(p) PROVE AllReleased'
    BY <1>17 DEF Return, End, Released
  <1>18. ASSUME NEW p \in Procs, Signal(p) PROVE AllReleased'
    BY <1>18 DEF Signal, hostVars
  <1>19. ASSUME NEW p \in Procs, Kill(p) PROVE AllReleased'
    BY <1>19 DEF Kill, End, Released
  <1>20. CASE UNCHANGED vars
    BY <1>20 DEF vars, hostVars
  <1> QED
    BY <1>1, <1>2, <1>3, <1>4, <1>5, <1>6, <1>7, <1>8, <1>9, <1>10, <1>11,
       <1>12, <1>13, <1>14, <1>15, <1>16, <1>17, <1>18, <1>19, <1>20 DEF Next,
       Main

\* A process that leaves through main() leaves no device, pool, lock or name of a
\* segment behind, at whatever step its set-up failed.
THEOREM ReleaseTheorem == Spec => []AllReleased
  BY Invariant, ReleasedInit, ReleasedStep, PTL DEF Spec

\* SegmentStaysLinked holds initially.
LEMMA LinkedInit == Init => SegmentStaysLinked
  BY ProcsAssumption DEF Init, SegmentStaysLinked

\* SegmentStaysLinked is kept by every step.
LEMMA LinkedStep == IInv /\ SegmentStaysLinked /\ [Next]_vars => SegmentStaysLinked'
  <1> SUFFICES ASSUME IInv, SegmentStaysLinked, [Next]_vars PROVE SegmentStaysLinked'
    OBVIOUS
  <1> USE PlanFacts, StepNumbers, TeardownFacts, ProcsAssumption, RoleAssumption
      DEF IInv, TypeOK, LockInv, StageInv, LinkInv, SegmentStaysLinked, Ended
  <1>1. ASSUME NEW p \in Procs, EalInit(p) PROVE SegmentStaysLinked'
    BY <1>1 DEF EalInit
  <1>2. ASSUME NEW p \in Procs, EalFails(p) PROVE SegmentStaysLinked'
    BY <1>2 DEF EalFails, End, Released
  <1>3. ASSUME NEW p \in Procs, Sigaction(p) PROVE SegmentStaysLinked'
    BY <1>3 DEF Sigaction, hostVars
  <1>4. ASSUME NEW p \in Procs, StepDone(p) PROVE SegmentStaysLinked'
    BY <1>4 DEF StepDone, InStep, Linked
  <1>5. ASSUME NEW p \in Procs, StepFails(p) PROVE SegmentStaysLinked'
    BY <1>5 DEF StepFails, hostVars
  <1>6. ASSUME NEW p \in Procs, SegmentFails(p) PROVE SegmentStaysLinked'
    BY <1>6 DEF SegmentFails, InStep, Linked, End, Released
  <1>7. ASSUME NEW p \in Procs, EnterLoop(p) PROVE SegmentStaysLinked'
    BY <1>7 DEF EnterLoop, hostVars
  <1>8. ASSUME NEW p \in Procs, Serve(p) PROVE SegmentStaysLinked'
    BY <1>8 DEF Serve, hostVars
  <1>9. ASSUME NEW p \in Procs, LeaveLoop(p) PROVE SegmentStaysLinked'
    BY <1>9 DEF LeaveLoop, hostVars
  <1>10. ASSUME NEW p \in Procs, LoopFails(p) PROVE SegmentStaysLinked'
    BY <1>10 DEF LoopFails, hostVars
  <1>11. ASSUME NEW p \in Procs, Stats(p) PROVE SegmentStaysLinked'
    BY <1>11 DEF Stats, hostVars
  <1>12. ASSUME NEW p \in Procs, StopDevice(p) PROVE SegmentStaysLinked'
    BY <1>12 DEF StopDevice, InTeardown, Advance, hostVars
  <1>13. ASSUME NEW p \in Procs, CloseDevice(p) PROVE SegmentStaysLinked'
    BY <1>13 DEF CloseDevice, InTeardown, Advance, hostVars
  <1>14. ASSUME NEW p \in Procs, FreePool(p) PROVE SegmentStaysLinked'
    BY <1>14 DEF FreePool, InTeardown, Advance, hostVars
  <1>15. ASSUME NEW p \in Procs, Unlink(p) PROVE SegmentStaysLinked'
    BY <1>15 DEF Unlink, InTeardown, Advance
  <1>16. ASSUME NEW p \in Procs, Cleanup(p) PROVE SegmentStaysLinked'
    BY <1>16 DEF Cleanup, InTeardown, Advance, ExitStatus, Released
  <1>17. ASSUME NEW p \in Procs, Return(p) PROVE SegmentStaysLinked'
    BY <1>17 DEF Return, End, Released
  <1>18. ASSUME NEW p \in Procs, Signal(p) PROVE SegmentStaysLinked'
    BY <1>18 DEF Signal, hostVars
  <1>19. ASSUME NEW p \in Procs, Kill(p) PROVE SegmentStaysLinked'
    BY <1>19 DEF Kill, End, Released
  <1>20. CASE UNCHANGED vars
    BY <1>20 DEF vars, hostVars
  <1> QED
    BY <1>1, <1>2, <1>3, <1>4, <1>5, <1>6, <1>7, <1>8, <1>9, <1>10, <1>11,
       <1>12, <1>13, <1>14, <1>15, <1>16, <1>17, <1>18, <1>19, <1>20 DEF Next,
       Main

\* No receiver unlinks the segment under another one's feet: the name is given up
\* while the lock is still held.
THEOREM LinkTheorem == Spec => []SegmentStaysLinked
  BY Invariant, LinkedInit, LinkedStep, PTL DEF Spec

\* ProgressInv holds initially.
LEMMA ProgressInit == Init => ProgressInv
  <1> SUFFICES ASSUME Init PROVE ProgressInv
    OBVIOUS
  <1>1. \A p \in Procs : pc[p] = "eal" /\ ~served[p]
    BY Zenon DEF Init
  <1>2. \A p \in Procs : status[p] # 0
    <2>1. \A p \in Procs : status[p] = -1
      BY Zenon DEF Init
    <2>2. -1 # 0
      OBVIOUS
    <2> QED
      BY Zenon, <2>1, <2>2
  <1> QED
    BY Zenon, <1>1, <1>2 DEF ProgressInv

\* ProgressInv is kept by every step.
LEMMA ProgressStep == IInv /\ ProgressInv /\ [Next]_vars => ProgressInv'
  <1> SUFFICES ASSUME IInv, ProgressInv, [Next]_vars PROVE ProgressInv'
    OBVIOUS
  <1> USE PlanFacts, StepNumbers, TeardownFacts, RoleAssumption
      DEF IInv, TypeOK, StageInv, ProgressInv, Ended
  <1>1. ASSUME NEW p \in Procs, EalInit(p) PROVE ProgressInv'
    BY <1>1 DEF EalInit
  <1>2. ASSUME NEW p \in Procs, EalFails(p) PROVE ProgressInv'
    BY <1>2 DEF EalFails, End, Released
  <1>3. ASSUME NEW p \in Procs, Sigaction(p) PROVE ProgressInv'
    BY <1>3 DEF Sigaction, hostVars
  <1>4. ASSUME NEW p \in Procs, StepDone(p) PROVE ProgressInv'
    BY <1>4, SMTT(60) DEF StepDone, InStep, Linked
  <1>5. ASSUME NEW p \in Procs, StepFails(p) PROVE ProgressInv'
    BY <1>5 DEF StepFails, hostVars
  <1>6. ASSUME NEW p \in Procs, SegmentFails(p) PROVE ProgressInv'
    BY <1>6 DEF SegmentFails, InStep, Linked, End, Released
  <1>7. ASSUME NEW p \in Procs, EnterLoop(p) PROVE ProgressInv'
    <2>1. at[p] = 11 /\ pc[p] = "setup" /\ pc' = [pc EXCEPT ![p] = "loop"]
      <3>1. at[p] = Len(Plan(p)) + 1 /\ Len(Plan(p)) = 10
        BY <1>7, PlanFacts DEF EnterLoop
      <3> QED
        BY <1>7, <3>1 DEF EnterLoop
    <2>2. UNCHANGED <<at, dev, pool, stop, result, status, served>>
      BY <1>7 DEF EnterLoop
    <2> QED
      BY <2>1, <2>2
  <1>8. ASSUME NEW p \in Procs, Serve(p) PROVE ProgressInv'
    BY <1>8 DEF Serve, hostVars
  <1>9. ASSUME NEW p \in Procs, LeaveLoop(p) PROVE ProgressInv'
    BY <1>9 DEF LeaveLoop, hostVars
  <1>10. ASSUME NEW p \in Procs, LoopFails(p) PROVE ProgressInv'
    BY <1>10 DEF LoopFails, hostVars
  <1>11. ASSUME NEW p \in Procs, Stats(p) PROVE ProgressInv'
    BY <1>11 DEF Stats, hostVars
  <1>12. ASSUME NEW p \in Procs, StopDevice(p) PROVE ProgressInv'
    BY <1>12 DEF StopDevice, InTeardown, Advance, hostVars
  <1>13. ASSUME NEW p \in Procs, CloseDevice(p) PROVE ProgressInv'
    BY <1>13 DEF CloseDevice, InTeardown, Advance, hostVars
  <1>14. ASSUME NEW p \in Procs, FreePool(p) PROVE ProgressInv'
    BY <1>14 DEF FreePool, InTeardown, Advance, hostVars
  <1>15. ASSUME NEW p \in Procs, Unlink(p) PROVE ProgressInv'
    BY <1>15 DEF Unlink, InTeardown, Advance
  <1>16. ASSUME NEW p \in Procs, Cleanup(p) PROVE ProgressInv'
    BY <1>16 DEF Cleanup, InTeardown, Advance, ExitStatus, Released
  <1>17. ASSUME NEW p \in Procs, Return(p) PROVE ProgressInv'
    BY <1>17 DEF Return, End, Released
  <1>18. ASSUME NEW p \in Procs, Signal(p) PROVE ProgressInv'
    BY <1>18 DEF Signal, hostVars
  <1>19. ASSUME NEW p \in Procs, Kill(p) PROVE ProgressInv'
    BY <1>19 DEF Kill, End, Released
  <1>20. CASE UNCHANGED vars
    BY <1>20 DEF vars, hostVars
  <1> QED
    BY <1>1, <1>2, <1>3, <1>4, <1>5, <1>6, <1>7, <1>8, <1>9, <1>10, <1>11,
       <1>12, <1>13, <1>14, <1>15, <1>16, <1>17, <1>18, <1>19, <1>20 DEF Next,
       Main

\* With IInv, inductive.
THEOREM Progress == Spec => []ProgressInv
  BY Invariant, ProgressInit, ProgressStep, PTL DEF Spec

\* StatusIsHonest holds initially.
LEMMA StatusInit == Init => StatusIsHonest
  BY DEF Init, StatusIsHonest

\* StatusIsHonest is kept by every step.
LEMMA StatusStep ==
  IInv /\ ProgressInv /\ StatusIsHonest /\ [Next]_vars => StatusIsHonest'
  <1> SUFFICES ASSUME IInv, ProgressInv, StatusIsHonest, [Next]_vars
               PROVE StatusIsHonest'
    OBVIOUS
  <1> USE PlanFacts, StepNumbers, TeardownFacts, ProcsAssumption, RoleAssumption
      DEF IInv, TypeOK, StageInv, ProgressInv, StatusIsHonest, Ended
  <1>1. ASSUME NEW p \in Procs, EalInit(p) PROVE StatusIsHonest'
    BY <1>1 DEF EalInit
  <1>2. ASSUME NEW p \in Procs, EalFails(p) PROVE StatusIsHonest'
    BY <1>2 DEF EalFails, End, Released
  <1>3. ASSUME NEW p \in Procs, Sigaction(p) PROVE StatusIsHonest'
    BY <1>3 DEF Sigaction, hostVars
  <1>4. ASSUME NEW p \in Procs, StepDone(p) PROVE StatusIsHonest'
    BY <1>4, SMTT(60) DEF StepDone, InStep, Linked
  <1>5. ASSUME NEW p \in Procs, StepFails(p) PROVE StatusIsHonest'
    BY <1>5 DEF StepFails, hostVars
  <1>6. ASSUME NEW p \in Procs, SegmentFails(p) PROVE StatusIsHonest'
    BY <1>6 DEF SegmentFails, InStep, Linked, End, Released
  <1>7. ASSUME NEW p \in Procs, EnterLoop(p) PROVE StatusIsHonest'
    BY <1>7 DEF EnterLoop, hostVars
  <1>8. ASSUME NEW p \in Procs, Serve(p) PROVE StatusIsHonest'
    BY <1>8 DEF Serve, hostVars
  <1>9. ASSUME NEW p \in Procs, LeaveLoop(p) PROVE StatusIsHonest'
    BY <1>9 DEF LeaveLoop, hostVars
  <1>10. ASSUME NEW p \in Procs, LoopFails(p) PROVE StatusIsHonest'
    BY <1>10 DEF LoopFails, hostVars
  <1>11. ASSUME NEW p \in Procs, Stats(p) PROVE StatusIsHonest'
    BY <1>11 DEF Stats, hostVars
  <1>12. ASSUME NEW p \in Procs, StopDevice(p) PROVE StatusIsHonest'
    BY <1>12 DEF StopDevice, InTeardown, Advance, hostVars
  <1>13. ASSUME NEW p \in Procs, CloseDevice(p) PROVE StatusIsHonest'
    BY <1>13 DEF CloseDevice, InTeardown, Advance, hostVars
  <1>14. ASSUME NEW p \in Procs, FreePool(p) PROVE StatusIsHonest'
    BY <1>14 DEF FreePool, InTeardown, Advance, hostVars
  <1>15. ASSUME NEW p \in Procs, Unlink(p) PROVE StatusIsHonest'
    BY <1>15 DEF Unlink, InTeardown, Advance
  <1>16. ASSUME NEW p \in Procs, Cleanup(p) PROVE StatusIsHonest'
    BY <1>16 DEF Cleanup, InTeardown, Advance, ExitStatus, Released
  <1>17. ASSUME NEW p \in Procs, Return(p) PROVE StatusIsHonest'
    BY <1>17 DEF Return, End, Released
  <1>18. ASSUME NEW p \in Procs, Signal(p) PROVE StatusIsHonest'
    BY <1>18 DEF Signal, hostVars
  <1>19. ASSUME NEW p \in Procs, Kill(p) PROVE StatusIsHonest'
    BY <1>19 DEF Kill, End, Released
  <1>20. CASE UNCHANGED vars
    BY <1>20 DEF vars, hostVars
  <1> QED
    BY <1>1, <1>2, <1>3, <1>4, <1>5, <1>6, <1>7, <1>8, <1>9, <1>10, <1>11,
       <1>12, <1>13, <1>14, <1>15, <1>16, <1>17, <1>18, <1>19, <1>20 DEF Next,
       Main

\* Exit status 0 means that the set-up was complete, a stop was requested and
\* everything was cleaned up (main()).
THEOREM StatusTheorem ==
  Spec => []StatusIsHonest
  BY Invariant, Progress, StatusInit, StatusStep, PTL DEF Spec

\* HardExitIsEarly holds initially.
LEMMA HardExitInit == Init => HardExitIsEarly
  BY DEF Init, HardExitIsEarly

\* HardExitIsEarly is kept by every step.
LEMMA HardExitStep ==
  IInv /\ ProgressInv /\ HardExitIsEarly /\ [Next]_vars => HardExitIsEarly'
  <1> SUFFICES ASSUME IInv, ProgressInv, HardExitIsEarly, [Next]_vars
               PROVE HardExitIsEarly'
    OBVIOUS
  <1> USE PlanFacts, StepNumbers, TeardownFacts, ProcsAssumption, RoleAssumption
      DEF IInv, TypeOK, StageInv, ProgressInv, HardExitIsEarly, Ended
  <1>1. ASSUME NEW p \in Procs, EalInit(p) PROVE HardExitIsEarly'
    BY <1>1 DEF EalInit
  <1>2. ASSUME NEW p \in Procs, EalFails(p) PROVE HardExitIsEarly'
    BY <1>2 DEF EalFails, End, Released
  <1>3. ASSUME NEW p \in Procs, Sigaction(p) PROVE HardExitIsEarly'
    BY <1>3 DEF Sigaction, hostVars
  <1>4. ASSUME NEW p \in Procs, StepDone(p) PROVE HardExitIsEarly'
    BY <1>4, SMTT(30) DEF StepDone, InStep, Linked
  <1>5. ASSUME NEW p \in Procs, StepFails(p) PROVE HardExitIsEarly'
    BY <1>5 DEF StepFails, hostVars
  <1>6. ASSUME NEW p \in Procs, SegmentFails(p) PROVE HardExitIsEarly'
    <2>1. at[p] = SegmentStep(p) /\ pc[p] = "setup"
      <3>1. pc[p] = "setup" /\ at[p] \in 1..10 /\ Plan(p)[at[p]] = "segment"
        BY <1>6, PlanFacts DEF SegmentFails, InStep
      <3> QED
        BY <3>1, PlanFacts
    <2>2. Role[p] = "receiver" => dev[p] = "closed" /\ pool[p] = "none"
      BY <2>1
    <2>3. pc' = [pc EXCEPT ![p] = "hard_exit"] /\ UNCHANGED <<dev, pool>>
      BY <1>6 DEF SegmentFails, End
    <2> QED
      BY <2>2, <2>3
  <1>7. ASSUME NEW p \in Procs, EnterLoop(p) PROVE HardExitIsEarly'
    BY <1>7 DEF EnterLoop, hostVars
  <1>8. ASSUME NEW p \in Procs, Serve(p) PROVE HardExitIsEarly'
    BY <1>8 DEF Serve, hostVars
  <1>9. ASSUME NEW p \in Procs, LeaveLoop(p) PROVE HardExitIsEarly'
    BY <1>9 DEF LeaveLoop, hostVars
  <1>10. ASSUME NEW p \in Procs, LoopFails(p) PROVE HardExitIsEarly'
    BY <1>10 DEF LoopFails, hostVars
  <1>11. ASSUME NEW p \in Procs, Stats(p) PROVE HardExitIsEarly'
    BY <1>11 DEF Stats, hostVars
  <1>12. ASSUME NEW p \in Procs, StopDevice(p) PROVE HardExitIsEarly'
    BY <1>12 DEF StopDevice, InTeardown, Advance, hostVars
  <1>13. ASSUME NEW p \in Procs, CloseDevice(p) PROVE HardExitIsEarly'
    BY <1>13 DEF CloseDevice, InTeardown, Advance, hostVars
  <1>14. ASSUME NEW p \in Procs, FreePool(p) PROVE HardExitIsEarly'
    BY <1>14 DEF FreePool, InTeardown, Advance, hostVars
  <1>15. ASSUME NEW p \in Procs, Unlink(p) PROVE HardExitIsEarly'
    BY <1>15 DEF Unlink, InTeardown, Advance
  <1>16. ASSUME NEW p \in Procs, Cleanup(p) PROVE HardExitIsEarly'
    BY <1>16 DEF Cleanup, InTeardown, Advance, ExitStatus, Released
  <1>17. ASSUME NEW p \in Procs, Return(p) PROVE HardExitIsEarly'
    BY <1>17 DEF Return, End, Released
  <1>18. ASSUME NEW p \in Procs, Signal(p) PROVE HardExitIsEarly'
    BY <1>18 DEF Signal, hostVars
  <1>19. ASSUME NEW p \in Procs, Kill(p) PROVE HardExitIsEarly'
    BY <1>19 DEF Kill, End, Released
  <1>20. CASE UNCHANGED vars
    BY <1>20 DEF vars, hostVars
  <1> QED
    BY <1>1, <1>2, <1>3, <1>4, <1>5, <1>6, <1>7, <1>8, <1>9, <1>10, <1>11,
       <1>12, <1>13, <1>14, <1>15, <1>16, <1>17, <1>18, <1>19, <1>20 DEF Next,
       Main

\* The receiver's Segment::open exits before the port is touched.
THEOREM HardExitTheorem ==
  Spec => []HardExitIsEarly
  BY Invariant, Progress, HardExitInit, HardExitStep, PTL DEF Spec

\* SenderHardExit holds initially.
LEMMA SenderExitInit == Init => SenderHardExit
  BY DEF Init, SenderHardExit

\* SenderHardExit is kept by every step.
LEMMA SenderExitStep ==
  IInv /\ ProgressInv /\ SenderHardExit /\ [Next]_vars => SenderHardExit'
  <1> SUFFICES ASSUME IInv, ProgressInv, SenderHardExit, [Next]_vars
               PROVE SenderHardExit'
    OBVIOUS
  <1> USE PlanFacts, StepNumbers, TeardownFacts, ProcsAssumption, RoleAssumption
      DEF IInv, TypeOK, StageInv, ProgressInv, SenderHardExit, Ended
  <1>1. ASSUME NEW p \in Procs, EalInit(p) PROVE SenderHardExit'
    BY <1>1 DEF EalInit
  <1>2. ASSUME NEW p \in Procs, EalFails(p) PROVE SenderHardExit'
    BY <1>2 DEF EalFails, End, Released
  <1>3. ASSUME NEW p \in Procs, Sigaction(p) PROVE SenderHardExit'
    BY <1>3 DEF Sigaction, hostVars
  <1>4. ASSUME NEW p \in Procs, StepDone(p) PROVE SenderHardExit'
    BY <1>4 DEF StepDone, InStep, Linked
  <1>5. ASSUME NEW p \in Procs, StepFails(p) PROVE SenderHardExit'
    BY <1>5 DEF StepFails, hostVars
  <1>6. ASSUME NEW p \in Procs, SegmentFails(p) PROVE SenderHardExit'
    BY <1>6, SMTT(60) DEF SegmentFails, InStep, Linked, End, Released
  <1>7. ASSUME NEW p \in Procs, EnterLoop(p) PROVE SenderHardExit'
    BY <1>7 DEF EnterLoop, hostVars
  <1>8. ASSUME NEW p \in Procs, Serve(p) PROVE SenderHardExit'
    BY <1>8 DEF Serve, hostVars
  <1>9. ASSUME NEW p \in Procs, LeaveLoop(p) PROVE SenderHardExit'
    BY <1>9 DEF LeaveLoop, hostVars
  <1>10. ASSUME NEW p \in Procs, LoopFails(p) PROVE SenderHardExit'
    BY <1>10 DEF LoopFails, hostVars
  <1>11. ASSUME NEW p \in Procs, Stats(p) PROVE SenderHardExit'
    BY <1>11 DEF Stats, hostVars
  <1>12. ASSUME NEW p \in Procs, StopDevice(p) PROVE SenderHardExit'
    BY <1>12 DEF StopDevice, InTeardown, Advance, hostVars
  <1>13. ASSUME NEW p \in Procs, CloseDevice(p) PROVE SenderHardExit'
    BY <1>13 DEF CloseDevice, InTeardown, Advance, hostVars
  <1>14. ASSUME NEW p \in Procs, FreePool(p) PROVE SenderHardExit'
    BY <1>14 DEF FreePool, InTeardown, Advance, hostVars
  <1>15. ASSUME NEW p \in Procs, Unlink(p) PROVE SenderHardExit'
    BY <1>15 DEF Unlink, InTeardown, Advance
  <1>16. ASSUME NEW p \in Procs, Cleanup(p) PROVE SenderHardExit'
    BY <1>16 DEF Cleanup, InTeardown, Advance, ExitStatus, Released
  <1>17. ASSUME NEW p \in Procs, Return(p) PROVE SenderHardExit'
    BY <1>17 DEF Return, End, Released
  <1>18. ASSUME NEW p \in Procs, Signal(p) PROVE SenderHardExit'
    BY <1>18 DEF Signal, hostVars
  <1>19. ASSUME NEW p \in Procs, Kill(p) PROVE SenderHardExit'
    BY <1>19 DEF Kill, End, Released
  <1>20. CASE UNCHANGED vars
    BY <1>20 DEF vars, hostVars
  <1> QED
    BY <1>1, <1>2, <1>3, <1>4, <1>5, <1>6, <1>7, <1>8, <1>9, <1>10, <1>11,
       <1>12, <1>13, <1>14, <1>15, <1>16, <1>17, <1>18, <1>19, <1>20 DEF Next,
       Main

\* The sender's Segment::open exits with the device running and the pool live,
\* and before anything was sent.
THEOREM SenderExitTheorem ==
  Spec => []SenderHardExit
  BY Invariant, Progress, SenderExitInit, SenderExitStep, PTL DEF Spec

-----------------------------------------------------------------------------
(***************************************************************************)
(* The parser of the command line: what each handler reads of a text, and  *)
(* the invariant of the loop over the arguments.                           *)
(***************************************************************************)

\* A set of numbers that holds 0 and the successor of each of its members is Nat.
LEMMA NatInduct ==
  ASSUME NEW S \in SUBSET Nat, 0 \in S, \A k \in S : k + 1 \in S
  PROVE  S = Nat
  <1> SUFFICES ASSUME NEW n \in Nat, n \notin S PROVE FALSE
    OBVIOUS
  <1> DEFINE A == S \cap (0..n)
  <1> DEFINE f == [k \in A |-> k + 1]
  <1>1. IsFiniteSet(0..n)
    BY FS_Interval
  <1>2. IsFiniteSet(A) 
    BY <1>1, FS_Subset
  <1>3. \A k \in A : k + 1 \in A \ {0}
    OBVIOUS
  <1>4. f \in Injection(A, A \ {0})
    BY <1>3 DEF Injection, IsInjective
  <1>5. /\ IsFiniteSet(A \ {0})
        /\ Cardinality(A \ {0}) = Cardinality(A) - 1
    BY <1>2, FS_RemoveElement
  <1>6. Cardinality(A) <= Cardinality(A \ {0})
    BY <1>4, <1>5, FS_Injection
  <1>7. Cardinality(A) \in Nat
    BY <1>2, FS_CardinalityType
  <1> QED
    BY <1>5, <1>6, <1>7
-----------------------------------------------------------------------------
(* Powers of two and bits *)

\* g[k] is 2^k, for k up to n.
Powers(n, g) == g = [k \in 0..n |-> IF k = 0 THEN 1 ELSE 2 * g[k-1]]

\* The powers exist.
LEMMA PowersExist ==
  ASSUME NEW m \in Nat
  PROVE  \E g : Powers(m, g)
  <1> DEFINE T == {n \in Nat : \E g : Powers(n, g)}
  <1>1. 0 \in T
    <2> DEFINE g == [k \in 0..0 |-> 1]
    <2>1. g = [k \in 0..0 |-> IF k = 0 THEN 1 ELSE 2 * g[k-1]]
      BY SMT
    <2> QED BY <2>1 DEF Powers
  <1>2. ASSUME NEW n \in T PROVE n + 1 \in T
    <2>1. n \in Nat /\ n + 1 \in Nat
      BY SMT
    <2> PICK g : Powers(n, g)
      OBVIOUS
    <2> DEFINE h == [k \in 0..n+1 |-> IF k = n + 1 THEN 2 * g[n] ELSE g[k]]
    <2>2. \A k \in 0..n : h[k] = g[k]
      BY SMT, <2>1
    <2>3. h[n+1] = 2 * g[n]
      BY SMT, <2>1
    <2>4. h = [k \in 0..n+1 |-> h[k]]
      OBVIOUS
    <2> HIDE DEF h
    <2>5. ASSUME NEW k \in 0..n+1
          PROVE  h[k] = IF k = 0 THEN 1 ELSE 2 * h[k-1]
      <3>1. CASE k = n + 1
        <4>1. k # 0 /\ k - 1 = n /\ n \in 0..n
          BY SMT, <2>1, <3>1
        <4> QED BY <2>2, <2>3, <3>1, <4>1
      <3>2. CASE k # n + 1
        <4>1. k \in 0..n /\ (k # 0 => k - 1 \in 0..n)
          BY SMT, <2>1, <3>2
        <4>2. g[k] = IF k = 0 THEN 1 ELSE 2 * g[k-1]
          BY <4>1, Zenon DEF Powers
        <4> QED BY <2>2, <4>1, <4>2
      <3> QED BY <3>1, <3>2
    <2>6. Powers(n + 1, h)
      BY <2>4, <2>5, Zenon DEF Powers
    <2> QED BY <2>1, <2>6
  <1>3. T \in SUBSET Nat
    OBVIOUS
  <1>4. m \in T
    <2> HIDE DEF T
    <2> QED BY <1>1, <1>2, <1>3, NatInduct
  <1> QED BY <1>4

\* The equations of Power.
LEMMA PowerAt ==
  \A k \in 0..SlotBits : Power[k] = IF k = 0 THEN 1 ELSE 2 * Power[k-1]
  <1> DEFINE Is(g) == g = [k \in 0..SlotBits |-> IF k = 0 THEN 1 ELSE 2 * g[k-1]]
             c == CHOOSE g : Is(g)
  <1>1. \E g : Is(g)
    <2> PICK g : Powers(SlotBits, g)
      BY PowersExist, ParserAssumption
    <2>1. Is(g)
      BY Zenon DEF Powers
    <2> QED BY <2>1
  <1>2. Is(c)
    <2> HIDE DEF Is
    <2> QED BY <1>1
  <1>3. Power = c
    BY DEF Power
  <1> HIDE DEF c
  <1> QED BY <1>2, <1>3, Zenon

\* They are positive numbers, and grow.
LEMMA PowerType == \A k \in 0..SlotBits : Power[k] \in Nat \ {0}
  <1> DEFINE T == {k \in Nat : k <= SlotBits => Power[k] \in Nat \ {0}}
  <1>0. SlotBits \in Nat
    BY ParserAssumption
  <1>1. 0 \in T
    <2>1. 0 \in 0..SlotBits
      BY SMT, <1>0
    <2> QED BY SMT, <2>1, PowerAt
  <1>2. ASSUME NEW k \in T PROVE k + 1 \in T
    <2>1. k \in Nat /\ k + 1 \in Nat
      OBVIOUS
    <2>2. ASSUME k + 1 <= SlotBits PROVE Power[k+1] \in Nat \ {0}
      <3>1. k + 1 \in 0..SlotBits /\ k + 1 # 0 /\ (k + 1) - 1 = k /\ k <= SlotBits
        BY SMT, <1>0, <2>1, <2>2
      <3>2. Power[k+1] = 2 * Power[k]
        BY <3>1, PowerAt
      <3>3. Power[k] \in Nat \ {0}
        BY <3>1
      <3> QED BY SMT, <3>2, <3>3
    <2> QED BY <2>1, <2>2
  <1>3. T = Nat
    <2> HIDE DEF T
    <2>1. T \in SUBSET Nat
      BY DEF T
    <2> QED BY <1>1, <1>2, <2>1, NatInduct
  <1> QED BY SMT, <1>0, <1>3

LEMMA PowerStep ==
  ASSUME NEW k \in 0..SlotBits-1
  PROVE  k \in 0..SlotBits /\ k + 1 \in 0..SlotBits /\ Power[k+1] = 2 * Power[k]
  <1>1. k \in 0..SlotBits /\ k + 1 \in 0..SlotBits /\ k + 1 # 0 /\ (k + 1) - 1 = k
    BY SMT, ParserAssumption
  <1> QED BY <1>1, PowerAt

\* A higher power is an even multiple of a lower one.
LEMMA PowerMultiple ==
  ASSUME NEW j \in 0..SlotBits
  PROVE  \A k \in 0..SlotBits : j < k => \E q \in Nat : q > 0 /\ Power[k] = (2 * q) * Power[j]
  <1> DEFINE T == {d \in Nat : (j + d) + 1 <= SlotBits =>
                     \E q \in Nat : q > 0 /\ Power[(j+d)+1] = (2 * q) * Power[j]}
  <1>0. SlotBits \in Nat /\ j \in Nat /\ Power[j] \in Nat
    BY SMT, ParserAssumption, PowerType
  <1>1. 0 \in T
    <2>1. ASSUME (j + 0) + 1 <= SlotBits
          PROVE  \E q \in Nat : q > 0 /\ Power[(j+0)+1] = (2 * q) * Power[j]
      <3>1. j \in 0..SlotBits-1 /\ (j + 0) + 1 = j + 1
        BY SMT, <1>0, <2>1
      <3>2. Power[(j+0)+1] = (2 * 1) * Power[j]
        BY <3>1, PowerStep
      <3> QED BY <3>2
    <2> QED BY <2>1
  <1>2. ASSUME NEW d \in T PROVE d + 1 \in T
    <2>1. d \in Nat /\ d + 1 \in Nat
      OBVIOUS
    <2>2. ASSUME (j + (d + 1)) + 1 <= SlotBits
          PROVE  \E q \in Nat : q > 0 /\ Power[(j+(d+1))+1] = (2 * q) * Power[j]
      <3> DEFINE e == (j + d) + 1
      <3>1. e \in 0..SlotBits-1 /\ (j + (d + 1)) + 1 = e + 1 /\ e <= SlotBits
        BY SMT, <1>0, <2>1, <2>2
      <3> PICK q \in Nat : q > 0 /\ Power[e] = (2 * q) * Power[j]
        BY <3>1
      <3>2. Power[e + 1] = 2 * ((2 * q) * Power[j])
        BY <3>1, PowerStep
      <3>3. 2 * ((2 * q) * Power[j]) = (2 * (2 * q)) * Power[j]
        BY SMT, <1>0
      <3>4. 2 * q \in Nat /\ 2 * q > 0
        BY SMT
      <3> QED BY <3>1, <3>2, <3>3, <3>4
    <2> QED BY <2>1, <2>2
  <1>3. T = Nat
    <2> HIDE DEF T
    <2>1. T \in SUBSET Nat
      BY DEF T
    <2> QED BY <1>1, <1>2, <2>1, NatInduct
  <1> SUFFICES ASSUME NEW k \in 0..SlotBits, j < k
               PROVE  \E q \in Nat : q > 0 /\ Power[k] = (2 * q) * Power[j]
    OBVIOUS
  <1>4. PICK d \in Nat : (j + d) + 1 = k
    <2>1. (k - j) - 1 \in Nat /\ (j + ((k - j) - 1)) + 1 = k
      BY SMT, <1>0
    <2> QED BY <2>1
  <1>5. (j + d) + 1 <= SlotBits
    BY SMT, <1>0, <1>4
  <1>6. d \in T
    <2> HIDE DEF T
    <2> QED BY <1>3
  <1> QED BY <1>4, <1>5, <1>6

\* Division with a remainder.
LEMMA Remainder ==
  ASSUME NEW x \in Int, NEW p \in Nat, p > 0
  PROVE  /\ x \div p \in Int
         /\ x = (x \div p) * p + (x % p)
         /\ x % p \in 0..p-1
  BY Z3

\* What a quotient is.
LEMMA Quotient ==
  ASSUME NEW x \in Nat, NEW p \in Nat \ {0}
  PROVE  /\ x < p => x \div p = 0
         /\ p <= x /\ x < 2 * p => x \div p = 1
         /\ \A q \in Nat : x = q * p => x \div p = q
  <1>1. x \div p \in Nat /\ x % p \in Nat /\ x % p < p /\ x = (x \div p) * p + (x % p)
    <2>1. x \in Int /\ p \in Nat /\ p > 0
      BY SMT
    <2>2. x \div p \in Int /\ x = (x \div p) * p + (x % p) /\ x % p \in 0..p-1
      BY <2>1, Remainder
    <2>3. x % p \in Nat /\ x % p < p
      BY SMT, <2>1, <2>2
    <2>4. ASSUME NEW d \in Int, NEW r \in Nat, r < p, x = d * p + r, d < 0
          PROVE  FALSE
      <3>1. (d + 1) * p <= 0 /\ (d + 1) * p = d * p + p
        BY Z3, <2>4
      <3> DEFINE t == d * p
      <3>2. t \in Int /\ t + p <= 0 /\ x = t + r
        BY SMT, <2>4, <3>1
      <3> HIDE DEF t
      <3> QED BY SMT, <2>4, <3>2
    <2>5. ~(x \div p < 0)
      BY <2>2, <2>3, <2>4
    <2>6. x \div p \in Nat
      <3>1. \A d \in Int : ~(d < 0) => d \in Nat
        BY SMT
      <3> QED BY <2>2, <2>5, <3>1
    <2> QED BY <2>2, <2>3, <2>6
  <1>2. ASSUME NEW q \in Nat, NEW r \in Nat, NEW d \in Nat, NEW s \in Nat,
               r < p, s < p, d * p + s = q * p + r
        PROVE  d = q
    <2>1. CASE d > q
      <3>1. d - q >= 1 /\ d - q \in Nat
        BY SMT, <2>1
      <3>2. (d - q) * p = d * p - q * p /\ (d - q) * p >= p
        BY SMT, <3>1
      <3> QED BY SMT, <1>2, <3>2
    <2>2. CASE q > d
      <3>1. q - d >= 1 /\ q - d \in Nat
        BY SMT, <2>2
      <3>2. (q - d) * p = q * p - d * p /\ (q - d) * p >= p
        BY SMT, <3>1
      <3> QED BY SMT, <1>2, <3>2
    <2> QED BY SMT, <2>1, <2>2
  <1>3. ASSUME x < p PROVE x \div p = 0
    <2>1. (x \div p) * p + (x % p) = 0 * p + x
      BY SMT, <1>1
    <2> QED BY <1>1, <1>2, <1>3, <2>1
  <1>4. ASSUME p <= x, x < 2 * p PROVE x \div p = 1
    <2>1. (x \div p) * p + (x % p) = 1 * p + (x - p) /\ x - p \in Nat /\ x - p < p
      BY SMT, <1>1, <1>4
    <2> QED BY <1>1, <1>2, <2>1
  <1>5. ASSUME NEW q \in Nat, x = q * p PROVE x \div p = q
    <2>1. (x \div p) * p + (x % p) = q * p + 0 /\ 0 < p
      BY SMT, <1>1, <1>5
    <2> QED BY <1>1, <1>2, <2>1
  <1> QED BY <1>3, <1>4, <1>5

\* The highest bit of a number.
LEMMA HighestBit ==
  ASSUME NEW n \in Nat, n > 0, n < Power[SlotBits]
  PROVE  \E k \in 0..SlotBits-1 : Power[k] <= n /\ n < Power[k+1]
  <1> DEFINE T == {m \in Nat : m <= SlotBits /\ n < Power[m] =>
                     \E k \in 0..SlotBits-1 : Power[k] <= n /\ n < Power[k+1]}
  <1>0. SlotBits \in Nat
    BY ParserAssumption
  <1>1. 0 \in T
    <2>1. 0 \in 0..SlotBits
      BY SMT, <1>0
    <2>2. Power[0] = 1
      BY <2>1, PowerAt
    <2>3. ~(n < Power[0])
      BY SMT, <2>2
    <2> QED BY <2>3
  <1>2. ASSUME NEW m \in T PROVE m + 1 \in T
    <2>1. m \in Nat /\ m + 1 \in Nat
      OBVIOUS
    <2>2. ASSUME m + 1 <= SlotBits, n < Power[m+1]
          PROVE  \E k \in 0..SlotBits-1 : Power[k] <= n /\ n < Power[k+1]
      <3>1. m \in 0..SlotBits-1 /\ m \in 0..SlotBits /\ m <= SlotBits
        BY SMT, <1>0, <2>1, <2>2
      <3>2. CASE n < Power[m]
        BY <3>1, <3>2
      <3>3. CASE ~(n < Power[m])
        <4>1. Power[m] <= n
          BY SMT, <3>1, <3>3, PowerType
        <4> QED BY <2>2, <3>1, <4>1
      <3> QED BY <3>2, <3>3
    <2> QED BY <2>1, <2>2
  <1>3. T = Nat
    <2> HIDE DEF T
    <2>1. T \in SUBSET Nat
      BY DEF T
    <2> QED BY <1>1, <1>2, <2>1, NatInduct
  <1> QED BY SMT, <1>0, <1>3

\* n and n - 1 share no bit exactly when n is a power of two.
LEMMA PowerOfTwoTest ==
  ASSUME NEW n \in Nat, n > 0, n <= MaxSlots
  PROVE  ~ShareBit(n - 1, n) <=> \E k \in 0..SlotBits-1 : n = Power[k]
  <1>0. SlotBits \in Nat /\ SlotBits \in 0..SlotBits /\ Power[SlotBits] \in Nat
    BY SMT, ParserAssumption, PowerType
  <1>1. n < Power[SlotBits] /\ n - 1 \in Nat
    BY SMT, <1>0 DEF MaxSlots
  <1>2. ASSUME \A k \in 0..SlotBits-1 : n # Power[k]
        PROVE  ShareBit(n - 1, n)
    <2> PICK k \in 0..SlotBits-1 : Power[k] <= n /\ n < Power[k+1]
      BY <1>1, HighestBit
    <2>1. Power[k] \in Nat \ {0} /\ Power[k+1] = 2 * Power[k]
      BY PowerStep, PowerType
    <2>2. /\ Power[k] <= n - 1 /\ n - 1 < 2 * Power[k]
          /\ Power[k] <= n /\ n < 2 * Power[k]
      BY SMT, <1>2, <2>1
    <2>3. n \div Power[k] = 1 /\ (n - 1) \div Power[k] = 1
      BY <1>1, <2>1, <2>2, Quotient
    <2>4. Bit(n, k) = 1 /\ Bit(n - 1, k) = 1
      BY SMT, <2>3 DEF Bit
    <2> QED BY <2>4 DEF ShareBit
  <1>3. ASSUME NEW k \in 0..SlotBits-1, n = Power[k], NEW j \in 0..SlotBits-1
        PROVE  ~(Bit(n - 1, j) = 1 /\ Bit(n, j) = 1)
    <2>1. /\ j \in 0..SlotBits /\ k \in 0..SlotBits /\ j \in Int /\ k \in Int
          /\ Power[j] \in Nat \ {0} /\ Power[k] \in Nat \ {0}
      <3>1. j \in 0..SlotBits /\ k \in 0..SlotBits /\ j \in Int /\ k \in Int
        BY SMT, <1>0
      <3> QED BY <3>1, PowerType
    <2>2. CASE j = k
      <3>1. n - 1 < Power[j]
        BY SMT, <1>3, <2>2
      <3>2. (n - 1) \div Power[j] = 0
        BY <1>1, <2>1, <3>1, Quotient
      <3> QED BY SMT, <3>2 DEF Bit
    <2>3. CASE j < k
      <3> PICK q \in Nat : q > 0 /\ Power[k] = (2 * q) * Power[j]
        BY <2>1, <2>3, PowerMultiple
      <3>1. 2 * q \in Nat
        BY SMT
      <3>2. n \div Power[j] = 2 * q
        BY <1>3, <2>1, <3>1, Quotient
      <3> QED BY SMT, <3>2 DEF Bit
    <2>4. CASE k < j
      <3> PICK q \in Nat : q > 0 /\ Power[j] = (2 * q) * Power[k]
        BY <2>1, <2>4, PowerMultiple
      <3>1. n < Power[j]
        <4>1. (2 * q) * Power[k] = q * (2 * Power[k]) /\ q * (2 * Power[k]) >= 2 * Power[k]
          BY SMT, <2>1
        <4> QED BY SMT, <1>3, <2>1, <4>1
      <3>2. n \div Power[j] = 0
        BY <2>1, <3>1, Quotient
      <3> QED BY SMT, <3>2 DEF Bit
    <2> QED BY SMT, <2>1, <2>2, <2>3, <2>4
  <1> QED BY <1>2, <1>3 DEF ShareBit
-----------------------------------------------------------------------------
(* What the handlers read *)

Words == Texts \cup {LineEnd}
Valueless == {"end", "dashed", "flag", "FLAG"}

\* The member a valid argument gives.
ValueOf(f, t) == IF f = "shm" THEN t ELSE t.value

ReadingOf(f, t) == UNION {Reading(f, v) : v \in next(t)}

\* The kinds of text.
LEMMA WordForms ==
  ASSUME NEW t \in Words
  PROVE  /\ t.is = "number" => t.value \in Nat
         /\ t.is = "mac" => t.value \in Macs
         /\ t \in ValueTexts \ {Text("dashed", 0)} <=> t.is \notin Valueless
  <1>1. ASSUME NEW is \in {"flag", "FLAG"}, NEW f \in Flags, t = Text(is, f)
        PROVE  t.is \in {"flag", "FLAG"}
    BY <1>1, SMT DEF Text
  <1>2. CASE t \in FlagTexts
    <2>1. t.is \in {"flag", "FLAG"}
      <3>1. PICK is \in {"flag", "FLAG"}, f \in Flags : t = Text(is, f)
        BY <1>2, SMT DEF FlagTexts
      <3> QED BY <1>1, <3>1
    <2>2. \A v \in ValueTexts : v.is \in {"number", "ip", "mac", "other", "dashed"}
      BY SMT DEF ValueTexts, Text
    <2> QED BY SMT, <2>1, <2>2 DEF Valueless
  <1>3. CASE t = LineEnd
    <2>1. t.is = "end"
      BY SMT, <1>3 DEF LineEnd, Text
    <2>2. \A v \in ValueTexts : v.is \in {"number", "ip", "mac", "other", "dashed"}
      BY SMT DEF ValueTexts, Text
    <2> QED BY SMT, <2>1, <2>2 DEF Valueless
  <1>4. CASE t \in ValueTexts
    <2>1. CASE \E n \in Numbers : t = Text("number", n)
      BY SMT, <1>4, <2>1, ParserAssumption DEF Text, Valueless
    <2>2. CASE \E a \in Addresses : t = Text("ip", a)
      BY SMT, <1>4, <2>2 DEF Text, Valueless
    <2>3. CASE \E m \in Macs : t = Text("mac", m)
      BY SMT, <1>4, <2>3 DEF Text, Valueless
    <2>4. CASE t = Text("other", 0)
      BY SMT, <1>4, <2>4 DEF Text, Valueless
    <2>5. CASE t = Text("dashed", 0)
      BY SMT, <1>4, <2>5 DEF Text, Valueless
    <2> QED BY <1>4, <2>1, <2>2, <2>3, <2>4, <2>5, Zenon DEF ValueTexts
  <1> QED BY <1>2, <1>3, <1>4, Zenon DEF Words, Texts

\* A valid slot count is a power of two that fits.
LEMMA SlotsRead ==
  ASSUME NEW t \in Words
  PROVE  Slots(t) = IF PowerOfTwo(t) THEN {t.value} ELSE {}
  <1>1. CASE t.is # "number"
    BY <1>1, SMT DEF Slots, PowerOfTwo, parseNumFromString
  <1>2. CASE t.is = "number"
    <2> DEFINE n == t.value
    <2>1. n \in Nat
      BY <1>2, WordForms
    <2>2. parseNumFromString(t, MaxSlots) = IF n <= MaxSlots THEN {n} ELSE {}
      BY <1>2, SMT DEF parseNumFromString
    <2>3. PowerOfTwo(t) <=> \E k \in 0..SlotBits-1 : n = Power[k]
      BY <1>2 DEF PowerOfTwo
    <2>4. PowerOfTwo(t) => n > 0 /\ n <= MaxSlots
      <3> SUFFICES ASSUME NEW k \in 0..SlotBits-1, n = Power[k]
                   PROVE  n > 0 /\ n <= MaxSlots
        BY <2>3
      <3>1. k \in 0..SlotBits /\ SlotBits \in 0..SlotBits /\ k < SlotBits
        BY SMT, ParserAssumption
      <3>2. Power[k] \in Nat \ {0} /\ Power[SlotBits] \in Nat \ {0}
        BY <3>1, PowerType
      <3> PICK q \in Nat : q > 0 /\ Power[SlotBits] = (2 * q) * Power[k]
        BY <3>1, PowerMultiple
      <3>3. (2 * q) * Power[k] = q * Power[k] + q * Power[k] /\ q * Power[k] >= Power[k]
        BY Z3, <3>2
      <3> DEFINE r == q * Power[k]
      <3>4. r \in Nat /\ Power[SlotBits] = r + r /\ r >= Power[k]
        BY SMT, <3>2, <3>3
      <3> HIDE DEF r
      <3> QED BY SMT, <3>2, <3>4 DEF MaxSlots
    <2>5. ASSUME n > 0, n <= MaxSlots
          PROVE  ~ShareBit(n - 1, n) <=> PowerOfTwo(t)
      BY <2>1, <2>3, <2>5, PowerOfTwoTest
    <2>6. CASE n <= MaxSlots /\ n > 0
      <3>1. Slots(t) = IF ~ShareBit(n - 1, n) THEN {n} ELSE {}
        BY SMT, <2>2, <2>6 DEF Slots
      <3> QED BY <2>5, <2>6, <3>1
    <2>7. CASE ~(n <= MaxSlots /\ n > 0)
      <3>1. Slots(t) = {}
        BY SMT, <2>1, <2>2, <2>7 DEF Slots
      <3> QED BY <2>4, <2>7, <3>1
    <2> QED BY <2>6, <2>7
  <1> QED BY <1>1, <1>2

\* A valid port is one that fits and is not zero.
LEMMA PortRead ==
  ASSUME NEW t \in Words
  PROVE  Port(t) = IF t.is = "number" /\ t.value \in 1..MaxPort THEN {t.value} ELSE {}
  <1>1. t.is = "number" => t.value \in Nat
    BY WordForms
  <1> QED BY SMT, <1>1, ParserAssumption DEF Port, parseNumFromString

\* A valid MAC address is six octets, unicast and not zero.
LEMMA MacRead ==
  ASSUME NEW t \in Words
  PROVE  Mac(t) = IF UnicastMac(t) THEN {t.value} ELSE {}
  <1>1. CASE t.is # "mac"
    BY <1>1, SMT DEF Mac, UnicastMac
  <1>2. CASE t.is = "mac"
    <2> DEFINE m == t.value
               Good == /\ \A k \in 1..6 : m[k] >= 0
                       /\ \E k \in 1..6 : m[k] # 0
                       /\ m[1] % 2 # 1
    <2>1. m \in Macs
      BY <1>2, WordForms
    <2>2. m \in [1..6 -> Int] /\ \A k \in 1..6 : m[k] <= 255
      BY <2>1, ParserAssumption
    <2>3. Mac(t) = IF Good THEN {m} ELSE {}
      BY <1>2, SMT DEF Mac
    <2>4. (\A k \in 1..6 : m[k] >= 0) <=> m \in [1..6 -> 0..255]
      <3> HIDE DEF m
      <3>1. \A k \in 1..6 : m[k] \in Int /\ m[k] <= 255 /\ (m[k] >= 0 <=> m[k] \in 0..255)
        BY SMT, <2>2
      <3>2. m = [k \in 1..6 |-> m[k]]
        BY <2>2
      <3> QED BY <3>1, <3>2, Zenon
    <2>5. (\E k \in 1..6 : m[k] # 0) <=> m # [k \in 1..6 |-> 0]
      BY SMT, <2>2
    <2>6. (m[1] % 2 # 1) <=> (m[1] % 2 = 0)
      BY SMT, <2>2
    <2>7. Good <=> UnicastMac(t)
      BY <1>2, <2>4, <2>5, <2>6, Zenon DEF UnicastMac
    <2> QED BY <2>3, <2>7
  <1> QED BY <1>1, <1>2

\* Each handler reads the value of a valid argument, and refuses any other.
LEMMA HandlersRead ==
  ASSUME NEW f \in Required, NEW t \in Words
  PROVE  ReadingOf(f, t) = IF Valid(f, t) THEN {ValueOf(f, t)} ELSE {}
  <1>0. /\ t.is = "number" => t.value \in Nat
        /\ t \in ValueTexts \ {Text("dashed", 0)} <=> t.is \notin Valueless
    BY WordForms
  <1>1. CASE t.is \in Valueless
    <2>1. next(t) = {}
      BY <1>1, Zenon DEF next, Valueless
    <2>2. ReadingOf(f, t) = {}
      BY <2>1, SMT DEF ReadingOf
    <2>3. ~PowerOfTwo(t) /\ ~UnicastMac(t) /\ t.is # "ip" /\ t.is # "number"
      <3>1. t.is \notin {"number", "mac", "ip"}
        BY <1>1, Zenon DEF Valueless
      <3> QED BY <3>1, Zenon DEF PowerOfTwo, UnicastMac
    <2>4. ~Valid(f, t)
      BY <1>0, <1>1, <2>3, Zenon DEF Valid, Required
    <2> QED BY <2>2, <2>4
  <1>2. CASE t.is \notin Valueless
    <2>1. next(t) = {t}
      BY <1>2, Zenon DEF next, Valueless
    <2>2. ReadingOf(f, t) = Reading(f, t)
      BY <2>1, SMT DEF ReadingOf
    <2>3. CASE f = "shm"
      <3>1. Reading(f, t) = {t} /\ ValueOf(f, t) = t
        BY <2>3, Zenon DEF Reading, ValueOf
      <3>2. Valid(f, t)
        BY <1>0, <1>2, <2>3, Zenon DEF Valid
      <3> QED BY <2>2, <3>1, <3>2
    <2>4. CASE f = "slots"
      <3>1. Reading(f, t) = Slots(t) /\ ValueOf(f, t) = t.value
        BY <2>4, Zenon DEF Reading, ValueOf
      <3>2. Valid(f, t) = PowerOfTwo(t)
        BY <2>4, Zenon DEF Valid
      <3> QED BY <2>2, <3>1, <3>2, SlotsRead
    <2>5. CASE f \in {"local-ip", "peer-ip"}
      <3>1. Reading(f, t) = Ip(t) /\ ValueOf(f, t) = t.value
        BY <2>5, Zenon DEF Reading, ValueOf
      <3>2. Valid(f, t) = (t.is = "ip")
        BY <2>5, Zenon DEF Valid
      <3> QED BY <2>2, <3>1, <3>2 DEF Ip
    <2>6. CASE f = "data-port"
      <3>1. Reading(f, t) = Port(t) /\ ValueOf(f, t) = t.value
        BY <2>6, Zenon DEF Reading, ValueOf
      <3>2. Valid(f, t) = (t.is = "number" /\ t.value \in 1..MaxPort)
        BY <2>6, Zenon DEF Valid
      <3> QED BY <2>2, <3>1, <3>2, PortRead
    <2>7. CASE f = "next-hop-mac"
      <3>1. Reading(f, t) = Mac(t) /\ ValueOf(f, t) = t.value
        BY <2>7, Zenon DEF Reading, ValueOf
      <3>2. Valid(f, t) = UnicastMac(t)
        BY <2>7, Zenon DEF Valid
      <3> QED BY <2>2, <3>1, <3>2, MacRead
    <2> QED BY <2>3, <2>4, <2>5, <2>6, <2>7, Zenon DEF Required
  <1> QED BY <1>1, <1>2
-----------------------------------------------------------------------------
(* The loop over the arguments *)

\* What was read of flag f is in its member.
Kept(f) ==
  /\ Len(given[f]) = 1 /\ Valid(f, given[f][1])
  /\ config[f] = ValueOf(f, given[f][1])

ParserInv ==
  /\ set \subseteq Required
  /\ given \in [Flags -> Seq(Words)]
  /\ config = [f \in Flags |-> config[f]]
  /\ config["batching"] = (given["batching"] # <<>>)
  /\ state = "parsing" =>
       /\ ~odd
       /\ \A f \in Required \ set : given[f] = <<>>
       /\ \A f \in set : Kept(f)

\* What ParserInv becomes when the loop is left.
LEMMA InitParserInv == ParserInit => ParserInv /\ AcceptsExactlySound
  <1> SUFFICES ASSUME ParserInit PROVE ParserInv /\ AcceptsExactlySound
    OBVIOUS
  <1> USE DEF ParserInit
  <1>1. config = [f \in Flags |-> config[f]] /\ config["batching"] = FALSE
    BY Zenon DEF Flags
  <1>2. given \in [Flags -> Seq(Words)] /\ \A f \in Flags : given[f] = <<>>
    BY SMT
  <1>3. "batching" \in Flags /\ Required \subseteq Flags
    BY Zenon DEF Flags
  <1>4. config["batching"] = (given["batching"] # <<>>)
    BY <1>1, <1>2, <1>3, Zenon
  <1>5. ParserInv
    BY <1>1, <1>2, <1>3, <1>4, Zenon DEF ParserInv
  <1> QED BY <1>5 DEF AcceptsExactlySound

\* A sequence of one element more.
LEMMA OneMore ==
  ASSUME NEW s \in Seq(Words), NEW t \in Words
  PROVE  /\ Append(s, t) \in Seq(Words) /\ Append(s, t) # <<>>
         /\ Len(Append(s, t)) = Len(s) + 1 /\ Len(s) \in Nat
         /\ s = <<>> => Append(s, t)[1] = t
  BY SMT

\* A turn at a flag keeps ParserInv, and refuses only what is not sound.
LEMMA FlagTurn ==
  ASSUME ParserInv, Flag
  PROVE  ParserInv' /\ AcceptsExactlySound'
  <1> PICK f \in Required, t \in Words :
        Assign(f, t) /\ given' = [given EXCEPT ![f] = Append(@, t)] /\ odd' = odd
    BY Zenon DEF Flag, Words
  <1> DEFINE s == given[f]
  <1>1. /\ state = "parsing" /\ ~odd /\ set \subseteq Required /\ Required \subseteq Flags
        /\ "batching" \in Flags /\ "batching" \notin Required
        /\ config = [g \in Flags |-> config[g]] /\ given \in [Flags -> Seq(Words)]
        /\ config["batching"] = (given["batching"] # <<>>)
        /\ \A g \in Required \ set : given[g] = <<>>
        /\ \A g \in set : Kept(g)
    <2>1. Required \subseteq Flags /\ "batching" \in Flags
      BY Zenon DEF Flags
    <2>2. "batching" \notin Required
      BY Zenon DEF Required
    <2> QED BY <2>1, <2>2 DEF ParserInv, Flag
  <1>2. s \in Seq(Words) /\ f \in Flags /\ f # "batching"
    BY <1>1
  <1>3. /\ Append(s, t) \in Seq(Words)
        /\ Len(Append(s, t)) = Len(s) + 1 /\ Len(s) \in Nat
        /\ s = <<>> => Append(s, t)[1] = t
    BY <1>2, OneMore
  <1>4. /\ given' \in [Flags -> Seq(Words)] /\ given'[f] = Append(s, t)
        /\ \A g \in Flags \ {f} : given'[g] = given[g]
    BY <1>1, <1>2, <1>3
  <1>5. ReadingOf(f, t) = IF Valid(f, t) THEN {ValueOf(f, t)} ELSE {}
    BY HandlersRead
  <1>6. f \in set => Len(s) = 1
    BY <1>1 DEF Kept
  <1>7. CASE f \in set \/ ~Valid(f, t)
    <2>1. Refuse
      BY <1>5, <1>7, Zenon DEF Assign, ReadingOf
    <2>2. state' = "refused" /\ set' = set /\ config' = config
      BY <2>1 DEF Refuse
    <2>3. ParserInv'
      BY <1>1, <1>2, <1>4, <2>2 DEF ParserInv
    <2>4. ~(Len(given'[f]) = 1 /\ Valid(f, given'[f][1]))
      <3>1. CASE f \in set
        <4>1. Len(given'[f]) = Len(s) + 1 /\ Len(s) = 1
          BY <1>3, <1>4, <1>6, <3>1, Zenon
        <4>2. Len(given'[f]) # 1
          BY ONLY <4>1, SMT
        <4> QED BY <4>2
      <3>2. CASE f \notin set /\ ~Valid(f, t)
        BY <1>1, <1>3, <1>4, <3>2
      <3> QED BY <1>7, <3>1, <3>2
    <2>5. ~Sound'
      BY <2>4 DEF Sound
    <2> QED BY <2>2, <2>3, <2>5 DEF AcceptsExactlySound
  <1>8. CASE f \notin set /\ Valid(f, t)
    <2>1. /\ \E x \in ReadingOf(f, t) : config' = [config EXCEPT ![f] = x]
          /\ set' = set \cup {f} /\ state' = state
      BY <1>5, <1>8, Zenon DEF Assign, ReadingOf
    <2>2. config' = [config EXCEPT ![f] = ValueOf(f, t)]
      BY <1>5, <1>8, <2>1
    <2>3. /\ config' = [g \in Flags |-> config'[g]] /\ config'[f] = ValueOf(f, t)
          /\ \A g \in Flags \ {f} : config'[g] = config[g]
      BY <1>1, <1>2, <2>2
    <2>4. Kept(f)'
      <3>1. s = <<>>
        BY <1>1, <1>8
      <3>2. Len(given'[f]) = 1 /\ given'[f][1] = t
        BY <1>3, <1>4, <3>1
      <3> QED BY <1>8, <2>3, <3>2 DEF Kept
    <2>5. \A g \in set : Kept(g)'
      BY <1>1, <1>4, <1>8, <2>3 DEF Kept
    <2>6. /\ set' \subseteq Required /\ ~odd'
          /\ config'["batching"] = (given'["batching"] # <<>>)
          /\ \A g \in Required \ set' : given'[g] = <<>>
      BY <1>1, <1>2, <1>4, <2>1, <2>3
    <2>7. \A g \in set' : Kept(g)'
      BY <2>1, <2>4, <2>5
    <2>8. ParserInv'
      BY <1>4, <2>3, <2>6, <2>7 DEF ParserInv
    <2> QED BY <1>1, <2>1, <2>8 DEF AcceptsExactlySound
  <1> QED BY <1>7, <1>8

\* So does a turn at --batching.
LEMMA BatchingTurn ==
  ASSUME ParserInv, Batching
  PROVE  ParserInv' /\ AcceptsExactlySound'
  <1> DEFINE b == "batching"
  <1>1. b \in Flags /\ Required \subseteq Flags /\ b \notin Required
    BY Zenon DEF Flags, Required
  <1>2. given[b] \in Seq(Words) /\ LineEnd \in Words
    BY <1>1 DEF ParserInv, Words
  <1> HIDE DEF b
  <1>3. /\ config' = [config EXCEPT ![b] = TRUE]
        /\ given' = [given EXCEPT ![b] = Append(@, LineEnd)]
        /\ state' = state /\ set' = set /\ odd' = odd /\ state = "parsing"
    BY Zenon DEF Batching, b
  <1>4. /\ given' \in [Flags -> Seq(Words)] /\ given'[b] # <<>>
        /\ \A f \in Flags \ {b} : given'[f] = given[f]
    <2>1. given \in [Flags -> Seq(Words)]
      BY DEF ParserInv
    <2>2. PICK s \in Seq(Words) : s = Append(given[b], LineEnd) /\ s # <<>>
      BY <1>2, OneMore
    <2>3. given' = [given EXCEPT ![b] = s]
      BY <1>3, <2>2, Zenon
    <2> QED BY ONLY <1>1, <2>1, <2>2, <2>3
  <1>5. /\ config' = [f \in Flags |-> config'[f]] /\ config'[b] = TRUE
        /\ \A f \in Flags \ {b} : config'[f] = config[f]
    BY <1>1, <1>3 DEF ParserInv
  <1>6. config'["batching"] = (given'["batching"] # <<>>)
    BY <1>4, <1>5 DEF b
  <1>7. ASSUME NEW f \in set PROVE Kept(f)'
    <2>1. f \in Flags \ {b} /\ Kept(f)
      BY <1>1, <1>3, Zenon DEF ParserInv
    <2>2. given'[f] = given[f] /\ config'[f] = config[f]
      BY <1>4, <1>5, <2>1
    <2> QED BY <2>1, <2>2, Zenon DEF Kept
  <1>8. ParserInv'
    BY <1>1, <1>3, <1>4, <1>5, <1>6, <1>7 DEF ParserInv
  <1> QED BY <1>3, <1>8 DEF AcceptsExactlySound

\* An unknown argument, or the end of the line, ends the loop rightly.
LEMMA LastTurn ==
  ASSUME ParserInv, Unknown \/ Done
  PROVE  ParserInv' /\ AcceptsExactlySound'
  <1>1. CASE Unknown
    <2> PICK arg \in Texts :
          (\A f \in Flags : ~Matches(arg, f)) /\ odd' = (arg \notin FlagTexts)
      BY <1>1 DEF Unknown
    <2>1. arg \notin FlagTexts
      <3> SUFFICES ASSUME NEW is \in {"flag", "FLAG"}, NEW f \in Flags, arg = Text(is, f)
                   PROVE  FALSE
        BY SMT DEF FlagTexts
      <3> QED BY Zenon DEF Matches
    <2>2. state' = "refused" /\ set' = set /\ config' = config /\ given' = given /\ odd'
      BY <1>1, <2>1 DEF Unknown, Refuse
    <2>3. ParserInv'
      BY <2>2 DEF ParserInv
    <2> QED BY <2>2, <2>3 DEF AcceptsExactlySound, Sound
  <1>2. CASE Done
    <2>1. /\ set' = set /\ config' = config /\ given' = given /\ odd' = odd
          /\ state = "parsing"
          /\ state' = IF Required \subseteq set THEN "accepted" ELSE "refused"
      BY <1>2 DEF Done
    <2>2. ParserInv'
      BY <2>1 DEF ParserInv
    <2>3. CASE Required \subseteq set
      <3>1. state' = "accepted" /\ ~odd /\ \A f \in Required : Kept(f)
        BY <2>1, <2>3 DEF ParserInv
      <3>2. Sound
        BY <3>1 DEF Sound, Kept
      <3>3. config["shm"] = given["shm"][1]
        <4>1. "shm" \in Required
          BY Zenon DEF Required
        <4>2. Kept("shm")
          BY <3>1, <4>1
        <4> QED BY <4>2 DEF Kept, ValueOf
      <3>4. \A f \in Required \ {"shm"} : config[f] = given[f][1].value
        BY <3>1 DEF Kept, ValueOf
      <3>5. config["batching"] = (given["batching"] # <<>>)
        BY DEF ParserInv
      <3>6. Sound' /\ (config["shm"] = given["shm"][1])'
            /\ (\A f \in Required \ {"shm"} : config[f] = given[f][1].value)'
            /\ (config["batching"] = (given["batching"] # <<>>))'
        BY <2>1, <3>2, <3>3, <3>4, <3>5 DEF Sound
      <3> QED BY <2>2, <3>1, <3>6 DEF AcceptsExactlySound
    <2>4. CASE ~(Required \subseteq set)
      <3> PICK f \in Required : f \notin set
        BY <2>4
      <3>1. given'[f] = <<>> /\ state' = "refused"
        BY <2>1, <2>4 DEF ParserInv
      <3>2. Len(given'[f]) # 1
        BY SMT, <3>1
      <3> QED BY <2>2, <3>1, <3>2 DEF AcceptsExactlySound, Sound
    <2> QED BY <2>3, <2>4
  <1> QED BY <1>1, <1>2

\* For numbers, texts and slot counts of any size, a configuration is returned
\* for exactly the command lines that hold every required flag once, with a
\* valid value.
THEOREM Parser == ParserSpec => []AcceptsExactlySound
  <1> DEFINE I == ParserInv /\ AcceptsExactlySound
  <1>1. I /\ [ParserNext]_parserVars => I'
    <2> SUFFICES ASSUME I, [ParserNext]_parserVars PROVE I'
      OBVIOUS
    <2>1. CASE UNCHANGED parserVars
      BY <2>1, Zenon DEF parserVars, ParserInv, Kept, AcceptsExactlySound, Sound
    <2> QED BY <2>1, FlagTurn, BatchingTurn, LastTurn DEF ParserNext
  <1> QED BY <1>1, InitParserInv, PTL DEF ParserSpec
=============================================================================
