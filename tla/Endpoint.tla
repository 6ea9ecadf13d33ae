------------------------------ MODULE Endpoint ------------------------------
(***************************************************************************)
(* The life of lldt_sender and lldt_receiver around their hot loops: EAL,  *)
(* signal handlers, the set-up of run_sender() or run_receiver() step by   *)
(* step, the destructors in reverse order, rte_eal_cleanup() and the exit  *)
(* status.  Any call may fail and a process may be killed anywhere.        *)
(*                                                                         *)
(* Procs are senders and receivers on one host, started in any order, the  *)
(* receivers with the same name for their segment.  What they share is the *)
(* primary-process lock of EAL (external) and, the receivers, the link of  *)
(* the segment's name; a sender's segment is another one, which it only    *)
(* opens.  What the loops do is in Sender and Receiver, what readers of a  *)
(* segment see in SegmentLifecycle.                                        *)
(***************************************************************************)
EXTENDS Integers, Sequences

CONSTANTS Procs,   \* processes, each started once
          NoProc,  \* no process
          Role     \* process p: "sender" or "receiver"

ASSUME ProcsAssumption == NoProc \notin Procs
ASSUME RoleAssumption == Role \in [Procs -> {"sender", "receiver"}]

VARIABLES pc,       \* process p: the stage of main() it is in
          at,       \* process p: index of its next step in Plan or Teardown
          stop,     \* process p: stop_requested
          dev,      \* process p: its Ethernet device
          pool,     \* process p: its mempool
          inode,    \* process p: the segment it mapped, named by its creator
          result,   \* process p: what run_sender() or run_receiver() returned
          status,   \* process p: its exit status, or -1
          served,   \* process p: it passed at least once through the hot loop
          stuck,    \* process p: rte_eth_dev_stop() failed
          lock,     \* holder of the primary-process lock
          link      \* the segment the name is linked to

hostVars == <<lock, link>>
vars == <<pc, at, stop, dev, pool, inode, result, status, served, stuck, hostVars>>

\* What the constructors and try_initialize() do, in order.
SetUpTx == <<"port", "configure", "queue", "pool", "bulk", "warmup", "start">>
SetUpRx == <<"port", "configure", "pool", "bulk", "warmup", "queue", "start">>

Plan(p) ==
  <<"config", "info">> \o
    (IF Role[p] = "sender" THEN SetUpTx \o <<"segment">> ELSE <<"segment">> \o SetUpRx)

\* Mutants of Teardown: the pool before the device that fills it; the name
\* unlinked after the lock is given up.
TeardownPoolFirst == <<"free", "stop", "close", "unlink", "cleanup">>
TeardownUnlinkLast == <<"stop", "close", "free", "cleanup", "unlink">>

\* The destructors in reverse order of construction, then main().
Teardown == <<"stop", "close", "free", "unlink", "cleanup">>

Init ==
  /\ pc = [p \in Procs |-> "eal"]
  /\ at = [p \in Procs |-> 1]
  /\ stop = [p \in Procs |-> FALSE]
  /\ dev = [p \in Procs |-> "closed"]
  /\ pool = [p \in Procs |-> "none"]
  /\ inode = [p \in Procs |-> NoProc]
  /\ result = [p \in Procs |-> 0]
  /\ status = [p \in Procs |-> -1]
  /\ served = [p \in Procs |-> FALSE]
  /\ stuck = [p \in Procs |-> FALSE]
  /\ lock = NoProc /\ link = NoProc

Released(p) == IF lock = p THEN NoProc ELSE lock

\* The end of the process, which drops its lock and its mappings.
End(p, how, code) ==
  /\ pc' = [pc EXCEPT ![p] = how]
  /\ status' = [status EXCEPT ![p] = code]
  /\ lock' = Released(p)
-----------------------------------------------------------------------------
(* Start *)

\* rte_eal_init(), which refuses a second primary process.
EalInit(p) ==
  /\ pc[p] = "eal"
  /\ lock = NoProc
  /\ lock' = p
  /\ pc' = [pc EXCEPT ![p] = "signals"]
  /\ UNCHANGED <<at, stop, dev, pool, inode, result, status, served, stuck, link>>

EalFails(p) ==
  /\ pc[p] = "eal"
  /\ End(p, "exited", 1)
  /\ UNCHANGED <<at, stop, dev, pool, inode, result, served, stuck, link>>

Sigaction(p) ==
  /\ pc[p] = "signals"
  /\ \/ /\ pc' = [pc EXCEPT ![p] = "setup"]
        /\ UNCHANGED <<at, result>>
     \/ /\ pc' = [pc EXCEPT ![p] = "teardown"]
        /\ at' = [at EXCEPT ![p] = Len(Teardown)]
        /\ result' = [result EXCEPT ![p] = 1]
  /\ UNCHANGED <<stop, dev, pool, inode, status, served, stuck, hostVars>>

InStep(p, what) == pc[p] = "setup" /\ at[p] <= Len(Plan(p)) /\ Plan(p)[at[p]] = what

\* shm_open(O_CREAT) opens the segment that still has the name.
Linked(p) == IF link = NoProc THEN p ELSE link

\* The call of a step succeeds.
StepDone(p) ==
  /\ pc[p] = "setup"
  /\ at[p] <= Len(Plan(p))
  /\ at' = [at EXCEPT ![p] = @ + 1]
  /\ dev' = IF InStep(p, "configure") THEN [dev EXCEPT ![p] = "configured"]
            ELSE IF InStep(p, "start") THEN [dev EXCEPT ![p] = "running"] ELSE dev
  /\ pool' = IF InStep(p, "pool") THEN [pool EXCEPT ![p] = "live"] ELSE pool
  /\ IF InStep(p, "segment") /\ Role[p] = "receiver"
       THEN /\ link' = Linked(p)
            /\ inode' = [inode EXCEPT ![p] = Linked(p)]
       ELSE UNCHANGED <<link, inode>>
  /\ UNCHANGED <<pc, stop, result, status, served, stuck, lock>>

\* Mutant of Constructed: the port counts only once it is initialised.
ConstructedIfStarted(p) == dev[p] = "running"

\* The port object exists, so that its destructor will run.
Constructed(p) == \E k \in 1..at[p]-1 : Plan(p)[k] = "port"

\* A call that can fail does: run_sender() or run_receiver() returns 1.  The
\* first lines cannot have failed once the port is there.
StepFails(p) ==
  /\ pc[p] = "setup"
  /\ at[p] <= Len(Plan(p))
  /\ Plan(p)[at[p]] \notin {"port", "segment"}
  /\ pc' = [pc EXCEPT ![p] = "teardown"]
  /\ at' = [at EXCEPT ![p] = IF Constructed(p) THEN 1 ELSE Len(Teardown)]
  /\ result' = [result EXCEPT ![p] = 1]
  /\ UNCHANGED <<stop, dev, pool, inode, status, served, stuck, hostVars>>

\* Segment::open leaves by exit(1): no destructor, no rte_eal_cleanup().  The
\* receiver may have created the name before ftruncate or mmap failed.
SegmentFails(p) ==
  /\ InStep(p, "segment")
  /\ \/ link' = link
     \/ Role[p] = "receiver" /\ link' = Linked(p)
  /\ End(p, "hard_exit", 1)
  /\ UNCHANGED <<at, stop, dev, pool, inode, result, served, stuck>>

EnterLoop(p) ==
  /\ pc[p] = "setup"
  /\ at[p] = Len(Plan(p)) + 1
  /\ pc' = [pc EXCEPT ![p] = "loop"]
  /\ UNCHANGED <<at, stop, dev, pool, inode, result, status, served, stuck, hostVars>>
-----------------------------------------------------------------------------
(* The loop and the end *)

\* A pass through the loop; Sender and Receiver say what it does.
Serve(p) ==
  /\ pc[p] = "loop"
  /\ ~stop[p]
  /\ served' = [served EXCEPT ![p] = TRUE]
  /\ UNCHANGED <<pc, at, stop, dev, pool, inode, result, status, stuck, hostVars>>

LeaveLoop(p) ==
  /\ pc[p] = "loop"
  /\ stop[p]
  /\ pc' = [pc EXCEPT ![p] = "stats"]
  /\ UNCHANGED <<at, stop, dev, pool, inode, result, status, served, stuck, hostVars>>

\* The sender also leaves, with an error, when a packet finds no room in an mbuf.
LoopFails(p) ==
  /\ pc[p] = "loop"
  /\ Role[p] = "sender"
  /\ result' = [result EXCEPT ![p] = 1]
  /\ pc' = [pc EXCEPT ![p] = "stats"]
  /\ UNCHANGED <<at, stop, dev, pool, inode, status, served, stuck, hostVars>>

\* The counters; whatever the device refuses to tell, the result stays.
Stats(p) ==
  /\ pc[p] = "stats"
  /\ pc' = [pc EXCEPT ![p] = "teardown"]
  /\ at' = [at EXCEPT ![p] = 1]
  /\ UNCHANGED <<stop, dev, pool, inode, result, status, served, stuck, hostVars>>

InTeardown(p, what) == pc[p] = "teardown" /\ at[p] <= Len(Teardown) /\ Teardown[at[p]] = what
Advance(p) == at' = [at EXCEPT ![p] = @ + 1]

\* rte_eth_dev_stop(), whose failure the destructor does not look at.
StopDevice(p) ==
  /\ InTeardown(p, "stop")
  /\ \/ dev' = [dev EXCEPT ![p] = IF @ = "running" THEN "configured" ELSE @] /\ stuck' = stuck
     \/ dev[p] = "running" /\ stuck' = [stuck EXCEPT ![p] = TRUE] /\ dev' = dev
  /\ Advance(p)
  /\ UNCHANGED <<pc, stop, pool, inode, result, status, served, hostVars>>

\* rte_eth_dev_close(), which refuses a running device.
CloseDevice(p) ==
  /\ InTeardown(p, "close")
  /\ dev' = [dev EXCEPT ![p] = IF @ = "running" THEN @ ELSE "closed"]
  /\ Advance(p)
  /\ UNCHANGED <<pc, stop, pool, inode, result, status, served, stuck, hostVars>>

\* rte_mempool_free(), which takes a null pointer.
FreePool(p) ==
  /\ InTeardown(p, "free")
  /\ pool' = [pool EXCEPT ![p] = IF @ = "live" THEN "freed" ELSE @]
  /\ Advance(p)
  /\ UNCHANGED <<pc, stop, dev, inode, result, status, served, stuck, hostVars>>

\* ~ReceiverShmWriter: the name goes, whoever created what it is linked to.
Unlink(p) ==
  /\ InTeardown(p, "unlink")
  /\ link' = IF Role[p] = "receiver" THEN NoProc ELSE link
  /\ Advance(p)
  /\ UNCHANGED <<pc, stop, dev, pool, inode, result, status, served, stuck, lock>>

ExitStatus(p, cleaned) == IF result[p] = 0 /\ cleaned THEN 0 ELSE 1

\* The lock may already be free for others when rte_eal_cleanup() returns.
Cleanup(p) ==
  /\ InTeardown(p, "cleanup")
  /\ \E cleaned \in BOOLEAN :
       /\ status' = [status EXCEPT ![p] = ExitStatus(p, cleaned)]
       /\ lock' = IF cleaned THEN Released(p) ELSE lock
  /\ Advance(p)
  /\ UNCHANGED <<pc, stop, dev, pool, inode, result, served, stuck, link>>

Return(p) ==
  /\ pc[p] = "teardown"
  /\ at[p] = Len(Teardown) + 1
  /\ End(p, "exited", status[p])
  /\ UNCHANGED <<at, stop, dev, pool, inode, result, served, stuck, link>>
-----------------------------------------------------------------------------
(* Signals *)

Ended == {"exited", "hard_exit", "killed"}

\* handle_signal(), from the moment it is installed.
Signal(p) ==
  /\ pc[p] \in {"setup", "loop", "stats", "teardown"}
  /\ stop' = [stop EXCEPT ![p] = TRUE]
  /\ UNCHANGED <<pc, at, dev, pool, inode, result, status, served, stuck, hostVars>>

\* SIGKILL or a fault, or SIGINT before the handlers are there.
Kill(p) ==
  /\ pc[p] \notin Ended
  /\ End(p, "killed", -1)
  /\ UNCHANGED <<at, stop, dev, pool, inode, result, served, stuck, link>>

Main(p) ==
  \/ EalInit(p) \/ EalFails(p) \/ Sigaction(p)
  \/ StepDone(p) \/ StepFails(p) \/ SegmentFails(p) \/ EnterLoop(p)
  \/ Serve(p) \/ LeaveLoop(p) \/ Stats(p)
  \/ StopDevice(p) \/ CloseDevice(p) \/ FreePool(p) \/ Unlink(p) \/ Cleanup(p)
  \/ Return(p)

Next == \E p \in Procs : Main(p) \/ LoopFails(p) \/ Signal(p) \/ Kill(p)
Spec == Init /\ [][Next]_vars
-----------------------------------------------------------------------------
\* Type invariant.
TypeOK ==
  /\ pc \in [Procs -> {"eal", "signals", "setup", "loop", "stats", "teardown"} \cup Ended]
  /\ at \in [Procs -> 1..11]
  /\ stop \in [Procs -> BOOLEAN]
  /\ dev \in [Procs -> {"closed", "configured", "running"}]
  /\ pool \in [Procs -> {"none", "live", "freed"}]
  /\ inode \in [Procs -> Procs \cup {NoProc}]
  /\ result \in [Procs -> {0, 1}]
  /\ status \in [Procs -> {-1, 0, 1}]
  /\ served \in [Procs -> BOOLEAN]
  /\ stuck \in [Procs -> BOOLEAN]
  /\ lock \in Procs \cup {NoProc}
  /\ link \in Procs \cup {NoProc}

\* The NIC is never left running over a pool that was freed, at whatever step
\* the set-up failed, except when rte_eth_dev_stop() itself failed: the
\* destructor frees the pool all the same.
PoolOutlivesDevice ==
  \A p \in Procs : pool[p] = "freed" /\ dev[p] = "running" => stuck[p]

\* A process that leaves through main() leaves nothing: no device in use, no
\* pool, no lock, and a receiver no segment of its own making, however far its
\* set-up got.
AllReleased ==
  \A p \in Procs : pc[p] = "exited" =>
    /\ dev[p] # "closed" => stuck[p]
    /\ pool[p] # "live"
    /\ lock # p
    /\ inode[p] # NoProc => link # inode[p]

\* Segment::open's exit(1) runs no destructor and no cleanup.  In the receiver
\* it comes before the port is touched; SenderHardExit says what it leaves in
\* the sender.
HardExitIsEarly ==
  \A p \in Procs : Role[p] = "receiver" /\ pc[p] = "hard_exit" =>
    dev[p] = "closed" /\ pool[p] = "none"

\* In the sender the same exit leaves a started device with its pool behind
\* the back of EAL; nothing was sent by then.
SenderHardExit ==
  \A p \in Procs : Role[p] = "sender" /\ pc[p] = "hard_exit" =>
    dev[p] = "running" /\ pool[p] = "live" /\ ~served[p]

\* Exit status 0 means: set up completely, told to stop, and cleaned up.
StatusIsHonest ==
  \A p \in Procs : status[p] = 0 =>
    stop[p] /\ result[p] = 0 /\ at[p] > Len(Teardown) /\ lock # p /\ pool[p] = "freed"

\* The segment a working receiver publishes to keeps its name: a receiver that
\* is on its way out unlinks by name, but only while it still holds the lock
\* without which no other receiver gets as far as creating a segment.
SegmentStaysLinked ==
  \A p \in Procs : pc[p] \in {"setup", "loop", "stats"} /\ inode[p] # NoProc
                     => link = inode[p]
=============================================================================
