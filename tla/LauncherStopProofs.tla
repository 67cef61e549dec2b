------------------------- MODULE LauncherStopProofs -------------------------
(***************************************************************************)
(* Proof of StoppedMeansDead for every set of pids and every bound, when   *)
(* the operators issue only stop, kill and status (the commands of the     *)
(* stop_protocol run).  No command then execs Java, so the only worker is  *)
(* one that ran before, and the PID file names it until a ClearPid.        *)
(***************************************************************************)
EXTENDS LauncherProofs

StopCommands == {"stop", "kill", "status"}

(* The labels stop, kill and status reach, with ReadPid and ClearPid.      *)
StopLabels == {"idle", "readpid_lock", "readpid_read",
               "term_probe", "term_signal", "term_poll",
               "cp_lock", "cp_truncate", "term_done",
               "status_probe", "status_check"}

(* Where their ReadPid calls return to.                                    *)
StopReturns == {"idle", "term_probe", "term_signal", "term_poll",
                "status_probe", "status_check"}

(* The inductive invariant, conjunct by conjunct.                         *)

(* Launchers run only stop, kill and status.                               *)
StopOnly ==
  \A q \in Pid : /\ cmd[q] \in StopCommands \cup {"none"}
                 /\ pc[q] \in StopLabels
                 /\ ret[q] \in StopReturns

(* A running worker is the recorded pid.                                   *)
RecordNamesWorker == \A w \in Pid : proc[w] = "worker" => pidFile = w

(* A launcher in terminate's poll loop has just read the file: a running   *)
(* worker is the pid it read.                                              *)
PollSawWorker ==
  \A p \in Pid : pc[p] = "term_poll" =>
    \A w \in Pid : proc[w] = "worker" => w = rd[p]

(* Once a launcher has left the poll loop no worker runs.                  *)
LoopLeftNoWorker ==
  \A p \in Pid : pc[p] \in {"cp_lock", "cp_truncate", "term_done"} =>
    \A w \in Pid : proc[w] # "worker"

(* From the signal on, the pid terminate signalled is a pid: it was read   *)
(* from the file successfully.                                             *)
TargetRead ==
  \A p \in Pid :
    pc[p] \in {"term_poll", "cp_lock", "cp_truncate", "term_done"}
      \/ ret[p] = "term_poll"
      => tgt[p] \in Pid

StopInv ==
  /\ TypeOK
  /\ StopOnly
  /\ RecordNamesWorker
  /\ PollSawWorker
  /\ LoopLeftNoWorker
  /\ TargetRead

-----------------------------------------------------------------------------
(* Initially no launcher runs, and a worker that runs is recorded.         *)
LEMMA StopInit == Init => StopInv
BY TypeInit, PidAssumption DEF Init, StopInv, StopOnly, StopLabels,
                               StopReturns, RecordNamesWorker, PollSawWorker,
                               LoopLeftNoWorker, TargetRead

(* A process that ends keeps the invariant: it runs no command any more    *)
(* and it is not a worker.                                                 *)
LEMMA GoneKeeps ==
  ASSUME StopInv, NEW q \in Pid, Gone(q), UNCHANGED pidFile
  PROVE  StopOnly' /\ RecordNamesWorker' /\ PollSawWorker'
                   /\ LoopLeftNoWorker' /\ TargetRead'
BY GoneResets DEF StopInv, StopOnly, StopLabels, StopReturns,
                  RecordNamesWorker, PollSawWorker, LoopLeftNoWorker, TargetRead

(* No step of a stop, kill or status launcher, of a signalled or crashing  *)
(* process or of an unrelated process makes a worker, and a ClearPid runs  *)
(* only once no worker runs.                                               *)
LEMMA StopStep ==
  ASSUME Commands \subseteq StopCommands, StopInv, [Next]_vars
  PROVE  StopInv'
<1> USE DEF StopInv
<1>0. TypeOK'  BY TypeStep
<1> SUFFICES StopOnly' /\ RecordNamesWorker' /\ PollSawWorker'
                       /\ LoopLeftNoWorker' /\ TargetRead'
  BY <1>0
<1> DEFINE Rest == StopOnly' /\ RecordNamesWorker' /\ PollSawWorker'
                             /\ LoopLeftNoWorker' /\ TargetRead'
<1> USE DEF TypeOK
<1>1. ASSUME NEW p \in Pid, NEW c \in Commands, Invoke(p, c) PROVE Rest
  <2>1. Entry(c) \in {"term_probe", "status_probe"}
    BY DEF Entry, StopCommands
  <2>2. StopOnly'
    BY <1>1, <2>1 DEF Invoke, CallReadPid, StopOnly, StopLabels, StopReturns,
                      StopCommands
  <2>3. RecordNamesWorker' /\ PollSawWorker' /\ LoopLeftNoWorker'
    BY <1>1 DEF Invoke, CallReadPid, RecordNamesWorker, PollSawWorker,
                LoopLeftNoWorker
  <2>4. TargetRead'
    BY <1>1, <2>1 DEF Invoke, CallReadPid, TargetRead
  <2>. QED  BY <2>2, <2>3, <2>4
<1>2. ASSUME NEW p \in Pid, ReadPidLock(p) PROVE Rest
  BY <1>2 DEF ReadPidLock, Launcher, Goto, StopOnly, StopLabels, StopReturns,
              RecordNamesWorker, PollSawWorker, LoopLeftNoWorker, TargetRead
<1>3. ASSUME NEW p \in Pid, ReadPidRead(p) PROVE Rest
  BY <1>3 DEF ReadPidRead, Launcher, Return, StopOnly, StopLabels, StopReturns,
              RecordNamesWorker, PollSawWorker, LoopLeftNoWorker, TargetRead
<1>4. ASSUME NEW p \in Pid,
             \/ WpLock(p) \/ WpTruncate(p) \/ WpWrite(p)
             \/ RunProbe(p) \/ RunCheck(p) \/ RunExec(p)
             \/ StartProbe(p) \/ StartCheck(p) \/ StartLock(p)
             \/ StartFork(p) \/ StartDone(p) \/ StartExec(p)
      PROVE FALSE
  <2>1. pc[p] \in StopLabels  BY DEF StopOnly
  <2>. QED  BY <1>4, <2>1 DEF StopLabels, Launcher, WpLock, WpTruncate,
                              WpWrite, RunProbe, RunCheck, RunExec, StartProbe,
                              StartCheck, StartLock, StartFork, StartDone,
                              StartExec
<1>5. ASSUME NEW p \in Pid, CpLock(p) PROVE Rest
  BY <1>5 DEF CpLock, AcquireEx, Launcher, Goto, StopOnly, StopLabels,
              StopReturns, RecordNamesWorker, PollSawWorker, LoopLeftNoWorker,
              TargetRead
<1>6. ASSUME NEW p \in Pid, CpTruncate(p) PROVE Rest
  BY <1>6 DEF CpTruncate, Launcher, Goto, StopOnly, StopLabels, StopReturns,
              RecordNamesWorker, PollSawWorker, LoopLeftNoWorker, TargetRead
<1>7. ASSUME NEW p \in Pid, Exit(p) PROVE Rest
  BY <1>7, GoneKeeps DEF Exit
<1>8. ASSUME NEW p \in Pid, TermProbe(p) PROVE Rest
  <2>1. cmd[p] # "restart"  BY DEF StopOnly, StopCommands
  <2>. QED  BY <1>8, <2>1, <1>7 DEF TermProbe, Launcher, CallReadPid, StopOnly,
                                    StopLabels, StopReturns, RecordNamesWorker,
                                    PollSawWorker, LoopLeftNoWorker, TargetRead
<1>9. ASSUME NEW p \in Pid, TermSignal(p) PROVE Rest
  BY <1>9, <1>7 DEF TermSignal, Launcher, CallReadPid, StopOnly, StopLabels,
                    StopReturns, RecordNamesWorker, PollSawWorker,
                    LoopLeftNoWorker, TargetRead
<1>10. ASSUME NEW p \in Pid, TermPoll(p) PROVE Rest
  <2>1. CASE Alive(p) /\ CallReadPid(p, "term_poll") /\ UNCHANGED rd
    BY <1>10, <2>1 DEF TermPoll, Launcher, CallReadPid, StopOnly, StopLabels,
                       StopReturns, RecordNamesWorker, PollSawWorker,
                       LoopLeftNoWorker, TargetRead
  <2>2. CASE ~Alive(p) /\ Goto(p, "cp_lock") /\ Consume(p) /\ UNCHANGED ret
    <3>1. \A w \in Pid : proc[w] # "worker"
      BY <1>10, <2>2, PidAssumption DEF TermPoll, Launcher, Alive, Exists,
                                        PollSawWorker
    <3>. QED  BY <1>10, <2>2, <3>1 DEF TermPoll, Launcher, Goto, Consume,
                                       StopOnly, StopLabels, StopReturns,
                                       RecordNamesWorker, PollSawWorker,
                                       LoopLeftNoWorker, TargetRead
  <2>. QED  BY <1>10, <2>1, <2>2 DEF TermPoll
<1>11. ASSUME NEW p \in Pid, TermDone(p) PROVE Rest
  <2>1. cmd[p] # "restart"  BY DEF StopOnly, StopCommands
  <2>. QED  BY <1>11, <2>1, <1>7 DEF TermDone
<1>12. ASSUME NEW p \in Pid, StatusProbe(p) \/ StatusCheck(p) PROVE Rest
  BY <1>12, <1>7 DEF StatusProbe, StatusCheck, Launcher, CallReadPid, StopOnly,
                     StopLabels, StopReturns, RecordNamesWorker, PollSawWorker,
                     LoopLeftNoWorker, TargetRead
<1>13. ASSUME NEW q \in Pid, Die(q) \/ Crash(q) \/ ForeignExit(q) PROVE Rest
  BY <1>13, GoneKeeps DEF Die, Crash, ForeignExit
<1>14. ASSUME NEW q \in Pid, ForeignStart(q) PROVE Rest
  BY <1>14 DEF ForeignStart, StopOnly, RecordNamesWorker, PollSawWorker,
               LoopLeftNoWorker, TargetRead
<1>15. CASE Quiescent \/ UNCHANGED vars
  BY <1>15 DEF Quiescent, vars, StopOnly, RecordNamesWorker, PollSawWorker,
               LoopLeftNoWorker, TargetRead
<1>. QED
  BY <1>1, <1>2, <1>3, <1>4, <1>5, <1>6, <1>8, <1>9, <1>10, <1>11, <1>12,
     <1>13, <1>14, <1>15 DEF Next, LocalStep, LockStep

(* When the operators issue only stop, kill and status, a launcher that    *)
(* has left terminate's poll loop (ClearPid, "Stopped") never leaves the   *)
(* worker it signalled running: main.go's poll on Alive ends only when the *)
(* recorded pid is gone or the record was cleared, and then no worker runs.*)
THEOREM StopSafety ==
  ASSUME Commands \subseteq StopCommands
  PROVE  Spec => []StoppedMeansDead
<1>1. Init => StopInv  BY StopInit
<1>2. StopInv /\ [Next]_vars => StopInv'  BY StopStep
<1>3. StopInv => StoppedMeansDead
  BY DEF StopInv, LoopLeftNoWorker, TargetRead, StoppedMeansDead, TypeOK
<1>. QED  BY <1>1, <1>2, <1>3, PTL DEF Spec

(* The sequential_record run shows that a run or start racing a crash can  *)
(* leave a worker the PID file does not name.  Stop, kill and status never *)
(* do: whatever their interleaving, crashes and unrelated processes, every *)
(* running worker stays the recorded pid, because terminate's ClearPid    *)
(* empties the file only after its poll saw the worker gone.               *)
THEOREM StopKeepsRecord ==
  ASSUME Commands \subseteq StopCommands
  PROVE  Spec => []RecordTracksWorker
<1>1. Init => StopInv  BY StopInit
<1>2. StopInv /\ [Next]_vars => StopInv'  BY StopStep
<1>3. StopInv => RecordTracksWorker
  BY DEF StopInv, RecordNamesWorker, RecordTracksWorker
<1>. QED  BY <1>1, <1>2, <1>3, PTL DEF Spec
=============================================================================
