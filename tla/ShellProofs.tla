---------------------------- MODULE ShellProofs ----------------------------
(***************************************************************************)
(* The invariants of Shell for any number of commands.                     *)
(*                                                                         *)
(* WaitsForTheGoing is not inductive: what a wait may be for depends on    *)
(* what the loop left in the list before.  The strengthening says it of    *)
(* every listed job, waited for or not: a stop that neither the handler    *)
(* has noted nor waitpid() has still to tell, and an end that was told,    *)
(* were taken by the loop while it was at another job.                     *)
(***************************************************************************)
EXTENDS Shell, TLAPS

\* No listed job is dying: kill takes the job out of the list, and exit ends.
NoneDying == pc # "exited" => \A j \in list : proc[j] # "dying"

\* A listed job whose stop is known to nobody has lost it to the loop.
StopsAreKnown ==
    \A j \in list : proc[j] = "stopped" /\ ~stopped[j] /\ j \notin news => j \in taken

\* A listed job that is reaped has lost its end to the loop.
EndsAreKnown == \A j \in list : proc[j] = "reaped" => j \in taken

\* What the loop took is a stop or an end.
TakenAreStill ==
    pc # "exited" => \A j \in taken : proc[j] \in {"stopped", "reaped"}

\* The job that is waited for stays in the list until the handler reports it,
\* and the handler runs inside a wait only.
WaitInv == /\ Waiting /\ childpid # pid => childpid \in list
           /\ inHandler => Waiting /\ childpid # pid

\* What is known of every listed job, waited for or not.
JobInv == NoneDying /\ StopsAreKnown /\ EndsAreKnown /\ TakenAreStill

IInv == /\ TypeOK
        /\ JobInv
        /\ WaitInv
        /\ RunningAreListed
        /\ WaitsForTheGoing
        /\ FreedIfEnded

-----------------------------------------------------------------------------
(* The initial states                                                      *)

\* Process ids are positive.
LEMMA Pids == Jobs \subseteq Nat \ {0} /\ NoPid \notin Jobs /\ 0 \notin Jobs
BY JobsAssumption DEF Jobs, NoPid

\* The invariant holds when the shell starts.
LEMMA InitInv == Init => IInv
BY Pids DEF Init, IInv, TypeOK, JobInv, NoneDying, StopsAreKnown, EndsAreKnown,
            TakenAreStill, WaitInv, RunningAreListed, WaitsForTheGoing,
            FreedIfEnded, Forked, Waiting
-----------------------------------------------------------------------------
(* The processes                                                           *)

\* A job that stops has news, so a wait for it can still end.
LEMMA StopStep ==
    ASSUME IInv, NEW j \in Jobs, Stop(j)
    PROVE  IInv'
<1> USE Pids DEF IInv, TypeOK, JobInv, Stop, Forked
<1>1. TypeOK'
  OBVIOUS
<1>2. JobInv'
  BY DEF NoneDying, StopsAreKnown, EndsAreKnown, TakenAreStill
<1>3. WaitInv'
  BY DEF WaitInv, Waiting
<1>4. RunningAreListed'
  BY DEF RunningAreListed
<1>5. WaitsForTheGoing' /\ FreedIfEnded'
  BY DEF WaitsForTheGoing, FreedIfEnded, Waiting
<1> QED
  BY <1>1, <1>2, <1>3, <1>4, <1>5

\* A job that ends is a zombie, which a wait for it will be told of.
LEMMA EndStep ==
    ASSUME IInv, NEW j \in Jobs, End(j)
    PROVE  IInv'
<1> USE Pids DEF IInv, TypeOK, JobInv, End, Forked
<1>1. TypeOK'
  OBVIOUS
<1>2. JobInv'
  BY DEF NoneDying, StopsAreKnown, EndsAreKnown, TakenAreStill
<1>3. WaitInv'
  BY DEF WaitInv, Waiting
<1>4. RunningAreListed'
  BY DEF RunningAreListed
<1>5. WaitsForTheGoing' /\ FreedIfEnded'
  BY DEF WaitsForTheGoing, FreedIfEnded, Waiting
<1> QED
  BY <1>1, <1>2, <1>3, <1>4, <1>5
-----------------------------------------------------------------------------
(* The commands                                                            *)

\* A new job is listed, runs, and is the one that is waited for.
LEMMA RunForegroundStep ==
    ASSUME IInv, NEW j \in Jobs, RunForeground(j)
    PROVE  IInv'
<1> USE Pids DEF IInv, TypeOK, JobInv, Forked, RunForeground
<1>1. TypeOK'
  OBVIOUS
<1>2. JobInv'
  BY DEF NoneDying, StopsAreKnown, EndsAreKnown, TakenAreStill
<1>3. WaitInv'
  BY DEF WaitInv, Waiting
<1>4. RunningAreListed'
  BY DEF RunningAreListed
<1>5. WaitsForTheGoing' /\ FreedIfEnded'
  BY DEF WaitsForTheGoing, FreedIfEnded, WaitInv, Waiting
<1> QED
  BY <1>1, <1>2, <1>3, <1>4, <1>5

\* A new job is listed and runs.
LEMMA RunBackgroundStep ==
    ASSUME IInv, NEW j \in Jobs, RunBackground(j)
    PROVE  IInv'
<1> USE Pids DEF IInv, TypeOK, JobInv, Forked, RunBackground, ToReap
<1>1. TypeOK'
  OBVIOUS
<1>2. JobInv'
  BY DEF NoneDying, StopsAreKnown, EndsAreKnown, TakenAreStill
<1>3. WaitInv'
  BY DEF WaitInv, Waiting
<1>4. RunningAreListed'
  BY DEF RunningAreListed
<1>5. WaitsForTheGoing' /\ FreedIfEnded'
  BY DEF WaitsForTheGoing, FreedIfEnded, WaitInv, Waiting
<1> QED
  BY <1>1, <1>2, <1>3, <1>4, <1>5

\* The job fg waits for was listed: it runs, ends, or is told of, or was taken.
LEMMA FgStep ==
    ASSUME IInv, NEW j \in Jobs, Fg(j)
    PROVE  IInv'
<1> USE Pids DEF IInv, TypeOK, JobInv, Forked, Fg, Continue
<1>1. TypeOK'
  BY ZenonT(40)
<1>2. JobInv'
  BY ZenonT(40) DEF NoneDying, StopsAreKnown, EndsAreKnown, TakenAreStill
<1>3. WaitInv'
  BY DEF WaitInv, Waiting
<1>4. RunningAreListed'
  BY DEF RunningAreListed
<1>5. WaitsForTheGoing' /\ FreedIfEnded'
  <2>1. childpid' = j /\ j \in list /\ pid' = 0 /\ list' = list
    OBVIOUS
  <2>2. proc[j] # "dying" /\ proc[j] # "none"
    BY DEF NoneDying
  <2>3. proc[j] = "reaped" => j \in taken
    BY <2>1 DEF EndsAreKnown
  <2>4. proc[j] = "stopped" /\ ~stopped[j] /\ j \notin news => j \in taken
    BY <2>1 DEF StopsAreKnown
  <2>5. WaitsForTheGoing'
    BY <2>1, <2>2, <2>3, <2>4 DEF WaitsForTheGoing, Waiting
  <2> QED
    BY <2>1, <2>5 DEF FreedIfEnded
<1> QED
  BY <1>1, <1>2, <1>3, <1>4, <1>5

\* A killed job leaves the list.
LEMMA KillJobStep ==
    ASSUME IInv, NEW j \in Jobs, KillJob(j)
    PROVE  IInv'
<1> USE Pids DEF IInv, TypeOK, JobInv, Forked, KillJob, KillAll, ToReap
<1>1. TypeOK'
  OBVIOUS
<1>2. JobInv'
  BY ZenonT(40) DEF NoneDying, StopsAreKnown, EndsAreKnown, TakenAreStill
<1>3. WaitInv'
  BY DEF WaitInv, Waiting
<1>4. RunningAreListed'
  BY DEF RunningAreListed
<1>5. WaitsForTheGoing' /\ FreedIfEnded'
  BY DEF WaitsForTheGoing, FreedIfEnded, WaitInv, Waiting
<1> QED
  BY <1>1, <1>2, <1>3, <1>4, <1>5

\* A killed process that is no job disturbs no listed one.
LEMMA KillPidStep ==
    ASSUME IInv, NEW j \in Jobs, KillPid(j)
    PROVE  IInv'
<1> USE Pids DEF IInv, TypeOK, JobInv, Forked, KillPid, KillAll, ToReap
<1>1. TypeOK'
  OBVIOUS
<1>2. JobInv'
  BY DEF NoneDying, StopsAreKnown, EndsAreKnown, TakenAreStill
<1>3. WaitInv'
  BY DEF WaitInv, Waiting
<1>4. RunningAreListed'
  BY DEF RunningAreListed
<1>5. WaitsForTheGoing' /\ FreedIfEnded'
  BY DEF WaitsForTheGoing, FreedIfEnded, WaitInv, Waiting
<1> QED
  BY <1>1, <1>2, <1>3, <1>4, <1>5

\* The other commands leave the jobs alone.
LEMMA QuietStep ==
    ASSUME IInv, KillGroup \/ Builtin \/ Exit \/ EndOfFile
    PROVE  IInv'
<1> USE Pids DEF IInv, TypeOK, JobInv, Forked, KillGroup, Builtin, Exit, EndOfFile, ToReap
<1>1. TypeOK'
  OBVIOUS
<1>2. JobInv'
  BY DEF NoneDying, StopsAreKnown, EndsAreKnown, TakenAreStill
<1>3. WaitInv'
  BY DEF WaitInv, Waiting
<1>4. RunningAreListed'
  BY DEF RunningAreListed
<1>5. WaitsForTheGoing' /\ FreedIfEnded'
  BY DEF WaitsForTheGoing, FreedIfEnded, WaitInv, Waiting
<1> QED
  BY <1>1, <1>2, <1>3, <1>4, <1>5
-----------------------------------------------------------------------------
(* The wait                                                                *)

\* The handler starts inside a wait.
LEMMA HandlerStep ==
    ASSUME IInv, Handler
    PROVE  IInv'
<1> USE Pids DEF IInv, TypeOK, JobInv, Forked, Handler, Deliverable
<1>1. TypeOK'
  OBVIOUS
<1>2. JobInv'
  BY DEF NoneDying, StopsAreKnown, EndsAreKnown, TakenAreStill
<1>3. WaitInv'
  BY DEF WaitInv, Waiting
<1>4. RunningAreListed'
  BY DEF RunningAreListed
<1>5. WaitsForTheGoing' /\ FreedIfEnded'
  BY DEF WaitsForTheGoing, FreedIfEnded, WaitInv, Waiting
<1> QED
  BY <1>1, <1>2, <1>3, <1>4, <1>5

\* What the handler was told of the job ends the wait: it noted a stop and freed
\* an ended job.
LEMMA HandlerReportsStep ==
    ASSUME IInv, NEW j \in Jobs, HandlerReports(j)
    PROVE  IInv'
<1> USE Pids DEF IInv, TypeOK, JobInv, Forked, HandlerReports, Awaited, Waitable, Report, NoteJob
<1>1. TypeOK'
  <2>1. proc[j] = "zombie" => j \notin taken
    BY DEF TakenAreStill, WaitInv, Waiting
  <2> QED
    BY <2>1, ZenonT(40)
<1>2. JobInv'
  BY DEF NoneDying, StopsAreKnown, EndsAreKnown, TakenAreStill
<1>3. WaitInv'
  BY DEF WaitInv, Waiting
<1>4. RunningAreListed'
  BY DEF RunningAreListed
<1>5. WaitsForTheGoing' /\ FreedIfEnded'
  BY DEF WaitsForTheGoing, FreedIfEnded, WaitInv, Waiting
<1> QED
  BY <1>1, <1>2, <1>3, <1>4, <1>5

\* A handler without a child leaves the jobs, and the wait, as they were.
LEMMA HandlerFailsStep ==
    ASSUME IInv, HandlerFails
    PROVE  IInv'
<1> USE Pids DEF IInv, TypeOK, JobInv, Forked, HandlerFails
<1>1. TypeOK'
  OBVIOUS
<1>2. JobInv'
  BY DEF NoneDying, StopsAreKnown, EndsAreKnown, TakenAreStill
<1>3. WaitInv'
  BY DEF WaitInv, Waiting
<1>4. RunningAreListed'
  BY DEF RunningAreListed
<1>5. WaitsForTheGoing' /\ FreedIfEnded'
  BY DEF WaitsForTheGoing, FreedIfEnded, WaitInv, Waiting
<1> QED
  BY <1>1, <1>2, <1>3, <1>4, <1>5

\* The end of a wait.
LEMMA ResumeStep ==
    ASSUME IInv, Resume
    PROVE  IInv'
<1> USE Pids DEF IInv, TypeOK, JobInv, Forked, Resume, ToReap
<1>1. TypeOK'
  OBVIOUS
<1>2. JobInv'
  BY DEF NoneDying, StopsAreKnown, EndsAreKnown, TakenAreStill, Waiting
<1>3. WaitInv'
  BY DEF WaitInv, Waiting
<1>4. RunningAreListed'
  BY DEF RunningAreListed
<1>5. WaitsForTheGoing' /\ FreedIfEnded'
  BY DEF WaitsForTheGoing, FreedIfEnded, WaitInv, Waiting
<1> QED
  BY <1>1, <1>2, <1>3, <1>4, <1>5
-----------------------------------------------------------------------------
(* The loop                                                                *)

\* A reaped job is dropped.
LEMMA ReapGoneStep ==
    ASSUME IInv, NEW j \in Jobs, ReapGone(j)
    PROVE  IInv'
<1> USE Pids DEF IInv, TypeOK, JobInv, Forked, ReapGone, AtJob, NextJob
<1>1. TypeOK'
  OBVIOUS
<1>2. JobInv'
  BY DEF NoneDying, StopsAreKnown, EndsAreKnown, TakenAreStill
<1>3. WaitInv'
  BY DEF WaitInv, Waiting
<1>4. RunningAreListed'
  BY DEF RunningAreListed
<1>5. WaitsForTheGoing' /\ FreedIfEnded'
  BY DEF WaitsForTheGoing, FreedIfEnded, WaitInv, Waiting
<1> QED
  BY <1>1, <1>2, <1>3, <1>4, <1>5

\* A job that is told of in its turn is dropped, another one is taken.
LEMMA ReapChildStep ==
    ASSUME IInv, NEW j \in Jobs, NEW k \in Jobs, ReapChild(j, k)
    PROVE  IInv'
<1> USE Pids DEF IInv, TypeOK, JobInv, Forked, ReapChild, AtJob, NextJob, Waitable, Report, Drop
<1>1. TypeOK'
  OBVIOUS
<1>2. JobInv'
  BY ZenonT(40) DEF NoneDying, StopsAreKnown, EndsAreKnown, TakenAreStill
<1>3. WaitInv'
  BY DEF WaitInv, Waiting
<1>4. RunningAreListed'
  BY DEF RunningAreListed
<1>5. WaitsForTheGoing' /\ FreedIfEnded'
  BY DEF WaitsForTheGoing, FreedIfEnded, WaitInv, Waiting
<1> QED
  BY <1>1, <1>2, <1>3, <1>4, <1>5

\* Nothing to tell: the loop goes on.
LEMMA ReapNothingStep ==
    ASSUME IInv, NEW j \in Jobs, ReapNothing(j)
    PROVE  IInv'
<1> USE Pids DEF IInv, TypeOK, JobInv, Forked, ReapNothing, AtJob, NextJob
<1>1. TypeOK'
  OBVIOUS
<1>2. JobInv'
  BY DEF NoneDying, StopsAreKnown, EndsAreKnown, TakenAreStill
<1>3. WaitInv'
  BY DEF WaitInv, Waiting
<1>4. RunningAreListed'
  BY DEF RunningAreListed
<1>5. WaitsForTheGoing' /\ FreedIfEnded'
  BY DEF WaitsForTheGoing, FreedIfEnded, WaitInv, Waiting
<1> QED
  BY <1>1, <1>2, <1>3, <1>4, <1>5

\* The loop is over: the prompt, or exit, which kills every listed job.
LEMMA LoopEndsStep ==
    ASSUME IInv, ReapDone \/ Leave
    PROVE  IInv'
<1> USE Pids DEF IInv, TypeOK, JobInv, Forked, ReapDone, Leave, KillAll
<1>1. TypeOK'
  OBVIOUS
<1>2. JobInv'
  BY DEF NoneDying, StopsAreKnown, EndsAreKnown, TakenAreStill
<1>3. WaitInv'
  BY DEF WaitInv, Waiting
<1>4. RunningAreListed'
  BY DEF RunningAreListed
<1>5. WaitsForTheGoing' /\ FreedIfEnded'
  BY DEF WaitsForTheGoing, FreedIfEnded, WaitInv, Waiting
<1> QED
  BY <1>1, <1>2, <1>3, <1>4, <1>5
-----------------------------------------------------------------------------
(* Every step, and the theorems                                            *)

\* A step that changes nothing.
LEMMA StutterStep ==
    ASSUME IInv, UNCHANGED vars
    PROVE  IInv'
BY DEF vars, IInv, TypeOK, JobInv, NoneDying, StopsAreKnown, EndsAreKnown,
       TakenAreStill, WaitInv, RunningAreListed, WaitsForTheGoing,
       FreedIfEnded, Forked, Waiting

\* Every step preserves the invariant.
LEMMA NextInv == IInv /\ [Next]_vars => IInv'
<1> SUFFICES ASSUME IInv, [Next]_vars
             PROVE  IInv'
  OBVIOUS
<1>1. CASE Command
  BY <1>1, RunForegroundStep, RunBackgroundStep, FgStep, KillJobStep,
     KillPidStep, QuietStep DEF Command
<1>2. CASE Wait
  BY <1>2, HandlerStep, HandlerReportsStep, HandlerFailsStep, ResumeStep
  DEF Wait
<1>3. CASE Reap
  BY <1>3, ReapGoneStep, ReapChildStep, ReapNothingStep, LoopEndsStep DEF Reap
<1>4. CASE \E j \in Jobs : Stop(j) \/ End(j)
  BY <1>4, StopStep, EndStep
<1>5. CASE UNCHANGED vars
  BY <1>5, StutterStep
<1> QED
  BY <1>1, <1>2, <1>3, <1>4, <1>5 DEF Next

\* The strengthened invariant holds in every state.
LEMMA Invariance == Spec => []IInv
BY InitInv, NextInv, PTL DEF Spec

\* The types hold for any number of commands; waitpid() has news only of
\* stopped children, and every job in the list was forked (main.c:505).
THEOREM TypeCorrect == Spec => []TypeOK
<1>1. IInv => TypeOK
  BY DEF IInv
<1> QED
  BY <1>1, Invariance, PTL

\* However the handler, kill and the loop take jobs out of the list, a process
\* that runs is in it, until exit (main.c:69-76, 544-568).
THEOREM NoRunningJobIsLost == Spec => []RunningAreListed
<1>1. IInv => RunningAreListed
  BY DEF IInv
<1> QED
  BY <1>1, Invariance, PTL

\* Only the loop's waitpid(-1) can lose what a wait is for: if it has not taken
\* the news of the job, the job still runs or its end or stop is still to be told
\* (main.c:344, 510, 553).
THEOREM WaitsAreForTheGoing == Spec => []WaitsForTheGoing
<1>1. IInv => WaitsForTheGoing
  BY DEF IInv
<1> QED
  BY <1>1, Invariance, PTL

\* After a wait the job is in the list exactly if it stopped, whatever the other
\* jobs did meanwhile: the use of the job behind the test of status in run is
\* safe, the one without it in fg is not when the job ended (main.c:349, 517).
THEOREM FreedExactlyIfEnded == Spec => []FreedIfEnded
<1>1. IInv => FreedIfEnded
  BY DEF IInv
<1> QED
  BY <1>1, Invariance, PTL
=============================================================================
