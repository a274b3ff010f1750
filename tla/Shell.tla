------------------------------- MODULE Shell -------------------------------
(***************************************************************************)
(* hw4/src/main.c, main(): the job list, the waits for a foreground job,   *)
(* the SIGCHLD handler, fg, kill and exit, and the loop that reaps after   *)
(* every command.  What a job does inside (pipes, execv) is the module     *)
(* Pipeline; here a job is its process: it stops and ends when it likes.   *)
(*                                                                         *)
(* SIGCHLD is blocked but in sigsuspend(), is one bit however many         *)
(* children changed, and its handler blocks in waitpid(childpid).  fork()  *)
(* is taken to succeed and process ids are not used again.                 *)
(***************************************************************************)
EXTENDS Integers

CONSTANT MaxJobs  \* bound on the commands that are forked

ASSUME JobsAssumption == MaxJobs \in Nat \ {0}

Jobs == 1 .. MaxJobs  \* process ids, in the order of the forks
NoPid == -1           \* what waitpid() returns on ECHILD

VARIABLES
    pc,        \* "prompt", "run" or "fg" (waiting), "reap", "exited", "crashed"
    exiting,   \* exited
    list,      \* joblist: the jobs in it, which stand in the order of the forks
    stopped,   \* job -> job->stopped
    childpid, pid, status,   \* the globals the handler works with
    pending,   \* SIGCHLD is pending
    inHandler, \* sigchld_handler_shell() is in its waitpid()
    rest,      \* the jobs the reaping loop has still to visit
    proc,      \* process id -> "none", "running", "stopped", "dying" (killed),
               \* "zombie" or "reaped"
    news,      \* stopped children waitpid(WUNTRACED) has not reported yet
    taken      \* history: jobs whose news the loop took in another job's turn

kernel == <<proc, news>>
vars == <<pc, exiting, list, stopped, childpid, pid, status, pending,
          inHandler, rest, proc, news, taken>>

Waiting == pc \in {"run", "fg"}
Forked == {j \in Jobs : proc[j] # "none"}

\* The children waitpid() with WUNTRACED has something to say about.
Waitable == {j \in Jobs : proc[j] = "zombie"} \cup news

Init == /\ pc = "prompt"
        /\ exiting = FALSE
        /\ list = {}
        /\ stopped = [j \in Jobs |-> FALSE]
        /\ childpid = 0
        /\ pid = 0
        /\ status = "exited"
        /\ pending = FALSE
        /\ inHandler = FALSE
        /\ rest = {}
        /\ proc = [j \in Jobs |-> "none"]
        /\ news = {}
        /\ taken = {}

-----------------------------------------------------------------------------
(* The processes of the jobs.                                              *)

\* ^Z, or terminal input in the background.
Stop(j) == /\ proc[j] = "running"
           /\ proc' = [proc EXCEPT ![j] = "stopped"]
           /\ news' = news \cup {j}
           /\ pending' = TRUE
           /\ UNCHANGED <<pc, exiting, list, stopped, childpid, pid, status,
                          inHandler, rest, taken>>

\* It ends, by itself or because SIGKILL has reached it.
End(j) == /\ proc[j] \in {"running", "dying"}
          /\ proc' = [proc EXCEPT ![j] = "zombie"]
          /\ pending' = TRUE
          /\ UNCHANGED <<pc, exiting, list, stopped, childpid, pid, status,
                         inHandler, rest, news, taken>>

\* SIGKILL for the processes of ps that are still going.
KillAll(ps) ==
    /\ proc' = [j \in Jobs |->
                  IF j \in ps /\ proc[j] \in {"running", "stopped"}
                  THEN "dying" ELSE proc[j]]
    /\ news' = news \ ps

\* waitpid() reports child j: a zombie is gone, a stop is told once.
Report(j) ==
    /\ proc' = IF proc[j] = "zombie" THEN [proc EXCEPT ![j] = "reaped"]
                                     ELSE proc
    /\ news' = news \ {j}
    /\ status' = IF proc[j] = "zombie" THEN "exited" ELSE "stopped"

-----------------------------------------------------------------------------
(* The commands.                                                           *)

\* Every command but an empty line and a misplaced | ends in the loop.
ToReap == /\ pc' = "reap"
          /\ rest' = list'

\* A command in the foreground: the shell waits for it.
RunForeground(j) ==
    /\ pc = "prompt"
    /\ proc[j] = "none" /\ \A k \in Jobs : k < j => proc[k] # "none"
    /\ list' = list \cup {j}
    /\ proc' = [proc EXCEPT ![j] = "running"]
    /\ childpid' = j
    /\ pid' = 0
    /\ pc' = "run"
    /\ UNCHANGED <<exiting, stopped, status, pending, inHandler, rest, news,
                   taken>>

\* Faulty variant: fork() fails, and the job stays in the list without a pid.
RunBackgroundNoFork(j) ==
    /\ pc = "prompt"
    /\ proc[j] = "none" /\ \A k \in Jobs : k < j => proc[k] # "none"
    /\ list' = list \cup {j}
    /\ childpid' = NoPid
    /\ pid' = 0
    /\ ToReap
    /\ UNCHANGED <<exiting, stopped, status, pending, inHandler, proc, news,
                   taken>>

\* A command with &.
RunBackground(j) ==
    /\ pc = "prompt"
    /\ proc[j] = "none" /\ \A k \in Jobs : k < j => proc[k] # "none"
    /\ list' = list \cup {j}
    /\ proc' = [proc EXCEPT ![j] = "running"]
    /\ childpid' = j
    /\ pid' = 0
    /\ ToReap
    /\ UNCHANGED <<exiting, stopped, status, pending, inHandler, news, taken>>

\* killpg(SIGCONT): a stopped group goes on, and that too raises SIGCHLD.
Continue(j) ==
    IF proc[j] = "stopped"
    THEN /\ proc' = [proc EXCEPT ![j] = "running"]
         /\ news' = news \ {j}
         /\ pending' = TRUE
         /\ taken' = taken \ {j}
    ELSE UNCHANGED <<proc, news, pending, taken>>

\* fg %n: SIGCONT only to a job the handler has seen stop.
Fg(j) ==
    /\ pc = "prompt"
    /\ j \in list
    /\ pid' = 0
    /\ childpid' = j
    /\ IF stopped[j] THEN Continue(j)
                     ELSE UNCHANGED <<proc, news, pending, taken>>
    /\ pc' = "fg"
    /\ UNCHANGED <<exiting, list, stopped, status, inHandler, rest>>

\* kill of a listed job, by %n or by pid: a job that is reaped makes an error.
KillJob(j) ==
    /\ pc = "prompt"
    /\ j \in list
    /\ IF proc[j] = "reaped"
       THEN UNCHANGED <<list, proc, news, taken>>
       ELSE /\ KillAll({j})
            /\ list' = list \ {j}
            /\ taken' = taken \ {j}
    /\ ToReap
    /\ UNCHANGED <<exiting, stopped, childpid, pid, status, pending, inHandler>>

\* kill of a process that is no job any more.
KillPid(j) ==
    /\ pc = "prompt"
    /\ j \in Forked \ list
    /\ KillAll({j})
    /\ UNCHANGED list
    /\ ToReap
    /\ UNCHANGED <<exiting, stopped, childpid, pid, status, pending, inHandler,
                   taken>>

\* kill 0, kill %0 and kill % find no job, and kill(0) is for the process group
\* of the caller: the shell is gone, the jobs have groups of their own.
KillGroup == /\ pc = "prompt"
             /\ pc' = "crashed"
             /\ UNCHANGED <<exiting, list, stopped, childpid, pid, status,
                            pending, inHandler, rest, proc, news, taken>>

\* jobs, cd, color, fg without a job: nothing but the loop.
Builtin == /\ pc = "prompt"
           /\ UNCHANGED list
           /\ ToReap
           /\ UNCHANGED <<exiting, stopped, childpid, pid, status, pending,
                          inHandler, proc, news, taken>>

Exit == /\ pc = "prompt"
        /\ exiting' = TRUE
        /\ UNCHANGED list
        /\ ToReap
        /\ UNCHANGED <<stopped, childpid, pid, status, pending, inHandler,
                       proc, news, taken>>

\* ^D: trimwhitespace() follows the NULL before it is tested.
EndOfFile == /\ pc = "prompt"
             /\ pc' = "crashed"
             /\ UNCHANGED <<exiting, list, stopped, childpid, pid, status,
                            pending, inHandler, rest, proc, news, taken>>

-----------------------------------------------------------------------------
(* while(childpid != pid) sigsuspend(&prev), and the handler.              *)

\* sigsuspend() lets a pending SIGCHLD in.
Deliverable == Waiting /\ childpid # pid

Handler == /\ Deliverable
           /\ pending
           /\ ~inHandler
           /\ inHandler' = TRUE
           /\ pending' = FALSE
           /\ UNCHANGED <<pc, exiting, list, stopped, childpid, pid, status,
                          rest, proc, news, taken>>

\* Faulty variant: the handler takes the news of any child.
AnyChild == Forked

\* The children waitpid() in the handler waits for.
Awaited == {childpid}

\* Faulty variants: a job that stops is freed as well, or is not noted.
NoteJobFreed(j) == list' = list \ {j} /\ UNCHANGED stopped
NoteJobEnded(j) == /\ list' = IF proc[j] = "zombie" THEN list \ {j} ELSE list
                   /\ UNCHANGED stopped

\* What the handler does to the job of the child it was told of.
NoteJob(j) ==
    IF proc[j] = "zombie"
    THEN list' = list \ {j} /\ UNCHANGED stopped
    ELSE /\ stopped' = [stopped EXCEPT ![j] = (j \in list) \/ @]
         /\ UNCHANGED list

HandlerReports(j) ==
    /\ inHandler
    /\ j \in Awaited \cap Waitable
    /\ Report(j)
    /\ pid' = j
    /\ NoteJob(j)
    /\ inHandler' = FALSE
    /\ UNCHANGED <<pc, exiting, childpid, pending, rest, taken>>

\* The child is reaped already: ECHILD, and a status left from before.
HandlerFails ==
    /\ inHandler
    /\ proc[childpid] = "reaped"
    /\ pid' = NoPid
    /\ inHandler' = FALSE
    /\ UNCHANGED <<pc, exiting, list, stopped, childpid, status, pending, rest,
                   proc, news, taken>>

\* The wait is over; the terminal comes back to the shell.
Resume == /\ Waiting
          /\ ~inHandler
          /\ childpid = pid
          /\ UNCHANGED list
          /\ ToReap
          /\ UNCHANGED <<exiting, stopped, childpid, pid, status, pending,
                         inHandler, proc, news, taken>>

-----------------------------------------------------------------------------
(* The loop after each command.  It reads job->next of a job it has freed; *)
(* nothing is allocated in between, so it finds what was there.            *)

\* The job the loop is at, and then its next one.
AtJob(j) == pc = "reap" /\ j \in rest /\ \A i \in rest : j <= i
NextJob(j) == rest' = rest \ {j}

\* kill(job->pid, 0) fails: the job has been reaped.
ReapGone(j) ==
    /\ AtJob(j)
    /\ proc[j] = "reaped"
    /\ list' = list \ {j}
    /\ taken' = taken \ {j}
    /\ NextJob(j)
    /\ UNCHANGED <<pc, exiting, stopped, childpid, pid, status, pending,
                   inHandler, proc, news>>

\* Faulty variant: the job at hand is dropped whichever child was told of.
DropHead(j, k) == list' = list \ {j} /\ taken' = taken \ {j}

\* waitpid(-1) tells of child k while the loop is at job j: only j is dropped,
\* and it is dropped even if it has only stopped.
Drop(j, k) ==
    IF j = k THEN list' = list \ {j} /\ taken' = taken \ {j}
             ELSE UNCHANGED list /\ taken' = taken \cup ({k} \cap list)

ReapChild(j, k) ==
    /\ AtJob(j)
    /\ proc[j] # "reaped"
    /\ k \in Waitable
    /\ Report(k)
    /\ Drop(j, k)
    /\ NextJob(j)
    /\ UNCHANGED <<pc, exiting, stopped, childpid, pid, pending, inHandler>>

ReapNothing(j) ==
    /\ AtJob(j)
    /\ proc[j] # "reaped"
    /\ Waitable = {}
    /\ NextJob(j)
    /\ UNCHANGED <<pc, exiting, list, stopped, childpid, pid, status, pending,
                   inHandler, proc, news, taken>>

ReapDone == /\ pc = "reap" /\ rest = {}
            /\ ~exiting
            /\ pc' = "prompt"
            /\ UNCHANGED <<exiting, list, stopped, childpid, pid, status,
                           pending, inHandler, rest, proc, news, taken>>

\* exit: killpg() for every job that is left.
Leave == /\ pc = "reap" /\ rest = {}
         /\ exiting
         /\ KillAll(list)
         /\ pc' = "exited"
         /\ UNCHANGED <<exiting, list, stopped, childpid, pid, status, pending,
                        inHandler, rest, taken>>

-----------------------------------------------------------------------------
Command == \/ \E j \in Jobs : \/ RunForeground(j)
                              \/ RunBackground(j)
                              \/ Fg(j)
                              \/ KillJob(j)
                              \/ KillPid(j)
           \/ KillGroup
           \/ Builtin
           \/ Exit
           \/ EndOfFile

Wait == \/ Handler
        \/ \E j \in Jobs : HandlerReports(j)
        \/ HandlerFails
        \/ Resume

Reap == \/ \E j \in Jobs : \/ ReapGone(j)
                          \/ \E k \in Jobs : ReapChild(j, k)
                          \/ ReapNothing(j)
        \/ ReapDone
        \/ Leave

Next == \/ Command
        \/ Wait
        \/ Reap
        \/ \E j \in Jobs : Stop(j) \/ End(j)

Spec == Init /\ [][Next]_vars

\* The shell runs on, and a killed process dies; users and jobs need not act.
FairSpec == /\ Spec
            /\ WF_vars(Wait)
            /\ WF_vars(Reap)
            /\ \A j \in Jobs : WF_vars(proc[j] = "dying" /\ End(j))

-----------------------------------------------------------------------------
(* Properties.                                                             *)

\* The types; waitpid() has news only of children that are stopped, and jobs in
\* the list have been forked.
TypeOK ==
    /\ pc \in {"prompt", "run", "fg", "reap", "exited", "crashed"}
    /\ list \subseteq Forked /\ rest \subseteq Forked
    /\ stopped \in [Jobs -> BOOLEAN]
    /\ childpid \in Jobs \cup {0}
    /\ pid \in Jobs \cup {0, NoPid}
    /\ status \in {"exited", "stopped"}
    /\ {exiting, pending, inHandler} \subseteq BOOLEAN
    /\ proc \in [Jobs -> {"none", "running", "stopped", "dying", "zombie",
                          "reaped"}]
    /\ news \subseteq {j \in Jobs : proc[j] = "stopped"}
    /\ taken \subseteq list

\* A process that runs can be brought to the foreground or killed: it is in the
\* job list (main.c:69-76, 544-561).  Handler, kill and loop all take jobs out
\* of the list, and the loop waits for any child; what it drops while alive is
\* stopped.  This holds up to exit, after which nothing runs (main.c:568).
RunningAreListed ==
    \A j \in Jobs : proc[j] = "running" => j \in list /\ pc # "exited"

\* What a wait is for is lost only if the loop took the news of that job while it
\* was at another one (main.c:553): its process is reaped, or it stopped and the
\* handler, which sets job->stopped for fg (main.c:78, 341), never heard.
\* Otherwise the job runs, or waitpid() has still to tell of it.
WaitsForTheGoing ==
    Waiting /\ childpid # pid /\ childpid \notin taken =>
        \/ proc[childpid] \in {"running", "zombie"}
        \/ childpid \in news

\* When a wait is over, the job it was for is in the list if it stopped and has
\* been freed if it ended (main.c:69-79): the line after the wait in run looks
\* at status before it writes to the job (main.c:517), the one in fg does not
\* (main.c:349).
FreedIfEnded ==
    Waiting /\ childpid = pid => (childpid \in list <=> status = "stopped")

\* No wake-up is lost (main.c:344, 510): a command run in the foreground gives
\* the prompt back once it stops or ends.  The same is true of fg if the
\* signal of that event is still to be delivered; it may have been delivered
\* together with that of another child (main.c:66).
WaitEnds ==
    \A j \in Jobs :
        (/\ Waiting /\ childpid = j /\ j \in Waitable
         /\ pc = "run" \/ pending \/ inHandler)
            ~> ~Waiting
=============================================================================
