------------------------------ MODULE Pipeline ------------------------------
(***************************************************************************)
(* hw4/src/main.c inside a job: the process J the shell has forked runs    *)
(* findexecutable(), prepexecute() and execute() once for each stage of    *)
(* the command line.  For stage k it forks a process P[k], which sets up   *)
(* standard input and output and forks the program X[k].                   *)
(*                                                                         *)
(* A pipe holds Cap units; who has which end open follows from what each   *)
(* fork() inherits and each close() closes.  A program either reads its    *)
(* input to the end and passes it on, or may end at any time.              *)
(***************************************************************************)
EXTENDS Integers, Sequences, FiniteSets

CONSTANTS Lines,      \* the command lines: sequences of stages
          MaxStages,  \* bound on their length
          Units,      \* bound on what the first program writes
          Cap         \* what a pipe holds

\* A stage: what its name leads to, and its < and > redirections.
Stage == [cmd : {"filter", "quitter", "builtin", "missing", "badpath"},
          in  : {"none", "good", "bad"},
          out : {"none", "good", "bad"}]

ASSUME LinesAssumption == Lines \subseteq Seq(Stage) \ {<<>>}
ASSUME StagesAssumption == \A l \in Lines : Len(l) <= MaxStages
ASSUME BoundsAssumption == Units \in Nat \ {0} /\ Cap \in Nat \ {0}

VARIABLES
    line,      \* the command line
    k,         \* the stage J is at
    jpc,       \* where J is
    childpid, pid,  \* J's globals: a stage stands for the process P of it
    jsig,      \* SIGCHLD is pending in J
    jhandler,  \* J is in the waitpid() of sigchld_handler()
    moved,     \* the shell has moved J to a process group of its own
    group,     \* stage -> value of moved when P[k] was forked
    ppc,       \* stage -> where P[k] is
    told,      \* stage -> P[k] has heard of the end of X[k] (childpid = pid)
    xpc,       \* stage -> what X[k] is
    owes,      \* stage -> X[k] has a unit to write
    made,      \* stage -> units X[k] has read, or made if it is the first
    buf,       \* stage -> units in the pipe to the next stage
    fds,       \* process -> the ends of pipes it has open
    hasty      \* history: a SIGCHLD came in between the last fork and its wait

jvars == <<k, jpc, childpid, pid, jhandler, hasty>>
pvars == <<ppc, told>>
xvars == <<xpc, owes, made, buf>>
vars == <<line, jvars, jsig, moved, group, pvars, xvars, fds>>

Stages == 1 .. Len(line)
J == <<"J", 0>>
P(s) == <<"P", s>>
X(s) == <<"X", s>>
ReadEnd(s) == <<"R", s>>
WriteEnd(s) == <<"W", s>>

Init ==
    /\ line \in Lines
    /\ k = 1
    /\ jpc = "find"
    /\ childpid = 0
    /\ pid = 0
    /\ jsig = FALSE
    /\ jhandler = FALSE
    /\ moved = FALSE
    /\ group = [s \in Stages |-> FALSE]
    /\ ppc = [s \in Stages |-> "none"]
    /\ told = [s \in Stages |-> FALSE]
    /\ xpc = [s \in Stages |-> "none"]
    /\ owes = [s \in Stages |-> FALSE]
    /\ made = [s \in Stages |-> 0]
    /\ buf = [s \in Stages |-> 0]
    /\ fds = [q \in {J} \cup {P(s) : s \in Stages} \cup {X(s) : s \in Stages}
                |-> {}]
    /\ hasty = FALSE

\* setpgid() by the shell, at its own pace.
SetPgid == /\ ~moved
           /\ moved' = TRUE
           /\ UNCHANGED <<line, jvars, jsig, group, pvars, xvars, fds>>

-----------------------------------------------------------------------------
(* J.                                                                      *)

\* A handler in waitpid() holds J up.
Free == ~jhandler

\* findexecutable(): the program is not in PATH, or there is no such file.
JNotFound == /\ Free /\ jpc = "find"
             /\ line[k].cmd \in {"missing", "badpath"}
             /\ jpc' = "over"
             /\ fds' = [fds EXCEPT ![J] = {}]
             /\ UNCHANGED <<line, k, childpid, pid, jhandler, hasty, jsig,
                            moved, group, pvars, xvars>>

\* execute(): a pipe to the next stage if there is one.
JPipe == /\ Free /\ jpc = "find"
         /\ line[k].cmd \notin {"missing", "badpath"}
         /\ pid' = 0
         /\ jpc' = "fork"
         /\ fds' = IF k = Len(line) THEN fds
                   ELSE [fds EXCEPT ![J] = @ \cup {ReadEnd(k), WriteEnd(k)}]
         /\ UNCHANGED <<line, k, childpid, jhandler, hasty, jsig, moved, group,
                        pvars, xvars>>

JFork == /\ Free /\ jpc = "fork"
         /\ jpc' = "forked"
         /\ ppc' = [ppc EXCEPT ![k] = "run"]
         /\ group' = [group EXCEPT ![k] = moved]
         /\ fds' = [fds EXCEPT ![P(k)] = fds[J]]
         /\ UNCHANGED <<line, k, childpid, pid, jhandler, hasty, jsig, moved,
                        told, xvars>>

\* childpid = fork() is done.
JAssign == /\ Free /\ jpc = "forked"
           /\ childpid' = k
           /\ jpc' = "close"
           /\ UNCHANGED <<line, k, pid, jhandler, hasty, jsig, moved, group,
                          pvars, xvars, fds>>

\* Faulty variants: no end is closed, the other end is closed, the next stage is
\* looked for behind the last.
JCloseNone == /\ Free /\ jpc = "close"
              /\ IF k = Len(line) THEN jpc' = "wait" /\ UNCHANGED k
                                  ELSE jpc' = "find" /\ k' = k + 1
              /\ UNCHANGED <<line, childpid, pid, jhandler, hasty, jsig, moved,
                             group, pvars, xvars, fds>>
JCloseRead == /\ Free /\ jpc = "close"
              /\ fds' = [fds EXCEPT ![J] = @ \ {ReadEnd(k)}]
              /\ IF k = Len(line) THEN jpc' = "wait" /\ UNCHANGED k
                                  ELSE jpc' = "find" /\ k' = k + 1
              /\ UNCHANGED <<line, childpid, pid, jhandler, hasty, jsig, moved,
                             group, pvars, xvars>>
JCloseNext == /\ Free /\ jpc = "close"
              /\ fds' = [fds EXCEPT ![J] = @ \ {WriteEnd(k)}]
              /\ jpc' = "find"
              /\ k' = k + 1
              /\ UNCHANGED <<line, childpid, pid, jhandler, hasty, jsig, moved,
                             group, pvars, xvars>>

\* close(pipefd2[1]); then the next stage, or the wait.  The read end stays.
JClose == /\ Free /\ jpc = "close"
          /\ fds' = [fds EXCEPT ![J] = @ \ {WriteEnd(k)}]
          /\ IF k = Len(line) THEN jpc' = "wait" /\ UNCHANGED k
                              ELSE jpc' = "find" /\ k' = k + 1
          /\ UNCHANGED <<line, childpid, pid, jhandler, hasty, jsig, moved,
                         group, pvars, xvars>>

\* SIGCHLD is open in J until the wait, and there in sigsuspend().
JHandler == /\ Free /\ jsig
            /\ jpc # "over"
            /\ jpc = "wait" => childpid # pid
            /\ jsig' = FALSE
            /\ jhandler' = TRUE
            /\ hasty' = (\/ hasty
                         \/ k = Len(line) /\ jpc \in {"forked", "close"})
            /\ UNCHANGED <<line, k, jpc, childpid, pid, moved, group, pvars,
                           xvars, fds>>

\* waitpid(0) looks for children in the group of J, waitpid(p) for p.
Awaited == {s \in Stages : /\ ppc[s] \notin {"none", "reaped"}
                           /\ IF childpid = 0 THEN group[s] = moved
                                              ELSE s = childpid}

JReaps(s) == /\ jhandler
             /\ s \in Awaited /\ ppc[s] = "zombie"
             /\ pid' = s
             /\ ppc' = [ppc EXCEPT ![s] = "reaped"]
             /\ jhandler' = FALSE
             /\ UNCHANGED <<line, k, jpc, childpid, hasty, jsig, moved, group,
                            told, xvars, fds>>

JHandlerFails == /\ jhandler
                 /\ Awaited = {}
                 /\ pid' = -1
                 /\ jhandler' = FALSE
                 /\ UNCHANGED <<line, k, jpc, childpid, hasty, jsig, moved,
                                group, pvars, xvars, fds>>

\* Faulty variant: any SIGCHLD ends the wait.
JDoneAtOnce == /\ Free /\ jpc = "wait"
               /\ jpc' = "over"
               /\ fds' = [fds EXCEPT ![J] = {}]
               /\ UNCHANGED <<line, k, childpid, pid, jhandler, hasty, jsig, moved,
                              group, pvars, xvars>>

\* J has waited for the last stage and for no other.
JDone == /\ Free /\ jpc = "wait"
         /\ childpid = pid
         /\ jpc' = "over"
         /\ fds' = [fds EXCEPT ![J] = {}]
         /\ UNCHANGED <<line, k, childpid, pid, jhandler, hasty, jsig, moved,
                        group, pvars, xvars>>

-----------------------------------------------------------------------------
(* P[s]: redirection, then the program.                                    *)

InputFd(s) == s > 1               \* pipefd1[0] is a pipe
OutputFd(s) == s < Len(line)      \* pipefd2[1] is a pipe

\* < with a pipe before it, > with a pipe after it, or a bad file name.
BadRedirection(s) ==
    \/ line[s].in # "none" /\ (InputFd(s) \/ line[s].in = "bad")
    \/ line[s].out # "none" /\ (OutputFd(s) \/ line[s].out = "bad")

\* The process is gone: its ends are closed and its parent is told.
PExit(s) == /\ ppc' = [ppc EXCEPT ![s] = "zombie"]
            /\ fds' = [fds EXCEPT ![P(s)] = {}]
            /\ jsig' = TRUE

PRefuses(s) == /\ ppc[s] = "run"
               /\ BadRedirection(s)
               /\ PExit(s)
               /\ UNCHANGED <<line, jvars, moved, group, told, xvars>>

\* pwd and help are run by P itself; what they print fits into the pipe.
PBuiltin(s) == /\ ppc[s] = "run"
               /\ ~BadRedirection(s)
               /\ line[s].cmd = "builtin"
               /\ buf' = [buf EXCEPT ![s] = IF OutputFd(s) THEN 1 ELSE 0]
               /\ PExit(s)
               /\ UNCHANGED <<line, jvars, moved, group, told, xpc, owes, made>>

PFork(s) == /\ ppc[s] = "run"
            /\ ~BadRedirection(s)
            /\ line[s].cmd # "builtin"
            /\ ppc' = [ppc EXCEPT ![s] = "wait"]
            /\ xpc' = [xpc EXCEPT ![s] = "run"]
            /\ fds' = [fds EXCEPT ![X(s)] = fds[P(s)]]
            /\ UNCHANGED <<line, jvars, jsig, moved, group, told, owes, made,
                           buf>>

\* The handler in P.  Before fork()'s result is kept childpid is 0, and
\* waitpid(0) finds X, the only child there is, as waitpid(childpid) does after.
PHandler(s) == /\ ppc[s] = "wait"
               /\ xpc[s] = "zombie"
               /\ xpc' = [xpc EXCEPT ![s] = "reaped"]
               /\ told' = [told EXCEPT ![s] = TRUE]
               /\ UNCHANGED <<line, jvars, jsig, moved, group, ppc, owes, made,
                              buf, fds>>

PDone(s) == /\ ppc[s] = "wait"
            /\ told[s]
            /\ PExit(s)
            /\ UNCHANGED <<line, jvars, moved, group, told, xvars>>

-----------------------------------------------------------------------------
(* X[s], the program.  It never gets SIGPIPE: it has the read end open.    *)

Takes(s, b) == /\ xpc[s] = "run"
               /\ ~owes[s]
               /\ owes' = [owes EXCEPT ![s] = TRUE]
               /\ made' = [made EXCEPT ![s] = @ + 1]
               /\ buf' = b
               /\ UNCHANGED <<line, jvars, jsig, moved, group, pvars, xpc, fds>>

XMakes(s) == ~InputFd(s) /\ made[s] < Units /\ Takes(s, buf)

XReads(s) == /\ InputFd(s)
             /\ buf[s - 1] > 0
             /\ Takes(s, [buf EXCEPT ![s - 1] = @ - 1])

XWrites(s) == /\ xpc[s] = "run"
              /\ owes[s]
              /\ OutputFd(s) => buf[s] < Cap
              /\ owes' = [owes EXCEPT ![s] = FALSE]
              /\ buf' = IF OutputFd(s) THEN [buf EXCEPT ![s] = @ + 1] ELSE buf
              /\ UNCHANGED <<line, jvars, jsig, moved, group, pvars, xpc, made,
                             fds>>

\* Nothing is left to read and nobody can write any more.
EndOfInput(s) ==
    IF InputFd(s)
    THEN buf[s - 1] = 0 /\ \A q \in DOMAIN fds : WriteEnd(s - 1) \notin fds[q]
    ELSE made[s] = Units

XEnds(s) == /\ xpc[s] = "run"
            /\ line[s].cmd = "quitter" \/ (~owes[s] /\ EndOfInput(s))
            /\ xpc' = [xpc EXCEPT ![s] = "zombie"]
            /\ fds' = [fds EXCEPT ![X(s)] = {}]
            /\ UNCHANGED <<line, jvars, jsig, moved, group, pvars, owes, made,
                           buf>>

-----------------------------------------------------------------------------
JStep == \/ JNotFound
         \/ JPipe
         \/ JFork
         \/ JAssign
         \/ JClose
         \/ JHandler
         \/ \E s \in Stages : JReaps(s)
         \/ JHandlerFails
         \/ JDone

PStep(s) == \/ PRefuses(s)
            \/ PBuiltin(s)
            \/ PFork(s)
            \/ PHandler(s)
            \/ PDone(s)

XStep(s) == \/ XMakes(s)
            \/ XReads(s)
            \/ XWrites(s)
            \/ XEnds(s)

Next == SetPgid \/ JStep \/ \E s \in Stages : PStep(s) \/ XStep(s)

Spec == Init /\ [][Next]_vars

\* Every process runs on, and every quitter ends in the end.
FairSpec == /\ Spec
            /\ WF_vars(SetPgid)
            /\ WF_vars(JStep)
            /\ \A s \in 1 .. MaxStages :
                 /\ WF_vars(s \in Stages /\ PStep(s))
                 /\ WF_vars(s \in Stages /\ XStep(s))
                 /\ WF_vars(s \in Stages /\ XEnds(s))

-----------------------------------------------------------------------------
(* Properties.                                                             *)

\* The types; in particular J stops at the last stage, and no pipe holds more
\* than its capacity or hands on more than the first program made.
TypeOK ==
    /\ line \in Lines
    /\ k \in Stages
    /\ jpc \in {"find", "fork", "forked", "close", "wait", "over"}
    /\ childpid \in Stages \cup {0} /\ pid \in Stages \cup {0, -1}
    /\ {jsig, jhandler, moved, hasty} \subseteq BOOLEAN
    /\ {group, told, owes} \subseteq [Stages -> BOOLEAN]
    /\ ppc \in [Stages -> {"none", "run", "wait", "zombie", "reaped"}]
    /\ xpc \in [Stages -> {"none", "run", "zombie", "reaped"}]
    /\ made \in [Stages -> 0 .. Units] /\ buf \in [Stages -> 0 .. Cap]
    /\ \A q \in DOMAIN fds : fds[q] \subseteq {"R", "W"} \X Stages

\* A write end is open in the processes of its own stage only, as long as they run, and
\* in J until J goes on to the next stage: so the end of a stage is the end of the
\* next one's input (main.c:729, 811, 847, 860).
WriteEndsAreHeld == \A s \in Stages, q \in DOMAIN fds : WriteEnd(s) \in fds[q] =>
    \/ q = J /\ s = k /\ jpc \in {"fork", "forked", "close"}
    \/ q = P(s) /\ ppc[s] \in {"run", "wait"}
    \/ q = X(s) /\ xpc[s] = "run"

\* Who can write to a pipe can read from it as well: no write fails for want of a
\* reader, which is why a stage whose reader is gone is never told (main.c:784-787).
WritersAreReaders == \A s \in Stages, q \in DOMAIN fds :
    WriteEnd(s) \in fds[q] => ReadEnd(s) \in fds[q]

\* A job that got as far as its last stage is not over before that one is, whatever
\* the handler heard of the stages before it, and in which order (main.c:871-881).
LastIsWaitedFor ==
    jpc = "over" => ppc[Len(line)] \in {"none", "reaped"}

\* The handler of J waits for a stage that is not the last (main.c:84): no
\* later stage is forked before that one ends.
HeldUp == jhandler /\ jpc # "wait"

\* A job ends: end of file runs down the pipeline because every write end is
\* closed in time (main.c:860), and J hears of the end of the last stage.  It
\* waits for ever in two ways only.  A SIGCHLD comes in between the last fork()
\* and sigprocmask() (main.c:729-872): the handler then waits for the stage
\* before, or loses what it has been told to the next SIGCHLD.  Or it holds J
\* up before all stages run.
JobEnds == <>[](jpc = "over" \/ hasty \/ HeldUp)

\* Every stage that is started ends, unless what it writes, or what a later
\* stage writes, is read by nobody: a stage behind it is over or was never
\* started.  It is then neither told, since the read end stays open in the
\* writer itself (main.c:784-787), nor waited for (main.c:873).
StagesEnd ==
    <>[](\A s \in Stages :
           \/ ppc[s] \in {"none", "zombie", "reaped"}
           \/ \E r \in Stages :
                r > s /\ ppc[r] \in {"none", "zombie", "reaped"})
=============================================================================
