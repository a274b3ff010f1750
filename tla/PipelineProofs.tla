--------------------------- MODULE PipelineProofs ---------------------------
(***************************************************************************)
(* A job, for command lines of any length and pipes of any size: who has a *)
(* pipe open, which stage J waits for, and that no more goes through a     *)
(* pipeline than its first stage made.                                     *)
(*                                                                         *)
(* The types need Flow: a stage takes no more than the one before it has   *)
(* made, so the bound on what the first one makes is a bound for all.      *)
(* LastIsWaitedFor needs Turns: whatever the handler was told, pid names a *)
(* stage that is gone.                                                     *)
(***************************************************************************)
EXTENDS Pipeline, TLAPS

Procs == {J} \cup {P(s) : s \in Stages} \cup {X(s) : s \in Stages}

\* Every process has a place in fds.
Places == DOMAIN fds = Procs

\* What a stage has written so far, or may have if P runs it itself.
Given(s) == IF line[s].cmd = "builtin"
            THEN IF ppc[s] \in {"none", "run", "wait"} THEN 0 ELSE 1
            ELSE IF owes[s] THEN made[s] - 1 ELSE made[s]
Flow == /\ \A s \in Stages : s > 1 => made[s] + buf[s - 1] <= Given(s - 1)
        /\ \A s \in Stages : line[s].cmd = "builtin" => xpc[s] = "none"

\* The stages behind k are not started; J knows the last one it started, and what it
\* was told of is gone.
Turns ==
    /\ \A s \in Stages : (s > k \/ (s = k /\ jpc \in {"find", "fork"})) => ppc[s] = "none"
    /\ jpc \in {"close", "wait"} => childpid = k
    /\ jpc = "wait" => k = Len(line)
    /\ pid \in Stages => ppc[pid] = "reaped"

IInv == /\ TypeOK
        /\ Places
        /\ Flow
        /\ Turns
        /\ WriteEndsAreHeld
        /\ WritersAreReaders
        /\ LastIsWaitedFor

\* A command line has a last stage.
LEMMA Lengths ==
    ASSUME TypeOK
    PROVE  Len(line) \in Nat /\ Len(line) >= 1 /\ Len(line) \in Stages /\ 1 \in Stages
<1>1. line \in Seq(Stage) /\ line # <<>>
  BY LinesAssumption DEF TypeOK
<1> QED
  BY <1>1 DEF Stages

\* Processes and the ends of pipes are told apart by their names.
LEMMA Names ==
    /\ \A s : P(s) # J /\ X(s) # J
    /\ \A s, r : P(s) # X(r) /\ (P(s) = P(r) => s = r) /\ (X(s) = X(r) => s = r)
    /\ \A s, r : ReadEnd(s) # WriteEnd(r) /\ (WriteEnd(s) = WriteEnd(r) => s = r)
                                          /\ (ReadEnd(s) = ReadEnd(r) => s = r)
BY DEF J, P, X, ReadEnd, WriteEnd

\* They stand for themselves for the whole job.
LEMMA Fixed ==
    ASSUME line' = line
    PROVE  Stages' = Stages /\ Procs' = Procs
BY DEF Stages, Procs
-----------------------------------------------------------------------------
(* Who has a pipe open                                                     *)

\* The two properties of the pipes' ends, and that they are what is open.
Ends == Places /\ WriteEndsAreHeld /\ WritersAreReaders

\* A step that opens and closes nothing keeps them as long as nobody who holds
\* something goes on.
LEMMA EndsStay ==
    ASSUME TypeOK, Ends, UNCHANGED <<line, fds, k>>,
           jpc \in {"fork", "forked", "close"} => jpc' \in {"fork", "forked", "close"},
           \A s \in Stages : /\ ppc[s] \in {"run", "wait"} => ppc'[s] \in {"run", "wait"}
                             /\ xpc[s] = "run" => xpc'[s] = "run"
    PROVE  Ends'
<1>1. Stages' = Stages /\ Procs' = Procs
  BY Fixed
<1> QED
  BY <1>1 DEF Ends, Places, WriteEndsAreHeld, WritersAreReaders

\* A process that is gone has nothing open.
LEMMA ExitEnds ==
    ASSUME TypeOK, Ends, NEW q \in Procs, UNCHANGED <<line>>,
           fds' = [fds EXCEPT ![q] = {}],
           q # J => UNCHANGED <<k, jpc>>,
           \A s \in Stages : /\ P(s) = q \/ ppc'[s] = ppc[s]
                             /\ X(s) = q \/ xpc'[s] = xpc[s]
    PROVE  Ends'
<1>1. Stages' = Stages /\ Procs' = Procs
  BY Fixed
<1>2. /\ DOMAIN fds' = Procs /\ fds'[q] = {}
      /\ \A p \in Procs : p # q => fds'[p] = fds[p]
  BY DEF Ends, Places
<1>3. WritersAreReaders'
  BY <1>1, <1>2 DEF Ends, Places, WritersAreReaders
<1>4. WriteEndsAreHeld'
  BY <1>1, <1>2 DEF Ends, Places, WriteEndsAreHeld
<1> QED
  BY <1>1, <1>2, <1>3, <1>4 DEF Ends, Places

\* J opens the two ends of a pipe when it has no other write end,
LEMMA PipeEnds ==
    ASSUME TypeOK, Ends, JPipe
    PROVE  Ends'
<1>1. /\ UNCHANGED <<line, k, ppc, xpc>> /\ jpc = "find" /\ jpc' = "fork"
      /\ fds' = IF k = Len(line) THEN fds
                ELSE [fds EXCEPT ![J] = fds[J] \cup {ReadEnd(k), WriteEnd(k)}]
  BY DEF JPipe, pvars, xvars
<1>2. Stages' = Stages /\ Procs' = Procs /\ J \in Procs
  BY <1>1, Fixed DEF Procs
<1>3. /\ DOMAIN fds' = Procs
      /\ fds'[J] \in {fds[J], fds[J] \cup {ReadEnd(k), WriteEnd(k)}}
      /\ \A p \in Procs : p # J => fds'[p] = fds[p]
  BY <1>1, <1>2 DEF Ends, Places
<1>4. \A s \in Stages : WriteEnd(s) \notin fds[J]
  BY <1>1, <1>2, Names DEF Ends, Places, WriteEndsAreHeld
<1>5. \A s \in Stages : WriteEnd(s) \in fds'[J] => s = k /\ ReadEnd(s) \in fds'[J]
  BY <1>3, <1>4, Names
<1>6. WritersAreReaders' /\ WriteEndsAreHeld'
  BY <1>1, <1>2, <1>3, <1>5 DEF Ends, Places, WritersAreReaders, WriteEndsAreHeld
<1> QED
  BY <1>2, <1>3, <1>6 DEF Ends, Places

\* hands them on to the stage it forks,
LEMMA ForkEnds ==
    ASSUME TypeOK, Ends, JFork
    PROVE  Ends'
<1>1. /\ UNCHANGED <<line, k, xpc>> /\ jpc = "fork" /\ jpc' = "forked"
      /\ ppc' = [ppc EXCEPT ![k] = "run"]
      /\ fds' = [fds EXCEPT ![P(k)] = fds[J]]
  BY DEF JFork, xvars
<1>2. /\ Stages' = Stages /\ Procs' = Procs /\ J \in Procs
      /\ k \in Stages /\ P(k) \in Procs
  BY <1>1, Fixed DEF Procs, TypeOK
<1>3. /\ DOMAIN fds' = Procs /\ fds'[P(k)] = fds[J]
      /\ \A p \in Procs : p # P(k) => fds'[p] = fds[p]
  BY <1>1, <1>2 DEF Ends, Places
<1>4. ppc'[k] = "run" /\ \A s \in Stages \ {k} : ppc'[s] = ppc[s]
  BY <1>1, <1>2 DEF TypeOK
<1>5. \A s \in Stages : WriteEnd(s) \in fds[J] => s = k /\ ReadEnd(s) \in fds[J]
  BY <1>2, Names DEF Ends, Places, WriteEndsAreHeld, WritersAreReaders
<1>6. WritersAreReaders'
  BY <1>1, <1>2, <1>3, <1>5 DEF Ends, Places, WritersAreReaders
<1>7. WriteEndsAreHeld'
  BY <1>1, <1>2, <1>3, <1>4, <1>5, Names DEF Ends, Places, WriteEndsAreHeld
<1> QED
  BY <1>2, <1>3, <1>6, <1>7 DEF Ends, Places

\* and closes the write end before it goes on to the next.
LEMMA CloseEnds ==
    ASSUME TypeOK, Ends, JClose
    PROVE  Ends'
<1>1. /\ UNCHANGED <<line, ppc, xpc>> /\ jpc = "close"
      /\ fds' = [fds EXCEPT ![J] = fds[J] \ {WriteEnd(k)}]
  BY DEF JClose, pvars, xvars
<1>2. Stages' = Stages /\ Procs' = Procs /\ J \in Procs
  BY <1>1, Fixed DEF Procs
<1>3. /\ DOMAIN fds' = Procs /\ fds'[J] = fds[J] \ {WriteEnd(k)}
      /\ \A p \in Procs : p # J => fds'[p] = fds[p]
  BY <1>1, <1>2 DEF Ends, Places
<1>4. \A s \in Stages : WriteEnd(s) \in fds[J] => s = k
  BY <1>2, Names DEF Ends, Places, WriteEndsAreHeld
<1>5. \A s \in Stages : WriteEnd(s) \notin fds'[J]
  BY <1>3, <1>4
<1>6. WritersAreReaders' /\ WriteEndsAreHeld'
  BY <1>1, <1>2, <1>3, <1>5, Names DEF Ends, Places, WritersAreReaders, WriteEndsAreHeld
<1> QED
  BY <1>2, <1>3, <1>6 DEF Ends, Places

\* The program of a stage has open what the stage has.
LEMMA ProgramEnds ==
    ASSUME TypeOK, Ends, NEW s \in Stages, PFork(s)
    PROVE  Ends'
<1>1. /\ UNCHANGED <<line, k, jpc>>
      /\ ppc' = [ppc EXCEPT ![s] = "wait"] /\ xpc' = [xpc EXCEPT ![s] = "run"]
      /\ fds' = [fds EXCEPT ![X(s)] = fds[P(s)]]
  BY DEF PFork, jvars
<1>2. Stages' = Stages /\ Procs' = Procs /\ X(s) \in Procs /\ P(s) \in Procs
  BY <1>1, Fixed DEF Procs
<1>3. /\ DOMAIN fds' = Procs /\ fds'[X(s)] = fds[P(s)]
      /\ \A p \in Procs : p # X(s) => fds'[p] = fds[p]
  BY <1>1, <1>2 DEF Ends, Places
<1>4. /\ ppc'[s] = "wait" /\ xpc'[s] = "run"
      /\ \A r \in Stages \ {s} : ppc'[r] = ppc[r] /\ xpc'[r] = xpc[r]
  BY <1>1 DEF TypeOK
<1>5. \A r \in Stages : WriteEnd(r) \in fds[P(s)] => r = s /\ ReadEnd(r) \in fds[P(s)]
  BY <1>2, Names DEF Ends, Places, WriteEndsAreHeld, WritersAreReaders
<1>6. WritersAreReaders'
  BY <1>1, <1>2, <1>3, <1>5 DEF Ends, Places, WritersAreReaders
<1>7. WriteEndsAreHeld'
  BY <1>1, <1>2, <1>3, <1>4, <1>5, Names DEF Ends, Places, WriteEndsAreHeld
<1> QED
  BY <1>2, <1>3, <1>6, <1>7 DEF Ends, Places
\* No step lets go of the ends of a pipe too late or hands on one without the other.
LEMMA EndsNext ==
    ASSUME IInv, Next
    PROVE  Ends'
<1> USE DEF IInv
<1>1. Ends
  BY DEF Ends
<1>2. CASE JNotFound \/ JDone
  <2>1. J \in Procs
    BY DEF Procs
  <2>2. UNCHANGED <<line, ppc, xpc>> /\ fds' = [fds EXCEPT ![J] = {}]
    BY <1>2 DEF JNotFound, JDone, pvars, xvars
  <2> QED
    BY <1>1, <2>1, <2>2, ExitEnds
<1>3. CASE JPipe
  BY <1>1, <1>3, PipeEnds
<1>4. CASE JFork
  BY <1>1, <1>4, ForkEnds
<1>5. CASE JClose
  BY <1>1, <1>5, CloseEnds
<1>6. CASE SetPgid \/ JAssign \/ JHandler \/ JHandlerFails
  <2>1. UNCHANGED <<line, fds, k, ppc, xpc>>
    BY <1>6 DEF SetPgid, JAssign, JHandler, JHandlerFails, jvars, pvars, xvars
  <2>2. jpc \in {"fork", "forked", "close"} => jpc' \in {"fork", "forked", "close"}
    BY <1>6 DEF SetPgid, JAssign, JHandler, JHandlerFails, jvars
  <2> QED
    BY <1>1, <2>1, <2>2, EndsStay
<1>7. ASSUME NEW s \in Stages, JReaps(s)
      PROVE  Ends'
  <2>1. /\ UNCHANGED <<line, fds, k, jpc, xpc>>
        /\ ppc[s] = "zombie" /\ ppc' = [ppc EXCEPT ![s] = "reaped"]
    BY <1>7 DEF JReaps, xvars
  <2>2. \A r \in Stages : ppc[r] \in {"run", "wait"} => ppc'[r] \in {"run", "wait"}
    BY <2>1 DEF TypeOK
  <2> QED
    BY <1>1, <2>1, <2>2, EndsStay
<1>8. ASSUME NEW s \in Stages, PRefuses(s) \/ PBuiltin(s) \/ PDone(s)
      PROVE  Ends'
  <2>1. /\ UNCHANGED <<line, k, jpc, xpc>>
        /\ ppc' = [ppc EXCEPT ![s] = "zombie"] /\ fds' = [fds EXCEPT ![P(s)] = {}]
    BY <1>8 DEF PRefuses, PBuiltin, PDone, PExit, jvars, xvars
  <2>2. P(s) \in Procs /\ \A r \in Stages : P(r) = P(s) \/ ppc'[r] = ppc[r]
    BY <2>1 DEF Procs, TypeOK
  <2> QED
    BY <1>1, <2>1, <2>2, ExitEnds
<1>9. ASSUME NEW s \in Stages, PFork(s)
      PROVE  Ends'
  BY <1>1, <1>9, ProgramEnds
<1>10. ASSUME NEW s \in Stages, PHandler(s)
       PROVE  Ends'
  <2>1. /\ UNCHANGED <<line, fds, k, jpc, ppc>>
        /\ xpc[s] = "zombie" /\ xpc' = [xpc EXCEPT ![s] = "reaped"]
    BY <1>10 DEF PHandler, jvars
  <2>2. \A r \in Stages : xpc[r] = "run" => xpc'[r] = "run"
    BY <2>1 DEF TypeOK
  <2> QED
    BY <1>1, <2>1, <2>2, EndsStay
<1>11. ASSUME NEW s \in Stages, XMakes(s) \/ XReads(s) \/ XWrites(s)
       PROVE  Ends'
  <2>1. UNCHANGED <<line, fds, k, jpc, ppc, xpc>>
    BY <1>11 DEF XMakes, XReads, XWrites, Takes, jvars, pvars
  <2> QED
    BY <1>1, <2>1, EndsStay
<1>12. ASSUME NEW s \in Stages, XEnds(s)
       PROVE  Ends'
  <2>1. /\ UNCHANGED <<line, k, jpc, ppc>>
        /\ xpc' = [xpc EXCEPT ![s] = "zombie"] /\ fds' = [fds EXCEPT ![X(s)] = {}]
    BY <1>12 DEF XEnds, jvars, pvars
  <2>2. X(s) \in Procs /\ \A r \in Stages : X(r) = X(s) \/ xpc'[r] = xpc[r]
    BY <2>1 DEF Procs, TypeOK
  <2> QED
    BY <1>1, <2>1, <2>2, ExitEnds
<1> QED
  BY <1>2, <1>3, <1>4, <1>5, <1>6, <1>7, <1>8, <1>9, <1>10, <1>11, <1>12
     DEF Next, JStep, PStep, XStep
-----------------------------------------------------------------------------
(* Which stage J waits for                                                 *)

\* A stage that has run stays so, and one that is gone stays gone.
LEMMA TurnsNext ==
    ASSUME IInv, Next
    PROVE  Turns'
<1> USE DEF IInv
<1>1. Len(line) \in Nat /\ k \in Nat /\ k <= Len(line) /\ k \in Stages
      /\ childpid \in Stages \cup {0}
  BY Lengths DEF TypeOK, Stages
<1>2. CASE JNotFound \/ JPipe
  <2>1. /\ UNCHANGED <<line, k, ppc>> /\ jpc = "find" /\ jpc' \in {"fork", "over"}
        /\ pid' \in {0, pid}
    BY <1>2 DEF JNotFound, JPipe, pvars
  <2> QED
    BY <1>1, <2>1 DEF Turns, Stages
<1>3. CASE JFork
  <2>1. /\ UNCHANGED <<line, k, pid>> /\ jpc = "fork" /\ jpc' = "forked"
        /\ ppc' = [ppc EXCEPT ![k] = "run"]
    BY <1>3 DEF JFork
  <2>2. ppc[k] = "none" /\ pid # k
    BY <1>1, <2>1 DEF Turns
  <2>3. \A s \in Stages : s # k => ppc'[s] = ppc[s]
    BY <2>1 DEF TypeOK
  <2> QED
    BY <1>1, <2>1, <2>2, <2>3 DEF Turns, Stages
<1>4. CASE JAssign
  BY <1>1, <1>4 DEF JAssign, Turns, Stages, pvars
<1>5. CASE JClose
  <2>1. /\ UNCHANGED <<line, pid, childpid, ppc>> /\ jpc = "close"
        /\ IF k = Len(line) THEN jpc' = "wait" /\ k' = k ELSE jpc' = "find" /\ k' = k + 1
    BY <1>5 DEF JClose, pvars
  <2> QED
    BY <1>1, <2>1 DEF Turns, Stages
<1>6. CASE SetPgid \/ JHandler \/ JDone
  <2>1. UNCHANGED <<line, k, childpid, pid, ppc>> /\ jpc' \in {jpc, "over"}
    BY <1>6 DEF SetPgid, JHandler, JDone, jvars, pvars
  <2> QED
    BY <1>1, <2>1 DEF Turns, Stages
<1>7. CASE JHandlerFails
  <2>1. UNCHANGED <<line, k, childpid, jpc, ppc>> /\ pid' = -1
    BY <1>7 DEF JHandlerFails, pvars
  <2> QED
    BY <1>1, <2>1 DEF Turns, Stages
<1>8. ASSUME NEW s \in Stages, JReaps(s)
      PROVE  Turns'
  <2>1. /\ UNCHANGED <<line, k, childpid, jpc>> /\ pid' = s
        /\ ppc[s] = "zombie" /\ ppc' = [ppc EXCEPT ![s] = "reaped"]
    BY <1>8 DEF JReaps
  <2>2. ppc'[s] = "reaped" /\ \A r \in Stages : r # s => ppc'[r] = ppc[r]
    BY <2>1 DEF TypeOK
  <2> QED
    BY <1>1, <2>1, <2>2 DEF Turns, Stages
<1>9. ASSUME NEW s \in Stages, PRefuses(s) \/ PBuiltin(s) \/ PFork(s) \/ PDone(s)
      PROVE  Turns'
  <2>1. /\ UNCHANGED <<line, k, childpid, pid, jpc>> /\ ppc[s] \in {"run", "wait"}
        /\ ppc' = [ppc EXCEPT ![s] = "zombie"] \/ ppc' = [ppc EXCEPT ![s] = "wait"]
    BY <1>9 DEF PRefuses, PBuiltin, PFork, PDone, PExit, jvars
  <2>2. \A r \in Stages : r # s => ppc'[r] = ppc[r]
    BY <2>1 DEF TypeOK
  <2> QED
    BY <1>1, <2>1, <2>2 DEF Turns, Stages
<1>10. ASSUME NEW s \in Stages, PHandler(s) \/ XStep(s)
       PROVE  Turns'
  <2>1. UNCHANGED <<line, k, childpid, pid, jpc, ppc>>
    BY <1>10 DEF PHandler, XStep, XMakes, XReads, XWrites, XEnds, Takes, jvars, pvars
  <2> QED
    BY <1>1, <2>1 DEF Turns, Stages
<1> QED
  BY <1>2, <1>3, <1>4, <1>5, <1>6, <1>7, <1>8, <1>9, <1>10 DEF Next, JStep, PStep

\* J is over either before it has started its last stage or after it was told of its
\* end.
LEMMA LastNext ==
    ASSUME IInv, Next
    PROVE  LastIsWaitedFor'
<1> USE DEF IInv
<1>1. /\ Len(line) \in Nat /\ k \in Nat /\ k <= Len(line)
      /\ Len(line) \in Stages /\ k \in Stages
  BY Lengths DEF TypeOK, Stages
<1>2. CASE JNotFound
  <2>1. UNCHANGED <<line, ppc>> /\ jpc = "find"
    BY <1>2 DEF JNotFound, pvars
  <2> QED
    BY <1>1, <2>1 DEF Turns, LastIsWaitedFor
<1>3. CASE JDone
  <2>1. UNCHANGED <<line, ppc>> /\ jpc = "wait" /\ childpid = pid
    BY <1>3 DEF JDone, pvars
  <2> QED
    BY <1>1, <2>1 DEF Turns, LastIsWaitedFor
<1>4. CASE JPipe \/ JFork \/ JAssign \/ JClose
  BY <1>4 DEF JPipe, JFork, JAssign, JClose, LastIsWaitedFor
<1>5. CASE SetPgid \/ JHandler \/ JHandlerFails
  BY <1>5 DEF SetPgid, JHandler, JHandlerFails, LastIsWaitedFor, jvars, pvars
<1>6. ASSUME NEW s \in Stages, JReaps(s)
      PROVE  LastIsWaitedFor'
  <2>1. UNCHANGED <<line, jpc>> /\ ppc' = [ppc EXCEPT ![s] = "reaped"]
    BY <1>6 DEF JReaps
  <2> QED
    BY <1>1, <2>1 DEF LastIsWaitedFor, TypeOK
<1>7. ASSUME NEW s \in Stages, PRefuses(s) \/ PBuiltin(s) \/ PFork(s) \/ PDone(s)
      PROVE  LastIsWaitedFor'
  <2>1. /\ UNCHANGED <<line, jpc>> /\ ppc[s] \in {"run", "wait"}
        /\ ppc' = [ppc EXCEPT ![s] = "zombie"] \/ ppc' = [ppc EXCEPT ![s] = "wait"]
    BY <1>7 DEF PRefuses, PBuiltin, PFork, PDone, PExit, jvars
  <2> QED
    BY <1>1, <2>1 DEF LastIsWaitedFor, TypeOK
<1>8. ASSUME NEW s \in Stages, PHandler(s) \/ XStep(s)
      PROVE  LastIsWaitedFor'
  <2>1. UNCHANGED <<line, jpc, ppc>>
    BY <1>8 DEF PHandler, XStep, XMakes, XReads, XWrites, XEnds, Takes, jvars, pvars
  <2> QED
    BY <2>1 DEF LastIsWaitedFor
<1> QED
  BY <1>2, <1>3, <1>4, <1>5, <1>6, <1>7, <1>8 DEF Next, JStep, PStep
-----------------------------------------------------------------------------
(* What goes through the pipes                                             *)

\* What stands in Flow are numbers, and a stage has given no more than the bound.
LEMMA Amounts ==
    ASSUME TypeOK, NEW s \in Stages
    PROVE  /\ made[s] \in Nat /\ made[s] <= Units /\ buf[s] \in Nat /\ buf[s] <= Cap
           /\ Given(s) \in Int /\ Given(s) <= Units
           /\ owes[s] \in BOOLEAN /\ Units \in Nat /\ Cap \in Nat /\ Units >= 1 /\ Cap >= 1
           /\ s \in Nat /\ s >= 1 /\ (s > 1 => s - 1 \in Stages)
           /\ (s < Len(line) => s + 1 \in Stages)
<1>1. /\ made[s] \in 0 .. Units /\ buf[s] \in 0 .. Cap /\ owes[s] \in BOOLEAN
      /\ Len(line) \in Nat
  BY Lengths DEF TypeOK
<1>2. Units \in Nat /\ Cap \in Nat /\ Units >= 1 /\ Cap >= 1
  BY BoundsAssumption
<1>3. s \in Nat /\ s >= 1 /\ (s > 1 => s - 1 \in Stages) /\ (s < Len(line) => s + 1 \in Stages)
  BY <1>1 DEF Stages
<1> QED
  BY <1>1, <1>2, <1>3 DEF Given

\* A step in which no stage reads or writes and none is left with less to give keeps
\* Flow.
LEMMA FlowStays ==
    ASSUME TypeOK, Flow, UNCHANGED <<line, made, buf>>,
           \A s \in Stages : Given(s)' \in {Given(s), Given(s) + 1},
           \A s \in Stages : line[s].cmd = "builtin" => xpc'[s] = xpc[s]
    PROVE  Flow'
<1>1. Stages' = Stages
  BY Fixed
<1>2. \A s \in Stages : line[s].cmd = "builtin" => xpc'[s] = "none"
  BY DEF Flow
<1>3. ASSUME NEW s \in Stages, s > 1
      PROVE  made[s] + buf[s - 1] <= Given(s - 1)'
  <2>1. s - 1 \in Stages
    BY <1>3, Amounts
  <2>2. /\ made[s] \in Nat /\ buf[s - 1] \in Nat /\ Given(s - 1) \in Int
        /\ made[s] + buf[s - 1] <= Given(s - 1)
    BY <1>3, <2>1, Amounts DEF Flow
  <2>3. Given(s - 1)' \in {Given(s - 1), Given(s - 1) + 1}
    BY <2>1
  <2> QED
    BY <2>2, <2>3
<1> QED
  BY <1>1, <1>2, <1>3 DEF Flow

LEMMA FlowNext ==
    ASSUME IInv, Next
    PROVE  Flow'
<1> USE DEF IInv
<1>1. \A s \in Stages : ppc[s] \in {"none", "run", "wait", "zombie", "reaped"}
  BY DEF TypeOK
<1>2. CASE SetPgid \/ JNotFound \/ JPipe \/ JAssign \/ JClose \/ JHandler
           \/ JHandlerFails \/ JDone
  <2>1. UNCHANGED <<line, made, buf, owes, ppc, xpc>>
    BY <1>2 DEF SetPgid, JNotFound, JPipe, JAssign, JClose, JHandler, JHandlerFails,
                JDone, pvars, xvars
  <2>2. \A s \in Stages : Given(s)' = Given(s)
    BY <2>1 DEF Given
  <2> QED
    BY <2>1, <2>2, FlowStays
<1>3. CASE JFork
  <2>1. /\ UNCHANGED <<line, made, buf, owes, xpc>>
        /\ ppc' = [ppc EXCEPT ![k] = "run"] /\ ppc[k] = "none" /\ k \in Stages
    BY <1>3 DEF JFork, xvars, Turns, TypeOK
  <2>2. \A s \in Stages : Given(s)' = Given(s)
    BY <2>1 DEF Given, TypeOK
  <2> QED
    BY <2>1, <2>2, FlowStays
<1>4. ASSUME NEW s \in Stages,
             JReaps(s) \/ PRefuses(s) \/ PFork(s) \/ PDone(s) \/ PHandler(s)
      PROVE  Flow'
  <2>1. UNCHANGED <<line, made, buf, owes>>
    BY <1>4 DEF JReaps, PRefuses, PFork, PDone, PHandler, PExit, xvars
  <2>2. line[s].cmd = "builtin" => ~PFork(s) /\ ~PHandler(s)
    BY DEF PFork, PHandler, Flow
  <2>3. \A r \in Stages : line[r].cmd = "builtin" => xpc'[r] = xpc[r]
    BY <1>4, <2>2 DEF JReaps, PRefuses, PFork, PDone, PHandler, xvars, TypeOK
  <2>4. \A r \in Stages : /\ r # s => ppc'[r] = ppc[r]
                          /\ ppc'[r] \in {"none", "run", "wait"}
                                => ppc[r] \in {"none", "run", "wait"}
                          /\ ppc[r] \in {"none", "run", "wait"}
                                => Given(r) = 0 \/ line[r].cmd # "builtin"
    BY <1>1, <1>4 DEF JReaps, PRefuses, PFork, PDone, PHandler, PExit, TypeOK, Given
  <2>5. \A r \in Stages : Given(r)' \in {Given(r), Given(r) + 1}
    BY <1>1, <2>1, <2>4 DEF Given
  <2> QED
    BY <2>1, <2>3, <2>5, FlowStays
<1>5. ASSUME NEW s \in Stages, PBuiltin(s)
      PROVE  Flow'
  <2>1. /\ UNCHANGED <<line, made, owes, xpc>> /\ line[s].cmd = "builtin"
        /\ ppc[s] = "run" /\ ppc' = [ppc EXCEPT ![s] = "zombie"]
        /\ buf' = [buf EXCEPT ![s] = IF OutputFd(s) THEN 1 ELSE 0]
    BY <1>5 DEF PBuiltin, PExit
  <2>2. Stages' = Stages
    BY <2>1, Fixed
  <2>3. /\ Given(s) = 0 /\ Given(s)' = 1 /\ buf'[s] \in {0, 1}
        /\ \A r \in Stages : r # s => Given(r)' = Given(r) /\ buf'[r] = buf[r]
    BY <2>1 DEF Given, TypeOK
  <2>4. ASSUME NEW r \in Stages, r > 1
        PROVE  made[r] + buf'[r - 1] <= Given(r - 1)'
    <3>1. /\ r - 1 \in Stages /\ made[r] \in Nat /\ buf[r - 1] \in Nat
          /\ Given(r - 1) \in Int /\ made[r] + buf[r - 1] <= Given(r - 1)
      BY <2>4, Amounts DEF Flow
    <3> QED
      BY <2>3, <3>1
  <2> QED
    BY <2>1, <2>2, <2>4 DEF Flow
<1>6. ASSUME NEW s \in Stages, XMakes(s)
      PROVE  Flow'
  <2>1. /\ UNCHANGED <<line, buf, ppc, xpc>> /\ ~(s > 1) /\ ~owes[s]
        /\ made' = [made EXCEPT ![s] = made[s] + 1]
        /\ owes' = [owes EXCEPT ![s] = TRUE]
    BY <1>6 DEF XMakes, Takes, InputFd, pvars
  <2>2. Stages' = Stages
    BY <2>1, Fixed
  <2>3. /\ made'[s] = made[s] + 1 /\ owes'[s]
        /\ \A r \in Stages : r # s => made'[r] = made[r] /\ owes'[r] = owes[r]
    BY <2>1 DEF TypeOK
  <2>4. \A r \in Stages : Given(r)' = Given(r)
    BY <2>1, <2>3, Amounts DEF Given
  <2>5. ASSUME NEW r \in Stages, r > 1
        PROVE  made'[r] + buf[r - 1] <= Given(r - 1)'
    BY <2>1, <2>3, <2>4, <2>5, Amounts DEF Flow
  <2> QED
    BY <2>1, <2>2, <2>5 DEF Flow
<1>7. ASSUME NEW s \in Stages, XReads(s)
      PROVE  Flow'
  <2>1. /\ UNCHANGED <<line, ppc, xpc>> /\ s > 1 /\ ~owes[s] /\ buf[s - 1] > 0
        /\ made' = [made EXCEPT ![s] = made[s] + 1]
        /\ owes' = [owes EXCEPT ![s] = TRUE]
        /\ buf' = [buf EXCEPT ![s - 1] = buf[s - 1] - 1]
    BY <1>7 DEF XReads, Takes, InputFd, pvars
  <2>2. Stages' = Stages /\ s - 1 \in Stages /\ s \in Nat
    BY <2>1, Fixed, Amounts
  <2>3. /\ made'[s] = made[s] + 1 /\ owes'[s] /\ buf'[s - 1] = buf[s - 1] - 1
        /\ \A r \in Stages : r # s => made'[r] = made[r] /\ owes'[r] = owes[r]
        /\ \A r \in Stages : r # s - 1 => buf'[r] = buf[r]
    BY <2>1, <2>2 DEF TypeOK
  <2>4. \A r \in Stages : Given(r)' = Given(r)
    BY <2>1, <2>3, Amounts DEF Given
  <2>5. ASSUME NEW r \in Stages, r > 1
        PROVE  made'[r] + buf'[r - 1] <= Given(r - 1)'
    <3>1. /\ r \in Nat /\ r - 1 \in Stages /\ made[r] \in Nat /\ buf[r - 1] \in Nat
          /\ Given(r - 1) \in Int /\ made[r] + buf[r - 1] <= Given(r - 1)
      BY <2>5, Amounts DEF Flow
    <3>2. CASE r = s
      BY <2>3, <2>4, <3>1, <3>2
    <3>3. CASE r # s
      <4>1. r - 1 # s - 1
        BY <2>2, <3>1, <3>3
      <4> QED
        BY <2>3, <2>4, <3>1, <3>3, <4>1
    <3> QED
      BY <3>2, <3>3
  <2> QED
    BY <2>1, <2>2, <2>5 DEF Flow
<1>8. ASSUME NEW s \in Stages, XWrites(s)
      PROVE  Flow'
  <2>1. /\ UNCHANGED <<line, made, ppc, xpc>> /\ owes[s] /\ xpc[s] = "run"
        /\ owes' = [owes EXCEPT ![s] = FALSE]
        /\ buf' = IF OutputFd(s) THEN [buf EXCEPT ![s] = buf[s] + 1] ELSE buf
    BY <1>8 DEF XWrites, pvars
  <2>2. Stages' = Stages /\ line[s].cmd # "builtin"
    BY <2>1, Fixed DEF Flow
  <2>3. /\ buf'[s] \in {buf[s], buf[s] + 1}
        /\ \A r \in Stages : r # s => owes'[r] = owes[r] /\ buf'[r] = buf[r]
    BY <2>1 DEF TypeOK
  <2>4. Given(s)' = Given(s) + 1 /\ \A r \in Stages : r # s => Given(r)' = Given(r)
    <3>1. ~owes'[s]
      BY <2>1 DEF TypeOK
    <3>2. Given(s) = made[s] - 1 /\ Given(s)' = made[s]
      BY <2>1, <2>2, <3>1 DEF Given
    <3> QED
      BY <2>1, <2>3, <3>2, Amounts DEF Given
  <2>5. ASSUME NEW r \in Stages, r > 1
        PROVE  made[r] + buf'[r - 1] <= Given(r - 1)'
    <3>1. /\ r - 1 \in Stages /\ made[r] \in Nat /\ buf[r - 1] \in Nat
          /\ Given(r - 1) \in Int /\ made[r] + buf[r - 1] <= Given(r - 1)
      BY <2>5, Amounts DEF Flow
    <3> QED
      BY <2>3, <2>4, <3>1
  <2> QED
    BY <2>1, <2>2, <2>5 DEF Flow
<1>9. ASSUME NEW s \in Stages, XEnds(s)
      PROVE  Flow'
  <2>1. /\ UNCHANGED <<line, made, buf, owes, ppc>> /\ xpc[s] = "run"
        /\ xpc' = [xpc EXCEPT ![s] = "zombie"]
    BY <1>9 DEF XEnds, pvars
  <2>2. \A r \in Stages : line[r].cmd = "builtin" => xpc'[r] = xpc[r]
    BY <2>1 DEF Flow, TypeOK
  <2>3. \A r \in Stages : Given(r)' = Given(r)
    BY <2>1 DEF Given
  <2> QED
    BY <2>1, <2>2, <2>3, FlowStays
<1> QED
  BY <1>2, <1>3, <1>4, <1>5, <1>6, <1>7, <1>8, <1>9 DEF Next, JStep, PStep, XStep
-----------------------------------------------------------------------------
(* The types, and the invariant                                            *)

\* The types of what the processes are, without those of what goes through the pipes.
ControlTypes ==
    /\ line \in Lines
    /\ k \in Stages
    /\ jpc \in {"find", "fork", "forked", "close", "wait", "over"}
    /\ childpid \in Stages \cup {0} /\ pid \in Stages \cup {0, -1}
    /\ {jsig, jhandler, moved, hasty} \subseteq BOOLEAN
    /\ {group, told} \subseteq [Stages -> BOOLEAN]
    /\ ppc \in [Stages -> {"none", "run", "wait", "zombie", "reaped"}]
    /\ xpc \in [Stages -> {"none", "run", "zombie", "reaped"}]
    /\ \A q \in Procs : fds[q] \subseteq {"R", "W"} \X Stages
DataTypes ==
    /\ owes \in [Stages -> BOOLEAN]
    /\ made \in [Stages -> 0 .. Units]
    /\ buf \in [Stages -> 0 .. Cap]

LEMMA TypesParts ==
    ASSUME Places
    PROVE  TypeOK <=> ControlTypes /\ DataTypes
BY DEF TypeOK, ControlTypes, DataTypes, Places

\* A stage that reads takes what the one before it has made.
LEMMA DataTypesNext ==
    ASSUME IInv, Next
    PROVE  DataTypes'
<1> USE DEF IInv
<1>1. DataTypes
  BY TypesParts
<1>2. CASE SetPgid \/ JStep \/ \E s \in Stages : PRefuses(s) \/ PFork(s) \/ PHandler(s)
                                                 \/ PDone(s) \/ XEnds(s)
  <2>1. UNCHANGED <<line, made, buf, owes>>
    BY <1>2 DEF SetPgid, JStep, JNotFound, JPipe, JFork, JAssign, JClose, JHandler,
                JReaps, JHandlerFails, JDone, PRefuses, PFork, PHandler, PDone, XEnds,
                xvars
  <2> QED
    BY <1>1, <2>1, Fixed DEF DataTypes
<1>3. ASSUME NEW s \in Stages, PBuiltin(s)
      PROVE  DataTypes'
  <2>1. /\ UNCHANGED <<line, made, owes>>
        /\ buf' = [buf EXCEPT ![s] = IF OutputFd(s) THEN 1 ELSE 0]
    BY <1>3 DEF PBuiltin
  <2>2. 0 \in 0 .. Cap /\ 1 \in 0 .. Cap
    BY BoundsAssumption
  <2> QED
    BY <1>1, <2>1, <2>2, Fixed DEF DataTypes
<1>4. ASSUME NEW s \in Stages, XMakes(s)
      PROVE  DataTypes'
  <2>1. /\ UNCHANGED <<line, buf>> /\ made[s] < Units
        /\ made' = [made EXCEPT ![s] = made[s] + 1]
        /\ owes' = [owes EXCEPT ![s] = TRUE]
    BY <1>4 DEF XMakes, Takes
  <2>2. made[s] + 1 \in 0 .. Units
    BY <2>1, Amounts
  <2> QED
    BY <1>1, <2>1, <2>2, Fixed DEF DataTypes
<1>5. ASSUME NEW s \in Stages, XReads(s)
      PROVE  DataTypes'
  <2>1. /\ line' = line /\ s > 1 /\ buf[s - 1] > 0
        /\ made' = [made EXCEPT ![s] = made[s] + 1]
        /\ owes' = [owes EXCEPT ![s] = TRUE]
        /\ buf' = [buf EXCEPT ![s - 1] = buf[s - 1] - 1]
    BY <1>5 DEF XReads, Takes, InputFd
  <2>2. s - 1 \in Stages /\ made[s] + buf[s - 1] <= Given(s - 1)
    BY <2>1, Amounts DEF Flow
  <2>3. /\ made[s] \in Nat /\ Units \in Nat /\ Given(s - 1) \in Int
        /\ Given(s - 1) <= Units
        /\ buf[s - 1] \in Nat /\ buf[s - 1] <= Cap /\ Cap \in Nat
    BY <2>2, Amounts
  <2>4. made[s] + 1 \in 0 .. Units /\ buf[s - 1] - 1 \in 0 .. Cap
    BY <2>1, <2>2, <2>3
  <2> QED
    BY <1>1, <2>1, <2>2, <2>4, Fixed DEF DataTypes
<1>6. ASSUME NEW s \in Stages, XWrites(s)
      PROVE  DataTypes'
  <2>1. /\ line' = line /\ made' = made /\ (OutputFd(s) => buf[s] < Cap)
        /\ owes' = [owes EXCEPT ![s] = FALSE]
        /\ buf' = IF OutputFd(s) THEN [buf EXCEPT ![s] = buf[s] + 1] ELSE buf
    BY <1>6 DEF XWrites
  <2>2. OutputFd(s) => buf[s] + 1 \in 0 .. Cap
    BY <2>1, Amounts
  <2> QED
    BY <1>1, <2>1, <2>2, Fixed DEF DataTypes
<1> QED
  BY <1>2, <1>3, <1>4, <1>5, <1>6 DEF Next, PStep, XStep

LEMMA ControlTypesNext ==
    ASSUME IInv, Next
    PROVE  ControlTypes'
<1> USE DEF IInv
<1>1. ControlTypes
  BY TypesParts
<1>2. /\ J \in Procs /\ \A s \in Stages : P(s) \in Procs /\ X(s) \in Procs
      /\ DOMAIN fds = Procs
      /\ Len(line) \in Nat /\ k \in Nat /\ k <= Len(line)
  BY <1>1, Lengths DEF Procs, Places, ControlTypes, Stages
<1>3. \A s \in Stages : {ReadEnd(s), WriteEnd(s)} \subseteq {"R", "W"} \X Stages
  BY DEF ReadEnd, WriteEnd
<1>4. CASE JNotFound \/ JPipe \/ JFork \/ JClose \/ JDone
  <2>1. fds' \in {fds, [fds EXCEPT ![J] = {}], [fds EXCEPT ![P(k)] = fds[J]],
                  [fds EXCEPT ![J] = fds[J] \ {WriteEnd(k)}],
                  [fds EXCEPT ![J] = fds[J] \cup {ReadEnd(k), WriteEnd(k)}]}
        /\ line' = line
    BY <1>4 DEF JNotFound, JPipe, JFork, JClose, JDone
  <2>2. Stages' = Stages /\ Procs' = Procs
    BY <2>1, Fixed
  <2>3. \A q \in Procs : fds'[q] \subseteq {"R", "W"} \X Stages
    BY <1>1, <1>2, <1>3, <2>1 DEF ControlTypes
  <2>4. k' \in Stages /\ jpc' \in {"find", "fork", "forked", "close", "wait", "over"}
    BY <1>1, <1>2, <1>4 DEF JNotFound, JPipe, JFork, JClose, JDone, ControlTypes, Stages
  <2>5. /\ childpid' = childpid /\ pid' \in {pid, 0} /\ xpc' = xpc /\ told' = told
        /\ UNCHANGED <<jsig, jhandler, moved, hasty>>
        /\ group' \in {group, [group EXCEPT ![k] = moved]}
        /\ ppc' \in {ppc, [ppc EXCEPT ![k] = "run"]}
    BY <1>4 DEF JNotFound, JPipe, JFork, JClose, JDone, pvars, xvars
  <2>6. /\ group' \in [Stages -> BOOLEAN]
        /\ ppc' \in [Stages -> {"none", "run", "wait", "zombie", "reaped"}]
    BY <1>1, <2>5 DEF ControlTypes
  <2> QED
    BY <1>1, <2>1, <2>2, <2>3, <2>4, <2>5, <2>6 DEF ControlTypes
<1>5. CASE SetPgid \/ JAssign \/ JHandler \/ JHandlerFails
  <2>1. /\ UNCHANGED <<line, k, ppc, xpc, told, group, fds>>
        /\ jpc' \in {jpc, "close"} /\ childpid' \in {childpid, k} /\ pid' \in {pid, -1}
    BY <1>5 DEF SetPgid, JAssign, JHandler, JHandlerFails, jvars, pvars, xvars
  <2>2. {jsig', jhandler', moved', hasty'} \subseteq BOOLEAN
    BY <1>1, <1>5 DEF SetPgid, JAssign, JHandler, JHandlerFails, jvars, ControlTypes
  <2> QED
    BY <1>1, <2>1, <2>2, Fixed DEF ControlTypes
<1>6. ASSUME NEW s \in Stages, JReaps(s) \/ PHandler(s)
      PROVE  ControlTypes'
  <2>1. /\ UNCHANGED <<line, k, jpc, childpid, group, fds, jsig, moved, hasty>>
        /\ jhandler' \in {jhandler, FALSE} /\ pid' \in {pid, s}
        /\ ppc' \in {ppc, [ppc EXCEPT ![s] = "reaped"]}
        /\ xpc' \in {xpc, [xpc EXCEPT ![s] = "reaped"]}
        /\ told' \in {told, [told EXCEPT ![s] = TRUE]}
    BY <1>6 DEF JReaps, PHandler, jvars, xvars
  <2>2. /\ ppc' \in [Stages -> {"none", "run", "wait", "zombie", "reaped"}]
        /\ xpc' \in [Stages -> {"none", "run", "zombie", "reaped"}]
        /\ told' \in [Stages -> BOOLEAN]
    BY <1>1, <2>1 DEF ControlTypes
  <2>3. Stages' = Stages /\ Procs' = Procs
    BY <2>1, Fixed
  <2>4. {jsig', jhandler', moved', hasty'} \subseteq BOOLEAN
    BY <1>1, <2>1 DEF ControlTypes
  <2> QED
    BY <1>1, <2>1, <2>2, <2>3, <2>4 DEF ControlTypes
<1>7. ASSUME NEW s \in Stages, PRefuses(s) \/ PBuiltin(s) \/ PFork(s) \/ PDone(s)
                               \/ XStep(s)
      PROVE  ControlTypes'
  <2>1. /\ UNCHANGED <<line, k, jpc, childpid, pid, group, told, jhandler, moved, hasty>>
        /\ jsig' \in {jsig, TRUE}
        /\ ppc' \in {ppc, [ppc EXCEPT ![s] = "zombie"], [ppc EXCEPT ![s] = "wait"]}
        /\ xpc' \in {xpc, [xpc EXCEPT ![s] = "run"], [xpc EXCEPT ![s] = "zombie"]}
        /\ fds' \in {fds, [fds EXCEPT ![P(s)] = {}], [fds EXCEPT ![X(s)] = {}],
                     [fds EXCEPT ![X(s)] = fds[P(s)]]}
    BY <1>7 DEF PRefuses, PBuiltin, PFork, PDone, PExit, XStep, XMakes, XReads, XWrites,
                XEnds, Takes, jvars, pvars, xvars
  <2>2. /\ ppc' \in [Stages -> {"none", "run", "wait", "zombie", "reaped"}]
        /\ xpc' \in [Stages -> {"none", "run", "zombie", "reaped"}]
    BY <1>1, <2>1 DEF ControlTypes
  <2>3. \A q \in Procs : fds'[q] \subseteq {"R", "W"} \X Stages
    BY <1>1, <1>2, <2>1 DEF ControlTypes
  <2>4. Stages' = Stages /\ Procs' = Procs
    BY <2>1, Fixed
  <2>5. {jsig', jhandler', moved', hasty'} \subseteq BOOLEAN
    BY <1>1, <2>1 DEF ControlTypes
  <2> QED
    BY <1>1, <2>1, <2>2, <2>3, <2>4, <2>5 DEF ControlTypes
<1> QED
  BY <1>4, <1>5, <1>6, <1>7 DEF Next, JStep, PStep

LEMMA InitInv == Init => IInv
<1> SUFFICES ASSUME Init PROVE IInv
  OBVIOUS
<1>1. Len(line) \in Nat /\ Len(line) >= 1 /\ 1 \in Stages
  BY LinesAssumption DEF Init, Stages
<1>2. \A q \in Procs : fds[q] = {}
  BY DEF Init, Procs
<1>3. Places
  BY DEF Init, Places, Procs
<1>4. TypeOK
  <2>1. DataTypes
    BY BoundsAssumption DEF Init, DataTypes
  <2>2. ControlTypes
    BY <1>1, <1>2 DEF Init, ControlTypes
  <2> QED
    BY <1>3, <2>1, <2>2, TypesParts
<1>5. Flow
  <2>1. \A s \in Stages : Given(s) = 0 /\ made[s] = 0 /\ buf[s] = 0 /\ xpc[s] = "none"
    BY DEF Init, Given
  <2>2. \A s \in Stages : s > 1 => s - 1 \in Stages
    BY <1>1 DEF Stages
  <2> QED
    BY <2>1, <2>2 DEF Flow
<1>6. Turns
  BY <1>1 DEF Init, Turns, Stages
<1>7. WriteEndsAreHeld /\ WritersAreReaders /\ LastIsWaitedFor
  BY <1>2, <1>3 DEF Init, Places, WriteEndsAreHeld, WritersAreReaders, LastIsWaitedFor
<1> QED
  BY <1>3, <1>4, <1>5, <1>6, <1>7 DEF IInv

LEMMA NextInv == IInv /\ [Next]_vars => IInv'
<1> SUFFICES ASSUME IInv, [Next]_vars PROVE IInv'
  OBVIOUS
<1>1. CASE Next
  <2>1. Places' /\ WriteEndsAreHeld' /\ WritersAreReaders'
    BY <1>1, EndsNext DEF Ends
  <2>2. TypeOK'
    <3>1. ControlTypes' /\ DataTypes'
      BY <1>1, ControlTypesNext, DataTypesNext
    <3> QED
      BY <2>1, <3>1 DEF TypeOK, ControlTypes, DataTypes, Places
  <2> QED
    BY <1>1, <2>1, <2>2, FlowNext, TurnsNext, LastNext DEF IInv
<1>2. CASE UNCHANGED vars
  <2>1. UNCHANGED <<line, jpc, fds, k, childpid, pid, ppc, xpc, owes, made, buf>>
    BY <1>2 DEF vars, jvars, pvars, xvars
  <2>2. Stages' = Stages /\ Procs' = Procs
    BY <2>1, Fixed
  <2>3. TypeOK'
    BY <1>2, <2>2 DEF IInv, TypeOK, vars, jvars, pvars, xvars
  <2>4. Places' /\ WriteEndsAreHeld' /\ WritersAreReaders' /\ LastIsWaitedFor'
    BY <2>1, <2>2 DEF IInv, Places, WriteEndsAreHeld, WritersAreReaders, LastIsWaitedFor
  <2>5. Turns'
    BY <2>1, <2>2 DEF IInv, Turns
  <2>6. Flow'
    BY <2>1, <2>2 DEF IInv, Flow, Given
  <2> QED
    BY <2>3, <2>4, <2>5, <2>6 DEF IInv
<1> QED
  BY <1>1, <1>2

LEMMA Invariant == Spec => []IInv
BY InitInv, NextInv, PTL DEF Spec

\* The types: J stops at the last stage of a line of any length, the handlers are told
\* of its stages only, and what runs through the pipes is bounded by what a pipe holds
\* and by what the first program made (main.c:729, 811-870, 84).
THEOREM TypeCorrect == Spec => []TypeOK
<1>1. IInv => TypeOK
  BY DEF IInv
<1> QED
  BY <1>1, Invariant, PTL

\* However many stages a line has, a write end is open only in the stage before the
\* pipe, while its processes run, and in J until it forks the next: nothing else keeps
\* a reader waiting for the end of its input (main.c:729, 811, 847, 860).
THEOREM InputsEnd == Spec => []WriteEndsAreHeld
<1>1. IInv => WriteEndsAreHeld
  BY DEF IInv
<1> QED
  BY <1>1, Invariant, PTL

\* In every line, each process that can write to a pipe has its read end open too, so a
\* stage never learns that its reader is gone (main.c:784-787).
THEOREM NoWriteFails == Spec => []WritersAreReaders
<1>1. IInv => WritersAreReaders
  BY DEF IInv
<1> QED
  BY <1>1, Invariant, PTL

\* Whenever and for whatever stage the SIGCHLDs come in, a job whose last stage was
\* started is over only when that stage is (main.c:75-84, 871-881).
THEOREM LastOneEnds == Spec => []LastIsWaitedFor
<1>1. IInv => LastIsWaitedFor
  BY DEF IInv
<1> QED
  BY <1>1, Invariant, PTL
=============================================================================
