------------------------ MODULE DaemonSessionProofs -------------------------
(***************************************************************************)
(* What the exit codes of --start, --stop and --attach promise, for any    *)
(* number of clients.                                                      *)
(***************************************************************************)
EXTENDS DaemonSession, TLAPS

(* Phases of a supervisor that is alive and has the lock; those after      *)
(* docker run; those after a refusal.                                      *)
Holding == {"prepare", "run", "watch", "watchOver", "cleanBox", "release"}
AfterRun == {"watch", "watchOver", "cleanBox", "release", "ended", "dead"}
AfterRefusal == {"cleanBox", "release", "ended", "dead"}
BeforeSpawn == {"idle", "look", "approve", "stopLook", "stop", "stopWait",
                "dockerStop", "dockerRm", "dockerRmOnly"}

(* The watch loop has not missed two polls while it goes on, and the ones  *)
(* it missed were right or wrong answers.                                  *)
WatchInv ==
    \A s \in Clients :
        /\ sup[s] \notin {"watchOver", "cleanBox"} => missed[s] <= 1
        /\ sup[s] \in {"off", "begin", "prepare", "run"} => missed[s] = 0 /\ slips[s] = 0
        /\ sup[s] = "watch" =>
              slips[s] <= missed[s] /\ (s \in honest \/ slips[s] = missed[s])

(* Supervisors past the lock hold it, the container belongs to one that    *)
(* has run it and has not cleaned up, and a client that has not spawned a  *)
(* supervisor has none.                                                    *)
LockInv ==
    /\ \A s \in Clients : sup[s] \in Holding => lock = s
    /\ box.by # None => sup[box.by] \in {"watch", "watchOver", "cleanBox", "dead"}
    /\ \A c \in Clients : pc[c] \in BeforeSpawn => sup[c] = "off"

(* A marker that a polling client sees is its supervisor's, and a refused  *)
(* supervisor runs no container.                                           *)
MarkerInv ==
    /\ \A c \in Clients : c \in marker /\ pc[c] = "poll" => c \in fatal
    /\ \A s \in fatal : sup[s] \in AfterRefusal /\ box.by # s
    /\ \A c \in Clients : code[c] # NoCode => pc[c] \in {"tearDown", "exited"}

(* A container that was found once has been run, and does not come back.   *)
SeenInv == \A c \in Clients : seen[c] # None => sup[seen[c]] \in AfterRun

(* A --stop client takes no step of the others.                            *)
CmdInv ==
    \A c \in Clients :
        cmd[c] = "stop" => pc[c] \in {"stopLook", "stop", "stopWait", "dockerStop",
                                       "dockerRm", "dockerRmOnly", "exited"}

(* An --attach client was attached to a run of the container it found, in  *)
(* which a session has come up since.                                      *)
JoinedInv ==
    \A c \in Clients : joined[c][1] # None =>
        /\ joined[c][1] = seen[c]
        /\ pc[c] \in {"attached", "probe", "reprobe", "exited"}
        /\ box.by = seen[c] =>
              /\ joined[c][2] <= box.restarts
              /\ joined[c][2] = box.restarts => box.session # "none"

(* An --attach client that is about to probe again has had one "no": right *)
(* or wrong.                                                               *)
ReprobeInv ==
    \A c \in Clients : pc[c] = "reprobe" =>
        /\ misled[c] <= 1
        /\ joined[c][1] # None /\ joined[c] = <<box.by, box.restarts>>
              => ~HasSession(box.by) \/ misled[c] = 1

IInv ==
    /\ TypeOK
    /\ WatchInv
    /\ LockInv
    /\ MarkerInv
    /\ SixMeansRefused
    /\ SeenInv
    /\ CmdInv
    /\ StopZeroMeansStopped
    /\ JoinedInv
    /\ ReprobeInv
    /\ LiveIsNotCalledEnded

(* The values the actions give the container.                              *)
LEMMA BoxValues ==
    /\ NoBox \in Boxes
    /\ \A s \in Clients :
          [by |-> s, up |-> TRUE, session |-> "none", restarts |-> 0] \in Boxes
    /\ \A b \in Boxes : [b EXCEPT !.up = FALSE] \in Boxes
<1>1. CrashLoop \in Nat
  BY DaemonConstants
<1>2. NoBox \in Boxes
  BY <1>1 DEF NoBox, Boxes
<1>3. ASSUME NEW s \in Clients
      PROVE  [by |-> s, up |-> TRUE, session |-> "none", restarts |-> 0] \in Boxes
  BY <1>1 DEF Boxes
<1>4. ASSUME NEW b \in Boxes
      PROVE  [b EXCEPT !.up = FALSE] \in Boxes
  BY DEF Boxes
<1> QED BY <1>2, <1>3, <1>4

(* The types, step by step.                                               *)
LEMMA TypeStep ==
    ASSUME TypeOK, WatchInv, ReprobeInv, [Next]_vars
    PROVE  TypeOK'
<1> USE DaemonConstants DEF TypeOK, SupPhases, SupEnded, None, Foreground,
          NoCode, client, supervisor
<1>1. ASSUME NEW c \in Clients, Begin(c) PROVE TypeOK'
  BY <1>1 DEF Begin, Goto, Exit, Boxes
<1>2. ASSUME NEW c \in Clients, Look(c) PROVE TypeOK'
  BY <1>2 DEF Look, Goto, Exit, Listed, HasSession, Boxes
<1>3. ASSUME NEW c \in Clients, Approve(c) PROVE TypeOK'
  BY <1>3 DEF Approve, Goto, Exit, Boxes
<1>4. ASSUME NEW c \in Clients, Clear(c) PROVE TypeOK'
  BY <1>4 DEF Clear, Goto, Boxes
<1>5. ASSUME NEW c \in Clients, Poll(c) PROVE TypeOK'
  BY <1>5 DEF Poll, Goto, Listed, HasSession, LastPoll, Boxes
<1>6. ASSUME NEW c \in Clients, Check(c) PROVE TypeOK'
  BY <1>6 DEF Check, Goto, Exit, Boxes
<1>7. ASSUME NEW c \in Clients, TearDown(c) PROVE TypeOK'
  <2>1. box' \in Boxes
    BY <1>7, BoxValues DEF TearDown, Goto
  <2> QED BY <1>7, <2>1 DEF TearDown, Goto, Term
<1>8. ASSUME NEW c \in Clients, StopLook(c) PROVE TypeOK'
  BY <1>8 DEF StopLook, Goto, Exit, EndStop, Listed, Boxes
<1>9. ASSUME NEW c \in Clients, Stop(c) PROVE TypeOK'
  BY <1>9 DEF Stop, Goto, Term, Alive, Boxes
<1>10. ASSUME NEW c \in Clients, StopWait(c) PROVE TypeOK'
  BY <1>10 DEF StopWait, Goto, Exit, EndStop, Listed, Boxes
<1>11. ASSUME NEW c \in Clients, DockerStop(c) PROVE TypeOK'
  <2>1. box' \in Boxes
    BY <1>11, BoxValues DEF DockerStop, Goto
  <2> QED BY <1>11, <2>1 DEF DockerStop, Goto
<1>12. ASSUME NEW c \in Clients, DockerRm(c) PROVE TypeOK'
  <2>1. box' \in Boxes
    BY <1>12, BoxValues DEF DockerRm, Goto
  <2> QED BY <1>12, <2>1 DEF DockerRm, Goto, EndStop, Exit
<1>13. ASSUME NEW c \in Clients, AttachLook(c) PROVE TypeOK'
  BY <1>13 DEF AttachLook, Goto, Exit, Listed, Boxes
<1>14. ASSUME NEW c \in Clients, Attach(c) PROVE TypeOK'
  <2>1. <<box.by, box.restarts>> \in (Clients \cup {None}) \X (0 .. CrashLoop)
    BY DEF Boxes
  <2>2. joined' \in [Clients -> (Clients \cup {None}) \X (0 .. CrashLoop)]
    BY <1>14, <2>1 DEF Attach
  <2> QED BY <1>14, <2>2 DEF Attach, Goto, HasSession
<1>15. ASSUME NEW c \in Clients, Detach(c) PROVE TypeOK'
  BY <1>15 DEF Detach, Goto, Boxes
<1>16. ASSUME NEW c \in Clients, Probe(c) PROVE TypeOK'
  BY <1>16 DEF Probe, Goto, Exit, HasSession, Boxes
<1>17. ASSUME NEW c \in Clients, Reprobe(c) PROVE TypeOK'
  <2>1. misled' \in [Clients -> 0 .. 2]
    BY <1>17 DEF Reprobe, ReprobeInv
  <2> QED BY <1>17, <2>1 DEF Reprobe, Goto, Exit
<1>18. ASSUME NEW s \in Clients, SupBegin(s) PROVE TypeOK'
  BY <1>18 DEF SupBegin, SupGoto, Refuse, Alive, Boxes
<1>19. ASSUME NEW s \in Clients, Prepare(s) PROVE TypeOK'
  <2>1. box' \in Boxes
    BY <1>19, BoxValues DEF Prepare, SupGoto
  <2> QED BY <1>19, <2>1 DEF Prepare, SupGoto, Refuse
<1>20. ASSUME NEW s \in Clients, Run(s) PROVE TypeOK'
  <2>1. box' \in Boxes
    BY <1>20, BoxValues DEF Run, SupGoto
  <2> QED BY <1>20, <2>1 DEF Run, SupGoto, Refuse
<1>21. ASSUME NEW s \in Clients, Watch(s) PROVE TypeOK'
  <2>1. sup[s] = "watch" /\ UNCHANGED <<client, fatal, marker, lock, box>>
    BY <1>21 DEF Watch
  <2>2. missed' \in [Clients -> 0 .. 2]
    BY <1>21 DEF WatchInv, Watch, EndsWatch
  <2>3. sup' \in [Clients -> SupPhases]
    BY <1>21 DEF Watch, SupGoto
  <2>4. honest' \subseteq Clients
    BY <1>21 DEF Watch
  <2>5. slips' \in [Clients -> 0 .. 2]
    BY <1>21 DEF WatchInv, Watch
  <2> QED BY <2>1, <2>2, <2>3, <2>4, <2>5
<1>22. ASSUME NEW s \in Clients, CleanBox(s) PROVE TypeOK'
  <2>1. box' \in Boxes
    BY <1>22, BoxValues DEF CleanBox, SupGoto
  <2> QED BY <1>22, <2>1 DEF CleanBox, SupGoto
<1>23. ASSUME NEW s \in Clients, Release(s) PROVE TypeOK'
  BY <1>23 DEF Release, SupGoto, Boxes
<1>24. ASSUME NEW s \in Clients, Kill(s) PROVE TypeOK'
  BY <1>24 DEF Kill, SupGoto, Alive, Boxes
<1>25. CASE BringUp
  BY <1>25 DEF BringUp, Boxes
<1>26. CASE AgentExit
  BY <1>26 DEF AgentExit, Boxes
<1>27. CASE Crash
  <2>1. box.restarts + 1 \in 0 .. CrashLoop /\ CrashLoop \in Nat
    BY <1>27 DEF Boxes, Crash
  <2>2. box' \in Boxes
    BY <1>27, <2>1 DEF Boxes, Crash
  <2> QED BY <1>27, <2>2 DEF Crash
<1>28. CASE ForegroundEnds
  BY <1>28 DEF ForegroundEnds, Boxes
<1>29. CASE UNCHANGED vars
  BY <1>29 DEF vars, client, supervisor
<1> QED BY <1>1, <1>2, <1>3, <1>4, <1>5, <1>6, <1>7, <1>8, <1>9, <1>10,
       <1>11, <1>12, <1>13, <1>14, <1>15, <1>16, <1>17, <1>18, <1>19,
       <1>20, <1>21, <1>22, <1>23, <1>24, <1>25, <1>26, <1>27, <1>28,
       <1>29
       DEF Next, StartStep, StopStep, AttachStep, SupStep

(* Only the watch loop counts, and it ends at two.                       *)
LEMMA WatchStep ==
    ASSUME TypeOK, WatchInv, LockInv, [Next]_vars
    PROVE  WatchInv'
<1> USE DaemonConstants DEF TypeOK, SupPhases, SupEnded, WatchInv, LockInv,
          BeforeSpawn, client, supervisor
<1>1. ASSUME NEW c \in Clients, Begin(c) PROVE WatchInv'
  BY <1>1 DEF Begin, Goto, Exit
<1>2. ASSUME NEW c \in Clients, Look(c) PROVE WatchInv'
  BY <1>2 DEF Look, Goto, Exit, Listed, HasSession
<1>3. ASSUME NEW c \in Clients, Approve(c) PROVE WatchInv'
  BY <1>3 DEF Approve, Goto, Exit
<1>4. ASSUME NEW c \in Clients, Clear(c) PROVE WatchInv'
  BY <1>4 DEF Clear, Goto
<1>5. ASSUME NEW c \in Clients, Poll(c) PROVE WatchInv'
  BY <1>5 DEF Poll, Goto, Listed, HasSession, LastPoll, NoCode
<1>6. ASSUME NEW c \in Clients, Check(c) PROVE WatchInv'
  BY <1>6 DEF Check, Goto, Exit
<1>7. ASSUME NEW c \in Clients, TearDown(c) PROVE WatchInv'
  BY <1>7 DEF TearDown, Goto, Term, Alive, NoBox
<1>8. ASSUME NEW c \in Clients, StopLook(c) PROVE WatchInv'
  BY <1>8 DEF StopLook, Goto, Exit, EndStop, Listed
<1>9. ASSUME NEW c \in Clients, Stop(c) PROVE WatchInv'
  BY <1>9 DEF Stop, Goto, Term, Alive
<1>10. ASSUME NEW c \in Clients, StopWait(c) PROVE WatchInv'
  BY <1>10 DEF StopWait, Goto, Exit, EndStop, Listed
<1>11. ASSUME NEW c \in Clients, DockerStop(c) PROVE WatchInv'
  BY <1>11 DEF DockerStop, Goto
<1>12. ASSUME NEW c \in Clients, DockerRm(c) PROVE WatchInv'
  BY <1>12 DEF DockerRm, Goto, Exit, EndStop, Alive, NoBox
<1>13. ASSUME NEW c \in Clients, AttachLook(c) PROVE WatchInv'
  BY <1>13 DEF AttachLook, Goto, Exit, Listed
<1>14. ASSUME NEW c \in Clients, Attach(c) PROVE WatchInv'
  BY <1>14 DEF Attach, Goto, HasSession
<1>15. ASSUME NEW c \in Clients, Detach(c) PROVE WatchInv'
  BY <1>15 DEF Detach, Goto
<1>16. ASSUME NEW c \in Clients, Probe(c) PROVE WatchInv'
  BY <1>16 DEF Probe, Goto, Exit, HasSession
<1>17. ASSUME NEW c \in Clients, Reprobe(c) PROVE WatchInv'
  BY <1>17 DEF Reprobe, Goto, Exit, HasSession
<1>18. ASSUME NEW s \in Clients, SupBegin(s) PROVE WatchInv'
  BY <1>18 DEF SupBegin, SupGoto, Refuse, Alive
<1>19. ASSUME NEW s \in Clients, Prepare(s) PROVE WatchInv'
  BY <1>19 DEF Prepare, SupGoto, Refuse, NoBox
<1>20. ASSUME NEW s \in Clients, Run(s) PROVE WatchInv'
  BY <1>20 DEF Run, SupGoto, Refuse, NoBox
<1>21. ASSUME NEW s \in Clients, Watch(s) PROVE WatchInv'
  BY <1>21 DEF Watch, SupGoto, HasSession, Listed, EndsWatch
<1>22. ASSUME NEW s \in Clients, CleanBox(s) PROVE WatchInv'
  BY <1>22 DEF CleanBox, SupGoto, NoBox
<1>23. ASSUME NEW s \in Clients, Release(s) PROVE WatchInv'
  BY <1>23 DEF Release, SupGoto
<1>24. ASSUME NEW s \in Clients, Kill(s) PROVE WatchInv'
  BY <1>24 DEF Kill, SupGoto, Alive
<1>25. CASE BringUp
  BY <1>25 DEF BringUp
<1>26. CASE AgentExit
  BY <1>26 DEF AgentExit
<1>27. CASE Crash
  BY <1>27 DEF Crash
<1>28. CASE ForegroundEnds
  BY <1>28 DEF ForegroundEnds
<1>29. CASE UNCHANGED vars
  BY <1>29 DEF vars, client, supervisor
<1> QED BY <1>1, <1>2, <1>3, <1>4, <1>5, <1>6, <1>7, <1>8, <1>9, <1>10,
       <1>11, <1>12, <1>13, <1>14, <1>15, <1>16, <1>17, <1>18, <1>19,
       <1>20, <1>21, <1>22, <1>23, <1>24, <1>25, <1>26, <1>27, <1>28,
       <1>29
       DEF Next, StartStep, StopStep, AttachStep, SupStep

(* The lock and the container stay with the supervisor that has them.     *)
LEMMA LockStep ==
    ASSUME TypeOK, LockInv, [Next]_vars
    PROVE  LockInv'
<1> USE DaemonConstants DEF TypeOK, Boxes, SupPhases, SupEnded, None,
          Foreground, NoCode, LockInv, Holding, BeforeSpawn, client,
          supervisor
<1>1. ASSUME NEW c \in Clients, Begin(c) PROVE LockInv'
  BY <1>1 DEF Begin, Goto, Exit
<1>2. ASSUME NEW c \in Clients, Look(c) PROVE LockInv'
  BY <1>2 DEF Look, Goto, Exit, Listed, HasSession
<1>3. ASSUME NEW c \in Clients, Approve(c) PROVE LockInv'
  BY <1>3 DEF Approve, Goto, Exit
<1>4. ASSUME NEW c \in Clients, Clear(c) PROVE LockInv'
  BY <1>4 DEF Clear, Goto
<1>5. ASSUME NEW c \in Clients, Poll(c) PROVE LockInv'
  BY <1>5 DEF Poll, Goto, Listed, HasSession, LastPoll
<1>6. ASSUME NEW c \in Clients, Check(c) PROVE LockInv'
  BY <1>6 DEF Check, Goto, Exit
<1>7. ASSUME NEW c \in Clients, TearDown(c) PROVE LockInv'
  BY <1>7 DEF TearDown, Goto, Term, Alive, NoBox
<1>8. ASSUME NEW c \in Clients, StopLook(c) PROVE LockInv'
  BY <1>8 DEF StopLook, Goto, Exit, EndStop, Listed
<1>9. ASSUME NEW c \in Clients, Stop(c) PROVE LockInv'
  BY <1>9 DEF Stop, Goto, Term, Alive
<1>10. ASSUME NEW c \in Clients, StopWait(c) PROVE LockInv'
  BY <1>10 DEF StopWait, Goto, Exit, EndStop, Listed
<1>11. ASSUME NEW c \in Clients, DockerStop(c) PROVE LockInv'
  <2>1. box'.by = box.by /\ (box'.up => box.up)
    BY <1>11 DEF DockerStop
  <2>2. box'.restarts = box.restarts /\ box'.session = box.session
    BY <1>11 DEF DockerStop
  <2>3. pc[c] = "dockerStop" /\ pc' \in {[pc EXCEPT ![c] = "dockerRm"], [pc EXCEPT ![c] = "dockerRmOnly"]}
    BY <1>11 DEF DockerStop, Goto
  <2>4. UNCHANGED <<cmd, told, misled, seen, joined, waited, code, supervisor, marker, lock>>
    BY <1>11 DEF DockerStop
  <2> QED BY <2>1, <2>2, <2>3, <2>4
<1>12. ASSUME NEW c \in Clients, DockerRm(c) PROVE LockInv'
  BY <1>12 DEF DockerRm, Goto, Exit, EndStop, Alive, NoBox
<1>13. ASSUME NEW c \in Clients, AttachLook(c) PROVE LockInv'
  BY <1>13 DEF AttachLook, Goto, Exit, Listed
<1>14. ASSUME NEW c \in Clients, Attach(c) PROVE LockInv'
  BY <1>14 DEF Attach, Goto, HasSession
<1>15. ASSUME NEW c \in Clients, Detach(c) PROVE LockInv'
  BY <1>15 DEF Detach, Goto
<1>16. ASSUME NEW c \in Clients, Probe(c) PROVE LockInv'
  BY <1>16 DEF Probe, Goto, Exit, HasSession
<1>17. ASSUME NEW c \in Clients, Reprobe(c) PROVE LockInv'
  BY <1>17 DEF Reprobe, Goto, Exit, HasSession
<1>18. ASSUME NEW s \in Clients, SupBegin(s) PROVE LockInv'
  BY <1>18 DEF SupBegin, SupGoto, Refuse, Alive
<1>19. ASSUME NEW s \in Clients, Prepare(s) PROVE LockInv'
  BY <1>19 DEF Prepare, SupGoto, Refuse, NoBox
<1>20. ASSUME NEW s \in Clients, Run(s) PROVE LockInv'
  BY <1>20 DEF Run, SupGoto, Refuse, NoBox
<1>21. ASSUME NEW s \in Clients, Watch(s) PROVE LockInv'
  BY <1>21 DEF Watch, SupGoto, HasSession, Listed, EndsWatch
<1>22. ASSUME NEW s \in Clients, CleanBox(s) PROVE LockInv'
  BY <1>22 DEF CleanBox, SupGoto, NoBox
<1>23. ASSUME NEW s \in Clients, Release(s) PROVE LockInv'
  BY <1>23 DEF Release, SupGoto
<1>24. ASSUME NEW s \in Clients, Kill(s) PROVE LockInv'
  BY <1>24 DEF Kill, SupGoto, Alive
<1>25. CASE BringUp
  BY <1>25 DEF BringUp
<1>26. CASE AgentExit
  BY <1>26 DEF AgentExit
<1>27. CASE Crash
  BY <1>27 DEF Crash
<1>28. CASE ForegroundEnds
  BY <1>28 DEF ForegroundEnds
<1>29. CASE UNCHANGED vars
  BY <1>29 DEF vars, client, supervisor
<1> QED BY <1>1, <1>2, <1>3, <1>4, <1>5, <1>6, <1>7, <1>8, <1>9, <1>10,
       <1>11, <1>12, <1>13, <1>14, <1>15, <1>16, <1>17, <1>18, <1>19,
       <1>20, <1>21, <1>22, <1>23, <1>24, <1>25, <1>26, <1>27, <1>28,
       <1>29
       DEF Next, StartStep, StopStep, AttachStep, SupStep

(* Markers tell of refusals, and code 6 of markers.                       *)
LEMMA MarkerStep ==
    ASSUME TypeOK, LockInv, MarkerInv, SixMeansRefused, [Next]_vars
    PROVE  (MarkerInv /\ SixMeansRefused)'
<1> USE DaemonConstants DEF TypeOK, Boxes, SupPhases, SupEnded, None,
          Foreground, NoCode, LockInv, Holding, BeforeSpawn, MarkerInv,
          AfterRefusal, SixMeansRefused, client, supervisor
<1>1. ASSUME NEW c \in Clients, Begin(c) PROVE (MarkerInv /\ SixMeansRefused)'
  BY <1>1 DEF Begin, Goto, Exit
<1>2. ASSUME NEW c \in Clients, Look(c) PROVE (MarkerInv /\ SixMeansRefused)'
  BY <1>2 DEF Look, Goto, Exit, Listed, HasSession
<1>3. ASSUME NEW c \in Clients, Approve(c) PROVE (MarkerInv /\ SixMeansRefused)'
  <2>1. sup[c] = "off" /\ box.by # c
    BY <1>3 DEF Approve
  <2>2. CASE Goto(c, "clear") /\ sup' = [sup EXCEPT ![c] = "begin"] /\ UNCHANGED code
    BY <1>3, <2>1, <2>2 DEF Approve, Goto
  <2>3. CASE Exit(c, 6) /\ UNCHANGED sup
    BY <1>3, <2>1, <2>3 DEF Approve, Goto, Exit
  <2> QED BY <1>3, <2>2, <2>3 DEF Approve
<1>4. ASSUME NEW c \in Clients, Clear(c) PROVE (MarkerInv /\ SixMeansRefused)'
  BY <1>4 DEF Clear, Goto
<1>5. ASSUME NEW c \in Clients, Poll(c) PROVE (MarkerInv /\ SixMeansRefused)'
  BY <1>5 DEF Poll, Goto, Listed, HasSession, LastPoll
<1>6. ASSUME NEW c \in Clients, Check(c) PROVE (MarkerInv /\ SixMeansRefused)'
  BY <1>6 DEF Check, Goto, Exit
<1>7. ASSUME NEW c \in Clients, TearDown(c) PROVE (MarkerInv /\ SixMeansRefused)'
  BY <1>7 DEF TearDown, Goto, Term, Alive, NoBox
<1>8. ASSUME NEW c \in Clients, StopLook(c) PROVE (MarkerInv /\ SixMeansRefused)'
  BY <1>8 DEF StopLook, Goto, Exit, EndStop, Listed
<1>9. ASSUME NEW c \in Clients, Stop(c) PROVE (MarkerInv /\ SixMeansRefused)'
  BY <1>9 DEF Stop, Goto, Term, Alive
<1>10. ASSUME NEW c \in Clients, StopWait(c) PROVE (MarkerInv /\ SixMeansRefused)'
  BY <1>10 DEF StopWait, Goto, Exit, EndStop, Listed
<1>11. ASSUME NEW c \in Clients, DockerStop(c) PROVE (MarkerInv /\ SixMeansRefused)'
  <2>1. box'.by = box.by /\ (box'.up => box.up)
    BY <1>11 DEF DockerStop
  <2>2. box'.restarts = box.restarts /\ box'.session = box.session
    BY <1>11 DEF DockerStop
  <2>3. pc[c] = "dockerStop" /\ pc' \in {[pc EXCEPT ![c] = "dockerRm"], [pc EXCEPT ![c] = "dockerRmOnly"]}
    BY <1>11 DEF DockerStop, Goto
  <2>4. UNCHANGED <<cmd, told, misled, seen, joined, waited, code, supervisor, marker, lock>>
    BY <1>11 DEF DockerStop
  <2> QED BY <2>1, <2>2, <2>3, <2>4
<1>12. ASSUME NEW c \in Clients, DockerRm(c) PROVE (MarkerInv /\ SixMeansRefused)'
  BY <1>12 DEF DockerRm, Goto, Exit, EndStop, Alive, NoBox
<1>13. ASSUME NEW c \in Clients, AttachLook(c) PROVE (MarkerInv /\ SixMeansRefused)'
  BY <1>13 DEF AttachLook, Goto, Exit, Listed
<1>14. ASSUME NEW c \in Clients, Attach(c) PROVE (MarkerInv /\ SixMeansRefused)'
  BY <1>14 DEF Attach, Goto, HasSession
<1>15. ASSUME NEW c \in Clients, Detach(c) PROVE (MarkerInv /\ SixMeansRefused)'
  BY <1>15 DEF Detach, Goto
<1>16. ASSUME NEW c \in Clients, Probe(c) PROVE (MarkerInv /\ SixMeansRefused)'
  BY <1>16 DEF Probe, Goto, Exit, HasSession
<1>17. ASSUME NEW c \in Clients, Reprobe(c) PROVE (MarkerInv /\ SixMeansRefused)'
  BY <1>17 DEF Reprobe, Goto, Exit, HasSession
<1>18. ASSUME NEW s \in Clients, SupBegin(s) PROVE (MarkerInv /\ SixMeansRefused)'
  BY <1>18 DEF SupBegin, SupGoto, Refuse, Alive
<1>19. ASSUME NEW s \in Clients, Prepare(s) PROVE (MarkerInv /\ SixMeansRefused)'
  BY <1>19 DEF Prepare, SupGoto, Refuse, NoBox
<1>20. ASSUME NEW s \in Clients, Run(s) PROVE (MarkerInv /\ SixMeansRefused)'
  BY <1>20 DEF Run, SupGoto, Refuse, NoBox
<1>21. ASSUME NEW s \in Clients, Watch(s) PROVE (MarkerInv /\ SixMeansRefused)'
  BY <1>21 DEF Watch, SupGoto, HasSession, Listed, EndsWatch
<1>22. ASSUME NEW s \in Clients, CleanBox(s) PROVE (MarkerInv /\ SixMeansRefused)'
  BY <1>22 DEF CleanBox, SupGoto, NoBox
<1>23. ASSUME NEW s \in Clients, Release(s) PROVE (MarkerInv /\ SixMeansRefused)'
  BY <1>23 DEF Release, SupGoto
<1>24. ASSUME NEW s \in Clients, Kill(s) PROVE (MarkerInv /\ SixMeansRefused)'
  BY <1>24 DEF Kill, SupGoto, Alive
<1>25. CASE BringUp
  BY <1>25 DEF BringUp
<1>26. CASE AgentExit
  BY <1>26 DEF AgentExit
<1>27. CASE Crash
  BY <1>27 DEF Crash
<1>28. CASE ForegroundEnds
  BY <1>28 DEF ForegroundEnds
<1>29. CASE UNCHANGED vars
  BY <1>29 DEF vars, client, supervisor
<1> QED BY <1>1, <1>2, <1>3, <1>4, <1>5, <1>6, <1>7, <1>8, <1>9, <1>10,
       <1>11, <1>12, <1>13, <1>14, <1>15, <1>16, <1>17, <1>18, <1>19,
       <1>20, <1>21, <1>22, <1>23, <1>24, <1>25, <1>26, <1>27, <1>28,
       <1>29
       DEF Next, StartStep, StopStep, AttachStep, SupStep

(* A container that has been found has been run.                          *)
LEMMA SeenStep ==
    ASSUME TypeOK, LockInv, SeenInv, [Next]_vars
    PROVE  SeenInv'
<1> USE DaemonConstants DEF TypeOK, Boxes, SupPhases, SupEnded, None,
          Foreground, NoCode, LockInv, BeforeSpawn, SeenInv, AfterRun,
          client, supervisor
<1>1. ASSUME NEW c \in Clients, Begin(c) PROVE SeenInv'
  BY <1>1 DEF Begin, Goto, Exit
<1>2. ASSUME NEW c \in Clients, Look(c) PROVE SeenInv'
  BY <1>2 DEF Look, Goto, Exit, Listed, HasSession
<1>3. ASSUME NEW c \in Clients, Approve(c) PROVE SeenInv'
  BY <1>3 DEF Approve, Goto, Exit
<1>4. ASSUME NEW c \in Clients, Clear(c) PROVE SeenInv'
  BY <1>4 DEF Clear, Goto
<1>5. ASSUME NEW c \in Clients, Poll(c) PROVE SeenInv'
  BY <1>5 DEF Poll, Goto, Listed, HasSession, LastPoll
<1>6. ASSUME NEW c \in Clients, Check(c) PROVE SeenInv'
  BY <1>6 DEF Check, Goto, Exit
<1>7. ASSUME NEW c \in Clients, TearDown(c) PROVE SeenInv'
  BY <1>7 DEF TearDown, Goto, Term, Alive, NoBox
<1>8. ASSUME NEW c \in Clients, StopLook(c) PROVE SeenInv'
  BY <1>8 DEF StopLook, Goto, Exit, EndStop, Listed
<1>9. ASSUME NEW c \in Clients, Stop(c) PROVE SeenInv'
  BY <1>9 DEF Stop, Goto, Term, Alive
<1>10. ASSUME NEW c \in Clients, StopWait(c) PROVE SeenInv'
  BY <1>10 DEF StopWait, Goto, Exit, EndStop, Listed
<1>11. ASSUME NEW c \in Clients, DockerStop(c) PROVE SeenInv'
  <2>1. box'.by = box.by /\ (box'.up => box.up)
    BY <1>11 DEF DockerStop
  <2>2. box'.restarts = box.restarts /\ box'.session = box.session
    BY <1>11 DEF DockerStop
  <2>3. pc[c] = "dockerStop" /\ pc' \in {[pc EXCEPT ![c] = "dockerRm"], [pc EXCEPT ![c] = "dockerRmOnly"]}
    BY <1>11 DEF DockerStop, Goto
  <2>4. UNCHANGED <<cmd, told, misled, seen, joined, waited, code, supervisor, marker, lock>>
    BY <1>11 DEF DockerStop
  <2> QED BY <2>1, <2>2, <2>3, <2>4
<1>12. ASSUME NEW c \in Clients, DockerRm(c) PROVE SeenInv'
  BY <1>12 DEF DockerRm, Goto, Exit, EndStop, Alive, NoBox
<1>13. ASSUME NEW c \in Clients, AttachLook(c) PROVE SeenInv'
  BY <1>13 DEF AttachLook, Goto, Exit, Listed
<1>14. ASSUME NEW c \in Clients, Attach(c) PROVE SeenInv'
  BY <1>14 DEF Attach, Goto, HasSession
<1>15. ASSUME NEW c \in Clients, Detach(c) PROVE SeenInv'
  BY <1>15 DEF Detach, Goto
<1>16. ASSUME NEW c \in Clients, Probe(c) PROVE SeenInv'
  BY <1>16 DEF Probe, Goto, Exit, HasSession
<1>17. ASSUME NEW c \in Clients, Reprobe(c) PROVE SeenInv'
  BY <1>17 DEF Reprobe, Goto, Exit, HasSession
<1>18. ASSUME NEW s \in Clients, SupBegin(s) PROVE SeenInv'
  BY <1>18 DEF SupBegin, SupGoto, Refuse, Alive
<1>19. ASSUME NEW s \in Clients, Prepare(s) PROVE SeenInv'
  BY <1>19 DEF Prepare, SupGoto, Refuse, NoBox
<1>20. ASSUME NEW s \in Clients, Run(s) PROVE SeenInv'
  BY <1>20 DEF Run, SupGoto, Refuse, NoBox
<1>21. ASSUME NEW s \in Clients, Watch(s) PROVE SeenInv'
  BY <1>21 DEF Watch, SupGoto, HasSession, Listed, EndsWatch
<1>22. ASSUME NEW s \in Clients, CleanBox(s) PROVE SeenInv'
  BY <1>22 DEF CleanBox, SupGoto, NoBox
<1>23. ASSUME NEW s \in Clients, Release(s) PROVE SeenInv'
  BY <1>23 DEF Release, SupGoto
<1>24. ASSUME NEW s \in Clients, Kill(s) PROVE SeenInv'
  BY <1>24 DEF Kill, SupGoto, Alive
<1>25. CASE BringUp
  BY <1>25 DEF BringUp
<1>26. CASE AgentExit
  BY <1>26 DEF AgentExit
<1>27. CASE Crash
  BY <1>27 DEF Crash
<1>28. CASE ForegroundEnds
  BY <1>28 DEF ForegroundEnds
<1>29. CASE UNCHANGED vars
  BY <1>29 DEF vars, client, supervisor
<1> QED BY <1>1, <1>2, <1>3, <1>4, <1>5, <1>6, <1>7, <1>8, <1>9, <1>10,
       <1>11, <1>12, <1>13, <1>14, <1>15, <1>16, <1>17, <1>18, <1>19,
       <1>20, <1>21, <1>22, <1>23, <1>24, <1>25, <1>26, <1>27, <1>28,
       <1>29
       DEF Next, StartStep, StopStep, AttachStep, SupStep

(* Steps of --stop are the only ones of a --stop client.                   *)
LEMMA CmdStep ==
    ASSUME TypeOK, CmdInv, [Next]_vars
    PROVE  CmdInv'
<1> USE DaemonConstants DEF TypeOK, CmdInv, client, supervisor
<1>1. ASSUME NEW c \in Clients, Begin(c) PROVE CmdInv'
  BY <1>1 DEF Begin, Goto, Exit
<1>2. ASSUME NEW c \in Clients, Look(c) PROVE CmdInv'
  BY <1>2 DEF Look, Goto, Exit, Listed, HasSession
<1>3. ASSUME NEW c \in Clients, Approve(c) PROVE CmdInv'
  BY <1>3 DEF Approve, Goto, Exit
<1>4. ASSUME NEW c \in Clients, Clear(c) PROVE CmdInv'
  BY <1>4 DEF Clear, Goto
<1>5. ASSUME NEW c \in Clients, Poll(c) PROVE CmdInv'
  BY <1>5 DEF Poll, Goto, Listed, HasSession, LastPoll, NoCode
<1>6. ASSUME NEW c \in Clients, Check(c) PROVE CmdInv'
  BY <1>6 DEF Check, Goto, Exit
<1>7. ASSUME NEW c \in Clients, TearDown(c) PROVE CmdInv'
  BY <1>7 DEF TearDown, Goto, Term, Alive, SupEnded, NoBox
<1>8. ASSUME NEW c \in Clients, StopLook(c) PROVE CmdInv'
  BY <1>8 DEF StopLook, Goto, Exit, EndStop, Listed
<1>9. ASSUME NEW c \in Clients, Stop(c) PROVE CmdInv'
  BY <1>9 DEF Stop, Goto, Term, Alive, SupEnded
<1>10. ASSUME NEW c \in Clients, StopWait(c) PROVE CmdInv'
  BY <1>10 DEF StopWait, Goto, Exit, EndStop, Listed
<1>11. ASSUME NEW c \in Clients, DockerStop(c) PROVE CmdInv'
  BY <1>11 DEF DockerStop, Goto
<1>12. ASSUME NEW c \in Clients, DockerRm(c) PROVE CmdInv'
  BY <1>12 DEF DockerRm, Goto, Exit, EndStop, Alive, SupEnded, NoBox
<1>13. ASSUME NEW c \in Clients, AttachLook(c) PROVE CmdInv'
  BY <1>13 DEF AttachLook, Goto, Exit, Listed
<1>14. ASSUME NEW c \in Clients, Attach(c) PROVE CmdInv'
  BY <1>14 DEF Attach, Goto, HasSession
<1>15. ASSUME NEW c \in Clients, Detach(c) PROVE CmdInv'
  BY <1>15 DEF Detach, Goto
<1>16. ASSUME NEW c \in Clients, Probe(c) PROVE CmdInv'
  BY <1>16 DEF Probe, Goto, Exit, HasSession
<1>17. ASSUME NEW c \in Clients, Reprobe(c) PROVE CmdInv'
  BY <1>17 DEF Reprobe, Goto, Exit, HasSession
<1>18. ASSUME NEW s \in Clients, SupBegin(s) PROVE CmdInv'
  BY <1>18 DEF SupBegin, SupGoto, Refuse, Alive, SupEnded
<1>19. ASSUME NEW s \in Clients, Prepare(s) PROVE CmdInv'
  BY <1>19 DEF Prepare, SupGoto, Refuse, NoBox
<1>20. ASSUME NEW s \in Clients, Run(s) PROVE CmdInv'
  BY <1>20 DEF Run, SupGoto, Refuse, NoBox
<1>21. ASSUME NEW s \in Clients, Watch(s) PROVE CmdInv'
  BY <1>21 DEF Watch, SupGoto, HasSession, Listed, EndsWatch
<1>22. ASSUME NEW s \in Clients, CleanBox(s) PROVE CmdInv'
  BY <1>22 DEF CleanBox, SupGoto, NoBox
<1>23. ASSUME NEW s \in Clients, Release(s) PROVE CmdInv'
  BY <1>23 DEF Release, SupGoto
<1>24. ASSUME NEW s \in Clients, Kill(s) PROVE CmdInv'
  BY <1>24 DEF Kill, SupGoto, Alive, SupEnded
<1>25. CASE BringUp
  BY <1>25 DEF BringUp
<1>26. CASE AgentExit
  BY <1>26 DEF AgentExit
<1>27. CASE Crash
  BY <1>27 DEF Crash
<1>28. CASE ForegroundEnds
  BY <1>28 DEF ForegroundEnds
<1>29. CASE UNCHANGED vars
  BY <1>29 DEF vars, client, supervisor
<1> QED BY <1>1, <1>2, <1>3, <1>4, <1>5, <1>6, <1>7, <1>8, <1>9, <1>10,
       <1>11, <1>12, <1>13, <1>14, <1>15, <1>16, <1>17, <1>18, <1>19,
       <1>20, <1>21, <1>22, <1>23, <1>24, <1>25, <1>26, <1>27, <1>28,
       <1>29
       DEF Next, StartStep, StopStep, AttachStep, SupStep

(* A container that --stop has ended is not run again.                    *)
LEMMA StoppedStep ==
    ASSUME TypeOK, SeenInv, CmdInv, MarkerInv, StopZeroMeansStopped, [Next]_vars
    PROVE  StopZeroMeansStopped'
<1> USE DaemonConstants DEF TypeOK, Boxes, SupPhases, SupEnded, None,
          Foreground, NoCode, SeenInv, AfterRun, CmdInv, MarkerInv,
          StopZeroMeansStopped, client, supervisor
<1>1. ASSUME NEW c \in Clients, Begin(c) PROVE StopZeroMeansStopped'
  BY <1>1 DEF Begin, Goto, Exit
<1>2. ASSUME NEW c \in Clients, Look(c) PROVE StopZeroMeansStopped'
  BY <1>2 DEF Look, Goto, Exit, Listed, HasSession
<1>3. ASSUME NEW c \in Clients, Approve(c) PROVE StopZeroMeansStopped'
  BY <1>3 DEF Approve, Goto, Exit
<1>4. ASSUME NEW c \in Clients, Clear(c) PROVE StopZeroMeansStopped'
  BY <1>4 DEF Clear, Goto
<1>5. ASSUME NEW c \in Clients, Poll(c) PROVE StopZeroMeansStopped'
  BY <1>5 DEF Poll, Goto, Listed, HasSession, LastPoll
<1>6. ASSUME NEW c \in Clients, Check(c) PROVE StopZeroMeansStopped'
  BY <1>6 DEF Check, Goto, Exit
<1>7. ASSUME NEW c \in Clients, TearDown(c) PROVE StopZeroMeansStopped'
  BY <1>7 DEF TearDown, Goto, Term, Alive, NoBox
<1>8. ASSUME NEW c \in Clients, StopLook(c) PROVE StopZeroMeansStopped'
  BY <1>8 DEF StopLook, Goto, Exit, EndStop, Listed
<1>9. ASSUME NEW c \in Clients, Stop(c) PROVE StopZeroMeansStopped'
  BY <1>9 DEF Stop, Goto, Term, Alive
<1>10. ASSUME NEW c \in Clients, StopWait(c) PROVE StopZeroMeansStopped'
  BY <1>10 DEF StopWait, Goto, Exit, EndStop, Listed
<1>11. ASSUME NEW c \in Clients, DockerStop(c) PROVE StopZeroMeansStopped'
  <2>1. box'.by = box.by /\ (box'.up => box.up)
    BY <1>11 DEF DockerStop
  <2>2. box'.restarts = box.restarts /\ box'.session = box.session
    BY <1>11 DEF DockerStop
  <2>3. pc[c] = "dockerStop" /\ pc' \in {[pc EXCEPT ![c] = "dockerRm"], [pc EXCEPT ![c] = "dockerRmOnly"]}
    BY <1>11 DEF DockerStop, Goto
  <2>4. UNCHANGED <<cmd, told, misled, seen, joined, waited, code, supervisor, marker, lock>>
    BY <1>11 DEF DockerStop
  <2> QED BY <2>1, <2>2, <2>3, <2>4
<1>12. ASSUME NEW c \in Clients, DockerRm(c) PROVE StopZeroMeansStopped'
  BY <1>12 DEF DockerRm, Goto, Exit, EndStop, Alive, NoBox
<1>13. ASSUME NEW c \in Clients, AttachLook(c) PROVE StopZeroMeansStopped'
  BY <1>13 DEF AttachLook, Goto, Exit, Listed
<1>14. ASSUME NEW c \in Clients, Attach(c) PROVE StopZeroMeansStopped'
  BY <1>14 DEF Attach, Goto, HasSession
<1>15. ASSUME NEW c \in Clients, Detach(c) PROVE StopZeroMeansStopped'
  BY <1>15 DEF Detach, Goto
<1>16. ASSUME NEW c \in Clients, Probe(c) PROVE StopZeroMeansStopped'
  BY <1>16 DEF Probe, Goto, Exit, HasSession
<1>17. ASSUME NEW c \in Clients, Reprobe(c) PROVE StopZeroMeansStopped'
  BY <1>17 DEF Reprobe, Goto, Exit, HasSession
<1>18. ASSUME NEW s \in Clients, SupBegin(s) PROVE StopZeroMeansStopped'
  BY <1>18 DEF SupBegin, SupGoto, Refuse, Alive
<1>19. ASSUME NEW s \in Clients, Prepare(s) PROVE StopZeroMeansStopped'
  BY <1>19 DEF Prepare, SupGoto, Refuse, NoBox
<1>20. ASSUME NEW s \in Clients, Run(s) PROVE StopZeroMeansStopped'
  BY <1>20 DEF Run, SupGoto, Refuse, NoBox
<1>21. ASSUME NEW s \in Clients, Watch(s) PROVE StopZeroMeansStopped'
  BY <1>21 DEF Watch, SupGoto, HasSession, Listed, EndsWatch
<1>22. ASSUME NEW s \in Clients, CleanBox(s) PROVE StopZeroMeansStopped'
  BY <1>22 DEF CleanBox, SupGoto, NoBox
<1>23. ASSUME NEW s \in Clients, Release(s) PROVE StopZeroMeansStopped'
  BY <1>23 DEF Release, SupGoto
<1>24. ASSUME NEW s \in Clients, Kill(s) PROVE StopZeroMeansStopped'
  BY <1>24 DEF Kill, SupGoto, Alive
<1>25. CASE BringUp
  BY <1>25 DEF BringUp
<1>26. CASE AgentExit
  BY <1>26 DEF AgentExit
<1>27. CASE Crash
  BY <1>27 DEF Crash
<1>28. CASE ForegroundEnds
  BY <1>28 DEF ForegroundEnds
<1>29. CASE UNCHANGED vars
  BY <1>29 DEF vars, client, supervisor
<1> QED BY <1>1, <1>2, <1>3, <1>4, <1>5, <1>6, <1>7, <1>8, <1>9, <1>10,
       <1>11, <1>12, <1>13, <1>14, <1>15, <1>16, <1>17, <1>18, <1>19,
       <1>20, <1>21, <1>22, <1>23, <1>24, <1>25, <1>26, <1>27, <1>28,
       <1>29
       DEF Next, StartStep, StopStep, AttachStep, SupStep

(* A session that --attach has joined stays the one of its run.            *)
LEMMA JoinedStep ==
    ASSUME TypeOK, LockInv, SeenInv, MarkerInv, JoinedInv, [Next]_vars
    PROVE  JoinedInv'
<1> USE DaemonConstants DEF TypeOK, Boxes, SupPhases, SupEnded, None,
          Foreground, NoCode, SeenInv, AfterRun, MarkerInv, JoinedInv,
          client, supervisor
<1>1. ASSUME NEW c \in Clients, Begin(c) PROVE JoinedInv'
  BY <1>1 DEF Begin, Goto, Exit
<1>2. ASSUME NEW c \in Clients, Look(c) PROVE JoinedInv'
  BY <1>2 DEF Look, Goto, Exit, Listed, HasSession
<1>3. ASSUME NEW c \in Clients, Approve(c) PROVE JoinedInv'
  BY <1>3 DEF Approve, Goto, Exit
<1>4. ASSUME NEW c \in Clients, Clear(c) PROVE JoinedInv'
  BY <1>4 DEF Clear, Goto
<1>5. ASSUME NEW c \in Clients, Poll(c) PROVE JoinedInv'
  BY <1>5 DEF Poll, Goto, Listed, HasSession, LastPoll
<1>6. ASSUME NEW c \in Clients, Check(c) PROVE JoinedInv'
  BY <1>6 DEF Check, Goto, Exit
<1>7. ASSUME NEW c \in Clients, TearDown(c) PROVE JoinedInv'
  BY <1>7 DEF TearDown, Goto, Term, Alive, NoBox
<1>8. ASSUME NEW c \in Clients, StopLook(c) PROVE JoinedInv'
  BY <1>8 DEF StopLook, Goto, Exit, EndStop, Listed
<1>9. ASSUME NEW c \in Clients, Stop(c) PROVE JoinedInv'
  BY <1>9 DEF Stop, Goto, Term, Alive
<1>10. ASSUME NEW c \in Clients, StopWait(c) PROVE JoinedInv'
  BY <1>10 DEF StopWait, Goto, Exit, EndStop, Listed
<1>11. ASSUME NEW c \in Clients, DockerStop(c) PROVE JoinedInv'
  <2>1. box'.by = box.by /\ (box'.up => box.up)
    BY <1>11 DEF DockerStop
  <2>2. box'.restarts = box.restarts /\ box'.session = box.session
    BY <1>11 DEF DockerStop
  <2>3. pc[c] = "dockerStop" /\ pc' \in {[pc EXCEPT ![c] = "dockerRm"], [pc EXCEPT ![c] = "dockerRmOnly"]}
    BY <1>11 DEF DockerStop, Goto
  <2>4. UNCHANGED <<cmd, told, misled, seen, joined, waited, code, supervisor, marker, lock>>
    BY <1>11 DEF DockerStop
  <2> QED BY <2>1, <2>2, <2>3, <2>4
<1>12. ASSUME NEW c \in Clients, DockerRm(c) PROVE JoinedInv'
  BY <1>12 DEF DockerRm, Goto, Exit, EndStop, Alive, NoBox
<1>13. ASSUME NEW c \in Clients, AttachLook(c) PROVE JoinedInv'
  BY <1>13 DEF AttachLook, Goto, Exit, Listed
<1>14. ASSUME NEW c \in Clients, Attach(c) PROVE JoinedInv'
  <2>1. pc[c] = "attach" /\ joined[c][1] = None
    BY <1>14 DEF Attach
  <2>2. UNCHANGED <<seen, box>>
    BY <1>14 DEF Attach
  <2>3. ASSUME NEW d \in Clients, joined'[d][1] # None, d # c
        PROVE  joined'[d] = joined[d] /\ pc'[d] = pc[d]
    BY <1>14, <2>3 DEF Attach, Goto
  <2>4. ASSUME joined'[c][1] # None
        PROVE  HasSession(seen[c]) /\ joined'[c] = <<box.by, box.restarts>> /\ pc'[c] = "attached"
    BY <1>14, <2>1, <2>4 DEF Attach, Goto
  <2>5. box.restarts \in Nat
    OBVIOUS
  <2> QED BY <2>2, <2>3, <2>4, <2>5 DEF HasSession
<1>15. ASSUME NEW c \in Clients, Detach(c) PROVE JoinedInv'
  BY <1>15 DEF Detach, Goto
<1>16. ASSUME NEW c \in Clients, Probe(c) PROVE JoinedInv'
  BY <1>16 DEF Probe, Goto, Exit, HasSession
<1>17. ASSUME NEW c \in Clients, Reprobe(c) PROVE JoinedInv'
  BY <1>17 DEF Reprobe, Goto, Exit, HasSession
<1>18. ASSUME NEW s \in Clients, SupBegin(s) PROVE JoinedInv'
  BY <1>18 DEF SupBegin, SupGoto, Refuse, Alive
<1>19. ASSUME NEW s \in Clients, Prepare(s) PROVE JoinedInv'
  BY <1>19 DEF Prepare, SupGoto, Refuse, NoBox
<1>20. ASSUME NEW s \in Clients, Run(s) PROVE JoinedInv'
  BY <1>20 DEF Run, SupGoto, Refuse, NoBox
<1>21. ASSUME NEW s \in Clients, Watch(s) PROVE JoinedInv'
  BY <1>21 DEF Watch, SupGoto, HasSession, Listed, EndsWatch
<1>22. ASSUME NEW s \in Clients, CleanBox(s) PROVE JoinedInv'
  BY <1>22 DEF CleanBox, SupGoto, NoBox
<1>23. ASSUME NEW s \in Clients, Release(s) PROVE JoinedInv'
  BY <1>23 DEF Release, SupGoto
<1>24. ASSUME NEW s \in Clients, Kill(s) PROVE JoinedInv'
  BY <1>24 DEF Kill, SupGoto, Alive
<1>25. CASE BringUp
  BY <1>25 DEF BringUp
<1>26. CASE AgentExit
  BY <1>26 DEF AgentExit
<1>27. CASE Crash
  BY <1>27 DEF Crash
<1>28. CASE ForegroundEnds
  BY <1>28 DEF ForegroundEnds
<1>29. CASE UNCHANGED vars
  BY <1>29 DEF vars, client, supervisor
<1> QED BY <1>1, <1>2, <1>3, <1>4, <1>5, <1>6, <1>7, <1>8, <1>9, <1>10,
       <1>11, <1>12, <1>13, <1>14, <1>15, <1>16, <1>17, <1>18, <1>19,
       <1>20, <1>21, <1>22, <1>23, <1>24, <1>25, <1>26, <1>27, <1>28,
       <1>29
       DEF Next, StartStep, StopStep, AttachStep, SupStep

(* Nobody takes it for ended while it is live.                            *)
LEMMA LiveStep ==
    ASSUME TypeOK, SeenInv, MarkerInv, JoinedInv, WatchInv, ReprobeInv,
           LiveIsNotCalledEnded, [Next]_vars
    PROVE  (ReprobeInv /\ LiveIsNotCalledEnded)'
<1> USE DaemonConstants DEF TypeOK, Boxes, SupPhases, SupEnded, None,
          Foreground, NoCode, HasSession, SeenInv, AfterRun, MarkerInv,
          JoinedInv, WatchInv, ReprobeInv, LiveIsNotCalledEnded, client, supervisor
<1>1. ASSUME NEW c \in Clients, Begin(c) PROVE (ReprobeInv /\ LiveIsNotCalledEnded)'
  BY <1>1 DEF Begin, Goto, Exit
<1>2. ASSUME NEW c \in Clients, Look(c) PROVE (ReprobeInv /\ LiveIsNotCalledEnded)'
  BY <1>2 DEF Look, Goto, Exit, Listed
<1>3. ASSUME NEW c \in Clients, Approve(c) PROVE (ReprobeInv /\ LiveIsNotCalledEnded)'
  BY <1>3 DEF Approve, Goto, Exit
<1>4. ASSUME NEW c \in Clients, Clear(c) PROVE (ReprobeInv /\ LiveIsNotCalledEnded)'
  BY <1>4 DEF Clear, Goto
<1>5. ASSUME NEW c \in Clients, Poll(c) PROVE (ReprobeInv /\ LiveIsNotCalledEnded)'
  BY <1>5 DEF Poll, Goto, Listed, LastPoll
<1>6. ASSUME NEW c \in Clients, Check(c) PROVE (ReprobeInv /\ LiveIsNotCalledEnded)'
  BY <1>6 DEF Check, Goto, Exit
<1>7. ASSUME NEW c \in Clients, TearDown(c) PROVE (ReprobeInv /\ LiveIsNotCalledEnded)'
  BY <1>7 DEF TearDown, Goto, Term, Alive, NoBox
<1>8. ASSUME NEW c \in Clients, StopLook(c) PROVE (ReprobeInv /\ LiveIsNotCalledEnded)'
  BY <1>8 DEF StopLook, Goto, Exit, EndStop, Listed
<1>9. ASSUME NEW c \in Clients, Stop(c) PROVE (ReprobeInv /\ LiveIsNotCalledEnded)'
  BY <1>9 DEF Stop, Goto, Term, Alive
<1>10. ASSUME NEW c \in Clients, StopWait(c) PROVE (ReprobeInv /\ LiveIsNotCalledEnded)'
  BY <1>10 DEF StopWait, Goto, Exit, EndStop, Listed
<1>11. ASSUME NEW c \in Clients, DockerStop(c) PROVE (ReprobeInv /\ LiveIsNotCalledEnded)'
  <2>1. box'.by = box.by /\ (box'.up => box.up)
    BY <1>11 DEF DockerStop
  <2>2. box'.restarts = box.restarts /\ box'.session = box.session
    BY <1>11 DEF DockerStop
  <2>3. pc[c] = "dockerStop" /\ pc' \in {[pc EXCEPT ![c] = "dockerRm"], [pc EXCEPT ![c] = "dockerRmOnly"]}
    BY <1>11 DEF DockerStop, Goto
  <2>4. UNCHANGED <<cmd, told, misled, seen, joined, waited, code, supervisor, marker, lock>>
    BY <1>11 DEF DockerStop
  <2> QED BY <2>1, <2>2, <2>3, <2>4
<1>12. ASSUME NEW c \in Clients, DockerRm(c) PROVE (ReprobeInv /\ LiveIsNotCalledEnded)'
  BY <1>12 DEF DockerRm, Goto, Exit, EndStop, Alive, NoBox
<1>13. ASSUME NEW c \in Clients, AttachLook(c) PROVE (ReprobeInv /\ LiveIsNotCalledEnded)'
  BY <1>13 DEF AttachLook, Goto, Exit, Listed
<1>14. ASSUME NEW c \in Clients, Attach(c) PROVE (ReprobeInv /\ LiveIsNotCalledEnded)'
  BY <1>14 DEF Attach, Goto
<1>15. ASSUME NEW c \in Clients, Detach(c) PROVE (ReprobeInv /\ LiveIsNotCalledEnded)'
  BY <1>15 DEF Detach, Goto
<1>16. ASSUME NEW c \in Clients, Probe(c) PROVE (ReprobeInv /\ LiveIsNotCalledEnded)'
  BY <1>16 DEF Probe, Goto, Exit
<1>17. ASSUME NEW c \in Clients, Reprobe(c) PROVE (ReprobeInv /\ LiveIsNotCalledEnded)'
  BY <1>17 DEF Reprobe, Goto, Exit
<1>18. ASSUME NEW s \in Clients, SupBegin(s) PROVE (ReprobeInv /\ LiveIsNotCalledEnded)'
  BY <1>18 DEF SupBegin, SupGoto, Refuse, Alive
<1>19. ASSUME NEW s \in Clients, Prepare(s) PROVE (ReprobeInv /\ LiveIsNotCalledEnded)'
  BY <1>19 DEF Prepare, SupGoto, Refuse, NoBox
<1>20. ASSUME NEW s \in Clients, Run(s) PROVE (ReprobeInv /\ LiveIsNotCalledEnded)'
  BY <1>20 DEF Run, SupGoto, Refuse, NoBox
<1>21. ASSUME NEW s \in Clients, Watch(s) PROVE (ReprobeInv /\ LiveIsNotCalledEnded)'
  BY <1>21 DEF Watch, SupGoto, Listed, EndsWatch
<1>22. ASSUME NEW s \in Clients, CleanBox(s) PROVE (ReprobeInv /\ LiveIsNotCalledEnded)'
  BY <1>22 DEF CleanBox, SupGoto, NoBox
<1>23. ASSUME NEW s \in Clients, Release(s) PROVE (ReprobeInv /\ LiveIsNotCalledEnded)'
  BY <1>23 DEF Release, SupGoto
<1>24. ASSUME NEW s \in Clients, Kill(s) PROVE (ReprobeInv /\ LiveIsNotCalledEnded)'
  BY <1>24 DEF Kill, SupGoto, Alive
<1>25. CASE BringUp
  BY <1>25 DEF BringUp
<1>26. CASE AgentExit
  BY <1>26 DEF AgentExit
<1>27. CASE Crash
  BY <1>27 DEF Crash
<1>28. CASE ForegroundEnds
  BY <1>28 DEF ForegroundEnds
<1>29. CASE UNCHANGED vars
  BY <1>29 DEF vars, client, supervisor
<1> QED BY <1>1, <1>2, <1>3, <1>4, <1>5, <1>6, <1>7, <1>8, <1>9, <1>10,
       <1>11, <1>12, <1>13, <1>14, <1>15, <1>16, <1>17, <1>18, <1>19,
       <1>20, <1>21, <1>22, <1>23, <1>24, <1>25, <1>26, <1>27, <1>28,
       <1>29
       DEF Next, StartStep, StopStep, AttachStep, SupStep

LEMMA Initially == Init => IInv
<1> SUFFICES ASSUME Init PROVE IInv
  OBVIOUS
<1>1. NoBox \in Boxes /\ NoBox.by = None /\ ~NoBox.up
  BY BoxValues DEF NoBox
<1>2. 0 \in 0 .. MaxWait - 1 /\ 0 \in 0 .. CrashLoop
  BY DaemonConstants
<1>3. TypeOK
  BY <1>1, <1>2 DEF Init, TypeOK, SupPhases, SupEnded, NoCode
<1>4. LockInv /\ MarkerInv /\ SixMeansRefused
  BY <1>1, DaemonConstants DEF Init, LockInv, Holding, MarkerInv, SixMeansRefused, NoCode, None
<1>5. WatchInv /\ SeenInv /\ CmdInv /\ StopZeroMeansStopped
  BY <1>2 DEF Init, WatchInv, SeenInv, CmdInv, StopZeroMeansStopped
<1>6. JoinedInv /\ ReprobeInv /\ LiveIsNotCalledEnded
  BY DEF Init, JoinedInv, ReprobeInv, LiveIsNotCalledEnded
<1> QED BY <1>3, <1>4, <1>5, <1>6 DEF IInv

LEMMA Inductive == IInv /\ [Next]_vars => IInv'
BY TypeStep, WatchStep, LockStep, MarkerStep, SeenStep, CmdStep, StoppedStep,
   JoinedStep, LiveStep DEF IInv

(* Every reachable state, for any number of clients.                       *)
THEOREM Invariance == Spec => []IInv
BY Initially, Inductive, PTL DEF Spec

(* The variables keep their types.                                         *)
THEOREM TypeCorrect == Spec => []TypeOK
<1>1. IInv => TypeOK
  BY DEF IInv
<1> QED BY <1>1, Invariance, PTL

(* The container of a supervisor that is alive is covered by the lock: a   *)
(* second launch of the workspace cannot remove or replace it.             *)
THEOREM ContainerIsLocked == Spec => []LockCoversContainer
<1>1. IInv => LockCoversContainer
  BY DEF IInv, LockInv, Holding, LockCoversContainer, Alive, SupEnded, TypeOK, Boxes
<1> QED BY <1>1, Invariance, PTL

(* Code 6 of --start is told by its own supervisor or by the approvals.    *)
THEOREM SixIsRefused == Spec => []SixMeansRefused
<1>1. IInv => SixMeansRefused
  BY DEF IInv
<1> QED BY <1>1, Invariance, PTL

(* What --stop reports stopped does not run again.                         *)
THEOREM StoppedStays == Spec => []StopZeroMeansStopped
<1>1. IInv => StopZeroMeansStopped
  BY DEF IInv
<1> QED BY <1>1, Invariance, PTL

(* Neither the watch loop nor --attach takes a live session for ended on   *)
(* one wrong answer of docker.                                             *)
THEOREM LiveIsSpared == Spec => []LiveIsNotCalledEnded
<1>1. IInv => LiveIsNotCalledEnded
  BY DEF IInv
<1> QED BY <1>1, Invariance, PTL
=============================================================================
