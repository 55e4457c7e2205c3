---------------------------- MODULE DaemonSession ----------------------------
(***************************************************************************)
(* The daemon sessions of one workspace.  --start spawns a supervisor that *)
(* runs the launch detached and then watches the agent's tmux session; the *)
(* client polls for that session, or for the marker of a refusal, and its  *)
(* exit code tells what came of it.  --attach and --stop find the session  *)
(* by the labels of its container, never by the supervisor or the lock.    *)
(*                                                                         *)
(* The launch is only its refusals, the lock and the container here:       *)
(* SessionResources has the networks, the proxy and the reapers.           *)
(***************************************************************************)
EXTENDS Naturals

CONSTANTS
    Clients,    \* clients, each with the supervisor it spawns if it is a --start
    MaxWait,    \* polls before a --start client gives up (600 in the code)
    CrashLoop   \* restarts that make a crash loop (3), a bound of the model too

ASSUME DaemonConstants ==
    /\ MaxWait \in Nat \ {0}
    /\ CrashLoop \in Nat \ {0}
    /\ {"none", "foreground"} \cap Clients = {}

VARIABLES
    cmd,     \* what each client was called with
    pc,      \* what each client does next
    seen,    \* the container a client found last, by its supervisor
    joined,  \* the run of a container an --attach client was attached to
    waited,  \* how often a --start client has polled in vain
    code,    \* the exit code of a client, or NoCode
    told,    \* history: clients that left the teardown to a living supervisor
    misled,  \* history: wrong answers in a row to an --attach client
    sup,     \* what each supervisor does next
    missed,  \* consecutive polls of a watch loop that saw no session
    marker,  \* --start clients whose marker file of a refusal exists
    lock,    \* the supervisor the workspace lock names, Foreground or None
    box,     \* the workspace's agent container
    slips,   \* history: wrong answers in a row to a watch loop
    honest,  \* history: supervisors with a missed poll that was right
    fatal    \* history: supervisors that have called _sandy_daemon_fatal

client == <<cmd, pc, seen, joined, waited, code, told, misled>>
supervisor == <<sup, missed, slips, honest, fatal>>
vars == <<client, supervisor, marker, lock, box>>

None == "none"
Foreground == "foreground"
NoCode == 10
Boxes == [by : Clients \cup {None}, up : BOOLEAN,
          session : {"none", "live", "over"}, restarts : 0 .. CrashLoop]
NoBox == [by |-> None, up |-> FALSE, session |-> "none", restarts |-> 0]

SupEnded == {"off", "ended", "lockedOut", "dead"}
SupPhases ==
    {"begin", "prepare", "run", "watch", "watchOver", "cleanBox", "release"} \cup SupEnded
Alive(s) == sup[s] \notin SupEnded

(* docker ps -q with the daemon's labels: the container, if it runs.       *)
Listed == box.up

(* The operators called Mutant... are the bugs the properties are tried    *)
(* against; no action uses them.                                           *)

MutantHasSession(s) == box.by = s /\ box.up

(* tmux has-session, run in the container as the host's user.              *)
HasSession(s) == box.by = s /\ box.up /\ box.session = "live"

Goto(c, next) == pc' = [pc EXCEPT ![c] = next]
Exit(c, k) == Goto(c, "exited") /\ code' = [code EXCEPT ![c] = k]

(* kill -TERM to the pid in the container's label, while that process is   *)
(* alive.  The watching supervisor cleans up; one that already does goes   *)
(* on with it (the guard of _sandy_on_signal).                             *)
Term(s) == sup' = [sup EXCEPT ![s] = IF @ = "watch" THEN "cleanBox" ELSE @]

TypeOK ==
    /\ cmd \in [Clients -> {"none", "start", "stop", "attach"}]
    /\ pc \in [Clients -> {"idle", "look", "approve", "clear", "poll",
                           "check", "tearDown", "stopLook", "stop", "stopWait",
                           "dockerStop", "dockerRm", "dockerRmOnly", "attachLook",
                           "attach", "attached", "probe", "reprobe", "exited"}]
    /\ seen \in [Clients -> Clients \cup {None}]
    /\ joined \in [Clients -> (Clients \cup {None}) \X (0 .. CrashLoop)]
    /\ waited \in [Clients -> 0 .. MaxWait - 1]
    /\ code \in [Clients -> {0, 1, 3, 4, 5, 6, 7, 8, 9, NoCode}]
    /\ sup \in [Clients -> SupPhases]
    /\ missed \in [Clients -> 0 .. 2]
    /\ told \subseteq Clients
    /\ misled \in [Clients -> 0 .. 2]
    /\ slips \in [Clients -> 0 .. 2]
    /\ marker \subseteq Clients
    /\ lock \in Clients \cup {Foreground, None}
    /\ box \in Boxes
    /\ honest \subseteq Clients
    /\ fatal \subseteq Clients

(* A foreground session may have the workspace.                            *)
Init ==
    /\ cmd = [c \in Clients |-> "none"]
    /\ pc = [c \in Clients |-> "idle"]
    /\ seen = [c \in Clients |-> None]
    /\ joined = [c \in Clients |-> <<None, 0>>]
    /\ waited = [c \in Clients |-> 0]
    /\ code = [c \in Clients |-> NoCode]
    /\ sup = [s \in Clients |-> "off"]
    /\ missed = [s \in Clients |-> 0]
    /\ marker = {}
    /\ lock \in {Foreground, None}
    /\ box = NoBox
    /\ told = {}
    /\ misled = [c \in Clients |-> 0]
    /\ slips = [s \in Clients |-> 0]
    /\ honest = {}
    /\ fatal = {}

----------------------------------------------------------------------------
(* --start.                                                                *)

(* --start with -p is refused with 1.  A marker may be there already, from *)
(* a killed client that had the same pid.                                  *)
Begin(c) ==
    /\ pc[c] = "idle"
    /\ \/ /\ cmd' = [cmd EXCEPT ![c] = "start"]
          /\ \/ Goto(c, "look") /\ marker' \in {marker, marker \cup {c}} /\ UNCHANGED code
             \/ Exit(c, 1) /\ UNCHANGED marker
       \/ /\ cmd' = [cmd EXCEPT ![c] = "stop"]
          /\ Goto(c, "stopLook")
          /\ UNCHANGED <<code, marker>>
       \/ /\ cmd' = [cmd EXCEPT ![c] = "attach"]
          /\ Goto(c, "attachLook")
          /\ UNCHANGED <<code, marker>>
    /\ UNCHANGED <<told, misled, seen, joined, waited, supervisor, lock, box>>

(* A container with a session is "already running"; one that shows none in *)
(* five tries is stopped first, whatever --stop says.                      *)
Look(c) ==
    /\ pc[c] = "look"
    /\ IF ~Listed THEN Goto(c, "approve") /\ UNCHANGED code
       ELSE IF HasSession(box.by) THEN Exit(c, 0)
       ELSE Goto(c, "stopLook") /\ UNCHANGED code
    /\ UNCHANGED <<cmd, told, misled, seen, joined, waited, supervisor, marker, lock, box>>

(* From a terminal, the approvals are asked for before the supervisor is   *)
(* spawned: a refusal ends the client with 6.                              *)
Approve(c) ==
    /\ pc[c] = "approve"
    /\ \/ Goto(c, "clear") /\ sup' = [sup EXCEPT ![c] = "begin"] /\ UNCHANGED code
       \/ Exit(c, 6) /\ UNCHANGED sup
    /\ UNCHANGED <<cmd, told, misled, seen, joined, waited, missed, slips, honest, fatal,
                   marker, lock, box>>

(* The marker is cleared after the supervisor has been spawned.            *)
MutantClear(c) ==
    /\ pc[c] = "clear"
    /\ seen' = [seen EXCEPT ![c] = None]
    /\ Goto(c, "poll")
    /\ UNCHANGED <<cmd, told, misled, joined, waited, code, supervisor, marker, lock, box>>

Clear(c) ==
    /\ pc[c] = "clear"
    /\ marker' = marker \ {c}
    /\ seen' = [seen EXCEPT ![c] = None]
    /\ Goto(c, "poll")
    /\ UNCHANGED <<cmd, told, misled, joined, waited, code, supervisor, lock, box>>

(* Is this the last poll before time-out?                                  *)
LastPoll(n) == n + 1 = MaxWait

(* One round of the readiness loop, and what follows it: the exit code is  *)
(* settled and the marker removed when it breaks.  A round that finds the  *)
(* marker keeps the container of the round before.                         *)
Poll(c) ==
    LET Leave(next, k) ==
            /\ Goto(c, next)
            /\ code' = [code EXCEPT ![c] = k]
            /\ waited' = [waited EXCEPT ![c] = 0]
            /\ marker' = marker \ {c}
    IN
    /\ pc[c] = "poll"
    /\ IF c \in marker THEN Leave("tearDown", 6) /\ UNCHANGED seen
       ELSE /\ seen' = [seen EXCEPT ![c] = IF Listed THEN box.by ELSE None]
            /\ IF HasSession(seen'[c]) THEN Leave("check", NoCode)
               ELSE IF Listed /\ box.restarts = CrashLoop THEN Leave("tearDown", 7)
               ELSE IF LastPoll(waited[c]) THEN Leave("tearDown", 8)
               ELSE waited' = [waited EXCEPT ![c] = @ + 1] /\ UNCHANGED <<pc, code, marker>>
    /\ UNCHANGED <<cmd, told, misled, joined, supervisor, lock, box>>

(* Are the named sessions up?  The container is asked; if it is gone or    *)
(* does not say so, or says no, it is left as it is.                       *)
Check(c) ==
    /\ pc[c] = "check"
    /\ \/ box.by = seen[c] /\ box.up /\ Exit(c, 0)
       \/ Exit(c, 9)
    /\ UNCHANGED <<cmd, told, misled, seen, joined, waited, supervisor, marker, lock, box>>

(* A failed start takes down the container it found last: it leaves that   *)
(* to the supervisor the container's label names if that one is alive, and *)
(* removes the container itself if it is not, or if the label cannot be    *)
(* read.                                                                   *)
MutantTearDown(c) ==
    /\ pc[c] = "tearDown"
    /\ IF seen[c] # None /\ box.by = seen[c] /\ Alive(seen[c])
       THEN Term(seen[c]) /\ told' = told \cup {c}
       ELSE UNCHANGED <<sup, told>>
    /\ Goto(c, "exited")
    /\ seen' = [seen EXCEPT ![c] = None]
    /\ UNCHANGED <<cmd, misled, joined, waited, code, missed, slips, honest, fatal,
                   marker, lock, box>>

TearDown(c) ==
    /\ pc[c] = "tearDown"
    /\ IF seen[c] = None \/ box.by # seen[c] THEN UNCHANGED <<sup, told, box>>
       ELSE \/ Alive(seen[c]) /\ Term(seen[c]) /\ told' = told \cup {c} /\ UNCHANGED box
            \/ box' = NoBox /\ UNCHANGED <<sup, told>>
    /\ Goto(c, "exited")
    /\ seen' = [seen EXCEPT ![c] = None]
    /\ UNCHANGED <<cmd, misled, joined, waited, code, missed, slips, honest, fatal,
                   marker, lock>>

----------------------------------------------------------------------------
(* --stop, by itself or from --start, which does not look at its code.     *)
EndStop(c, k) ==
    IF cmd[c] = "start" THEN Goto(c, "approve") /\ UNCHANGED code ELSE Exit(c, k)

StopLook(c) ==
    /\ pc[c] = "stopLook"
    /\ IF Listed
       THEN seen' = [seen EXCEPT ![c] = box.by] /\ Goto(c, "stop") /\ UNCHANGED code
       ELSE EndStop(c, 4) /\ UNCHANGED seen
    /\ UNCHANGED <<cmd, told, misled, joined, waited, supervisor, marker, lock, box>>

(* The pid is read off the container's label, if it is still there.        *)
Stop(c) ==
    /\ pc[c] = "stop"
    /\ IF box.by = seen[c] /\ Alive(seen[c])
       THEN Term(seen[c]) /\ Goto(c, "stopWait")
       ELSE Goto(c, "dockerStop") /\ UNCHANGED sup
    /\ UNCHANGED <<cmd, told, misled, seen, joined, waited, code, missed, slips, honest, fatal,
                   marker, lock, box>>

(* At most 15 s for the supervisor's cleanup, however slow it is.          *)
MutantStopWait(c) ==
    /\ pc[c] = "stopWait"
    /\ EndStop(c, 0)
    /\ UNCHANGED <<cmd, told, misled, seen, joined, waited, supervisor, marker, lock, box>>

StopWait(c) ==
    /\ pc[c] = "stopWait"
    /\ EndStop(c, IF Listed THEN 5 ELSE 0)
    /\ UNCHANGED <<cmd, told, misled, seen, joined, waited, supervisor, marker, lock, box>>

(* docker stop, which ends the restart policy, and docker rm -f: either    *)
(* can fail, and does when the container is gone.                          *)
DockerStop(c) ==
    /\ pc[c] = "dockerStop"
    /\ \/ /\ box.by = seen[c]
          /\ box' = [box EXCEPT !.up = FALSE]
          /\ Goto(c, "dockerRm")
       \/ Goto(c, "dockerRmOnly") /\ UNCHANGED box
    /\ UNCHANGED <<cmd, told, misled, seen, joined, waited, code, supervisor, marker, lock>>

(* The session's name, and with it the lock to reap, is read off the       *)
(* container after its removal: only one that could not be removed leads   *)
(* to the lock.                                                            *)
DockerRm(c) ==
    /\ pc[c] \in {"dockerRm", "dockerRmOnly"}
    /\ \/ /\ box' = IF box.by = seen[c] THEN NoBox ELSE box
          /\ EndStop(c, IF pc[c] = "dockerRm" THEN 0 ELSE 5)
          /\ UNCHANGED lock
       \/ /\ EndStop(c, 5)
          /\ lock' = IF box.by = seen[c] /\ lock \in Clients /\ ~Alive(lock)
                     THEN None ELSE lock
          /\ UNCHANGED box
    /\ UNCHANGED <<cmd, told, misled, seen, joined, waited, supervisor, marker>>

----------------------------------------------------------------------------
(* --attach.                                                               *)
AttachLook(c) ==
    /\ pc[c] = "attachLook"
    /\ IF Listed
       THEN seen' = [seen EXCEPT ![c] = box.by] /\ Goto(c, "attach") /\ UNCHANGED code
       ELSE Exit(c, 4) /\ UNCHANGED seen
    /\ UNCHANGED <<cmd, told, misled, joined, waited, supervisor, marker, lock, box>>

(* tmux attach fails at once without a session; else it returns when the   *)
(* user detaches, another client takes over or the session ends.           *)
Attach(c) ==
    /\ pc[c] = "attach"
    /\ IF HasSession(seen[c])
       THEN joined' = [joined EXCEPT ![c] = <<box.by, box.restarts>>] /\ Goto(c, "attached")
       ELSE Goto(c, "probe") /\ UNCHANGED joined
    /\ UNCHANGED <<cmd, told, misled, seen, waited, code, supervisor, marker, lock, box>>

Detach(c) ==
    /\ pc[c] = "attached"
    /\ Goto(c, "probe")
    /\ UNCHANGED <<cmd, told, misled, seen, joined, waited, code, supervisor, marker, lock, box>>

(* docker can give wrong answers: a probe of a live session, and docker    *)
(* inspect of a container that runs, may fail, and count as a "no".        *)
(* A probe that says yes settles it; after a first "no" docker inspect is  *)
(* asked, and if the container runs there is a second probe.               *)
Probe(c) ==
    /\ pc[c] = "probe"
    /\ LET slip == IF HasSession(seen[c]) THEN 1 ELSE 0 IN
       \/ HasSession(seen[c]) /\ Exit(c, 3) /\ misled' = [misled EXCEPT ![c] = 0]
       \/ /\ box.by = seen[c] /\ box.up
          /\ Goto(c, "reprobe")
          /\ misled' = [misled EXCEPT ![c] = slip]
          /\ UNCHANGED code
       \/ Exit(c, 0) /\ misled' = [misled EXCEPT ![c] = 2 * slip]
    /\ UNCHANGED <<cmd, told, seen, joined, waited, supervisor, marker, lock, box>>

Reprobe(c) ==
    /\ pc[c] = "reprobe"
    /\ \/ HasSession(seen[c]) /\ Exit(c, 3) /\ misled' = [misled EXCEPT ![c] = 0]
       \/ /\ Exit(c, 0)
          /\ misled' = [misled EXCEPT ![c] = IF HasSession(seen[c]) THEN @ + 1 ELSE 0]
    /\ UNCHANGED <<cmd, told, seen, joined, waited, supervisor, marker, lock, box>>

----------------------------------------------------------------------------
(* The supervisor.                                                         *)
SupGoto(s, next) == sup' = [sup EXCEPT ![s] = next]

(* A hard exit of the launch, with the marker or, at some places, without. *)
(* The marker comes first, the EXIT trap after it.                         *)
Refuse(s, next) ==
    /\ SupGoto(s, next)
    /\ \/ marker' = marker \cup {s} /\ fatal' = fatal \cup {s}
       \/ UNCHANGED <<marker, fatal>>

(* Configuration, approvals and images, where nothing is held yet, and the *)
(* lock: it is free, or its holder is dead.  "Another sandy is already     *)
(* running" is a hard exit without the marker.                             *)
SupBegin(s) ==
    /\ sup[s] = "begin"
    /\ \/ Refuse(s, "ended") /\ UNCHANGED lock
       \/ /\ IF lock = None \/ (lock \in Clients /\ ~Alive(lock))
             THEN lock' = s /\ SupGoto(s, "prepare")
             ELSE SupGoto(s, "lockedOut") /\ UNCHANGED lock
          /\ UNCHANGED <<marker, fatal>>
    /\ UNCHANGED <<client, missed, slips, honest, box>>

(* Up to the container's name being settled, the trap has the lock to give *)
(* back, and no container; then the name's old container goes.             *)
Prepare(s) ==
    /\ sup[s] = "prepare"
    /\ \/ box' = NoBox /\ SupGoto(s, "run") /\ UNCHANGED <<marker, fatal>>
       \/ Refuse(s, "release") /\ UNCHANGED box
    /\ UNCHANGED <<client, missed, slips, honest, lock>>

(* The rest of the launch and docker run -d, which fails if the name is    *)
(* taken, and for other reasons.                                           *)
Run(s) ==
    /\ sup[s] = "run"
    /\ \/ /\ box = NoBox
          /\ box' = [by |-> s, up |-> TRUE, session |-> "none", restarts |-> 0]
          /\ SupGoto(s, "watch")
          /\ UNCHANGED <<marker, fatal>>
       \/ Refuse(s, "cleanBox") /\ UNCHANGED box
    /\ UNCHANGED <<client, missed, slips, honest, lock>>

(* Two missed polls in a row, with the container running, end the watch.   *)
MutantEndsWatch(n) == n >= 1
EndsWatch(n) == n >= 2

(* A poll of the watch loop.  The probe can fail for no reason, and so can *)
(* docker inspect after it, which then reads as "not running" and ends the *)
(* watch at once.                                                          *)
Watch(s) ==
    /\ sup[s] = "watch"
    /\ \/ /\ HasSession(s)
          /\ missed' = [missed EXCEPT ![s] = 0]
          /\ slips' = [slips EXCEPT ![s] = 0]
          /\ honest' = honest \ {s}
          /\ UNCHANGED sup
       \/ /\ Listed
          /\ missed' = [missed EXCEPT ![s] = @ + 1]
          /\ slips' = [slips EXCEPT ![s] = IF HasSession(s) THEN @ + 1 ELSE 0]
          /\ honest' = IF HasSession(s) THEN honest ELSE honest \cup {s}
          /\ IF EndsWatch(missed'[s]) THEN SupGoto(s, "watchOver") ELSE UNCHANGED sup
       \/ /\ SupGoto(s, "watchOver")
          /\ slips' = [slips EXCEPT ![s] = IF HasSession(s) THEN 2 ELSE 0]
          /\ honest' = IF HasSession(s) THEN honest ELSE honest \cup {s}
          /\ UNCHANGED missed
    /\ UNCHANGED <<client, fatal, marker, lock, box>>

(* cleanup(): the container, by its name, then the lock if it is ours.     *)
(* What the watch loop counted is not used any more.                       *)
MutantCleanBox(s) ==
    /\ sup[s] \in {"cleanBox", "watchOver"}
    /\ lock' = IF lock = s THEN None ELSE lock
    /\ SupGoto(s, "release")
    /\ UNCHANGED <<client, missed, slips, honest, fatal, marker, box>>

CleanBox(s) ==
    /\ sup[s] \in {"cleanBox", "watchOver"}
    /\ box' = NoBox
    /\ SupGoto(s, "release")
    /\ missed' = [missed EXCEPT ![s] = 0]
    /\ slips' = [slips EXCEPT ![s] = 0]
    /\ honest' = honest \ {s}
    /\ UNCHANGED <<client, fatal, marker, lock>>

Release(s) ==
    /\ sup[s] = "release"
    /\ lock' = IF lock = s THEN None ELSE lock
    /\ SupGoto(s, "ended")
    /\ UNCHANGED <<client, missed, slips, honest, fatal, marker, box>>

(* SIGKILL, out of memory.                                                 *)
Kill(s) ==
    /\ Alive(s)
    /\ SupGoto(s, "dead")
    /\ missed' = [missed EXCEPT ![s] = 0]
    /\ slips' = [slips EXCEPT ![s] = 0]
    /\ honest' = honest \ {s}
    /\ UNCHANGED <<client, fatal, marker, lock, box>>

----------------------------------------------------------------------------
(* The container: the session comes up, the agent exits, the main process  *)
(* dies and docker restarts it.                                            *)
BringUp ==
    /\ box.up /\ box.session = "none"
    /\ box' = [box EXCEPT !.session = "live"]
    /\ UNCHANGED <<client, supervisor, marker, lock>>

AgentExit ==
    /\ box.up /\ box.session = "live"
    /\ box' = [box EXCEPT !.session = "over"]
    /\ UNCHANGED <<client, supervisor, marker, lock>>

Crash ==
    /\ box.up /\ box.restarts < CrashLoop
    /\ box' = [box EXCEPT !.session = "none", !.restarts = box.restarts + 1]
    /\ UNCHANGED <<client, supervisor, marker, lock>>

ForegroundEnds ==
    /\ lock = Foreground
    /\ lock' = None
    /\ UNCHANGED <<client, supervisor, marker, box>>

StartStep(c) == Look(c) \/ Approve(c) \/ Clear(c) \/ Poll(c) \/ Check(c) \/ TearDown(c)
StopStep(c) == StopLook(c) \/ Stop(c) \/ StopWait(c) \/ DockerStop(c) \/ DockerRm(c)
AttachStep(c) == AttachLook(c) \/ Attach(c) \/ Detach(c) \/ Probe(c) \/ Reprobe(c)
SupStep(s) ==
    SupBegin(s) \/ Prepare(s) \/ Run(s) \/ Watch(s) \/ CleanBox(s) \/ Release(s)

Next ==
    \/ \E c \in Clients :
          Begin(c) \/ StartStep(c) \/ StopStep(c) \/ AttachStep(c) \/ SupStep(c) \/ Kill(c)
    \/ BringUp \/ AgentExit \/ Crash \/ ForegroundEnds

Spec == Init /\ [][Next]_vars

(* Processes that run go on; users, containers and kills are free.         *)
FairSpec ==
    /\ Spec
    /\ \A c \in Clients : WF_vars(StartStep(c) \/ StopStep(c)) /\ WF_vars(SupStep(c))

----------------------------------------------------------------------------
(* A container whose supervisor is alive is covered by the workspace lock, *)
(* from docker run to the end of cleanup(): no other launch can remove it  *)
(* by its name or start a second one.                                      *)
LockCoversContainer == box.by # None /\ Alive(box.by) => lock = box.by

(* Exit code 6 of --start means refused before launch: the approvals were  *)
(* declined or its own supervisor said so, and that one has no container.  *)
SixMeansRefused ==
    \A c \in Clients : code[c] = 6 => (sup[c] = "off" \/ c \in fatal) /\ box.by # c

(* Exit code 0 of --stop means that the container it found no longer runs, *)
(* and it never runs again, whoever else stops, cleans up or restarts.     *)
StopZeroMeansStopped ==
    \A c \in Clients : cmd[c] = "stop" /\ code[c] = 0 => ~(box.by = seen[c] /\ box.up)

(* One wrong answer of docker never passes for the end of a session: the   *)
(* watch loop gives up only if a missed poll was right or docker was wrong *)
(* twice in a row (in one poll, or in two), and --attach reports 0 only if *)
(* the session it was attached to is gone or docker was wrong twice.       *)
LiveIsNotCalledEnded ==
    /\ \A s \in Clients : sup[s] = "watchOver" => s \in honest \/ slips[s] = 2
    /\ \A c \in Clients :
          code[c] = 0 /\ joined[c][1] # None /\ joined[c] = <<box.by, box.restarts>>
              => ~HasSession(box.by) \/ misled[c] = 2

(* When the agent has exited, the supervisor takes the daemon down: the    *)
(* container does not stay as a zombie.                                    *)
EndedSessionIsTornDown ==
    \A s \in Clients :
        box.by = s /\ box.session = "over" /\ sup[s] = "watch"
            ~> box.by # s \/ box.session # "over" \/ sup[s] = "dead"

(* A failed start does not leave the container it found running.  The one  *)
(* excuse: it has left the teardown to a supervisor that was alive, and    *)
(* that one is killed before it gets to it.                                *)
FailedStartIsTornDown ==
    \A c \in Clients :
        \A s \in Clients :
            pc[c] = "tearDown" /\ seen[c] = s
                ~> box.by # s \/ (c \in told /\ sup[s] = "dead")

(* Every hard exit of the launch reaches a waiting --start client, the one *)
(* at the workspace lock too: the supervisor leaves the marker (comment at *)
(* sandy:370-377), so that the client does not poll out its time.          *)
LockRefusalIsTold ==
    \A c \in Clients : pc[c] = "poll" /\ sup[c] = "lockedOut" => c \in marker
=============================================================================
