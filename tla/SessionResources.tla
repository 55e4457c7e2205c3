-------------------------- MODULE SessionResources --------------------------
(***************************************************************************)
(* The Docker resources of sandy sessions (egress-proxy mode) and everyone *)
(* who removes them: a launch builds two networks, the proxy sidecar and   *)
(* the agent container, in that order, and cleanup() takes them down, the  *)
(* agent first; every launch begins by reaping what dead sessions left;    *)
(* --gc reaps on demand, and --stop and the daemon gate of a launch end a  *)
(* daemon.  Networks carry their owner's pid in the name, containers only  *)
(* the workspace's, so a container's name can change hands.                *)
(*                                                                         *)
(* The workspace lock is taken in one step here; WorkspaceLock has the     *)
(* protocol.  Every docker call is a step.                                 *)
(***************************************************************************)
EXTENDS Naturals, FiniteSets

CONSTANTS
    Launches,    \* processes that run a launch
    Daemons,     \* those of them that are --start supervisors
    Workspaces,
    WorkspaceOf, \* the workspace each launch is for
    Tools        \* processes that run --gc or --stop

ASSUME ResourceConstants ==
    /\ WorkspaceOf \in [Launches -> Workspaces]
    /\ Daemons \subseteq Launches
    /\ Launches \cap Tools = {}
    /\ "none" \notin Launches

VARIABLES
    pc,        \* what each process does next
    lock,      \* the launch the workspace lock names, or None
    nets,      \* the networks that exist, as <<kind, owner>>
    proxy,     \* the launch that started the workspace's proxy, or None
    joined,    \* the workspaces whose proxy is on the sidecar network too
    agent,     \* the launch that started the workspace's agent, or None
    session,   \* the tmux session in the agent container
    doomed,    \* networks or containers a reaper listed and has yet to handle
    victim,    \* the proxy a launch has judged stranded and removes next
    rebooted,  \* whether the host has been restarted (bound: once)
    stray      \* history: <<step, kind, owner>> for each container a process
               \* removed while the owner, another launch, was under way

vars == <<pc, lock, nets, proxy, joined, agent, session, doomed, victim,
          rebooted, stray>>
containers == <<proxy, joined, agent, session, stray>>

None == "none"
Procs == Launches \cup Tools
Sidecar(p) == <<"sidecar", p>>
Egress(p) == <<"egress", p>>
Networks == {"sidecar", "egress"} \X Launches

(* A row of docker ps: the kind and the name of a container, with the      *)
(* launch it belongs to (its id, its labels).                              *)
Rows == {"agent", "proxy"} \X Workspaces \X Launches
PresentRows ==
    {r \in Rows : r[3] = IF r[1] = "agent" THEN agent[r[2]] ELSE proxy[r[2]]}

Reaping == {"listNets", "rmNets", "listProxies", "judgeProxies", "rmProxy",
            "relistNets", "rermNets", "lastListNets", "lastRmNets", "freedRmNets"}
Stopping == {"look", "stop", "stopListNets", "stopRmNets"}
Building == {"sidecar", "sidecarRetry", "egress", "rmOldProxy", "runProxy",
             "connectProxy", "awaitProxy", "credentials", "rmOldAgent", "runAgent"}
CleaningUp == {"cleanAgent", "cleanProxy", "cleanEgress", "cleanSidecar", "release"}
Collecting == {"gcPlan", "gcList", "gcJudge", "gcRemove"}
Ended == {"idle", "exited", "dead"}

Removing == Reaping \cup Stopping \cup Building \cup CleaningUp \cup Collecting
Steps == Removing \cup Ended \cup {"lock", "prepare", "session"}

Running(p) == pc[p] \notin Ended
Goto(p, next) == pc' = [pc EXCEPT ![p] = next]

(* docker network inspect lists the containers that run on a network.      *)
Attached(net) ==
    LET w == WorkspaceOf[net[2]] IN
    IF net[1] = "egress" THEN proxy[w] = net[2]
    ELSE agent[w] = net[2] \/ (proxy[w] = net[2] /\ w \in joined)

(* _sandy_orphan_networks_list: the pid in the name is dead and no         *)
(* container is attached.                                                  *)
MutantOrphanNets == {net \in nets : ~Attached(net)}
OrphanNets == {net \in nets : ~Running(net[2]) /\ ~Attached(net)}

(* The tmux probe, five tries a second apart: it sees the session if one   *)
(* is up, and a container that takes longer to bring one up shows none.    *)
HasSession(w) == session[w] = "live"

(* _sandy_dead_owner_containers_list over the rows of its one docker ps:   *)
(* pass 1 keeps a daemon's agent that shows a session and a foreground one *)
(* whose workspace lock names a live pid; pass 2 keeps the proxies of kept *)
(* agents.  Everything else has a dead owner.                              *)
Kept(row) ==
    IF row[3] \in Daemons THEN agent[row[2]] = row[3] /\ HasSession(row[2])
    ELSE lock[row[2]] # None /\ Running(lock[row[2]])
DeadOwnerRows(rows) ==
    LET kept == {r[2] : r \in {r \in rows : r[1] = "agent" /\ Kept(r)}}
    IN  {r \in rows : r[2] \notin kept}

(* The operators called Mutant... are the bugs the properties are tried    *)
(* against; no action uses them.                                           *)

(* docker rm -f of a name, whoever has the name by now.                    *)
Remove(p, kind, w) ==
    LET owner == IF kind = "agent" THEN agent[w] ELSE proxy[w] IN
    /\ proxy' = IF kind = "proxy" THEN [proxy EXCEPT ![w] = None] ELSE proxy
    /\ joined' = IF kind = "proxy" THEN joined \ {w} ELSE joined
    /\ agent' = IF kind = "agent" THEN [agent EXCEPT ![w] = None] ELSE agent
    /\ session' = IF kind = "agent" THEN [session EXCEPT ![w] = "none"] ELSE session
    /\ stray' = IF owner \notin {None, p} /\ Running(owner)
                THEN stray \cup {<<pc[p], kind, owner>>} ELSE stray

TypeOK ==
    /\ pc \in [Procs -> Steps]
    /\ lock \in [Workspaces -> Launches \cup {None}]
    /\ nets \subseteq Networks
    /\ proxy \in [Workspaces -> Launches \cup {None}]
    /\ joined \subseteq {w \in Workspaces : proxy[w] # None}
    /\ agent \in [Workspaces -> Launches \cup {None}]
    /\ session \in [Workspaces -> {"none", "starting", "live", "over"}]
    /\ doomed \in [Procs -> SUBSET (Networks \cup Rows)]
    /\ victim \in [Procs -> Workspaces \cup {None}]
    /\ rebooted \in BOOLEAN
    /\ stray \subseteq Removing \X {"agent", "proxy"} \X Launches

Init ==
    /\ pc = [p \in Procs |-> "idle"]
    /\ lock = [w \in Workspaces |-> None]
    /\ nets = {}
    /\ proxy = [w \in Workspaces |-> None]
    /\ joined = {}
    /\ agent = [w \in Workspaces |-> None]
    /\ session = [w \in Workspaces |-> "none"]
    /\ doomed = [p \in Procs |-> {}]
    /\ victim = [p \in Procs |-> None]
    /\ rebooted = FALSE
    /\ stray = {}

----------------------------------------------------------------------------
(* The reapers.                                                            *)

(* A bare launch reaps first and looks for a daemon later; the --start     *)
(* client looks first, and the supervisor it spawns reaps (here they are   *)
(* one process).                                                           *)
Start(p) ==
    /\ pc[p] = "idle"
    /\ \/ p \in Launches \ Daemons /\ Goto(p, "listNets")
       \/ p \in Daemons \cup Tools /\ Goto(p, "look")
       \/ p \in Tools /\ Goto(p, "gcPlan")
    /\ UNCHANGED <<lock, nets, containers, doomed, victim, rebooted>>

(* _sandy_reap_orphan_networks runs at the start of a launch, in           *)
(* ensure_network, once more when no subnet is free, in --stop and --gc.   *)
(* Only the third caller asks whether it removed one.                      *)
AfterLook(p) ==
    IF p \in Tools THEN "exited" ELSE IF p \in Daemons THEN "listNets" ELSE "lock"

NetLists ==
    [ listNets |-> "rmNets", relistNets |-> "rermNets",
      lastListNets |-> "lastRmNets", stopListNets |-> "stopRmNets" ]
NetRemovals(p) ==
    [ rmNets |-> IF p \in Tools THEN "exited" ELSE "listProxies",
      rermNets |-> "sidecar", stopRmNets |-> AfterLook(p),
      lastRmNets |-> "cleanEgress", freedRmNets |-> "sidecarRetry" ]

ListNets(p) ==
    /\ pc[p] \in DOMAIN NetLists
    /\ doomed' = [doomed EXCEPT ![p] = OrphanNets]
    /\ Goto(p, NetLists[pc[p]])
    /\ UNCHANGED <<lock, nets, containers, victim, rebooted>>

(* Removals without || true: the first network ends the loop.              *)
MutantRmNet(p) ==
    /\ pc[p] \in DOMAIN NetRemovals(p)
    /\ nets' = IF doomed[p] = {} THEN nets ELSE nets \ {CHOOSE net \in doomed[p] : TRUE}
    /\ doomed' = [doomed EXCEPT ![p] = {}]
    /\ Goto(p, NetRemovals(p)[pc[p]])
    /\ UNCHANGED <<lock, containers, victim, rebooted>>

(* docker network rm refuses a network a container is attached to.         *)
RmNet(p) ==
    /\ pc[p] \in DOMAIN NetRemovals(p)
    /\ IF doomed[p] = {}
       THEN Goto(p, NetRemovals(p)[pc[p]]) /\ UNCHANGED <<nets, doomed>>
       ELSE \E net \in doomed[p] :
               LET freed == net \in nets /\ ~Attached(net) IN
               /\ nets' = IF freed THEN nets \ {net} ELSE nets
               /\ doomed' = [doomed EXCEPT ![p] = @ \ {net}]
               /\ Goto(p, IF freed /\ pc[p] = "lastRmNets" THEN "freedRmNets" ELSE pc[p])
    /\ UNCHANGED <<lock, containers, victim, rebooted>>

(* _sandy_reap_stranded_proxies: one docker ps, then a look for the agent  *)
(* container of each row and a removal, each a call of its own.            *)
ListProxies(p) ==
    /\ pc[p] = "listProxies"
    /\ doomed' = [doomed EXCEPT ![p] = {r \in PresentRows : r[1] = "proxy"}]
    /\ Goto(p, "judgeProxies")
    /\ UNCHANGED <<lock, nets, containers, victim, rebooted>>

(* Judged by the workspace lock, which a killed session leaves behind.     *)
MutantAgentAbsent(w) == agent[w] = None /\ lock[w] = None
AgentAbsent(w) == agent[w] = None

JudgeProxy(p) ==
    /\ pc[p] = "judgeProxies"
    /\ IF doomed[p] = {}
       THEN /\ Goto(p, IF p \in Daemons THEN "lock" ELSE "look")
            /\ UNCHANGED <<doomed, victim>>
       ELSE \E r \in doomed[p] :
               /\ doomed' = [doomed EXCEPT ![p] = @ \ {r}]
               /\ IF AgentAbsent(r[2])
                  THEN Goto(p, "rmProxy") /\ victim' = [victim EXCEPT ![p] = r[2]]
                  ELSE UNCHANGED <<pc, victim>>
    /\ UNCHANGED <<lock, nets, containers, rebooted>>

RmProxy(p) ==
    /\ pc[p] = "rmProxy"
    /\ Remove(p, "proxy", victim[p])
    /\ victim' = [victim EXCEPT ![p] = None]
    /\ Goto(p, "judgeProxies")
    /\ UNCHANGED <<lock, nets, doomed, rebooted>>

(* --gc: with nothing to reclaim, or a user who declines, it ends.  The    *)
(* reaper lists again, one docker ps and then the probes, and stops and    *)
(* removes each name, agents first; the networks come after.               *)
GcPlan(p) ==
    /\ pc[p] = "gcPlan"
    /\ \/ /\ DeadOwnerRows(PresentRows) # {} \/ OrphanNets # {}
          /\ Goto(p, "gcList")
       \/ Goto(p, "exited")
    /\ UNCHANGED <<lock, nets, containers, doomed, victim, rebooted>>

GcList(p) ==
    /\ pc[p] = "gcList"
    /\ doomed' = [doomed EXCEPT ![p] = PresentRows]
    /\ Goto(p, "gcJudge")
    /\ UNCHANGED <<lock, nets, containers, victim, rebooted>>

GcJudge(p) ==
    /\ pc[p] = "gcJudge"
    /\ doomed' = [doomed EXCEPT ![p] = DeadOwnerRows(@)]
    /\ Goto(p, "gcRemove")
    /\ UNCHANGED <<lock, nets, containers, victim, rebooted>>

GcRemove(p) ==
    /\ pc[p] = "gcRemove"
    /\ IF doomed[p] = {}
       THEN Goto(p, "listNets") /\ UNCHANGED <<containers, doomed>>
       ELSE \E r \in doomed[p] :
               /\ r[1] = "agent" \/ \A s \in doomed[p] : s[1] = "proxy"
               /\ Remove(p, r[1], r[2])
               /\ doomed' = [doomed EXCEPT ![p] = @ \ {r}]
               /\ UNCHANGED pc
    /\ UNCHANGED <<lock, nets, victim, rebooted>>

----------------------------------------------------------------------------
(* The look for a daemon of the workspace: a launch ends if its session is *)
(* up and runs --stop if it is not; --stop itself does not probe.  --stop  *)
(* signals the supervisor, whose cleanup it awaits for a limited time, and *)
(* with no live supervisor removes the container it saw, by its id, and    *)
(* reaps networks.                                                         *)
Look(p) ==
    \E w \in IF p \in Tools THEN Workspaces ELSE {WorkspaceOf[p]} :
        /\ pc[p] = "look"
        /\ IF agent[w] \notin Daemons THEN Goto(p, AfterLook(p)) /\ UNCHANGED doomed
           ELSE IF p \in Launches /\ HasSession(w) THEN Goto(p, "exited") /\ UNCHANGED doomed
           ELSE Goto(p, "stop") /\ doomed' = [doomed EXCEPT ![p] = {<<"agent", w, agent[w]>>}]
        /\ UNCHANGED <<lock, nets, containers, victim, rebooted>>

Stop(p) ==
    \E r \in doomed[p] :
        /\ pc[p] = "stop"
        /\ doomed' = [doomed EXCEPT ![p] = {}]
        /\ IF Running(r[3])
           THEN /\ pc' = [q \in Procs |->
                            IF q = p THEN AfterLook(p)
                            ELSE IF q = r[3] /\ pc[q] = "session" THEN "cleanAgent"
                            ELSE pc[q]]
                /\ UNCHANGED containers
           ELSE /\ Goto(p, "stopListNets")
                /\ IF agent[r[2]] = r[3] THEN Remove(p, "agent", r[2])
                   ELSE UNCHANGED containers
        /\ UNCHANGED <<lock, nets, victim, rebooted>>

----------------------------------------------------------------------------
(* A launch.                                                               *)

(* The workspace lock: free, or its holder is dead; else "already running".*)
MutantLock(p) ==
    /\ pc[p] = "lock"
    /\ lock' = [lock EXCEPT ![WorkspaceOf[p]] = p]
    /\ Goto(p, "prepare")
    /\ UNCHANGED <<nets, containers, doomed, victim, rebooted>>

Lock(p) ==
    LET w == WorkspaceOf[p] IN
    /\ pc[p] = "lock"
    /\ IF lock[w] = None \/ ~Running(lock[w])
       THEN lock' = [lock EXCEPT ![w] = p] /\ Goto(p, "prepare")
       ELSE Goto(p, "exited") /\ UNCHANGED lock
    /\ UNCHANGED <<nets, containers, doomed, victim, rebooted>>

(* Everything up to ensure_network: refusals exit through the interim trap,*)
(* which only releases the lock; then cleanup() is armed.                  *)
Prepare(p) ==
    /\ pc[p] = "prepare"
    /\ \/ Goto(p, "relistNets")
       \/ Goto(p, "release")
    /\ UNCHANGED <<lock, nets, containers, doomed, victim, rebooted>>

(* _sandy_try_create_sidecar takes the first candidate subnet that no      *)
(* network of the host has; with none, the reaper runs and it is tried     *)
(* once more, then the launch exits.                                       *)
MkSidecar(p) ==
    /\ pc[p] \in {"sidecar", "sidecarRetry"}
    /\ \/ nets' = nets \cup {Sidecar(p)} /\ Goto(p, "egress")
       \/ /\ Goto(p, IF pc[p] = "sidecar" THEN "lastListNets" ELSE "cleanEgress")
          /\ UNCHANGED nets
    /\ UNCHANGED <<lock, containers, doomed, victim, rebooted>>

MkEgress(p) ==
    /\ pc[p] = "egress"
    /\ nets' = nets \cup {Egress(p)}
    /\ Goto(p, "rmOldProxy")
    /\ UNCHANGED <<lock, containers, doomed, victim, rebooted>>

(* docker rm -f of the name first: a crashed session's proxy goes.         *)
RmOldProxy(p) ==
    /\ pc[p] = "rmOldProxy"
    /\ Remove(p, "proxy", WorkspaceOf[p])
    /\ Goto(p, "runProxy")
    /\ UNCHANGED <<lock, nets, doomed, victim, rebooted>>

RunProxy(p) ==
    LET w == WorkspaceOf[p] IN
    /\ pc[p] = "runProxy"
    /\ IF proxy[w] = None /\ Egress(p) \in nets
       THEN proxy' = [proxy EXCEPT ![w] = p] /\ Goto(p, "connectProxy")
       ELSE Goto(p, "cleanProxy") /\ UNCHANGED proxy
    /\ UNCHANGED <<lock, nets, joined, agent, session, stray, doomed, victim, rebooted>>

ConnectProxy(p) ==
    LET w == WorkspaceOf[p] IN
    /\ pc[p] = "connectProxy"
    /\ IF proxy[w] # None /\ Sidecar(p) \in nets
       THEN joined' = joined \cup {w} /\ Goto(p, "awaitProxy")
       ELSE Goto(p, "cleanProxy") /\ UNCHANGED joined
    /\ UNCHANGED <<lock, nets, proxy, agent, session, stray, doomed, victim, rebooted>>

(* The readiness poll gives up on a proxy that is not there.               *)
AwaitProxy(p) ==
    /\ pc[p] = "awaitProxy"
    /\ Goto(p, IF proxy[WorkspaceOf[p]] # None THEN "credentials" ELSE "cleanProxy")
    /\ UNCHANGED <<lock, nets, containers, doomed, victim, rebooted>>

(* Credentials, sandbox content, run flags: long, and none of it looks at  *)
(* the proxy again.                                                        *)
Credentials(p) ==
    /\ pc[p] = "credentials"
    /\ Goto(p, "rmOldAgent")
    /\ UNCHANGED <<lock, nets, containers, doomed, victim, rebooted>>

RmOldAgent(p) ==
    /\ pc[p] = "rmOldAgent"
    /\ Remove(p, "agent", WorkspaceOf[p])
    /\ Goto(p, "runAgent")
    /\ UNCHANGED <<lock, nets, doomed, victim, rebooted>>

RunAgent(p) ==
    LET w == WorkspaceOf[p] IN
    /\ pc[p] = "runAgent"
    /\ IF agent[w] = None /\ Sidecar(p) \in nets
       THEN /\ agent' = [agent EXCEPT ![w] = p]
            /\ session' = [session EXCEPT ![w] = "starting"]
            /\ Goto(p, "session")
       ELSE Goto(p, "cleanAgent") /\ UNCHANGED <<agent, session>>
    /\ UNCHANGED <<lock, nets, proxy, joined, stray, doomed, victim, rebooted>>

(* user-setup.sh brings the tmux session up; when the agent in it ends, a  *)
(* foreground container goes (--rm), a daemon's stays.                     *)
SessionUp(w) ==
    /\ session[w] = "starting"
    /\ session' = [session EXCEPT ![w] = "live"]
    /\ UNCHANGED <<pc, lock, nets, proxy, joined, agent, stray, doomed, victim, rebooted>>

SessionOver(w) ==
    /\ session[w] = "live"
    /\ IF agent[w] \in Daemons
       THEN session' = [session EXCEPT ![w] = "over"] /\ UNCHANGED agent
       ELSE /\ session' = [session EXCEPT ![w] = "none"]
            /\ agent' = [agent EXCEPT ![w] = None]
    /\ UNCHANGED <<pc, lock, nets, proxy, joined, stray, doomed, victim, rebooted>>

(* docker run returns, or the supervisor's watch loop sees the session or  *)
(* the container gone, or a signal comes: cleanup() runs.                  *)
EndSession(p) ==
    /\ pc[p] = "session"
    /\ Goto(p, "cleanAgent")
    /\ UNCHANGED <<lock, nets, containers, doomed, victim, rebooted>>

(* A signal or a failing command (set -e) in the set-up: cleanup() removes *)
(* the containers whose name has been assigned.                            *)
BreakOff(p) ==
    /\ pc[p] \in Building
    /\ Goto(p, CASE pc[p] \in {"rmOldAgent", "runAgent"} -> "cleanAgent"
                 [] pc[p] \in {"sidecar", "sidecarRetry", "egress"} -> "cleanEgress"
                 [] OTHER -> "cleanProxy")
    /\ UNCHANGED <<lock, nets, containers, doomed, victim, rebooted>>

(* cleanup() as it was: the agent is left to docker run --rm.              *)
MutantCleanAgent(p) ==
    /\ pc[p] = "cleanAgent"
    /\ Goto(p, "cleanProxy")
    /\ UNCHANGED <<lock, nets, containers, doomed, victim, rebooted>>

(* cleanup(): the agent, the proxy, the networks, the lock, in this order. *)
CleanAgent(p) ==
    /\ pc[p] = "cleanAgent"
    /\ Remove(p, "agent", WorkspaceOf[p])
    /\ Goto(p, "cleanProxy")
    /\ UNCHANGED <<lock, nets, doomed, victim, rebooted>>

CleanProxy(p) ==
    /\ pc[p] = "cleanProxy"
    /\ Remove(p, "proxy", WorkspaceOf[p])
    /\ Goto(p, "cleanEgress")
    /\ UNCHANGED <<lock, nets, doomed, victim, rebooted>>

CleanNet(p, step, net, next) ==
    /\ pc[p] = step
    /\ nets' = IF Attached(net) THEN nets ELSE nets \ {net}
    /\ Goto(p, next)
    /\ UNCHANGED <<lock, containers, doomed, victim, rebooted>>

CleanEgress(p) == CleanNet(p, "cleanEgress", Egress(p), "cleanSidecar")
CleanSidecar(p) == CleanNet(p, "cleanSidecar", Sidecar(p), "release")

Release(p) ==
    LET w == WorkspaceOf[p] IN
    /\ pc[p] = "release"
    /\ lock' = IF lock[w] = p THEN [lock EXCEPT ![w] = None] ELSE lock
    /\ Goto(p, "exited")
    /\ UNCHANGED <<nets, containers, doomed, victim, rebooted>>

----------------------------------------------------------------------------
(* SIGKILL, an OOM kill: docker's side of the session goes on.             *)
Crash(p) ==
    /\ Running(p)
    /\ Goto(p, "dead")
    /\ UNCHANGED <<lock, nets, containers, doomed, victim, rebooted>>

(* The host restarts: every process is gone, and --rm containers with      *)
(* them; dockerd brings back the proxies (on-failure) and the daemon       *)
(* agents (unless-stopped); networks and lock directories persist.         *)
Reboot ==
    /\ ~rebooted
    /\ rebooted' = TRUE
    /\ pc' = [p \in Procs |-> IF Running(p) THEN "dead" ELSE pc[p]]
    /\ agent' = [w \in Workspaces |-> IF agent[w] \in Daemons THEN agent[w] ELSE None]
    /\ session' = [w \in Workspaces |->
                      IF agent[w] \in Daemons THEN "starting" ELSE "none"]
    /\ UNCHANGED <<lock, nets, proxy, joined, stray, doomed, victim>>

Build(p) ==
    \/ Lock(p) \/ Prepare(p) \/ MkSidecar(p) \/ MkEgress(p) \/ RmOldProxy(p)
    \/ RunProxy(p) \/ ConnectProxy(p) \/ AwaitProxy(p) \/ Credentials(p)
    \/ RmOldAgent(p) \/ RunAgent(p)

Cleanup(p) ==
    \/ CleanAgent(p) \/ CleanProxy(p) \/ CleanEgress(p) \/ CleanSidecar(p) \/ Release(p)

Reap(p) ==
    \/ ListNets(p) \/ RmNet(p) \/ ListProxies(p) \/ JudgeProxy(p) \/ RmProxy(p)

Collect(p) == GcPlan(p) \/ GcList(p) \/ GcJudge(p) \/ GcRemove(p)

Next ==
    \/ \E p \in Launches : Build(p) \/ Cleanup(p) \/ EndSession(p) \/ BreakOff(p)
    \/ \E p \in Tools : Collect(p)
    \/ \E p \in Procs : Start(p) \/ Reap(p) \/ Look(p) \/ Stop(p) \/ Crash(p)
    \/ \E w \in Workspaces : SessionUp(w) \/ SessionOver(w)
    \/ Reboot

Spec == Init /\ [][Next]_vars

(* A process that runs goes on, and a session that ended is noticed; when  *)
(* to start, to end and to kill is up to the users.                        *)
AgentGone(p) == agent[WorkspaceOf[p]] # p \/ session[WorkspaceOf[p]] = "over"

Fairness ==
    /\ \A p \in Launches : /\ WF_vars(Build(p) \/ Cleanup(p))
                            /\ WF_vars(AgentGone(p) /\ EndSession(p))
    /\ \A p \in Tools : WF_vars(Collect(p))
    /\ \A p \in Procs : WF_vars(Reap(p) \/ Look(p) \/ Stop(p))

FairSpec == Spec /\ Fairness

----------------------------------------------------------------------------
(* A session keeps its networks from the moment they are made until its    *)
(* own cleanup: no reaper, of whatever launch and however late after its   *)
(* listing, takes a network of a process that runs (#26).                  *)
HasSidecar == (Building \ {"sidecar", "sidecarRetry"}) \cup {"session", "cleanAgent", "cleanProxy"}
NetworksOfTheLivingStay ==
    \A p \in Launches :
        /\ pc[p] \in HasSidecar \ {"cleanProxy"} => Sidecar(p) \in nets
        /\ pc[p] \in HasSidecar \ {"egress", "cleanProxy"} => Egress(p) \in nets

(* A launch that reached the end of cleanup() leaves no container and no   *)
(* network behind, from whatever point of the set-up it came.              *)
OrderlyEndLeavesNothing ==
    \A p \in Launches : pc[p] = "exited" =>
        /\ nets \cap {Sidecar(p), Egress(p)} = {}
        /\ p \notin {agent[WorkspaceOf[p]], proxy[WorkspaceOf[p]]}

(* No agent is left on a sidecar without its proxy (the FailedToOpenSocket *)
(* of cleanup()'s comment): while its launch lives, an agent container has *)
(* the proxy of the same launch, unless a reaper took one of a pair in use.*)
AgentHasItsProxy ==
    \A w \in Workspaces :
        agent[w] # None /\ Running(agent[w]) /\ stray = {} => proxy[w] = agent[w]

(* The fixed container names are safe under the workspace lock: neither a  *)
(* set-up nor a cleanup removes, by name, a container another running      *)
(* launch started.                                                         *)
NamesAreTheHolders ==
    \A s \in stray : s[1] \notin Building \cup CleaningUp

(* The networks a dead launch left, with nothing attached, are gone once a *)
(* later launch has reaped (_sandy_reap_orphan_networks).                  *)
OrphansAreReclaimed ==
    \A p \in Launches : \A q \in Launches \ {p}, k \in {"sidecar", "egress"} :
        (pc[q] = "listNets" /\ <<k, p>> \in OrphanNets)
            ~> (<<k, p>> \notin nets \/ pc[q] = "dead")

(* So is the proxy it left without an agent (_sandy_reap_stranded_proxies).*)
StrandedProxiesAreReclaimed ==
    \A p \in Launches : \A q \in Launches \ {p} :
        LET w == WorkspaceOf[p] IN
        (pc[q] = "listProxies" /\ proxy[w] = p /\ ~Running(p) /\ agent[w] = None)
            ~> (proxy[w] # p \/ pc[q] = "dead")

(* sandy:3364-3367: "a proxy is stranded only when its paired agent        *)
(* container DOES NOT EXIST [...] Any live or merely-stopped session still *)
(* has its agent container, so it is never touched".                       *)
LaunchSparesSessions == \A s \in stray : s[1] # "rmProxy"
============================================================================
