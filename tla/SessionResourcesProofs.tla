------------------------ MODULE SessionResourcesProofs ----------------------
(***************************************************************************)
(* Theorems about SessionResources, for any launches, daemons, workspaces  *)
(* and tools.                                                              *)
(***************************************************************************)
EXTENDS SessionResources, TLAPS

USE ResourceConstants

\* What each process has listed, and will handle, is of the kind its step is
\* for, and the networks among it had an owner who was through with them.
Gone == {"exited", "dead"}
Listed ==
    /\ \A q \in Procs :
        /\ pc[q] \in {"judgeProxies", "rmProxy", "gcJudge", "gcRemove", "stop"} =>
               doomed[q] \subseteq Rows
        /\ pc[q] = "stop" => \A r \in doomed[q] : r[1] = "agent"
        /\ pc[q] = "rmProxy" => victim[q] \in Workspaces
    /\ \A q \in Procs, p \in Launches, k \in {"sidecar", "egress"} :
           <<k, p>> \in doomed[q] => pc[p] \in Gone

\* The workspace lock is its launch's from the lock to the release.
Holding ==
    {"prepare", "relistNets", "rermNets", "lastListNets", "lastRmNets", "freedRmNets",
     "sidecar", "sidecarRetry", "egress", "rmOldProxy", "runProxy", "connectProxy",
     "awaitProxy", "credentials", "rmOldAgent", "runAgent", "session", "cleanAgent",
     "cleanProxy", "cleanEgress", "cleanSidecar", "release"}
Held == \A p \in Launches : pc[p] \in Holding => lock[WorkspaceOf[p]] = p

\* What exists belongs to a launch that has made it and not yet removed it, or
\* was killed.
AgentSteps == {"session", "cleanAgent", "dead"}
ProxySteps ==
    AgentSteps \cup {"connectProxy", "awaitProxy", "credentials", "rmOldAgent",
                     "runAgent", "cleanProxy"}
EgressSteps == ProxySteps \cup {"rmOldProxy", "runProxy", "cleanEgress"}
SidecarSteps == EgressSteps \cup {"egress", "cleanSidecar"}
OwnedContainers ==
    \A w \in Workspaces :
        /\ agent[w] # None => WorkspaceOf[agent[w]] = w /\ pc[agent[w]] \in AgentSteps
        /\ proxy[w] # None => WorkspaceOf[proxy[w]] = w /\ pc[proxy[w]] \in ProxySteps
OwnedNets ==
    \A p \in Launches :
        /\ Egress(p) \in nets => pc[p] \in EgressSteps
        /\ Sidecar(p) \in nets => pc[p] \in SidecarSteps

\* A launch has the proxy it has made, unless a reaper took one in use.
ProxyStays ==
    \A p \in Launches :
        (pc[p] \in ProxySteps \ {"cleanProxy", "dead"} /\ stray = {}) =>
            proxy[WorkspaceOf[p]] = p

IInv ==
    /\ TypeOK /\ Listed /\ Held /\ OwnedContainers /\ OwnedNets /\ ProxyStays
    /\ NetworksOfTheLivingStay /\ NamesAreTheHolders
-----------------------------------------------------------------------------
(* The operators.                                                          *)

\* A network is not a row of docker ps.
LEMMA NetIsNoRow == \A k, p : <<k, p>> \notin Rows
BY DEF Rows

\* What a row of docker ps names.
LEMMA RowParts == \A r \in Rows : r[1] \in {"agent", "proxy"} /\ r[2] \in Workspaces /\ r[3] \in Launches
BY DEF Rows

\* Where a reaper of networks goes on.
LEMMA NetSteps ==
    ASSUME NEW p \in Procs, pc[p] \in DOMAIN NetRemovals(p)
    PROVE  \/ pc[p] = "rmNets" /\ NetRemovals(p)[pc[p]] = IF p \in Tools THEN "exited" ELSE "listProxies"
           \/ pc[p] = "rermNets" /\ NetRemovals(p)[pc[p]] = "sidecar"
           \/ pc[p] = "stopRmNets" /\ NetRemovals(p)[pc[p]] = AfterLook(p)
           \/ pc[p] = "lastRmNets" /\ NetRemovals(p)[pc[p]] = "cleanEgress"
           \/ pc[p] = "freedRmNets" /\ NetRemovals(p)[pc[p]] = "sidecarRetry"
BY DEF NetRemovals

\* Where it goes on from its listing.
LEMMA ListSteps ==
    ASSUME NEW p \in Procs, pc[p] \in DOMAIN NetLists
    PROVE  \/ pc[p] = "listNets" /\ NetLists[pc[p]] = "rmNets"
           \/ pc[p] = "relistNets" /\ NetLists[pc[p]] = "rermNets"
           \/ pc[p] = "lastListNets" /\ NetLists[pc[p]] = "lastRmNets"
           \/ pc[p] = "stopListNets" /\ NetLists[pc[p]] = "stopRmNets"
BY DEF NetLists

\* The names of the networks differ.
LEMMA NetNames ==
    /\ \A p, q : Egress(p) # Sidecar(q)
    /\ \A p, q : Sidecar(p) = Sidecar(q) => p = q
    /\ \A p, q : Egress(p) = Egress(q) => p = q
    /\ \A p \in Launches : Egress(p) \in Networks /\ Sidecar(p) \in Networks
BY DEF Egress, Sidecar, Networks

\* What removing a container by its name does to the state.
Removed(p, kind, w) ==
    LET owner == IF kind = "agent" THEN agent[w] ELSE proxy[w] IN
    /\ agent' \in [Workspaces -> Launches \cup {None}]
    /\ proxy' \in [Workspaces -> Launches \cup {None}]
    /\ session' \in [Workspaces -> {"none", "starting", "live", "over"}]
    /\ joined' \subseteq {v \in Workspaces : proxy'[v] # None}
    /\ \A v \in Workspaces :
          /\ agent'[v] = IF kind = "agent" /\ v = w THEN None ELSE agent[v]
          /\ proxy'[v] = IF kind = "proxy" /\ v = w THEN None ELSE proxy[v]
    /\ IF owner \notin {None, p} /\ Running(owner)
       THEN /\ owner \in Launches
            /\ stray' = stray \cup {<<pc[p], kind, owner>>}
       ELSE stray' = stray

\* docker rm -f of a name takes the container that has it, and no other.
LEMMA RemoveEffect ==
    ASSUME TypeOK, NEW p \in Procs, NEW kind \in {"agent", "proxy"}, NEW w \in Workspaces,
           Remove(p, kind, w)
    PROVE  Removed(p, kind, w)
BY DEF TypeOK, Remove, Removed, None

\* The invariant holds at the start ...
LEMMA InitInv == Init => IInv
<1> SUFFICES ASSUME Init PROVE IInv OBVIOUS
<1>1. TypeOK BY DEF Init, TypeOK, Steps, Ended, Procs, None
<1>2. Listed BY DEF Init, Listed, Procs
<1>3. Held BY DEF Init, Held, Holding, Procs
<1>4. OwnedContainers BY DEF Init, OwnedContainers
<1>5. OwnedNets BY DEF Init, OwnedNets
<1>6. ProxyStays BY DEF Init, ProxyStays, ProxySteps, AgentSteps, Procs
<1>7. NetworksOfTheLivingStay
  BY DEF Init, NetworksOfTheLivingStay, HasSidecar, Building, Procs
<1>8. NamesAreTheHolders BY DEF Init, NamesAreTheHolders
<1> QED BY <1>1, <1>2, <1>3, <1>4, <1>5, <1>6, <1>7, <1>8 DEF IInv

\* ... and each step keeps it: a process starts.
LEMMA StartStep ==
    ASSUME IInv, NEW p \in Procs, Start(p)
    PROVE  IInv'
<1> USE DEF IInv
<1>1. TypeOK'
  BY DEF TypeOK, None, Steps, Removing, Reaping, Stopping, Building, CleaningUp,
     Collecting, Ended, Start, Goto, containers, Procs
<1>2. Listed' BY DEF Listed, Gone, TypeOK, Start, Goto, containers, Procs
<1>3. Held' BY DEF Held, Holding, TypeOK, None, Start, Goto, containers, Procs
<1>4. OwnedContainers'
  BY DEF OwnedContainers, ProxySteps, AgentSteps, TypeOK, None, Start, Goto, containers,
     Procs
<1>5. OwnedNets'
  BY DEF OwnedNets, SidecarSteps, EgressSteps, ProxySteps, AgentSteps, TypeOK, Start,
     Goto, containers, Procs
<1>6. ProxyStays'
  BY DEF ProxyStays, ProxySteps, AgentSteps, TypeOK, None, Start, Goto, containers,
     Procs
<1>7. NetworksOfTheLivingStay'
  BY DEF NetworksOfTheLivingStay, HasSidecar, Building, TypeOK, Start, Goto, containers,
     Procs
<1>8. NamesAreTheHolders'
  BY DEF NamesAreTheHolders, Building, CleaningUp, TypeOK, Start, Goto, containers,
     Procs
<1> QED BY <1>1, <1>2, <1>3, <1>4, <1>5, <1>6, <1>7, <1>8 DEF IInv

\* The lock changes hands only when its holder is through.
LEMMA LockStep ==
    ASSUME IInv, NEW p \in Launches, Lock(p)
    PROVE  IInv'
<1> USE DEF IInv
<1>1. TypeOK'
  BY DEF TypeOK, None, Steps, Removing, Reaping, Stopping, Building, CleaningUp,
     Collecting, Ended, Lock, Goto, containers, Procs, Running
<1>2. Listed' BY DEF Listed, Gone, TypeOK, Lock, Goto, containers, Procs, Running, Ended
<1>3. Held'
  BY DEF Held, Holding, TypeOK, None, Lock, Goto, containers, Procs, Running, Ended
<1>4. OwnedContainers'
  BY DEF OwnedContainers, ProxySteps, AgentSteps, TypeOK, None, Lock, Goto, containers,
     Procs, Running, Ended
<1>5. OwnedNets'
  BY DEF OwnedNets, SidecarSteps, EgressSteps, ProxySteps, AgentSteps, TypeOK, Lock,
     Goto, containers, Procs, Running, Ended
<1>6. ProxyStays'
  BY DEF ProxyStays, ProxySteps, AgentSteps, TypeOK, None, Lock, Goto, containers,
     Procs, Running, Ended
<1>7. NetworksOfTheLivingStay'
  BY DEF NetworksOfTheLivingStay, HasSidecar, Building, TypeOK, Lock, Goto, containers,
     Procs, Running, Ended
<1>8. NamesAreTheHolders'
  BY DEF NamesAreTheHolders, Building, CleaningUp, TypeOK, Lock, Goto, containers,
     Procs, Running, Ended
<1> QED BY <1>1, <1>2, <1>3, <1>4, <1>5, <1>6, <1>7, <1>8 DEF IInv

\* Nothing is made before ensure_network.
LEMMA PrepareStep ==
    ASSUME IInv, NEW p \in Launches, Prepare(p)
    PROVE  IInv'
<1> USE DEF IInv
<1>1. TypeOK'
  BY DEF TypeOK, None, Steps, Removing, Reaping, Stopping, Building, CleaningUp,
     Collecting, Ended, Prepare, Goto, containers, Procs
<1>2. Listed' BY DEF Listed, Gone, TypeOK, Prepare, Goto, containers, Procs
<1>3. Held' BY DEF Held, Holding, TypeOK, None, Prepare, Goto, containers, Procs
<1>4. OwnedContainers'
  BY DEF OwnedContainers, ProxySteps, AgentSteps, TypeOK, None, Prepare, Goto,
     containers, Procs
<1>5. OwnedNets'
  BY DEF OwnedNets, SidecarSteps, EgressSteps, ProxySteps, AgentSteps, TypeOK, Prepare,
     Goto, containers, Procs
<1>6. ProxyStays'
  BY DEF ProxyStays, ProxySteps, AgentSteps, TypeOK, None, Prepare, Goto, containers,
     Procs
<1>7. NetworksOfTheLivingStay'
  BY DEF NetworksOfTheLivingStay, HasSidecar, Building, TypeOK, Prepare, Goto,
     containers, Procs
<1>8. NamesAreTheHolders'
  BY DEF NamesAreTheHolders, Building, CleaningUp, TypeOK, Prepare, Goto, containers,
     Procs
<1> QED BY <1>1, <1>2, <1>3, <1>4, <1>5, <1>6, <1>7, <1>8 DEF IInv

\* The sidecar network is its launch's from here on.
LEMMA MkSidecarStep ==
    ASSUME IInv, NEW p \in Launches, MkSidecar(p)
    PROVE  IInv'
<1> USE DEF IInv
<1>1. TypeOK'
  BY NetNames DEF TypeOK, None, Steps, Removing, Reaping, Stopping, Building,
     CleaningUp, Collecting, Ended, MkSidecar, Goto, containers, Procs
<1>2. Listed' BY NetNames DEF Listed, Gone, TypeOK, MkSidecar, Goto, containers, Procs
<1>3. Held' BY NetNames DEF Held, Holding, TypeOK, None, MkSidecar, Goto, containers, Procs
<1>4. OwnedContainers'
  BY NetNames DEF OwnedContainers, ProxySteps, AgentSteps, TypeOK, None, MkSidecar,
     Goto, containers, Procs
<1>5. OwnedNets'
  BY NetNames DEF OwnedNets, SidecarSteps, EgressSteps, ProxySteps, AgentSteps, TypeOK,
     MkSidecar, Goto, containers, Procs
<1>6. ProxyStays'
  BY NetNames DEF ProxyStays, ProxySteps, AgentSteps, TypeOK, None, MkSidecar, Goto,
     containers, Procs
<1>7. NetworksOfTheLivingStay'
  BY NetNames DEF NetworksOfTheLivingStay, HasSidecar, Building, TypeOK, MkSidecar,
     Goto, containers, Procs
<1>8. NamesAreTheHolders'
  BY NetNames DEF NamesAreTheHolders, Building, CleaningUp, TypeOK, MkSidecar, Goto,
     containers, Procs
<1> QED BY <1>1, <1>2, <1>3, <1>4, <1>5, <1>6, <1>7, <1>8 DEF IInv

\* So is the egress network.
LEMMA MkEgressStep ==
    ASSUME IInv, NEW p \in Launches, MkEgress(p)
    PROVE  IInv'
<1> USE DEF IInv
<1>1. TypeOK'
  BY NetNames DEF TypeOK, None, Steps, Removing, Reaping, Stopping, Building,
     CleaningUp, Collecting, Ended, MkEgress, Goto, containers, Procs
<1>2. Listed' BY NetNames DEF Listed, Gone, TypeOK, MkEgress, Goto, containers, Procs
<1>3. Held' BY NetNames DEF Held, Holding, TypeOK, None, MkEgress, Goto, containers, Procs
<1>4. OwnedContainers'
  BY NetNames DEF OwnedContainers, ProxySteps, AgentSteps, TypeOK, None, MkEgress, Goto,
     containers, Procs
<1>5. OwnedNets'
  BY NetNames DEF OwnedNets, SidecarSteps, EgressSteps, ProxySteps, AgentSteps, TypeOK,
     MkEgress, Goto, containers, Procs
<1>6. ProxyStays'
  BY NetNames DEF ProxyStays, ProxySteps, AgentSteps, TypeOK, None, MkEgress, Goto,
     containers, Procs
<1>7. NetworksOfTheLivingStay'
  BY NetNames DEF NetworksOfTheLivingStay, HasSidecar, Building, TypeOK, MkEgress, Goto,
     containers, Procs
<1>8. NamesAreTheHolders'
  BY NetNames DEF NamesAreTheHolders, Building, CleaningUp, TypeOK, MkEgress, Goto,
     containers, Procs
<1> QED BY <1>1, <1>2, <1>3, <1>4, <1>5, <1>6, <1>7, <1>8 DEF IInv

\* The proxy belongs to the holder of the lock.
LEMMA RunProxyStep ==
    ASSUME IInv, NEW p \in Launches, RunProxy(p)
    PROVE  IInv'
<1> USE DEF IInv
<1>1. TypeOK'
  BY DEF TypeOK, None, Steps, Removing, Reaping, Stopping, Building, CleaningUp,
     Collecting, Ended, RunProxy, Goto, containers, Procs
<1>2. Listed' BY DEF Listed, Gone, TypeOK, RunProxy, Goto, containers, Procs
<1>3. Held' BY DEF Held, Holding, TypeOK, None, RunProxy, Goto, containers, Procs
<1>4. OwnedContainers'
  BY DEF OwnedContainers, ProxySteps, AgentSteps, TypeOK, None, RunProxy, Goto,
     containers, Procs
<1>5. OwnedNets'
  BY DEF OwnedNets, SidecarSteps, EgressSteps, ProxySteps, AgentSteps, TypeOK, RunProxy,
     Goto, containers, Procs
<1>6. ProxyStays'
  BY DEF ProxyStays, ProxySteps, AgentSteps, TypeOK, None, RunProxy, Goto, containers,
     Procs
<1>7. NetworksOfTheLivingStay'
  BY DEF NetworksOfTheLivingStay, HasSidecar, Building, TypeOK, RunProxy, Goto,
     containers, Procs
<1>8. NamesAreTheHolders'
  BY DEF NamesAreTheHolders, Building, CleaningUp, TypeOK, RunProxy, Goto, containers,
     Procs
<1> QED BY <1>1, <1>2, <1>3, <1>4, <1>5, <1>6, <1>7, <1>8 DEF IInv

\* Joining a network makes and removes nothing.
LEMMA ConnectProxyStep ==
    ASSUME IInv, NEW p \in Launches, ConnectProxy(p)
    PROVE  IInv'
<1> USE DEF IInv
<1>1. TypeOK'
  BY DEF TypeOK, None, Steps, Removing, Reaping, Stopping, Building, CleaningUp,
     Collecting, Ended, ConnectProxy, Goto, containers, Procs
<1>2. Listed' BY DEF Listed, Gone, TypeOK, ConnectProxy, Goto, containers, Procs
<1>3. Held' BY DEF Held, Holding, TypeOK, None, ConnectProxy, Goto, containers, Procs
<1>4. OwnedContainers'
  BY DEF OwnedContainers, ProxySteps, AgentSteps, TypeOK, None, ConnectProxy, Goto,
     containers, Procs
<1>5. OwnedNets'
  BY DEF OwnedNets, SidecarSteps, EgressSteps, ProxySteps, AgentSteps, TypeOK,
     ConnectProxy, Goto, containers, Procs
<1>6. ProxyStays'
  BY DEF ProxyStays, ProxySteps, AgentSteps, TypeOK, None, ConnectProxy, Goto,
     containers, Procs
<1>7. NetworksOfTheLivingStay'
  BY DEF NetworksOfTheLivingStay, HasSidecar, Building, TypeOK, ConnectProxy, Goto,
     containers, Procs
<1>8. NamesAreTheHolders'
  BY DEF NamesAreTheHolders, Building, CleaningUp, TypeOK, ConnectProxy, Goto,
     containers, Procs
<1> QED BY <1>1, <1>2, <1>3, <1>4, <1>5, <1>6, <1>7, <1>8 DEF IInv

\* Nor does the wait for the proxy.
LEMMA AwaitProxyStep ==
    ASSUME IInv, NEW p \in Launches, AwaitProxy(p)
    PROVE  IInv'
<1> USE DEF IInv
<1>1. TypeOK'
  BY DEF TypeOK, None, Steps, Removing, Reaping, Stopping, Building, CleaningUp,
     Collecting, Ended, AwaitProxy, Goto, containers, Procs
<1>2. Listed' BY DEF Listed, Gone, TypeOK, AwaitProxy, Goto, containers, Procs
<1>3. Held' BY DEF Held, Holding, TypeOK, None, AwaitProxy, Goto, containers, Procs
<1>4. OwnedContainers'
  BY DEF OwnedContainers, ProxySteps, AgentSteps, TypeOK, None, AwaitProxy, Goto,
     containers, Procs
<1>5. OwnedNets'
  BY DEF OwnedNets, SidecarSteps, EgressSteps, ProxySteps, AgentSteps, TypeOK,
     AwaitProxy, Goto, containers, Procs
<1>6. ProxyStays'
  BY DEF ProxyStays, ProxySteps, AgentSteps, TypeOK, None, AwaitProxy, Goto, containers,
     Procs
<1>7. NetworksOfTheLivingStay'
  BY DEF NetworksOfTheLivingStay, HasSidecar, Building, TypeOK, AwaitProxy, Goto,
     containers, Procs
<1>8. NamesAreTheHolders'
  BY DEF NamesAreTheHolders, Building, CleaningUp, TypeOK, AwaitProxy, Goto, containers,
     Procs
<1> QED BY <1>1, <1>2, <1>3, <1>4, <1>5, <1>6, <1>7, <1>8 DEF IInv

\* Nor do the credentials.
LEMMA CredentialsStep ==
    ASSUME IInv, NEW p \in Launches, Credentials(p)
    PROVE  IInv'
<1> USE DEF IInv
<1>1. TypeOK'
  BY DEF TypeOK, None, Steps, Removing, Reaping, Stopping, Building, CleaningUp,
     Collecting, Ended, Credentials, Goto, containers, Procs
<1>2. Listed' BY DEF Listed, Gone, TypeOK, Credentials, Goto, containers, Procs
<1>3. Held' BY DEF Held, Holding, TypeOK, None, Credentials, Goto, containers, Procs
<1>4. OwnedContainers'
  BY DEF OwnedContainers, ProxySteps, AgentSteps, TypeOK, None, Credentials, Goto,
     containers, Procs
<1>5. OwnedNets'
  BY DEF OwnedNets, SidecarSteps, EgressSteps, ProxySteps, AgentSteps, TypeOK,
     Credentials, Goto, containers, Procs
<1>6. ProxyStays'
  BY DEF ProxyStays, ProxySteps, AgentSteps, TypeOK, None, Credentials, Goto,
     containers, Procs
<1>7. NetworksOfTheLivingStay'
  BY DEF NetworksOfTheLivingStay, HasSidecar, Building, TypeOK, Credentials, Goto,
     containers, Procs
<1>8. NamesAreTheHolders'
  BY DEF NamesAreTheHolders, Building, CleaningUp, TypeOK, Credentials, Goto,
     containers, Procs
<1> QED BY <1>1, <1>2, <1>3, <1>4, <1>5, <1>6, <1>7, <1>8 DEF IInv

\* The agent belongs to the holder, whose proxy runs.
LEMMA RunAgentStep ==
    ASSUME IInv, NEW p \in Launches, RunAgent(p)
    PROVE  IInv'
<1> USE DEF IInv
<1>1. TypeOK'
  BY DEF TypeOK, None, Steps, Removing, Reaping, Stopping, Building, CleaningUp,
     Collecting, Ended, RunAgent, Goto, containers, Procs
<1>2. Listed' BY DEF Listed, Gone, TypeOK, RunAgent, Goto, containers, Procs
<1>3. Held' BY DEF Held, Holding, TypeOK, None, RunAgent, Goto, containers, Procs
<1>4. OwnedContainers'
  BY DEF OwnedContainers, ProxySteps, AgentSteps, TypeOK, None, RunAgent, Goto,
     containers, Procs
<1>5. OwnedNets'
  BY DEF OwnedNets, SidecarSteps, EgressSteps, ProxySteps, AgentSteps, TypeOK, RunAgent,
     Goto, containers, Procs
<1>6. ProxyStays'
  BY DEF ProxyStays, ProxySteps, AgentSteps, TypeOK, None, RunAgent, Goto, containers,
     Procs
<1>7. NetworksOfTheLivingStay'
  BY DEF NetworksOfTheLivingStay, HasSidecar, Building, TypeOK, RunAgent, Goto,
     containers, Procs
<1>8. NamesAreTheHolders'
  BY DEF NamesAreTheHolders, Building, CleaningUp, TypeOK, RunAgent, Goto, containers,
     Procs
<1> QED BY <1>1, <1>2, <1>3, <1>4, <1>5, <1>6, <1>7, <1>8 DEF IInv

\* cleanup() starts with everything in place.
LEMMA EndSessionStep ==
    ASSUME IInv, NEW p \in Launches, EndSession(p)
    PROVE  IInv'
<1> USE DEF IInv
<1>1. TypeOK'
  BY DEF TypeOK, None, Steps, Removing, Reaping, Stopping, Building, CleaningUp,
     Collecting, Ended, EndSession, Goto, containers, Procs
<1>2. Listed' BY DEF Listed, Gone, TypeOK, EndSession, Goto, containers, Procs
<1>3. Held' BY DEF Held, Holding, TypeOK, None, EndSession, Goto, containers, Procs
<1>4. OwnedContainers'
  BY DEF OwnedContainers, ProxySteps, AgentSteps, TypeOK, None, EndSession, Goto,
     containers, Procs
<1>5. OwnedNets'
  BY DEF OwnedNets, SidecarSteps, EgressSteps, ProxySteps, AgentSteps, TypeOK,
     EndSession, Goto, containers, Procs
<1>6. ProxyStays'
  BY DEF ProxyStays, ProxySteps, AgentSteps, TypeOK, None, EndSession, Goto, containers,
     Procs
<1>7. NetworksOfTheLivingStay'
  BY DEF NetworksOfTheLivingStay, HasSidecar, Building, TypeOK, EndSession, Goto,
     containers, Procs
<1>8. NamesAreTheHolders'
  BY DEF NamesAreTheHolders, Building, CleaningUp, TypeOK, EndSession, Goto, containers,
     Procs
<1> QED BY <1>1, <1>2, <1>3, <1>4, <1>5, <1>6, <1>7, <1>8 DEF IInv

\* A set-up broken off goes to the cleanup of what it may have made.
LEMMA BreakOffStep ==
    ASSUME IInv, NEW p \in Launches, BreakOff(p)
    PROVE  IInv'
<1> USE DEF IInv
<1>1. TypeOK'
  BY DEF TypeOK, None, Steps, Removing, Reaping, Stopping, Building, CleaningUp,
     Collecting, Ended, BreakOff, Goto, containers, Procs
<1>2. Listed' BY DEF Listed, Gone, TypeOK, BreakOff, Goto, containers, Procs, Building
<1>3. Held' BY DEF Held, Holding, TypeOK, None, BreakOff, Goto, containers, Procs, Building
<1>4. OwnedContainers'
  BY DEF OwnedContainers, ProxySteps, AgentSteps, TypeOK, None, BreakOff, Goto,
     containers, Procs, Building
<1>5. OwnedNets'
  BY DEF OwnedNets, SidecarSteps, EgressSteps, ProxySteps, AgentSteps, TypeOK, BreakOff,
     Goto, containers, Procs, Building
<1>6. ProxyStays'
  BY DEF ProxyStays, ProxySteps, AgentSteps, TypeOK, None, BreakOff, Goto, containers,
     Procs, Building
<1>7. NetworksOfTheLivingStay'
  BY DEF NetworksOfTheLivingStay, HasSidecar, Building, TypeOK, BreakOff, Goto,
     containers, Procs
<1>8. NamesAreTheHolders'
  BY DEF NamesAreTheHolders, Building, CleaningUp, TypeOK, BreakOff, Goto, containers,
     Procs
<1> QED BY <1>1, <1>2, <1>3, <1>4, <1>5, <1>6, <1>7, <1>8 DEF IInv

\* The lock goes last.
LEMMA ReleaseStep ==
    ASSUME IInv, NEW p \in Launches, Release(p)
    PROVE  IInv'
<1> USE DEF IInv
<1>1. TypeOK'
  BY DEF TypeOK, None, Steps, Removing, Reaping, Stopping, Building, CleaningUp,
     Collecting, Ended, Release, Goto, containers, Procs
<1>2. Listed' BY DEF Listed, Gone, TypeOK, Release, Goto, containers, Procs
<1>3. Held' BY DEF Held, Holding, TypeOK, None, Release, Goto, containers, Procs
<1>4. OwnedContainers'
  BY DEF OwnedContainers, ProxySteps, AgentSteps, TypeOK, None, Release, Goto,
     containers, Procs
<1>5. OwnedNets'
  BY DEF OwnedNets, SidecarSteps, EgressSteps, ProxySteps, AgentSteps, TypeOK, Release,
     Goto, containers, Procs
<1>6. ProxyStays'
  BY DEF ProxyStays, ProxySteps, AgentSteps, TypeOK, None, Release, Goto, containers,
     Procs
<1>7. NetworksOfTheLivingStay'
  BY DEF NetworksOfTheLivingStay, HasSidecar, Building, TypeOK, Release, Goto,
     containers, Procs
<1>8. NamesAreTheHolders'
  BY DEF NamesAreTheHolders, Building, CleaningUp, TypeOK, Release, Goto, containers,
     Procs
<1> QED BY <1>1, <1>2, <1>3, <1>4, <1>5, <1>6, <1>7, <1>8 DEF IInv

\* A session comes up.
LEMMA SessionUpStep ==
    ASSUME IInv, NEW w \in Workspaces, SessionUp(w)
    PROVE  IInv'
<1> USE DEF IInv
<1>1. TypeOK'
  BY DEF TypeOK, None, Steps, Removing, Reaping, Stopping, Building, CleaningUp,
     Collecting, Ended, SessionUp, Goto, containers, Procs
<1>2. Listed' BY DEF Listed, Gone, TypeOK, SessionUp, Goto, containers, Procs
<1>3. Held' BY DEF Held, Holding, TypeOK, None, SessionUp, Goto, containers, Procs
<1>4. OwnedContainers'
  BY DEF OwnedContainers, ProxySteps, AgentSteps, TypeOK, None, SessionUp, Goto,
     containers, Procs
<1>5. OwnedNets'
  BY DEF OwnedNets, SidecarSteps, EgressSteps, ProxySteps, AgentSteps, TypeOK,
     SessionUp, Goto, containers, Procs
<1>6. ProxyStays'
  BY DEF ProxyStays, ProxySteps, AgentSteps, TypeOK, None, SessionUp, Goto, containers,
     Procs
<1>7. NetworksOfTheLivingStay'
  BY DEF NetworksOfTheLivingStay, HasSidecar, Building, TypeOK, SessionUp, Goto,
     containers, Procs
<1>8. NamesAreTheHolders'
  BY DEF NamesAreTheHolders, Building, CleaningUp, TypeOK, SessionUp, Goto, containers,
     Procs
<1> QED BY <1>1, <1>2, <1>3, <1>4, <1>5, <1>6, <1>7, <1>8 DEF IInv

\* A session ends, and a foreground container with it.
LEMMA SessionOverStep ==
    ASSUME IInv, NEW w \in Workspaces, SessionOver(w)
    PROVE  IInv'
<1> USE DEF IInv
<1>1. TypeOK'
  BY DEF TypeOK, None, Steps, Removing, Reaping, Stopping, Building, CleaningUp,
     Collecting, Ended, SessionOver, Goto, containers, Procs
<1>2. Listed' BY DEF Listed, Gone, TypeOK, SessionOver, Goto, containers, Procs
<1>3. Held' BY DEF Held, Holding, TypeOK, None, SessionOver, Goto, containers, Procs
<1>4. OwnedContainers'
  BY DEF OwnedContainers, ProxySteps, AgentSteps, TypeOK, None, SessionOver, Goto,
     containers, Procs
<1>5. OwnedNets'
  BY DEF OwnedNets, SidecarSteps, EgressSteps, ProxySteps, AgentSteps, TypeOK,
     SessionOver, Goto, containers, Procs
<1>6. ProxyStays'
  BY DEF ProxyStays, ProxySteps, AgentSteps, TypeOK, None, SessionOver, Goto,
     containers, Procs
<1>7. NetworksOfTheLivingStay'
  BY DEF NetworksOfTheLivingStay, HasSidecar, Building, TypeOK, SessionOver, Goto,
     containers, Procs
<1>8. NamesAreTheHolders'
  BY DEF NamesAreTheHolders, Building, CleaningUp, TypeOK, SessionOver, Goto,
     containers, Procs
<1> QED BY <1>1, <1>2, <1>3, <1>4, <1>5, <1>6, <1>7, <1>8 DEF IInv

\* A killed launch leaves what it made.
LEMMA CrashStep ==
    ASSUME IInv, NEW p \in Procs, Crash(p)
    PROVE  IInv'
<1> USE DEF IInv
<1>1. TypeOK'
  BY DEF TypeOK, None, Steps, Removing, Reaping, Stopping, Building, CleaningUp,
     Collecting, Ended, Crash, Running, Goto, containers, Procs
<1>2. Listed' BY DEF Listed, Gone, TypeOK, Crash, Running, Ended, Goto, containers, Procs
<1>3. Held'
  BY DEF Held, Holding, TypeOK, None, Crash, Running, Ended, Goto, containers, Procs
<1>4. OwnedContainers'
  BY DEF OwnedContainers, ProxySteps, AgentSteps, TypeOK, None, Crash, Running, Ended,
     Goto, containers, Procs
<1>5. OwnedNets'
  BY DEF OwnedNets, SidecarSteps, EgressSteps, ProxySteps, AgentSteps, TypeOK, Crash,
     Running, Ended, Goto, containers, Procs
<1>6. ProxyStays'
  BY DEF ProxyStays, ProxySteps, AgentSteps, TypeOK, None, Crash, Running, Ended, Goto,
     containers, Procs
<1>7. NetworksOfTheLivingStay'
  BY DEF NetworksOfTheLivingStay, HasSidecar, Building, TypeOK, Crash, Running, Ended,
     Goto, containers, Procs
<1>8. NamesAreTheHolders'
  BY DEF NamesAreTheHolders, Building, CleaningUp, TypeOK, Crash, Running, Ended, Goto,
     containers, Procs
<1> QED BY <1>1, <1>2, <1>3, <1>4, <1>5, <1>6, <1>7, <1>8 DEF IInv

\* After a restart no process runs.
LEMMA RebootStep ==
    ASSUME IInv, Reboot
    PROVE  IInv'
<1> USE DEF IInv
<1>1. TypeOK'
  BY DEF TypeOK, None, Steps, Removing, Reaping, Stopping, Building, CleaningUp,
     Collecting, Ended, Reboot, Running, Goto, containers, Procs
<1>2. Listed' BY DEF Listed, Gone, TypeOK, Reboot, Running, Ended, Goto, containers, Procs
<1>3. Held'
  BY DEF Held, Holding, TypeOK, None, Reboot, Running, Ended, Goto, containers, Procs
<1>4. OwnedContainers'
  BY DEF OwnedContainers, ProxySteps, AgentSteps, TypeOK, None, Reboot, Running, Ended,
     Goto, containers, Procs
<1>5. OwnedNets'
  BY DEF OwnedNets, SidecarSteps, EgressSteps, ProxySteps, AgentSteps, TypeOK, Reboot,
     Running, Ended, Goto, containers, Procs
<1>6. ProxyStays'
  BY DEF ProxyStays, ProxySteps, AgentSteps, TypeOK, None, Reboot, Running, Ended, Goto,
     containers, Procs
<1>7. NetworksOfTheLivingStay'
  BY DEF NetworksOfTheLivingStay, HasSidecar, Building, TypeOK, Reboot, Running, Ended,
     Goto, containers, Procs
<1>8. NamesAreTheHolders'
  BY DEF NamesAreTheHolders, Building, CleaningUp, TypeOK, Reboot, Running, Ended, Goto,
     containers, Procs
<1> QED BY <1>1, <1>2, <1>3, <1>4, <1>5, <1>6, <1>7, <1>8 DEF IInv

\* Under the lock, no running launch has a proxy of the name ...
LEMMA RmOldProxyStep ==
    ASSUME IInv, NEW p \in Launches, RmOldProxy(p)
    PROVE  IInv'
<1> USE DEF IInv
<1>w. WorkspaceOf[p] \in Workspaces OBVIOUS
<1>r. Removed(p, "proxy", WorkspaceOf[p]) /\ pc[p] \in Removing
  BY <1>w, RemoveEffect DEF RmOldProxy, TypeOK, Removing, Building, CleaningUp, Procs
<1>o. \/ proxy[WorkspaceOf[p]] \in {None, p}
      \/ ~Running(proxy[WorkspaceOf[p]])
  <2> SUFFICES ASSUME proxy[WorkspaceOf[p]] # None, Running(proxy[WorkspaceOf[p]])
               PROVE  proxy[WorkspaceOf[p]] = p
    OBVIOUS
  <2> DEFINE q == proxy[WorkspaceOf[p]]
  <2>1. q \in Launches /\ WorkspaceOf[q] = WorkspaceOf[p] /\ pc[q] \in ProxySteps
    BY <1>w DEF TypeOK, OwnedContainers, ProxySteps
  <2>2. pc[q] \in Holding BY <2>1 DEF Running, Ended, ProxySteps, AgentSteps, Holding
  <2>3. pc[p] \in Holding BY DEF RmOldProxy, Holding
  <2> QED BY <2>1, <2>2, <2>3 DEF Held
<1>s. stray' = stray BY <1>r, <1>o DEF Removed
<1>1. TypeOK'
  BY <1>r DEF TypeOK, None, Steps, Removing, Reaping, Stopping, Building, CleaningUp,
     Collecting, Ended, RmOldProxy, Goto, Removed, Running, Procs
<1>2. Listed'
  BY <1>r DEF Listed, Gone, TypeOK, RmOldProxy, Goto, Removed, Running, Ended, Procs
<1>3. Held'
  BY <1>r DEF Held, Holding, TypeOK, None, RmOldProxy, Goto, Removed, Running, Ended,
     Procs
<1>4. OwnedContainers'
  BY <1>r DEF OwnedContainers, ProxySteps, AgentSteps, TypeOK, None, RmOldProxy, Goto,
     Removed, Running, Ended, Procs
<1>5. OwnedNets'
  BY DEF OwnedNets, SidecarSteps, EgressSteps, ProxySteps, AgentSteps, TypeOK,
     RmOldProxy, Goto, Procs
<1>6. ProxyStays'
  BY <1>r, <1>o, <1>s DEF ProxyStays, ProxySteps, AgentSteps, TypeOK, RmOldProxy, Goto,
     Removed, Running, Ended, Procs, None
<1>7. NetworksOfTheLivingStay'
  BY DEF NetworksOfTheLivingStay, HasSidecar, Building, TypeOK, RmOldProxy, Goto, Procs
<1>8. NamesAreTheHolders' BY <1>s DEF NamesAreTheHolders
<1> QED BY <1>1, <1>2, <1>3, <1>4, <1>5, <1>6, <1>7, <1>8 DEF IInv

\* ... or an agent.
LEMMA RmOldAgentStep ==
    ASSUME IInv, NEW p \in Launches, RmOldAgent(p)
    PROVE  IInv'
<1> USE DEF IInv
<1>w. WorkspaceOf[p] \in Workspaces OBVIOUS
<1>r. Removed(p, "agent", WorkspaceOf[p]) /\ pc[p] \in Removing
  BY <1>w, RemoveEffect DEF RmOldAgent, TypeOK, Removing, Building, CleaningUp, Procs
<1>o. \/ agent[WorkspaceOf[p]] \in {None, p}
      \/ ~Running(agent[WorkspaceOf[p]])
  <2> SUFFICES ASSUME agent[WorkspaceOf[p]] # None, Running(agent[WorkspaceOf[p]])
               PROVE  agent[WorkspaceOf[p]] = p
    OBVIOUS
  <2> DEFINE q == agent[WorkspaceOf[p]]
  <2>1. q \in Launches /\ WorkspaceOf[q] = WorkspaceOf[p] /\ pc[q] \in ProxySteps
    BY <1>w DEF TypeOK, OwnedContainers, ProxySteps
  <2>2. pc[q] \in Holding BY <2>1 DEF Running, Ended, ProxySteps, AgentSteps, Holding
  <2>3. pc[p] \in Holding BY DEF RmOldAgent, Holding
  <2> QED BY <2>1, <2>2, <2>3 DEF Held
<1>s. stray' = stray BY <1>r, <1>o DEF Removed
<1>1. TypeOK'
  BY <1>r DEF TypeOK, None, Steps, Removing, Reaping, Stopping, Building, CleaningUp,
     Collecting, Ended, RmOldAgent, Goto, Removed, Running, Procs
<1>2. Listed'
  BY <1>r DEF Listed, Gone, TypeOK, RmOldAgent, Goto, Removed, Running, Ended, Procs
<1>3. Held'
  BY <1>r DEF Held, Holding, TypeOK, None, RmOldAgent, Goto, Removed, Running, Ended,
     Procs
<1>4. OwnedContainers'
  BY <1>r DEF OwnedContainers, ProxySteps, AgentSteps, TypeOK, None, RmOldAgent, Goto,
     Removed, Running, Ended, Procs
<1>5. OwnedNets'
  BY DEF OwnedNets, SidecarSteps, EgressSteps, ProxySteps, AgentSteps, TypeOK,
     RmOldAgent, Goto, Procs
<1>6. ProxyStays'
  BY <1>r, <1>o, <1>s DEF ProxyStays, ProxySteps, AgentSteps, TypeOK, RmOldAgent, Goto,
     Removed, Running, Ended, Procs, None
<1>7. NetworksOfTheLivingStay'
  BY DEF NetworksOfTheLivingStay, HasSidecar, Building, TypeOK, RmOldAgent, Goto, Procs
<1>8. NamesAreTheHolders' BY <1>s DEF NamesAreTheHolders
<1> QED BY <1>1, <1>2, <1>3, <1>4, <1>5, <1>6, <1>7, <1>8 DEF IInv

\* cleanup() removes its own agent ...
LEMMA CleanAgentStep ==
    ASSUME IInv, NEW p \in Launches, CleanAgent(p)
    PROVE  IInv'
<1> USE DEF IInv
<1>w. WorkspaceOf[p] \in Workspaces OBVIOUS
<1>r. Removed(p, "agent", WorkspaceOf[p]) /\ pc[p] \in Removing
  BY <1>w, RemoveEffect DEF CleanAgent, TypeOK, Removing, Building, CleaningUp, Procs
<1>o. \/ agent[WorkspaceOf[p]] \in {None, p}
      \/ ~Running(agent[WorkspaceOf[p]])
  <2> SUFFICES ASSUME agent[WorkspaceOf[p]] # None, Running(agent[WorkspaceOf[p]])
               PROVE  agent[WorkspaceOf[p]] = p
    OBVIOUS
  <2> DEFINE q == agent[WorkspaceOf[p]]
  <2>1. q \in Launches /\ WorkspaceOf[q] = WorkspaceOf[p] /\ pc[q] \in ProxySteps
    BY <1>w DEF TypeOK, OwnedContainers, ProxySteps
  <2>2. pc[q] \in Holding BY <2>1 DEF Running, Ended, ProxySteps, AgentSteps, Holding
  <2>3. pc[p] \in Holding BY DEF CleanAgent, Holding
  <2> QED BY <2>1, <2>2, <2>3 DEF Held
<1>s. stray' = stray BY <1>r, <1>o DEF Removed
<1>1. TypeOK'
  BY <1>r DEF TypeOK, None, Steps, Removing, Reaping, Stopping, Building, CleaningUp,
     Collecting, Ended, CleanAgent, Goto, Removed, Running, Procs
<1>2. Listed'
  BY <1>r DEF Listed, Gone, TypeOK, CleanAgent, Goto, Removed, Running, Ended, Procs
<1>3. Held'
  BY <1>r DEF Held, Holding, TypeOK, None, CleanAgent, Goto, Removed, Running, Ended,
     Procs
<1>4. OwnedContainers'
  BY <1>r DEF OwnedContainers, ProxySteps, AgentSteps, TypeOK, None, CleanAgent, Goto,
     Removed, Running, Ended, Procs
<1>5. OwnedNets'
  BY DEF OwnedNets, SidecarSteps, EgressSteps, ProxySteps, AgentSteps, TypeOK,
     CleanAgent, Goto, Procs
<1>6. ProxyStays'
  BY <1>r, <1>o, <1>s DEF ProxyStays, ProxySteps, AgentSteps, TypeOK, CleanAgent, Goto,
     Removed, Running, Ended, Procs, None
<1>7. NetworksOfTheLivingStay'
  BY DEF NetworksOfTheLivingStay, HasSidecar, Building, TypeOK, CleanAgent, Goto, Procs
<1>8. NamesAreTheHolders' BY <1>s DEF NamesAreTheHolders
<1> QED BY <1>1, <1>2, <1>3, <1>4, <1>5, <1>6, <1>7, <1>8 DEF IInv

\* ... and its own proxy.
LEMMA CleanProxyStep ==
    ASSUME IInv, NEW p \in Launches, CleanProxy(p)
    PROVE  IInv'
<1> USE DEF IInv
<1>w. WorkspaceOf[p] \in Workspaces OBVIOUS
<1>r. Removed(p, "proxy", WorkspaceOf[p]) /\ pc[p] \in Removing
  BY <1>w, RemoveEffect DEF CleanProxy, TypeOK, Removing, Building, CleaningUp, Procs
<1>o. \/ proxy[WorkspaceOf[p]] \in {None, p}
      \/ ~Running(proxy[WorkspaceOf[p]])
  <2> SUFFICES ASSUME proxy[WorkspaceOf[p]] # None, Running(proxy[WorkspaceOf[p]])
               PROVE  proxy[WorkspaceOf[p]] = p
    OBVIOUS
  <2> DEFINE q == proxy[WorkspaceOf[p]]
  <2>1. q \in Launches /\ WorkspaceOf[q] = WorkspaceOf[p] /\ pc[q] \in ProxySteps
    BY <1>w DEF TypeOK, OwnedContainers, ProxySteps
  <2>2. pc[q] \in Holding BY <2>1 DEF Running, Ended, ProxySteps, AgentSteps, Holding
  <2>3. pc[p] \in Holding BY DEF CleanProxy, Holding
  <2> QED BY <2>1, <2>2, <2>3 DEF Held
<1>s. stray' = stray BY <1>r, <1>o DEF Removed
<1>1. TypeOK'
  BY <1>r DEF TypeOK, None, Steps, Removing, Reaping, Stopping, Building, CleaningUp,
     Collecting, Ended, CleanProxy, Goto, Removed, Running, Procs
<1>2. Listed'
  BY <1>r DEF Listed, Gone, TypeOK, CleanProxy, Goto, Removed, Running, Ended, Procs
<1>3. Held'
  BY <1>r DEF Held, Holding, TypeOK, None, CleanProxy, Goto, Removed, Running, Ended,
     Procs
<1>4. OwnedContainers'
  BY <1>r DEF OwnedContainers, ProxySteps, AgentSteps, TypeOK, None, CleanProxy, Goto,
     Removed, Running, Ended, Procs
<1>5. OwnedNets'
  BY DEF OwnedNets, SidecarSteps, EgressSteps, ProxySteps, AgentSteps, TypeOK,
     CleanProxy, Goto, Procs
<1>6. ProxyStays'
  BY <1>r, <1>o, <1>s DEF ProxyStays, ProxySteps, AgentSteps, TypeOK, CleanProxy, Goto,
     Removed, Running, Ended, Procs, None
<1>7. NetworksOfTheLivingStay'
  BY DEF NetworksOfTheLivingStay, HasSidecar, Building, TypeOK, CleanProxy, Goto, Procs
<1>8. NamesAreTheHolders' BY <1>s DEF NamesAreTheHolders
<1> QED BY <1>1, <1>2, <1>3, <1>4, <1>5, <1>6, <1>7, <1>8 DEF IInv

\* A reaper removes a proxy by its name.
LEMMA RmProxyStep ==
    ASSUME IInv, NEW p \in Procs, RmProxy(p)
    PROVE  IInv'
<1> USE DEF IInv
<1>w. victim[p] \in Workspaces BY DEF Listed, RmProxy
<1>r. Removed(p, "proxy", victim[p]) /\ pc[p] \in Removing
  BY <1>w, RemoveEffect DEF RmProxy, TypeOK, Removing, Reaping
<1>1. TypeOK'
  BY <1>r DEF TypeOK, None, Steps, Removing, Reaping, Stopping, Building, CleaningUp,
     Collecting, Ended, RmProxy, Goto, Removed, Running, Procs
<1>2. Listed'
  BY <1>r DEF Listed, Gone, TypeOK, RmProxy, Goto, Removed, Running, Ended, Procs
<1>3. Held'
  BY <1>r DEF Held, Holding, TypeOK, None, RmProxy, Goto, Removed, Running, Ended, Procs
<1>4. OwnedContainers'
  BY <1>r DEF OwnedContainers, ProxySteps, AgentSteps, TypeOK, None, RmProxy, Goto,
     Removed, Running, Ended, Procs
<1>5. OwnedNets'
  BY DEF OwnedNets, SidecarSteps, EgressSteps, ProxySteps, AgentSteps, TypeOK, RmProxy,
     Goto, Procs
<1>6. ProxyStays'
  <2> SUFFICES ASSUME NEW q \in Launches, pc[q] \in ProxySteps \ {"cleanProxy", "dead"},
                      stray' = {}
               PROVE  proxy'[WorkspaceOf[q]] = q
    BY DEF ProxyStays, RmProxy, Goto, TypeOK, Procs, ProxySteps, AgentSteps
  <2>1. stray = {} /\ (proxy[victim[p]] \in {None, p} \/ ~Running(proxy[victim[p]]))
    BY <1>r DEF Removed
  <2>2. proxy[WorkspaceOf[q]] = q BY <2>1 DEF ProxyStays
  <2>3. q # p /\ q # None /\ Running(q)
    BY DEF RmProxy, Running, Ended, ProxySteps, AgentSteps, None
  <2>4. WorkspaceOf[q] # victim[p] BY <2>1, <2>2, <2>3
  <2> QED BY <1>r, <1>w, <2>2, <2>4 DEF Removed
<1>7. NetworksOfTheLivingStay'
  BY DEF NetworksOfTheLivingStay, HasSidecar, Building, TypeOK, RmProxy, Goto, Procs
<1>8. NamesAreTheHolders'
  BY <1>r DEF NamesAreTheHolders, Building, CleaningUp, TypeOK, RmProxy, Goto, Removed,
     Running, Ended, Procs
<1> QED BY <1>1, <1>2, <1>3, <1>4, <1>5, <1>6, <1>7, <1>8 DEF IInv

\* A reaper lists networks of launches that are through.
LEMMA ListNetsStep ==
    ASSUME IInv, NEW p \in Procs, ListNets(p)
    PROVE  IInv'
<1> USE DEF IInv
<1>o. OrphanNets \subseteq Networks \cup Rows BY DEF OrphanNets, TypeOK
<1>g. \A q \in Launches, k \in {"sidecar", "egress"} : <<k, q>> \in OrphanNets => pc[q] \in Gone
 
    BY DEF OrphanNets, Running, Ended, Gone, OwnedNets, Egress, Sidecar, EgressSteps,
       SidecarSteps, ProxySteps, AgentSteps
<1>1. TypeOK'
  BY <1>o, ListSteps DEF TypeOK, Steps, Removing, Reaping, Stopping, Building,
     CleaningUp, Collecting, Ended, ListNets, Goto, containers
<1>2. Listed' BY <1>g, ListSteps DEF Listed, Gone, TypeOK, ListNets, Goto, containers, Procs
<1>3. Held'
  BY ListSteps DEF Held, Holding, TypeOK, None, ListNets, Goto, containers, Procs,
     OrphanNets, Running, Ended
<1>4. OwnedContainers'
  BY ListSteps DEF OwnedContainers, ProxySteps, AgentSteps, TypeOK, None, ListNets,
     Goto, containers, Procs, OrphanNets, Running, Ended
<1>5. OwnedNets'
  BY ListSteps DEF OwnedNets, SidecarSteps, EgressSteps, ProxySteps, AgentSteps, TypeOK,
     ListNets, Goto, containers, Procs, OrphanNets, Running, Ended
<1>6. ProxyStays'
  BY ListSteps DEF ProxyStays, ProxySteps, AgentSteps, TypeOK, None, ListNets, Goto,
     containers, Procs, OrphanNets, Running, Ended
<1>7. NetworksOfTheLivingStay'
  BY ListSteps DEF NetworksOfTheLivingStay, HasSidecar, Building, TypeOK, ListNets,
     Goto, containers, Procs, OrphanNets, Running, Ended
<1>8. NamesAreTheHolders'
  BY ListSteps DEF NamesAreTheHolders, Building, CleaningUp, TypeOK, ListNets, Goto,
     containers, Procs, OrphanNets, Running, Ended
<1> QED BY <1>1, <1>2, <1>3, <1>4, <1>5, <1>6, <1>7, <1>8 DEF IInv

\* So it removes no network of one under way.
LEMMA RmNetStep ==
    ASSUME IInv, NEW p \in Procs, RmNet(p)
    PROVE  IInv'
<1> USE DEF IInv
<1>n. \A q \in Launches, k \in {"sidecar", "egress"} :
         (<<k, q>> \in nets /\ pc[q] \notin Gone) => <<k, q>> \in nets'
  <2> SUFFICES ASSUME NEW q \in Launches, NEW k \in {"sidecar", "egress"},
                      <<k, q>> \in nets, pc[q] \notin Gone
               PROVE  <<k, q>> \in nets'
    OBVIOUS
  <2>1. <<k, q>> \notin doomed[p] BY DEF Listed
  <2> QED BY <2>1 DEF RmNet
<1>c. /\ \A q \in Procs \ {p} : pc'[q] = pc[q]
      /\ pc'[p] \notin HasSidecar
  BY NetSteps DEF RmNet, Goto, AfterLook, TypeOK, HasSidecar, Building
<1>1. TypeOK'
  BY NetSteps DEF TypeOK, None, Steps, Removing, Reaping, Stopping, Building,
     CleaningUp, Collecting, Ended, RmNet, Goto, containers, Procs, AfterLook
<1>2. Listed'
  BY NetSteps DEF Listed, Gone, TypeOK, RmNet, Goto, containers, Procs, AfterLook
<1>3. Held'
  BY NetSteps DEF Held, Holding, TypeOK, None, RmNet, Goto, containers, Procs, AfterLook
<1>4. OwnedContainers'
  BY NetSteps DEF OwnedContainers, ProxySteps, AgentSteps, TypeOK, None, RmNet, Goto,
     containers, Procs, AfterLook
<1>5. OwnedNets'
  BY NetSteps DEF OwnedNets, SidecarSteps, EgressSteps, ProxySteps, AgentSteps, TypeOK,
     RmNet, Goto, containers, Procs, AfterLook
<1>6. ProxyStays'
  BY NetSteps DEF ProxyStays, ProxySteps, AgentSteps, TypeOK, None, RmNet, Goto,
     containers, Procs, AfterLook
<1>7. NetworksOfTheLivingStay'
 
    BY <1>n, <1>c DEF NetworksOfTheLivingStay, HasSidecar, Building, Sidecar, Egress,
       Gone, Procs
<1>8. NamesAreTheHolders'
  BY NetSteps DEF NamesAreTheHolders, Building, CleaningUp, TypeOK, RmNet, Goto,
     containers, Procs, AfterLook
<1> QED BY <1>1, <1>2, <1>3, <1>4, <1>5, <1>6, <1>7, <1>8 DEF IInv

\* It lists proxies by row.
LEMMA ListProxiesStep ==
    ASSUME IInv, NEW p \in Procs, ListProxies(p)
    PROVE  IInv'
<1> USE DEF IInv
<1>1. TypeOK'
  BY NetIsNoRow, RowParts DEF TypeOK, None, Steps, Removing, Reaping, Stopping,
     Building, CleaningUp, Collecting, Ended, ListProxies, Goto, containers, Procs,
     PresentRows
<1>2. Listed'
  BY NetIsNoRow, RowParts DEF Listed, Gone, TypeOK, ListProxies, Goto, containers,
     Procs, PresentRows
<1>3. Held'
  BY NetIsNoRow, RowParts DEF Held, Holding, TypeOK, None, ListProxies, Goto,
     containers, Procs, PresentRows
<1>4. OwnedContainers'
  BY NetIsNoRow, RowParts DEF OwnedContainers, ProxySteps, AgentSteps, TypeOK, None,
     ListProxies, Goto, containers, Procs, PresentRows
<1>5. OwnedNets'
  BY NetIsNoRow, RowParts DEF OwnedNets, SidecarSteps, EgressSteps, ProxySteps,
     AgentSteps, TypeOK, ListProxies, Goto, containers, Procs, PresentRows
<1>6. ProxyStays'
  BY NetIsNoRow, RowParts DEF ProxyStays, ProxySteps, AgentSteps, TypeOK, None,
     ListProxies, Goto, containers, Procs, PresentRows
<1>7. NetworksOfTheLivingStay'
  BY NetIsNoRow, RowParts DEF NetworksOfTheLivingStay, HasSidecar, Building, TypeOK,
     ListProxies, Goto, containers, Procs, PresentRows
<1>8. NamesAreTheHolders'
  BY NetIsNoRow, RowParts DEF NamesAreTheHolders, Building, CleaningUp, TypeOK,
     ListProxies, Goto, containers, Procs, PresentRows
<1> QED BY <1>1, <1>2, <1>3, <1>4, <1>5, <1>6, <1>7, <1>8 DEF IInv

\* It picks the victim from the rows.
LEMMA JudgeProxyStep ==
    ASSUME IInv, NEW p \in Procs, JudgeProxy(p)
    PROVE  IInv'
<1> USE DEF IInv
<1>1. TypeOK'
  <2>1. CASE doomed[p] = {}
   
      BY <2>1 DEF TypeOK, Steps, Removing, Reaping, Stopping, Building, CleaningUp,
         Collecting, Ended, JudgeProxy, Goto, containers
  <2>2. CASE doomed[p] # {}
    <3>1. PICK r \in doomed[p] :
             /\ doomed' = [doomed EXCEPT ![p] = @ \ {r}]
             /\ IF AgentAbsent(r[2])
                THEN Goto(p, "rmProxy") /\ victim' = [victim EXCEPT ![p] = r[2]]
                ELSE UNCHANGED <<pc, victim>>
      BY <2>2 DEF JudgeProxy
    <3>2. r[2] \in Workspaces BY RowParts DEF Listed, JudgeProxy
    <3>3. doomed' \in [Procs -> SUBSET (Networks \cup Rows)] BY <3>1 DEF TypeOK
    <3>4. victim' \in [Procs -> Workspaces \cup {None}] BY <3>1, <3>2 DEF TypeOK
    <3>5. pc' \in [Procs -> Steps]
      BY <3>1 DEF TypeOK, Goto, Steps, Removing, Reaping, Stopping, Building,
         CleaningUp, Collecting, Ended
    <3> QED BY <3>3, <3>4, <3>5 DEF TypeOK, JudgeProxy, containers
  <2> QED BY <2>1, <2>2
<1>2. Listed'
  BY NetIsNoRow, RowParts DEF Listed, Gone, TypeOK, JudgeProxy, Goto, containers, Procs
<1>3. Held'
  BY NetIsNoRow, RowParts DEF Held, Holding, TypeOK, None, JudgeProxy, Goto, containers,
     Procs
<1>4. OwnedContainers'
  BY NetIsNoRow, RowParts DEF OwnedContainers, ProxySteps, AgentSteps, TypeOK, None,
     JudgeProxy, Goto, containers, Procs
<1>5. OwnedNets'
  BY NetIsNoRow, RowParts DEF OwnedNets, SidecarSteps, EgressSteps, ProxySteps,
     AgentSteps, TypeOK, JudgeProxy, Goto, containers, Procs
<1>6. ProxyStays'
  BY NetIsNoRow, RowParts DEF ProxyStays, ProxySteps, AgentSteps, TypeOK, None,
     JudgeProxy, Goto, containers, Procs
<1>7. NetworksOfTheLivingStay'
  BY NetIsNoRow, RowParts DEF NetworksOfTheLivingStay, HasSidecar, Building, TypeOK,
     JudgeProxy, Goto, containers, Procs
<1>8. NamesAreTheHolders'
  BY NetIsNoRow, RowParts DEF NamesAreTheHolders, Building, CleaningUp, TypeOK,
     JudgeProxy, Goto, containers, Procs
<1> QED BY <1>1, <1>2, <1>3, <1>4, <1>5, <1>6, <1>7, <1>8 DEF IInv

\* --gc plans,
LEMMA GcPlanStep ==
    ASSUME IInv, NEW p \in Tools, GcPlan(p)
    PROVE  IInv'
<1> USE DEF IInv
<1>1. TypeOK'
  BY NetIsNoRow DEF TypeOK, None, Steps, Removing, Reaping, Stopping, Building,
     CleaningUp, Collecting, Ended, GcPlan, Goto, containers, Procs, PresentRows,
     DeadOwnerRows
<1>2. Listed'
  BY NetIsNoRow DEF Listed, Gone, TypeOK, GcPlan, Goto, containers, Procs, PresentRows,
     DeadOwnerRows
<1>3. Held'
  BY NetIsNoRow DEF Held, Holding, TypeOK, None, GcPlan, Goto, containers, Procs,
     PresentRows, DeadOwnerRows
<1>4. OwnedContainers'
  BY NetIsNoRow DEF OwnedContainers, ProxySteps, AgentSteps, TypeOK, None, GcPlan, Goto,
     containers, Procs, PresentRows, DeadOwnerRows
<1>5. OwnedNets'
  BY NetIsNoRow DEF OwnedNets, SidecarSteps, EgressSteps, ProxySteps, AgentSteps,
     TypeOK, GcPlan, Goto, containers, Procs, PresentRows, DeadOwnerRows
<1>6. ProxyStays'
  BY NetIsNoRow DEF ProxyStays, ProxySteps, AgentSteps, TypeOK, None, GcPlan, Goto,
     containers, Procs, PresentRows, DeadOwnerRows
<1>7. NetworksOfTheLivingStay'
  BY NetIsNoRow DEF NetworksOfTheLivingStay, HasSidecar, Building, TypeOK, GcPlan, Goto,
     containers, Procs, PresentRows, DeadOwnerRows
<1>8. NamesAreTheHolders'
  BY NetIsNoRow DEF NamesAreTheHolders, Building, CleaningUp, TypeOK, GcPlan, Goto,
     containers, Procs, PresentRows, DeadOwnerRows
<1> QED BY <1>1, <1>2, <1>3, <1>4, <1>5, <1>6, <1>7, <1>8 DEF IInv

\* lists,
LEMMA GcListStep ==
    ASSUME IInv, NEW p \in Tools, GcList(p)
    PROVE  IInv'
<1> USE DEF IInv
<1>1. TypeOK'
  BY NetIsNoRow DEF TypeOK, None, Steps, Removing, Reaping, Stopping, Building,
     CleaningUp, Collecting, Ended, GcList, Goto, containers, Procs, PresentRows,
     DeadOwnerRows
<1>2. Listed'
  BY NetIsNoRow DEF Listed, Gone, TypeOK, GcList, Goto, containers, Procs, PresentRows,
     DeadOwnerRows
<1>3. Held'
  BY NetIsNoRow DEF Held, Holding, TypeOK, None, GcList, Goto, containers, Procs,
     PresentRows, DeadOwnerRows
<1>4. OwnedContainers'
  BY NetIsNoRow DEF OwnedContainers, ProxySteps, AgentSteps, TypeOK, None, GcList, Goto,
     containers, Procs, PresentRows, DeadOwnerRows
<1>5. OwnedNets'
  BY NetIsNoRow DEF OwnedNets, SidecarSteps, EgressSteps, ProxySteps, AgentSteps,
     TypeOK, GcList, Goto, containers, Procs, PresentRows, DeadOwnerRows
<1>6. ProxyStays'
  BY NetIsNoRow DEF ProxyStays, ProxySteps, AgentSteps, TypeOK, None, GcList, Goto,
     containers, Procs, PresentRows, DeadOwnerRows
<1>7. NetworksOfTheLivingStay'
  BY NetIsNoRow DEF NetworksOfTheLivingStay, HasSidecar, Building, TypeOK, GcList, Goto,
     containers, Procs, PresentRows, DeadOwnerRows
<1>8. NamesAreTheHolders'
  BY NetIsNoRow DEF NamesAreTheHolders, Building, CleaningUp, TypeOK, GcList, Goto,
     containers, Procs, PresentRows, DeadOwnerRows
<1> QED BY <1>1, <1>2, <1>3, <1>4, <1>5, <1>6, <1>7, <1>8 DEF IInv

\* judges, which only shortens the list,
LEMMA GcJudgeStep ==
    ASSUME IInv, NEW p \in Tools, GcJudge(p)
    PROVE  IInv'
<1> USE DEF IInv
<1>1. TypeOK'
  BY NetIsNoRow DEF TypeOK, None, Steps, Removing, Reaping, Stopping, Building,
     CleaningUp, Collecting, Ended, GcJudge, Goto, containers, Procs, PresentRows,
     DeadOwnerRows
<1>2. Listed'
  BY NetIsNoRow DEF Listed, Gone, TypeOK, GcJudge, Goto, containers, Procs, PresentRows,
     DeadOwnerRows
<1>3. Held'
  BY NetIsNoRow DEF Held, Holding, TypeOK, None, GcJudge, Goto, containers, Procs,
     PresentRows, DeadOwnerRows
<1>4. OwnedContainers'
  BY NetIsNoRow DEF OwnedContainers, ProxySteps, AgentSteps, TypeOK, None, GcJudge,
     Goto, containers, Procs, PresentRows, DeadOwnerRows
<1>5. OwnedNets'
  BY NetIsNoRow DEF OwnedNets, SidecarSteps, EgressSteps, ProxySteps, AgentSteps,
     TypeOK, GcJudge, Goto, containers, Procs, PresentRows, DeadOwnerRows
<1>6. ProxyStays'
  BY NetIsNoRow DEF ProxyStays, ProxySteps, AgentSteps, TypeOK, None, GcJudge, Goto,
     containers, Procs, PresentRows, DeadOwnerRows
<1>7. NetworksOfTheLivingStay'
  BY NetIsNoRow DEF NetworksOfTheLivingStay, HasSidecar, Building, TypeOK, GcJudge,
     Goto, containers, Procs, PresentRows, DeadOwnerRows
<1>8. NamesAreTheHolders'
  BY NetIsNoRow DEF NamesAreTheHolders, Building, CleaningUp, TypeOK, GcJudge, Goto,
     containers, Procs, PresentRows, DeadOwnerRows
<1> QED BY <1>1, <1>2, <1>3, <1>4, <1>5, <1>6, <1>7, <1>8 DEF IInv

\* The egress network goes, once detached.
LEMMA CleanEgressStep ==
    ASSUME IInv, NEW p \in Launches, CleanEgress(p)
    PROVE  IInv'
<1> USE DEF IInv
<1>a. ~Attached(Egress(p))
 
    BY DEF CleanEgress, CleanNet, Attached, Egress, Sidecar, OwnedContainers,
       ProxySteps, AgentSteps, TypeOK, None
<1>1. TypeOK'
  BY NetNames, <1>a DEF TypeOK, None, Steps, Removing, Reaping, Stopping, Building,
     CleaningUp, Collecting, Ended, CleanEgress, CleanNet, Goto, containers, Procs
<1>2. Listed'
  BY NetNames, <1>a DEF Listed, Gone, TypeOK, CleanEgress, CleanNet, Goto, containers,
     Procs
<1>3. Held'
  BY NetNames, <1>a DEF Held, Holding, TypeOK, None, CleanEgress, CleanNet, Goto,
     containers, Procs
<1>4. OwnedContainers'
  BY NetNames, <1>a DEF OwnedContainers, ProxySteps, AgentSteps, TypeOK, None,
     CleanEgress, CleanNet, Goto, containers, Procs
<1>5. OwnedNets'
  BY NetNames, <1>a DEF OwnedNets, SidecarSteps, EgressSteps, ProxySteps, AgentSteps,
     TypeOK, CleanEgress, CleanNet, Goto, containers, Procs
<1>6. ProxyStays'
  BY NetNames, <1>a DEF ProxyStays, ProxySteps, AgentSteps, TypeOK, None, CleanEgress,
     CleanNet, Goto, containers, Procs
<1>7. NetworksOfTheLivingStay'
  BY NetNames, <1>a DEF NetworksOfTheLivingStay, HasSidecar, Building, TypeOK,
     CleanEgress, CleanNet, Goto, containers, Procs
<1>8. NamesAreTheHolders'
  BY NetNames, <1>a DEF NamesAreTheHolders, Building, CleaningUp, TypeOK, CleanEgress,
     CleanNet, Goto, containers, Procs
<1> QED BY <1>1, <1>2, <1>3, <1>4, <1>5, <1>6, <1>7, <1>8 DEF IInv

\* So does the sidecar network.
LEMMA CleanSidecarStep ==
    ASSUME IInv, NEW p \in Launches, CleanSidecar(p)
    PROVE  IInv'
<1> USE DEF IInv
<1>a. ~Attached(Sidecar(p))
 
    BY DEF CleanSidecar, CleanNet, Attached, Egress, Sidecar, OwnedContainers,
       ProxySteps, AgentSteps, TypeOK, None
<1>1. TypeOK'
  BY NetNames, <1>a DEF TypeOK, None, Steps, Removing, Reaping, Stopping, Building,
     CleaningUp, Collecting, Ended, CleanSidecar, CleanNet, Goto, containers, Procs
<1>2. Listed'
  BY NetNames, <1>a DEF Listed, Gone, TypeOK, CleanSidecar, CleanNet, Goto, containers,
     Procs
<1>3. Held'
  BY NetNames, <1>a DEF Held, Holding, TypeOK, None, CleanSidecar, CleanNet, Goto,
     containers, Procs
<1>4. OwnedContainers'
  BY NetNames, <1>a DEF OwnedContainers, ProxySteps, AgentSteps, TypeOK, None,
     CleanSidecar, CleanNet, Goto, containers, Procs
<1>5. OwnedNets'
  BY NetNames, <1>a DEF OwnedNets, SidecarSteps, EgressSteps, ProxySteps, AgentSteps,
     TypeOK, CleanSidecar, CleanNet, Goto, containers, Procs
<1>6. ProxyStays'
  BY NetNames, <1>a DEF ProxyStays, ProxySteps, AgentSteps, TypeOK, None, CleanSidecar,
     CleanNet, Goto, containers, Procs
<1>7. NetworksOfTheLivingStay'
  BY NetNames, <1>a DEF NetworksOfTheLivingStay, HasSidecar, Building, TypeOK,
     CleanSidecar, CleanNet, Goto, containers, Procs
<1>8. NamesAreTheHolders'
  BY NetNames, <1>a DEF NamesAreTheHolders, Building, CleaningUp, TypeOK, CleanSidecar,
     CleanNet, Goto, containers, Procs
<1> QED BY <1>1, <1>2, <1>3, <1>4, <1>5, <1>6, <1>7, <1>8 DEF IInv

\* --gc removes a container of its list by name,
LEMMA GcRemoveOneStep ==
    ASSUME IInv, NEW p \in Tools, NEW r \in Rows, pc[p] = "gcRemove",
           Remove(p, r[1], r[2]), doomed' = [doomed EXCEPT ![p] = @ \ {r}],
           UNCHANGED <<pc, lock, nets, victim, rebooted>>
    PROVE  IInv'
<1> USE DEF IInv
<1> DEFINE kind == r[1]
           w == r[2]
           owner == IF kind = "agent" THEN agent[w] ELSE proxy[w]
<1>w. kind \in {"agent", "proxy"} /\ w \in Workspaces BY RowParts
<1>c. /\ pc' = pc /\ lock' = lock /\ nets' = nets /\ victim' = victim /\ rebooted' = rebooted
      /\ pc[p] = "gcRemove" /\ p \in Procs
      /\ doomed' \in [Procs -> SUBSET (Networks \cup Rows)]
      /\ \A q \in Procs : doomed'[q] \subseteq doomed[q]
  BY DEF TypeOK, Procs
<1>r. Removed(p, kind, w)
  BY <1>w, <1>c, RemoveEffect
<1> HIDE DEF kind, w, owner
<1>1. TypeOK' BY <1>r, <1>c, <1>w DEF TypeOK, Removed, Removing, Collecting
<1>2. Listed' BY <1>c DEF Listed
<1>3. Held' BY <1>c DEF Held
<1>4. OwnedContainers' BY <1>r, <1>w, <1>c DEF OwnedContainers, Removed
<1>5. OwnedNets' BY <1>c DEF OwnedNets
<1>6. ProxyStays'
  <2> SUFFICES ASSUME NEW q \in Launches, pc[q] \in ProxySteps \ {"cleanProxy", "dead"},
                      stray' = {}
               PROVE  proxy'[WorkspaceOf[q]] = q
    BY <1>c DEF ProxyStays
  <2>1. stray = {} /\ (owner \in {None, p} \/ ~Running(owner))
    BY <1>r DEF Removed, owner
  <2>2. proxy[WorkspaceOf[q]] = q BY <2>1 DEF ProxyStays
  <2>3. q # p /\ q # None /\ Running(q)
    BY <1>c DEF Running, Ended, ProxySteps, AgentSteps, None
  <2>4. kind = "proxy" => WorkspaceOf[q] # w BY <2>1, <2>2, <2>3 DEF owner
  <2> QED BY <1>r, <1>w, <2>2, <2>4 DEF Removed
<1>7. NetworksOfTheLivingStay' BY <1>c DEF NetworksOfTheLivingStay
<1>8. NamesAreTheHolders'
  BY <1>r, <1>c DEF NamesAreTheHolders, Removed, Building, CleaningUp
<1> QED BY <1>1, <1>2, <1>3, <1>4, <1>5, <1>6, <1>7, <1>8 DEF IInv

\* and goes on to the networks.
LEMMA GcEmptyStep ==
    ASSUME IInv, NEW p \in Tools, pc[p] = "gcRemove", Goto(p, "listNets"),
           UNCHANGED <<lock, nets, containers, doomed, victim, rebooted>>
    PROVE  IInv'
<1> USE DEF IInv
<1>1. TypeOK' BY DEF TypeOK, Goto, containers, Steps, Removing, Reaping
<1>2. Listed' BY DEF Listed, Gone, Goto, TypeOK
<1>3. Held' BY DEF Held, Goto, TypeOK, containers, Holding
<1>4. OwnedContainers'
  BY DEF OwnedContainers, Goto, TypeOK, containers, ProxySteps, AgentSteps
<1>5. OwnedNets'
  BY DEF OwnedNets, Goto, TypeOK, SidecarSteps, EgressSteps, ProxySteps, AgentSteps
<1>6. ProxyStays' BY DEF ProxyStays, ProxySteps, AgentSteps, Goto, TypeOK, containers
<1>7. NetworksOfTheLivingStay'
  BY DEF NetworksOfTheLivingStay, HasSidecar, Building, Goto, TypeOK
<1>8. NamesAreTheHolders' BY DEF NamesAreTheHolders, containers
<1> QED BY <1>1, <1>2, <1>3, <1>4, <1>5, <1>6, <1>7, <1>8

\* The two together.
LEMMA GcRemoveStep ==
    ASSUME IInv, NEW p \in Tools, GcRemove(p)
    PROVE  IInv'
<1>1. CASE doomed[p] = {}
  <2>1. /\ doomed' = doomed /\ pc[p] = "gcRemove" /\ Goto(p, "listNets")
        /\ UNCHANGED <<lock, nets, containers, victim, rebooted>>
    BY <1>1 DEF GcRemove
  <2> QED BY <2>1, GcEmptyStep
<1>2. ASSUME NEW r \in doomed[p], Remove(p, r[1], r[2]),
             doomed' = [doomed EXCEPT ![p] = @ \ {r}], UNCHANGED pc
      PROVE  IInv'
  <2>1. r \in Rows BY DEF IInv, Listed, GcRemove, Procs
  <2> QED BY <1>2, <2>1, GcRemoveOneStep DEF GcRemove
<1> QED BY <1>1, <1>2 DEF GcRemove

\* A look for a daemon and the signal of --stop move processes only.
LEMMA LookKeeps ==
    ASSUME IInv, NEW p \in Procs, pc[p] \in {"look", "stop"},
           pc' \in [Procs -> Steps],
           pc'[p] \in {"exited", "listNets", "lock", "stop", "stopListNets"},
           \A q \in Procs \ {p} : pc'[q] = pc[q] \/ (pc[q] = "session" /\ pc'[q] = "cleanAgent"),
           UNCHANGED <<lock, nets, containers>>
    PROVE  /\ Held' /\ OwnedContainers' /\ OwnedNets' /\ ProxyStays'
           /\ NetworksOfTheLivingStay' /\ NamesAreTheHolders'
<1> USE DEF IInv, containers, Procs
<1>1. Held' BY DEF Held, Holding
<1>2. OwnedContainers' BY DEF OwnedContainers, ProxySteps, AgentSteps, TypeOK
<1>3. OwnedNets' BY DEF OwnedNets, SidecarSteps, EgressSteps, ProxySteps, AgentSteps
<1>4. ProxyStays' BY DEF ProxyStays, ProxySteps, AgentSteps
<1>5. NetworksOfTheLivingStay' BY DEF NetworksOfTheLivingStay, HasSidecar, Building
<1>6. NamesAreTheHolders' BY DEF NamesAreTheHolders
<1> QED BY <1>1, <1>2, <1>3, <1>4, <1>5, <1>6

\* A look remembers a container of a daemon, or nothing.
LEMMA LookStep ==
    ASSUME IInv, NEW p \in Procs, Look(p)
    PROVE  IInv'
<1> USE DEF IInv
<1>0. PICK w \in Workspaces :
        IF agent[w] \notin Daemons THEN Goto(p, AfterLook(p)) /\ UNCHANGED doomed
        ELSE IF p \in Launches /\ HasSession(w) THEN Goto(p, "exited") /\ UNCHANGED doomed
        ELSE Goto(p, "stop") /\ doomed' = [doomed EXCEPT ![p] = {<<"agent", w, agent[w]>>}]
  BY DEF Look, Procs
<1>p. /\ pc[p] = "look"
      /\ UNCHANGED <<lock, nets, containers, victim, rebooted>>
  BY DEF Look
<1>c. /\ pc' \in [Procs -> Steps]
      /\ \A q \in Procs \ {p} : pc'[q] = pc[q]
      /\ pc'[p] \in {"exited", "listNets", "lock", "stop"}
  BY <1>0 DEF Goto, AfterLook, TypeOK, Steps, Removing, Reaping, Stopping, Ended
<1>d. CASE agent[w] \in Daemons /\ doomed' = [doomed EXCEPT ![p] = {<<"agent", w, agent[w]>>}]
  <2>1. <<"agent", w, agent[w]>> \in Rows /\ <<"agent", w, agent[w]>>[1] = "agent"
    BY <1>d DEF Rows
  <2>2. /\ doomed' \in [Procs -> SUBSET (Networks \cup Rows)]
        /\ \A q \in Procs \ {p} : doomed'[q] = doomed[q]
        /\ doomed'[p] = {<<"agent", w, agent[w]>>}
    BY <1>d, <2>1 DEF TypeOK
  <2> USE <1>p, <1>c
  <2>t. TypeOK' BY <2>2 DEF TypeOK, containers
  <2>l. Listed'
    <3>1. \A k, q : <<k, q>> \notin doomed'[p] BY <2>1, <2>2, NetIsNoRow
    <3>2. \A q \in Procs : /\ pc[q] \in Gone => pc'[q] \in Gone
                           /\ q # p => pc'[q] = pc[q] /\ doomed'[q] = doomed[q]
      BY <2>2 DEF Gone
    <3>3. pc'[p] = "stop" => doomed'[p] \subseteq Rows /\ \A r \in doomed'[p] : r[1] = "agent"
      BY <2>1, <2>2
    <3>4. ASSUME NEW q \in Procs
          PROVE  /\ pc'[q] \in {"judgeProxies", "rmProxy", "gcJudge", "gcRemove", "stop"} =>
                        doomed'[q] \subseteq Rows
                 /\ pc'[q] = "stop" => \A r \in doomed'[q] : r[1] = "agent"
                 /\ pc'[q] = "rmProxy" => victim'[q] \in Workspaces
      BY <3>2, <3>3 DEF Listed
    <3>5. ASSUME NEW q \in Procs, NEW o \in Launches, NEW k \in {"sidecar", "egress"},
                 <<k, o>> \in doomed'[q]
          PROVE  pc'[o] \in Gone
      <4>1. q # p BY <3>1, <3>5
      <4>2. o \in Procs BY DEF Procs
      <4>3. <<k, o>> \in doomed[q] BY <3>2, <3>5, <4>1
      <4>4. pc[o] \in Gone BY <4>3 DEF Listed
      <4> QED BY <3>2, <4>2, <4>4
    <3> QED BY <3>4, <3>5 DEF Listed
  <2> QED BY <2>t, <2>l, LookKeeps DEF IInv
<1>e. CASE doomed' = doomed /\ pc'[p] # "stop"
  <2>t. TypeOK' BY <1>e, <1>p, <1>c DEF TypeOK, containers
  <2>l. Listed'
    <3>1. \A q \in Procs : /\ pc[q] \in Gone => pc'[q] \in Gone
                           /\ pc'[q] \in {"judgeProxies", "rmProxy", "gcJudge", "gcRemove", "stop"} =>
                                  pc'[q] = pc[q]
      BY <1>e, <1>p, <1>c DEF Gone
    <3>2. \A o \in Launches : o \in Procs BY DEF Procs
    <3>3. ASSUME NEW q \in Procs, NEW o \in Launches, NEW k \in {"sidecar", "egress"},
                 <<k, o>> \in doomed'[q]
          PROVE  pc'[o] \in Gone
      <4>1. pc[o] \in Gone BY <1>e, <3>3 DEF Listed
      <4> QED BY <3>1, <3>2, <4>1
    <3>4. ASSUME NEW q \in Procs
          PROVE  /\ pc'[q] \in {"judgeProxies", "rmProxy", "gcJudge", "gcRemove", "stop"} =>
                        doomed'[q] \subseteq Rows
                 /\ pc'[q] = "stop" => \A r \in doomed'[q] : r[1] = "agent"
                 /\ pc'[q] = "rmProxy" => victim'[q] \in Workspaces
      BY <3>1, <1>e, <1>p DEF Listed
    <3> QED BY <3>3, <3>4 DEF Listed
  <2> QED BY <1>p, <1>c, <2>t, <2>l, LookKeeps DEF IInv
<1> QED BY <1>0, <1>d, <1>e, <1>c DEF Goto, AfterLook, TypeOK

\* --stop removes the container it saw, if it is there still.
LEMMA StopRemoves ==
    ASSUME IInv, NEW p \in Procs, NEW w \in Workspaces, pc[p] = "stop",
           Remove(p, "agent", w),
           doomed' = [doomed EXCEPT ![p] = {}], Goto(p, "stopListNets"),
           UNCHANGED <<lock, nets, victim, rebooted>>
    PROVE  IInv'
<1> USE DEF IInv
<1>r. Removed(p, "agent", w) BY RemoveEffect
<1>c. /\ pc[p] = "stop" /\ pc' = [pc EXCEPT ![p] = "stopListNets"]
      /\ lock' = lock /\ nets' = nets /\ victim' = victim /\ rebooted' = rebooted
      /\ doomed' \in [Procs -> SUBSET (Networks \cup Rows)]
      /\ \A q \in Procs : doomed'[q] \subseteq doomed[q]
  BY DEF TypeOK, Goto
<1>1. TypeOK' BY <1>r, <1>c DEF TypeOK, Removed, Steps, Removing, Stopping
<1>2. Listed' BY <1>c DEF Listed, TypeOK, Gone
<1>3. Held' BY <1>c DEF Held, Holding, TypeOK
<1>4. OwnedContainers'
  BY <1>r, <1>c DEF OwnedContainers, Removed, ProxySteps, AgentSteps, TypeOK
<1>5. OwnedNets'
  BY <1>c DEF OwnedNets, SidecarSteps, EgressSteps, ProxySteps, AgentSteps, TypeOK
<1>6. ProxyStays'
  BY <1>r, <1>c DEF ProxyStays, ProxySteps, AgentSteps, Removed, TypeOK, Procs
<1>7. NetworksOfTheLivingStay'
  BY <1>c DEF NetworksOfTheLivingStay, HasSidecar, Building, TypeOK, Procs
<1>8. NamesAreTheHolders'
  BY <1>r, <1>c DEF NamesAreTheHolders, Removed, Building, CleaningUp
<1> QED BY <1>1, <1>2, <1>3, <1>4, <1>5, <1>6, <1>7, <1>8

\* --stop signals a supervisor that runs, or removes its container.
LEMMA StopStep ==
    ASSUME IInv, NEW p \in Procs, Stop(p)
    PROVE  IInv'
<1> USE DEF IInv
<1>0. PICK r \in doomed[p] :
        IF Running(r[3])
        THEN /\ pc' = [q \in Procs |->
                          IF q = p THEN AfterLook(p)
                          ELSE IF q = r[3] /\ pc[q] = "session" THEN "cleanAgent"
                          ELSE pc[q]]
             /\ UNCHANGED containers
        ELSE /\ Goto(p, "stopListNets")
             /\ IF agent[r[2]] = r[3] THEN Remove(p, "agent", r[2]) ELSE UNCHANGED containers
  BY DEF Stop
<1>p. /\ pc[p] = "stop" /\ doomed' = [doomed EXCEPT ![p] = {}]
      /\ UNCHANGED <<lock, nets, victim, rebooted>>
  BY DEF Stop
<1>w. r[2] \in Workspaces BY <1>p, RowParts DEF Listed
<1>d. /\ doomed' \in [Procs -> SUBSET (Networks \cup Rows)]
      /\ \A q \in Procs : doomed'[q] \subseteq doomed[q]
  BY <1>p DEF TypeOK
<1>1. CASE Running(r[3]) \/ agent[r[2]] # r[3]
  <2>c. /\ UNCHANGED containers
        /\ pc' \in [Procs -> Steps]
        /\ pc'[p] \in {"exited", "listNets", "lock", "stopListNets"}
        /\ \A q \in Procs \ {p} :
              pc'[q] = pc[q] \/ (pc[q] = "session" /\ pc'[q] = "cleanAgent")
    BY <1>0, <1>1
       DEF AfterLook, Goto, TypeOK, Steps, Removing, Reaping, Stopping, CleaningUp, Ended
  <2>1. TypeOK' BY <1>p, <1>d, <2>c DEF TypeOK, containers
  <2>2. Listed' BY <1>p, <1>d, <2>c DEF Listed, Gone, Procs
  <2> QED BY <1>p, <2>c, <2>1, <2>2, LookKeeps
<1>2. CASE ~Running(r[3]) /\ agent[r[2]] = r[3]
  BY <1>0, <1>p, <1>w, <1>2, StopRemoves
<1> QED BY <1>1, <1>2

\* A stuttering step keeps it.
LEMMA Stutter == ASSUME IInv, UNCHANGED vars PROVE IInv'
BY DEF IInv, vars, TypeOK, Listed, Held, OwnedContainers, OwnedNets, ProxyStays,
   NetworksOfTheLivingStay, NamesAreTheHolders, Running

\* Every step keeps it.
LEMMA NextStep == ASSUME IInv, [Next]_vars PROVE IInv'
<1>1. CASE \E p \in Launches : Build(p) \/ Cleanup(p) \/ EndSession(p) \/ BreakOff(p)
  BY <1>1, LockStep, PrepareStep, MkSidecarStep, MkEgressStep, RmOldProxyStep, RunProxyStep,
     ConnectProxyStep, AwaitProxyStep, CredentialsStep, RmOldAgentStep, RunAgentStep,
     CleanAgentStep, CleanProxyStep, CleanEgressStep, CleanSidecarStep, ReleaseStep,
     EndSessionStep, BreakOffStep DEF Build, Cleanup
<1>2. CASE \E p \in Tools : Collect(p)
  BY <1>2, GcPlanStep, GcListStep, GcJudgeStep, GcRemoveStep DEF Collect
<1>3. CASE \E p \in Procs : Start(p) \/ Reap(p) \/ Look(p) \/ Stop(p) \/ Crash(p)
  BY <1>3, StartStep, ListNetsStep, RmNetStep, ListProxiesStep, JudgeProxyStep, RmProxyStep,
     LookStep, StopStep, CrashStep DEF Reap
<1>4. CASE \E w \in Workspaces : SessionUp(w) \/ SessionOver(w)
  BY <1>4, SessionUpStep, SessionOverStep
<1>5. CASE Reboot BY <1>5, RebootStep
<1>6. CASE UNCHANGED vars BY <1>6, Stutter
<1> QED BY <1>1, <1>2, <1>3, <1>4, <1>5, <1>6 DEF Next

\* What each step keeps always holds.
THEOREM Inductive == Spec => []IInv
BY InitInv, NextStep, PTL DEF Spec

\* The variables keep their types.
THEOREM TypeCorrect == Spec => []TypeOK
<1>1. IInv => TypeOK BY DEF IInv
<1> QED BY <1>1, Inductive, PTL

\* No reaper takes a network of a launch under way: what it listed belonged to
\* one that is through, and stays so.
THEOREM NetworksStay == Spec => []NetworksOfTheLivingStay
<1>1. IInv => NetworksOfTheLivingStay BY DEF IInv
<1> QED BY <1>1, Inductive, PTL

\* Whoever removes by name holds the lock, as the owner of a container does.
THEOREM NamesHeld == Spec => []NamesAreTheHolders
<1>1. IInv => NamesAreTheHolders BY DEF IInv
<1> QED BY <1>1, Inductive, PTL

\* What exists has an owner that is not through with it, so who has ended in
\* order owns nothing.
THEOREM NothingLeft == Spec => []OrderlyEndLeavesNothing
<1>1. IInv => OrderlyEndLeavesNothing
  <2> SUFFICES ASSUME IInv, NEW p \in Launches, pc[p] = "exited"
               PROVE  /\ nets \cap {Sidecar(p), Egress(p)} = {}
                      /\ p \notin {agent[WorkspaceOf[p]], proxy[WorkspaceOf[p]]}
    BY DEF OrderlyEndLeavesNothing
  <2>1. Sidecar(p) \notin nets /\ Egress(p) \notin nets
    BY DEF IInv, OwnedNets, SidecarSteps, EgressSteps, ProxySteps, AgentSteps
  <2>2. p \notin {agent[WorkspaceOf[p]], proxy[WorkspaceOf[p]]}
    BY DEF IInv, OwnedContainers, ProxySteps, AgentSteps, None
  <2> QED BY <2>1, <2>2
<1> QED BY <1>1, Inductive, PTL

\* An agent's launch that lives is past its proxy's start and before its end.
THEOREM AgentKeepsProxy == Spec => []AgentHasItsProxy
<1>1. IInv => AgentHasItsProxy
  <2> SUFFICES ASSUME IInv, NEW w \in Workspaces, agent[w] # None, Running(agent[w]), stray = {}
               PROVE  proxy[w] = agent[w]
    BY DEF AgentHasItsProxy
  <2>1. agent[w] \in Launches /\ WorkspaceOf[agent[w]] = w /\ pc[agent[w]] \in AgentSteps
    BY DEF IInv, TypeOK, OwnedContainers
  <2>2. pc[agent[w]] \in ProxySteps \ {"cleanProxy", "dead"}
    BY <2>1 DEF Running, Ended, AgentSteps, ProxySteps
  <2> QED BY <2>1, <2>2 DEF IInv, ProxyStays
<1> QED BY <1>1, Inductive, PTL
=============================================================================
