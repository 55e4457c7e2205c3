--------------------------- MODULE WorkspaceLock ---------------------------
(***************************************************************************)
(* The workspace lock of src/sandy: the directory sandboxes/.<name>.lock   *)
(* that a launch creates with mkdir, signs with its pid and removes when   *)
(* it ends, and the reaper (_sandy_lock_reap_stale) that the launch path,  *)
(* --doctor --fix and --stop use to clear a lock whose pid is dead.        *)
(*                                                                         *)
(* Every action is one file-system call or one kill -0, so any number of   *)
(* launches and reapers interleave where the shell lets them.  A launch    *)
(* creates at most one lock directory, so a directory is named by the      *)
(* launch that created it; loc says under which path it is found now.      *)
(***************************************************************************)
EXTENDS Naturals, FiniteSets

CONSTANTS
    Launches,   \* processes running a launch (interactive or a supervisor)
    Tools,      \* processes that only reap: --doctor --fix, --stop
    MvReplaces  \* mv tests its target, then calls rename(2): a target made in
                \* between and still empty is replaced (BSD mv; not GNU mv, which
                \* renames with RENAME_NOREPLACE)

ASSUME ConstantsOk ==
    /\ Launches \cap Tools = {}
    /\ {"home", "lock", "gone"} \cap (Launches \cup Tools) = {}
    /\ MvReplaces \in BOOLEAN

VARIABLES
    pc,       \* what each process does next
    loc,      \* the path of each launch's lock directory
    pidFile,  \* the pid each lock directory's pid file holds, NoPid if none
    seen,     \* the pid a process read from $L/pid, not tested with kill -0 yet
    rc,       \* what _sandy_lock_reap_stale returned, NotReturned before
    checked,  \* history: the directory whose pid file a reaper read at $L
    raced     \* history: some rename hit another directory than the one checked

vars == <<pc, loc, pidFile, seen, rc, checked, raced>>
history == <<checked, raced>>

Procs == Launches \cup Tools

NoPid == "gone"
NotReturned == 5

(* Paths: $L, the reaper's private name $M = $L.reap.<pid>, $M nested in a *)
(* directory d by `mv' into an existing directory, and no path at all.     *)
LockPath == <<"home", "lock">>
ReapPath(r) == <<"home", r>>
NestedPath(d, r) == <<d, r>>
Gone == <<"gone", "gone">>

Paths == {LockPath, Gone} \cup {ReapPath(r) : r \in Procs}
             \cup {NestedPath(d, r) : d \in Launches, r \in Procs}

At(path) == {d \in Launches : loc[d] = path}
LockExists == At(LockPath) # {}

(* Acquiring and holding; a process in Acquiring or Holding created a lock *)
(* directory that nobody but itself may take away.                         *)
Holding == {"held", "releaseCat", "releaseUnlink", "releaseRmdir"}
Owning == {"writePid"} \cup Holding
Looking == {"mkdir", "lookCat", "lookKill", "mkdirRetry"}
Reaping == {"reapCat", "reapKill", "reapMove", "reapRecheck", "reapRemove",
            "reapTest", "reapRestore", "reapNested", "reapUndo"}
Ended == {"idle", "exited", "dead", "reused"}

Running(p) == pc[p] \notin Ended
Holders == {p \in Launches : pc[p] \in Holding}

(* The operators called Mutant... are the bugs the properties are tried    *)
(* against; no action uses them.                                           *)

(* kill -0: the pid answers while its process runs, and again when the     *)
(* system gave the number to an unrelated process.                         *)
Alive(p) == Running(p) \/ pc[p] = "reused"
MutantIsStale(pid) == pid \in Launches
IsStale(pid) == pid \in Launches /\ ~Alive(pid)

(* cat $path/pid: nothing when the directory or the file is not there.     *)
PidAt(path) ==
    IF \E d \in At(path) : pidFile[d] # NoPid
    THEN pidFile[CHOOSE d \in At(path) : pidFile[d] # NoPid]
    ELSE NoPid

(* mv from to: everything at one path is found at the other.               *)
Moved(from, to) == [d \in Launches |-> IF loc[d] = from THEN to ELSE loc[d]]

(* What rm -rf of a directory takes along: the locks nested in it, those   *)
(* nested in them and so on, which any set closed under nesting contains.  *)
Inside(d) == {e \in Launches : \E r \in Procs : loc[e] = NestedPath(d, r)}
Nests(S, d) == Inside(d) \subseteq S /\ \A e \in S : Inside(e) \subseteq S
Below(d) == {e \in Launches : \A S \in SUBSET Launches : Nests(S, d) => e \in S}

Goto(p, next) == pc' = [pc EXCEPT ![p] = next]

TypeOK ==
    /\ pc \in [Procs -> Owning \cup Looking \cup Reaping \cup Ended]
    /\ loc \in [Launches -> Paths]
    /\ pidFile \in [Launches -> Launches \cup {NoPid}]
    /\ seen \in [Procs -> Launches \cup {NoPid}]
    /\ rc \in [Procs -> 0..NotReturned]
    /\ checked \in [Procs -> SUBSET Launches]
    /\ raced \in BOOLEAN

Init ==
    /\ pc = [p \in Procs |-> "idle"]
    /\ loc = [d \in Launches |-> Gone]
    /\ pidFile = [d \in Launches |-> NoPid]
    /\ seen = [p \in Procs |-> NoPid]
    /\ rc = [p \in Procs |-> NotReturned]
    /\ checked = [p \in Procs |-> {}]
    /\ raced = FALSE

----------------------------------------------------------------------------
(* The launch: mkdir is the lock primitive.                                *)

Start(p) ==
    /\ pc[p] = "idle"
    /\ Goto(p, IF p \in Launches THEN "mkdir" ELSE "reapCat")
    /\ UNCHANGED <<loc, pidFile, seen, rc, history>>

(* mkdir -p, which does not refuse a directory that is there.              *)
MutantMkdir(p) ==
    /\ pc[p] = "mkdir"
    /\ Goto(p, "writePid")
    /\ loc' = IF LockExists THEN loc ELSE [loc EXCEPT ![p] = LockPath]
    /\ UNCHANGED <<pidFile, seen, rc, history>>

Mkdir(p) ==
    /\ pc[p] = "mkdir"
    /\ IF LockExists
       THEN Goto(p, "lookCat") /\ UNCHANGED loc
       ELSE Goto(p, "writePid") /\ loc' = [loc EXCEPT ![p] = LockPath]
    /\ UNCHANGED <<pidFile, seen, rc, history>>

(* _sandy_lock_state $L, then: stale goes to the reaper, anything else is  *)
(* "Another sandy is already running".                                     *)
LookCat(p) ==
    /\ pc[p] = "lookCat"
    /\ seen' = [seen EXCEPT ![p] = PidAt(LockPath)]
    /\ Goto(p, "lookKill")
    /\ UNCHANGED <<loc, pidFile, rc, history>>

LookKill(p) ==
    /\ pc[p] = "lookKill"
    /\ Goto(p, IF IsStale(seen[p]) THEN "reapCat" ELSE "exited")
    /\ UNCHANGED <<loc, pidFile, seen, rc, history>>

(* The reaper returned 0: mkdir once more, or give up.                     *)
MkdirRetry(p) ==
    /\ pc[p] = "mkdirRetry"
    /\ IF LockExists
       THEN Goto(p, "exited") /\ UNCHANGED loc
       ELSE Goto(p, "writePid") /\ loc' = [loc EXCEPT ![p] = LockPath]
    /\ UNCHANGED <<pidFile, seen, rc, history>>

(* echo "$$" > "$L/pid" writes into whatever directory is at $L; with none *)
(* the redirection fails and set -e ends the launch, no trap being armed.  *)
WritePid(p) ==
    /\ pc[p] = "writePid"
    /\ IF LockExists
       THEN /\ Goto(p, "held")
            /\ pidFile' = [d \in Launches |->
                              IF d \in At(LockPath) THEN p ELSE pidFile[d]]
       ELSE Goto(p, "exited") /\ UNCHANGED pidFile
    /\ UNCHANGED <<loc, seen, rc, history>>

(* The session ends, or one of the early exits right after the lock is     *)
(* taken runs the trap: both reach _sandy_release_lock.                    *)
EndSession(p) ==
    /\ pc[p] = "held"
    /\ Goto(p, "releaseCat")
    /\ UNCHANGED <<loc, pidFile, seen, rc, history>>

(* A release that forgets the lock it still owns.                          *)
MutantReleaseCat(p) ==
    /\ pc[p] = "releaseCat"
    /\ Goto(p, "exited")
    /\ UNCHANGED <<loc, pidFile, seen, rc, history>>

ReleaseCat(p) ==
    /\ pc[p] = "releaseCat"
    /\ Goto(p, IF PidAt(LockPath) = p THEN "releaseUnlink" ELSE "exited")
    /\ UNCHANGED <<loc, pidFile, seen, rc, history>>

(* rm -rf $L, first half: the entries of the directory found at $L go.     *)
ReleaseUnlink(p) ==
    /\ pc[p] = "releaseUnlink"
    /\ pidFile' = [d \in Launches |->
                      IF d \in At(LockPath) THEN NoPid ELSE pidFile[d]]
    /\ loc' = [e \in Launches |->
                  IF \E d \in At(LockPath) : e \in Below(d) THEN Gone ELSE loc[e]]
    /\ Goto(p, IF LockExists THEN "releaseRmdir" ELSE "exited")
    /\ UNCHANGED <<seen, rc, history>>

(* rm -rf $L, second half: rmdir by path, refused when it is not empty.    *)
ReleaseRmdir(p) ==
    /\ pc[p] = "releaseRmdir"
    /\ loc' = [d \in Launches |->
                  IF d \in At(LockPath) /\ pidFile[d] = NoPid /\ Inside(d) = {}
                  THEN Gone ELSE loc[d]]
    /\ Goto(p, "exited")
    /\ UNCHANGED <<pidFile, seen, rc, history>>

----------------------------------------------------------------------------
(* _sandy_lock_reap_stale: check, rename, check what was renamed.          *)

(* A launch goes on only when the reaper returned 0, a tool ends.          *)
MutantReturn(r, code) ==
    /\ rc' = [rc EXCEPT ![r] = code]
    /\ Goto(r, "exited")

Return(r, code) ==
    /\ rc' = [rc EXCEPT ![r] = code]
    /\ Goto(r, IF r \in Launches /\ code = 0 THEN "mkdirRetry" ELSE "exited")

ReapCat(r) ==
    /\ pc[r] = "reapCat"
    /\ seen' = [seen EXCEPT ![r] = PidAt(LockPath)]
    /\ checked' = [checked EXCEPT ![r] = At(LockPath)]
    /\ Goto(r, "reapKill")
    /\ UNCHANGED <<loc, pidFile, rc, raced>>

ReapKill(r) ==
    /\ pc[r] = "reapKill"
    /\ IF IsStale(seen[r])
       THEN Goto(r, "reapMove") /\ UNCHANGED rc
       ELSE Return(r, 1)
    /\ UNCHANGED <<loc, pidFile, seen, history>>

(* mv $L $M, $M being a name nothing else uses.                            *)
ReapMove(r) ==
    /\ pc[r] = "reapMove"
    /\ IF LockExists
       THEN /\ loc' = Moved(LockPath, ReapPath(r))
            /\ raced' = (raced \/ At(LockPath) # checked[r])
            /\ Goto(r, "reapRecheck") /\ UNCHANGED rc
       ELSE Return(r, 4) /\ UNCHANGED <<loc, raced>>
    /\ UNCHANGED <<pidFile, seen, checked>>

(* The reaper before #158: what was renamed is not looked at again.        *)
MutantReapRecheck(r) ==
    /\ pc[r] = "reapRecheck"
    /\ Goto(r, "reapRemove")
    /\ UNCHANGED <<loc, pidFile, seen, rc, history>>

ReapRecheck(r) ==
    /\ pc[r] = "reapRecheck"
    /\ Goto(r, IF IsStale(PidAt(ReapPath(r))) THEN "reapRemove" ELSE "reapTest")
    /\ UNCHANGED <<loc, pidFile, seen, rc, history>>

(* rm -rf $M: the directory with everything a put-back nested in it.       *)
ReapRemove(r) ==
    /\ pc[r] = "reapRemove"
    /\ loc' = [e \in Launches |->
                  IF \E d \in At(ReapPath(r)) : e = d \/ e \in Below(d)
                  THEN Gone ELSE loc[e]]
    /\ Return(r, 0)
    /\ UNCHANGED <<pidFile, seen, history>>

ReapTest(r) ==
    /\ pc[r] = "reapTest"
    /\ IF LockExists THEN Return(r, 3) ELSE Goto(r, "reapRestore") /\ UNCHANGED rc
    /\ UNCHANGED <<loc, pidFile, seen, history>>

(* mv $M $L: a rename while $L is free, a move INTO $L once it exists, or  *)
(* a rename over an $L created after mv's own test and still empty.        *)
ReapRestore(r) ==
    /\ pc[r] = "reapRestore"
    /\ \/ /\ ~LockExists
          /\ loc' = Moved(ReapPath(r), LockPath)
          /\ UNCHANGED raced
       \/ \E d \in At(LockPath) :
             /\ loc' = Moved(ReapPath(r), NestedPath(d, r))
             /\ UNCHANGED raced
       \/ \E d \in At(LockPath) :
             /\ MvReplaces /\ pidFile[d] = NoPid /\ Inside(d) = {}
             /\ loc' = [Moved(ReapPath(r), LockPath) EXCEPT ![d] = Gone]
             /\ raced' = TRUE
    /\ Goto(r, "reapNested")
    /\ UNCHANGED <<pidFile, seen, rc, checked>>

(* [ -d $L/<basename of $M> ]                                              *)
ReapNested(r) ==
    /\ pc[r] = "reapNested"
    /\ IF \E d \in At(LockPath) : At(NestedPath(d, r)) # {}
       THEN Goto(r, "reapUndo") /\ UNCHANGED rc
       ELSE Return(r, 2)
    /\ UNCHANGED <<loc, pidFile, seen, history>>

(* mv $L/<basename of $M> $M || true                                       *)
ReapUndo(r) ==
    /\ pc[r] = "reapUndo"
    /\ loc' = [e \in Launches |->
                  IF \E d \in At(LockPath) : loc[e] = NestedPath(d, r)
                  THEN ReapPath(r) ELSE loc[e]]
    /\ Return(r, 3)
    /\ UNCHANGED <<pidFile, seen, history>>

----------------------------------------------------------------------------
(* SIGKILL or a power cut: the process is gone, its files stay.            *)
Crash(p) ==
    /\ Running(p)
    /\ Goto(p, "dead")
    /\ UNCHANGED <<loc, pidFile, seen, rc, history>>

(* The system gives the number of an ended process to an unrelated one.    *)
ReusePid(p) ==
    /\ pc[p] \in {"exited", "dead"}
    /\ Goto(p, "reused")
    /\ UNCHANGED <<loc, pidFile, seen, rc, history>>

Launch(p) ==
    \/ Mkdir(p) \/ LookCat(p) \/ LookKill(p) \/ MkdirRetry(p) \/ WritePid(p)
    \/ ReleaseCat(p) \/ ReleaseUnlink(p) \/ ReleaseRmdir(p)

Reap(r) ==
    \/ ReapCat(r) \/ ReapKill(r) \/ ReapMove(r) \/ ReapRecheck(r)
    \/ ReapRemove(r) \/ ReapTest(r) \/ ReapRestore(r) \/ ReapNested(r)
    \/ ReapUndo(r)

Next ==
    \/ \E p \in Launches : Launch(p) \/ EndSession(p)
    \/ \E r \in Procs : Reap(r)
    \/ \E p \in Procs : Start(p) \/ Crash(p) \/ ReusePid(p)

Spec == Init /\ [][Next]_vars

(* A started process runs on; nothing says when a user starts one, ends a  *)
(* session or kills anything.                                              *)
Fairness == \A p \in Procs : WF_vars(p \in Launches /\ Launch(p)) /\ WF_vars(Reap(p))

FairSpec == Spec /\ Fairness

----------------------------------------------------------------------------
(* Two launches never hold the lock of one workspace together, whatever    *)
(* crashes and whoever reaps, as long as no reaper's rename hits another   *)
(* directory than the one whose pid file it read.                          *)
MutualExclusion == ~raced => \A p, q \in Holders : p = q

(* The lock implements the abstract mutex of SessionMutex.                 *)
Mutex == INSTANCE SessionMutex WITH holders <- Holders, forfeited <- raced
ImplementsMutex == Mutex!Spec

(* What the reaper renamed and found stale names a process that has ended, *)
(* races included: this is what the check after the rename is for (#158).  *)
(* The rm -rf also takes the locks nested in it, which nobody checked: as  *)
(* long as no rename raced, those name ended processes as well.  After a   *)
(* raced rename one may be a running launch's, which the put-back nested   *)
(* in the newer lock and whose undo (src/sandy:2840) came too late.        *)
NoLive(ds) == \A d \in ds : pidFile[d] # NoPid => ~Running(pidFile[d])
ReaperSparesTheLiving ==
    \A r \in Procs : pc[r] = "reapRemove" =>
        \A d \in At(ReapPath(r)) : NoLive({d}) /\ (~raced => NoLive(Below(d)))

(* As long as nobody was killed and no rename raced, the lock found at $L  *)
(* is one whose launch still runs: every way out of a launch after its     *)
(* mkdir (the end of the session, an early exit) gives the lock back, and  *)
(* no reaper leaves a directory under the name.                            *)
OrderlyEndFreesLock ==
    (~raced /\ \A p \in Procs : pc[p] \notin {"dead", "reused"}) =>
        \A d \in At(LockPath) : pc[d] \in Owning

(* A launch that starts alone on a workspace whose last holder was killed  *)
(* gets the lock: one stale lock never refuses the next session.           *)
Recoverable(p) ==
    /\ pc[p] = "mkdir"
    /\ \A q \in Procs \ {p} : ~Running(q) /\ pc[q] # "reused"
    /\ LockExists => PidAt(LockPath) # NoPid
StaleLockIsRecovered ==
    \A p \in Launches :
        Recoverable(p) ~> \/ pc[p] \in {"held", "dead", "reused"}
                          \/ \E q \in Procs \ {p} : Running(q) \/ pc[q] = "reused"
============================================================================
