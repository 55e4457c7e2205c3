------------------------ MODULE WorkspaceLockProofs ------------------------
(***************************************************************************)
(* Theorems about WorkspaceLock, for any number of launches and reapers.   *)
(***************************************************************************)
EXTENDS WorkspaceLock, TLAPS

Finished == {"exited", "dead", "reused"}
Past(p) == p \in Launches /\ pc[p] \in Owning \cup Finished

(* One directory per path, and only launches past their mkdir have one or  *)
(* are named by a pid file.                                                *)
UniqueLoc == \A d, e \in Launches : loc[d] = loc[e] /\ loc[d] # Gone => d = e
Created == \A d \in Launches : loc[d] # Gone => Past(d)
PidPast == \A d \in Launches : pidFile[d] # NoPid => Past(pidFile[d])

(* The reaper's names are in use only between its renames, or once it has  *)
(* ended and left a directory under them.                                  *)
PlacesOf(r, e) ==
    /\ loc[e] = ReapPath(r) =>
          pc[r] \in {"reapRecheck", "reapRemove", "reapTest", "reapRestore"}
                      \cup Finished
    /\ \A d \in Launches : loc[e] = NestedPath(d, r) =>
          pc[r] \in {"reapNested", "reapUndo"} \cup Finished
Places == \A r \in Procs, e \in Launches : PlacesOf(r, e)

(* What a reaper that is about to delete has established.                  *)
RemoveOk ==
    \A r \in Procs : pc[r] = "reapRemove" =>
        \A d \in At(ReapPath(r)) : pidFile[d] # NoPid => pc[pidFile[d]] \in Finished

(* What holds until a rename races: an owner's directory is at $L, a pid   *)
(* file names its directory's creator, and a reaper that passed its first  *)
(* check knows the creator of what it checked has ended.                   *)
OwnersAtLock == \A p \in Launches : pc[p] \in Owning => loc[p] = LockPath
OwnPid == \A d \in Launches : pidFile[d] \in {NoPid, d}
KillOk ==
    \A r \in Procs : pc[r] = "reapKill" /\ seen[r] # NoPid =>
        checked[r] = {seen[r]} /\ Past(seen[r])
MoveOk ==
    \A r \in Procs : pc[r] = "reapMove" =>
        \E d \in Launches : checked[r] = {d} /\ pc[d] \in Finished

Structure == UniqueLoc /\ Created /\ PidPast /\ Places
Quiet == ~raced => OwnersAtLock /\ OwnPid /\ KillOk /\ MoveOk
IInv == TypeOK /\ Structure /\ RemoveOk /\ Quiet

USE DEF Procs

----------------------------------------------------------------------------
(* The four kinds of path never coincide.                                  *)
LEMMA LockIsNotGone == LockPath # Gone
BY DEF LockPath, Gone

LEMMA PathsDiffer ==
    ASSUME NEW r \in Procs, NEW q \in Procs
    PROVE  /\ ReapPath(r) \notin {LockPath, Gone}
           /\ ReapPath(r) = ReapPath(q) => r = q
           /\ \A d \in Launches : NestedPath(d, r) \notin {LockPath, Gone, ReapPath(q)}
           /\ \A d, e \in Launches : NestedPath(d, r) = NestedPath(e, q) => d = e /\ r = q
BY ConstantsOk DEF LockPath, Gone, ReapPath, NestedPath

(* What cat of a pid file reads: the pid file of the directory there.      *)
LEMMA PidAtFact ==
    ASSUME NEW path \in Paths, TypeOK, UniqueLoc, path # Gone
    PROVE  /\ \A d \in At(path) : PidAt(path) = pidFile[d]
           /\ At(path) = {} => PidAt(path) = NoPid
           /\ PidAt(path) \in Launches \cup {NoPid}
<1>1. ASSUME NEW d \in At(path) PROVE PidAt(path) = pidFile[d]
  <2>1. \A e \in At(path) : e = d
    BY DEF At, UniqueLoc
  <2>2. CASE pidFile[d] # NoPid
    BY <2>1 DEF PidAt
  <2>3. CASE pidFile[d] = NoPid
    BY <2>1 DEF PidAt
  <2> QED BY <2>2, <2>3
<1>2. At(path) = {} => PidAt(path) = NoPid
  BY DEF PidAt
<1>3. PidAt(path) \in Launches \cup {NoPid}
  <2>1. CASE At(path) = {}
    BY <1>2, <2>1
  <2>2. CASE At(path) # {}
    <3> PICK d \in At(path) : TRUE
      BY <2>2
    <3> QED BY <1>1 DEF TypeOK, At
  <2> QED BY <2>1, <2>2
<1> QED BY <1>1, <1>2, <1>3

LEMMA PathTypes ==
    /\ LockPath \in Paths /\ Gone \in Paths
    /\ \A r \in Procs : ReapPath(r) \in Paths
    /\ \A d \in Launches, r \in Procs : NestedPath(d, r) \in Paths
BY DEF Paths

(* Whatever lies below a directory is nested in some directory.            *)
LEMMA BelowIsNested ==
    ASSUME NEW d \in Launches, NEW e \in Below(d)
    PROVE  \E x \in Launches, r \in Procs : loc[e] = NestedPath(x, r)
<1> DEFINE S == {f \in Launches : \E x \in Launches, r \in Procs :
                                      loc[f] = NestedPath(x, r)}
<1>1. \A x \in Launches : Inside(x) \subseteq S
  BY DEF Inside
<1>2. S \in SUBSET Launches /\ Nests(S, d)
  BY <1>1 DEF Nests
<1>3. e \in S
  BY <1>2 DEF Below
<1> QED BY <1>3

LEMMA TheLockIsNotBelow ==
    ASSUME NEW d \in Launches, NEW e \in Launches, loc[e] = LockPath
    PROVE  e \notin Below(d)
<1> SUFFICES ASSUME e \in Below(d) PROVE FALSE
  OBVIOUS
<1>1. PICK x \in Launches, r \in Procs : loc[e] = NestedPath(x, r)
  BY BelowIsNested
<1> QED BY <1>1, PathsDiffer

LEMMA InitEstablishes == Init => IInv
<1> SUFFICES ASSUME Init PROVE IInv
  OBVIOUS
<1>1. TypeOK
  <2>1. /\ pc \in [Procs -> Owning \cup Looking \cup Reaping \cup Ended]
        /\ loc \in [Launches -> Paths]
        /\ pidFile \in [Launches -> Launches \cup {NoPid}]
    BY PathTypes DEF Init, Ended
  <2>2. rc \in [Procs -> 0..NotReturned]
    BY DEF Init, NotReturned
  <2>3. seen \in [Procs -> Launches \cup {NoPid}] /\ raced \in BOOLEAN
    BY DEF Init
  <2>4. checked \in [Procs -> SUBSET Launches]
    BY DEF Init
  <2> QED BY <2>1, <2>2, <2>3, <2>4 DEF TypeOK
<1>2. Structure /\ RemoveOk /\ Quiet
  BY PathsDiffer DEF Init, Structure, UniqueLoc, Created, PidPast, Places,
       PlacesOf, RemoveOk, Quiet, OwnersAtLock, OwnPid, KillOk, MoveOk, Owning,
       Holding
<1> QED BY <1>1, <1>2 DEF IInv

LEMMA StartPreserves ==
    ASSUME NEW p \in Procs, IInv, Start(p)
    PROVE  IInv'
<1> USE DEF IInv, Start, Goto, history, Owning, Holding, Looking, Reaping, Ended, Finished
<1>1. TypeOK'
  BY DEF TypeOK
<1>2. Structure'
  BY DEF Structure, UniqueLoc, Created, PidPast, Past, Places, PlacesOf
<1>3. RemoveOk'
  BY DEF RemoveOk, At
<1>4. Quiet'
  BY DEF Quiet, OwnersAtLock, OwnPid, KillOk, MoveOk, Past
<1> QED BY <1>1, <1>2, <1>3, <1>4

LEMMA MkdirPreserves ==
    ASSUME NEW p \in Launches, IInv, Mkdir(p)
    PROVE  IInv'
<1> USE PathTypes DEF IInv, Structure, Mkdir, Goto, Return, history, Owning, Holding, Looking, Reaping, Ended, Finished, Past
<1>1. TypeOK'
  BY LockIsNotGone DEF TypeOK
<1>2. UniqueLoc'
  BY DEF TypeOK, UniqueLoc, At, LockExists
<1>3. Created'
  BY DEF TypeOK, Created
<1>7. Places'
  BY PathsDiffer DEF TypeOK, Places, PlacesOf
<1>4. PidPast'
  BY DEF TypeOK, PidPast
<1>5. RemoveOk'
  BY PathsDiffer DEF TypeOK, RemoveOk, PidPast, At
<1>6. Quiet'
  <2> SUFFICES ASSUME ~raced' PROVE (OwnersAtLock /\ OwnPid /\ KillOk /\ MoveOk)'
    BY DEF Quiet
  <2> USE DEF TypeOK, Quiet
  <2>1. OwnersAtLock'
    BY DEF OwnersAtLock
  <2>2. OwnPid'
    BY DEF OwnPid
  <2>3. KillOk'
    BY DEF KillOk
  <2>4. MoveOk'
    BY DEF MoveOk
  <2> QED BY <2>1, <2>2, <2>3, <2>4
<1> QED BY <1>1, <1>2, <1>3, <1>4, <1>5, <1>6, <1>7

LEMMA LookCatPreserves ==
    ASSUME NEW p \in Launches, IInv, LookCat(p)
    PROVE  IInv'
<1> USE DEF IInv, LookCat, Goto, history, Owning, Holding, Looking, Reaping, Ended, Finished
<1>1. TypeOK'
  BY LockIsNotGone, PidAtFact, PathTypes DEF TypeOK, Structure
<1>2. Structure'
  BY DEF Structure, UniqueLoc, Created, PidPast, Past, Places, PlacesOf
<1>3. RemoveOk'
  BY DEF RemoveOk, At
<1>4. Quiet'
  BY DEF Quiet, OwnersAtLock, OwnPid, KillOk, MoveOk, Past
<1> QED BY <1>1, <1>2, <1>3, <1>4

LEMMA LookKillPreserves ==
    ASSUME NEW p \in Launches, IInv, LookKill(p)
    PROVE  IInv'
<1> USE DEF IInv, LookKill, Goto, history, Owning, Holding, Looking, Reaping, Ended, Finished
<1>1. TypeOK'
  BY DEF TypeOK
<1>2. Structure'
  BY DEF Structure, UniqueLoc, Created, PidPast, Past, Places, PlacesOf
<1>3. RemoveOk'
  BY DEF RemoveOk, At
<1>4. Quiet'
  BY DEF Quiet, OwnersAtLock, OwnPid, KillOk, MoveOk, Past
<1> QED BY <1>1, <1>2, <1>3, <1>4

LEMMA MkdirRetryPreserves ==
    ASSUME NEW p \in Launches, IInv, MkdirRetry(p)
    PROVE  IInv'
<1> USE PathTypes DEF IInv, Structure, MkdirRetry, Goto, Return, history, Owning, Holding, Looking, Reaping, Ended, Finished, Past
<1>1. TypeOK'
  BY DEF TypeOK
<1>2. UniqueLoc'
  BY DEF TypeOK, UniqueLoc, At, LockExists
<1>3. Created'
  BY DEF TypeOK, Created
<1>7. Places'
  BY PathsDiffer DEF TypeOK, Places, PlacesOf
<1>4. PidPast'
  BY DEF TypeOK, PidPast
<1>5. RemoveOk'
  BY PathsDiffer DEF TypeOK, RemoveOk, At
<1>6. Quiet'
  <2> SUFFICES ASSUME ~raced' PROVE (OwnersAtLock /\ OwnPid /\ KillOk /\ MoveOk)'
    BY DEF Quiet
  <2> USE DEF TypeOK, Quiet
  <2>1. OwnersAtLock'
    BY DEF OwnersAtLock
  <2>2. OwnPid'
    BY DEF OwnPid
  <2>3. KillOk'
    BY DEF KillOk
  <2>4. MoveOk'
    BY DEF MoveOk
  <2> QED BY <2>1, <2>2, <2>3, <2>4
<1> QED BY <1>1, <1>2, <1>3, <1>4, <1>5, <1>6, <1>7

LEMMA WritePidPreserves ==
    ASSUME NEW p \in Launches, IInv, WritePid(p)
    PROVE  IInv'
<1> USE PathTypes DEF IInv, Structure, WritePid, Goto, Return, history, Owning, Holding, Looking, Reaping, Ended, Finished, Past
<1>1. TypeOK'
  <2>1. pidFile' \in [Launches -> Launches \cup {NoPid}]
    BY DEF TypeOK
  <2> QED BY DEF TypeOK
<1>2. UniqueLoc'
  BY DEF UniqueLoc
<1>3. Created'
  BY DEF TypeOK, Created
<1>7. Places'
  BY LockIsNotGone DEF TypeOK, Places, PlacesOf
<1>4. PidPast'
  BY DEF TypeOK, PidPast
<1>5. RemoveOk'
  <2> SUFFICES ASSUME NEW r \in Procs, pc'[r] = "reapRemove",
                      NEW d \in Launches, loc[d] = ReapPath(r), pidFile'[d] # NoPid
               PROVE  pc'[pidFile'[d]] \in Finished
    BY DEF RemoveOk, At
  <2>1. loc[d] # LockPath
    BY PathsDiffer
  <2>2. pidFile'[d] = pidFile[d] /\ pc[r] = "reapRemove"
    BY <2>1 DEF TypeOK, At
  <2>3. pc[pidFile[d]] \in Finished /\ pidFile[d] \in Launches
    BY <2>2 DEF RemoveOk, At, TypeOK
  <2> QED BY <2>2, <2>3 DEF TypeOK
<1>6. Quiet'
  <2> SUFFICES ASSUME ~raced' PROVE (OwnersAtLock /\ OwnPid /\ KillOk /\ MoveOk)'
    BY DEF Quiet
  <2> USE DEF TypeOK, Quiet
  <2>1. OwnersAtLock'
    BY DEF OwnersAtLock
  <2>2. OwnPid'
    <3>1. CASE LockExists
      <4>1. \A d \in At(LockPath) : d = p
        BY LockIsNotGone DEF OwnersAtLock, UniqueLoc, At
      <4> QED BY <4>1 DEF OwnPid
    <3>2. CASE ~LockExists
      BY <3>2 DEF OwnPid
    <3> QED BY <3>1, <3>2
  <2>3. KillOk'
    BY DEF KillOk
  <2>4. MoveOk'
    BY DEF MoveOk
  <2> QED BY <2>1, <2>2, <2>3, <2>4
<1> QED BY <1>1, <1>2, <1>3, <1>4, <1>5, <1>6, <1>7

LEMMA EndSessionPreserves ==
    ASSUME NEW p \in Launches, IInv, EndSession(p)
    PROVE  IInv'
<1> USE DEF IInv, EndSession, Goto, history, Owning, Holding, Looking, Reaping, Ended, Finished
<1>1. TypeOK'
  BY DEF TypeOK
<1>2. Structure'
  BY DEF Structure, UniqueLoc, Created, PidPast, Past, Places, PlacesOf
<1>3. RemoveOk'
  BY DEF RemoveOk, At
<1>4. Quiet'
  BY DEF Quiet, OwnersAtLock, OwnPid, KillOk, MoveOk, Past
<1> QED BY <1>1, <1>2, <1>3, <1>4

LEMMA ReleaseCatPreserves ==
    ASSUME NEW p \in Launches, IInv, ReleaseCat(p)
    PROVE  IInv'
<1> USE DEF IInv, ReleaseCat, Goto, history, Owning, Holding, Looking, Reaping, Ended, Finished
<1>1. TypeOK'
  BY DEF TypeOK
<1>2. Structure'
  BY DEF Structure, UniqueLoc, Created, PidPast, Past, Places, PlacesOf
<1>3. RemoveOk'
  BY DEF RemoveOk, At
<1>4. Quiet'
  BY DEF Quiet, OwnersAtLock, OwnPid, KillOk, MoveOk, Past
<1> QED BY <1>1, <1>2, <1>3, <1>4

LEMMA ReleaseUnlinkPreserves ==
    ASSUME NEW p \in Launches, IInv, ReleaseUnlink(p)
    PROVE  IInv'
<1> USE PathTypes DEF IInv, Structure, ReleaseUnlink, Goto, Return, history, Owning, Holding, Looking, Reaping, Ended, Finished, Past
<1>1. TypeOK'
  BY DEF TypeOK
<1>2. UniqueLoc'
  BY DEF UniqueLoc
<1>3. Created'
  BY DEF Created
<1>7. Places'
  BY PathsDiffer DEF Places, PlacesOf
<1>4. PidPast'
  BY DEF PidPast
<1>5. RemoveOk'
  BY PathsDiffer DEF RemoveOk, At
<1>6. Quiet'
  <2> SUFFICES ASSUME ~raced' PROVE (OwnersAtLock /\ OwnPid /\ KillOk /\ MoveOk)'
    BY DEF Quiet
  <2> USE DEF TypeOK, Quiet
  <2>1. OwnersAtLock'
    <3> SUFFICES ASSUME NEW q \in Launches, pc'[q] \in Owning PROVE loc'[q] = LockPath
      BY DEF OwnersAtLock
    <3>1. loc[q] = LockPath
      BY DEF OwnersAtLock
    <3>2. \A d \in At(LockPath) : q \notin Below(d)
      BY <3>1, TheLockIsNotBelow DEF At
    <3> QED BY <3>1, <3>2
  <2>2. OwnPid'
    BY DEF OwnPid
  <2>3. KillOk'
    BY DEF KillOk
  <2>4. MoveOk'
    BY DEF MoveOk
  <2> QED BY <2>1, <2>2, <2>3, <2>4
<1> QED BY <1>1, <1>2, <1>3, <1>4, <1>5, <1>6, <1>7

LEMMA ReleaseRmdirPreserves ==
    ASSUME NEW p \in Launches, IInv, ReleaseRmdir(p)
    PROVE  IInv'
<1> USE PathTypes DEF IInv, Structure, ReleaseRmdir, Goto, Return, history, Owning, Holding, Looking, Reaping, Ended, Finished, Past
<1>1. TypeOK'
  BY DEF TypeOK
<1>2. UniqueLoc'
  BY DEF UniqueLoc
<1>3. Created'
  BY DEF Created
<1>7. Places'
  BY PathsDiffer DEF Places, PlacesOf
<1>4. PidPast'
  BY DEF PidPast
<1>5. RemoveOk'
  BY DEF RemoveOk, At
<1>6. Quiet'
  <2> SUFFICES ASSUME ~raced' PROVE (OwnersAtLock /\ OwnPid /\ KillOk /\ MoveOk)'
    BY DEF Quiet
  <2> USE DEF TypeOK, Quiet
  <2>1. OwnersAtLock'
    BY DEF OwnersAtLock, UniqueLoc
  <2>2. OwnPid'
    BY DEF OwnPid
  <2>3. KillOk'
    BY DEF KillOk
  <2>4. MoveOk'
    BY DEF MoveOk
  <2> QED BY <2>1, <2>2, <2>3, <2>4
<1> QED BY <1>1, <1>2, <1>3, <1>4, <1>5, <1>6, <1>7

LEMMA ReapCatPreserves ==
    ASSUME NEW p \in Procs, IInv, ReapCat(p)
    PROVE  IInv'
<1> USE PathTypes DEF IInv, Structure, ReapCat, Goto, Return, history, Owning, Holding, Looking, Reaping, Ended, Finished, Past
<1>1. TypeOK'
  <2>1. PidAt(LockPath) \in Launches \cup {NoPid} /\ At(LockPath) \in SUBSET Launches
    BY LockIsNotGone, PidAtFact DEF At
  <2> QED BY <2>1 DEF TypeOK
<1>2. UniqueLoc'
  BY DEF UniqueLoc
<1>3. Created'
  BY DEF Created
<1>7. Places'
  BY DEF Places, PlacesOf
<1>4. PidPast'
  BY DEF PidPast
<1>5. RemoveOk'
  BY DEF RemoveOk, At
<1>6. Quiet'
  <2> SUFFICES ASSUME ~raced' PROVE (OwnersAtLock /\ OwnPid /\ KillOk /\ MoveOk)'
    BY DEF Quiet
  <2> USE DEF TypeOK, Quiet
  <2>1. OwnersAtLock'
    BY DEF OwnersAtLock
  <2>2. OwnPid'
    BY DEF OwnPid
  <2>3. KillOk'
    <3> SUFFICES ASSUME NEW r \in Procs, pc'[r] = "reapKill", seen'[r] # NoPid
                 PROVE  (checked[r] = {seen[r]} /\ Past(seen[r]))'
      BY DEF KillOk
    <3>1. CASE r # p
      <4>1. pc[r] = "reapKill" /\ seen'[r] = seen[r] /\ checked'[r] = checked[r]
        BY <3>1
      <4>2. checked[r] = {seen[r]} /\ Past(seen[r])
        BY <4>1 DEF KillOk
      <4> QED BY <4>1, <4>2
    <3>2. CASE r = p
      <4>1. seen'[p] = PidAt(LockPath) /\ checked'[p] = At(LockPath)
        OBVIOUS
      <4>2. PICK d \in At(LockPath) : pidFile[d] = PidAt(LockPath)
        BY <3>2, <4>1, LockIsNotGone, PidAtFact
      <4>3. At(LockPath) = {d}
        BY LockIsNotGone DEF UniqueLoc, At
      <4>4. pidFile[d] = d /\ Past(d)
        BY <3>2, <4>2 DEF OwnPid, PidPast, At
      <4> QED BY <3>2, <4>2, <4>3, <4>4
    <3> QED BY <3>1, <3>2
  <2>4. MoveOk'
    BY DEF MoveOk
  <2> QED BY <2>1, <2>2, <2>3, <2>4
<1> QED BY <1>1, <1>2, <1>3, <1>4, <1>5, <1>6, <1>7

LEMMA ReapKillPreserves ==
    ASSUME NEW p \in Procs, IInv, ReapKill(p)
    PROVE  IInv'
<1> USE PathTypes DEF IInv, Structure, ReapKill, Goto, Return, history, Owning, Holding, Looking, Reaping, Ended, Finished, Past
<1>1. TypeOK'
  <2>1. rc' \in [Procs -> 0..NotReturned]
    BY DEF TypeOK, NotReturned
  <2>2. pc' \in [Procs -> Owning \cup Looking \cup Reaping \cup Ended]
    BY DEF TypeOK
  <2> QED BY <2>1 DEF TypeOK
<1>2. UniqueLoc'
  BY DEF UniqueLoc
<1>3. Created'
  BY DEF TypeOK, Created
<1>7. Places'
  BY DEF TypeOK, Places, PlacesOf
<1>4. PidPast'
  BY DEF TypeOK, PidPast
<1>5. RemoveOk'
  BY DEF TypeOK, RemoveOk, At
<1>6. Quiet'
  <2> SUFFICES ASSUME ~raced' PROVE (OwnersAtLock /\ OwnPid /\ KillOk /\ MoveOk)'
    BY DEF Quiet
  <2> USE DEF TypeOK, Quiet
  <2>1. OwnersAtLock'
    BY DEF OwnersAtLock
  <2>2. OwnPid'
    BY DEF OwnPid
  <2>3. KillOk'
    BY DEF KillOk
  <2>4. MoveOk'
    <3> SUFFICES ASSUME NEW r \in Procs, pc'[r] = "reapMove"
                 PROVE  \E d \in Launches : checked[r] = {d} /\ pc'[d] \in Finished
      BY DEF MoveOk
    <3>1. CASE r # p
      BY <3>1 DEF MoveOk
    <3>2. CASE r = p
      <4>1. IsStale(seen[p])
        BY <3>2
      <4>2. checked[p] = {seen[p]} /\ Past(seen[p]) /\ seen[p] # p
        BY <4>1, ConstantsOk DEF KillOk, IsStale, NoPid
      <4> QED BY <3>2, <4>2 DEF IsStale, Alive, Running
    <3> QED BY <3>1, <3>2
  <2> QED BY <2>1, <2>2, <2>3, <2>4
<1> QED BY <1>1, <1>2, <1>3, <1>4, <1>5, <1>6, <1>7

LEMMA ReapMovePreserves ==
    ASSUME NEW p \in Procs, IInv, ReapMove(p)
    PROVE  IInv'
<1> USE PathTypes DEF IInv, Structure, ReapMove, Goto, Return, history, Owning, Holding, Looking, Reaping, Ended, Finished, Past
<1>1. TypeOK'
  <2>1. rc' \in [Procs -> 0..NotReturned]
    BY DEF TypeOK, NotReturned
  <2>2. pc' \in [Procs -> Owning \cup Looking \cup Reaping \cup Ended]
    BY DEF TypeOK
  <2>3. loc' \in [Launches -> Paths]
    BY DEF TypeOK, Moved
  <2> QED BY <2>1, <2>3 DEF TypeOK
<1>2. UniqueLoc'
  <2>1. CASE LockExists
    <3>1. \A d \in Launches : loc[d] # ReapPath(p)
      BY DEF Places, PlacesOf
    <3>2. \A d \in Launches : loc'[d] = IF loc[d] = LockPath THEN ReapPath(p) ELSE loc[d]
      BY <2>1 DEF Moved
    <3> QED BY <3>1, <3>2, LockIsNotGone DEF UniqueLoc
  <2>2. CASE ~LockExists
    BY <2>2 DEF UniqueLoc
  <2> QED BY <2>1, <2>2
<1>3. Created'
  BY LockIsNotGone DEF TypeOK, Created, Moved
<1>7. Places'
  BY PathsDiffer DEF TypeOK, Places, PlacesOf, Moved
<1>4. PidPast'
  BY DEF TypeOK, PidPast
<1>5. RemoveOk'
  <2> SUFFICES ASSUME NEW r \in Procs, pc'[r] = "reapRemove",
                      NEW d \in Launches, loc'[d] = ReapPath(r), pidFile[d] # NoPid
               PROVE  pc'[pidFile[d]] \in Finished
    BY DEF RemoveOk, At
  <2>1. r # p /\ pc[r] = "reapRemove"
    BY DEF TypeOK
  <2>2. loc[d] = ReapPath(r)
    BY <2>1, PathsDiffer DEF Moved
  <2>3. pc[pidFile[d]] \in Finished /\ pidFile[d] \in Launches
    BY <2>2 DEF RemoveOk, At, TypeOK
  <2> QED BY <2>3 DEF TypeOK
<1>6. Quiet'
  <2> SUFFICES ASSUME ~raced' PROVE (OwnersAtLock /\ OwnPid /\ KillOk /\ MoveOk)'
    BY DEF Quiet
  <2> USE DEF TypeOK, Quiet
  <2>1. OwnersAtLock'
    <3>1. CASE LockExists
      <4>1. /\ pc[p] = "reapMove" /\ ~raced /\ At(LockPath) = checked[p]
        BY <3>1
      <4>2. PICK e \in Launches : checked[p] = {e} /\ pc[e] \in Finished
        BY <4>1 DEF MoveOk
      <4>3. \A q \in Launches : pc[q] \notin Owning
        <5> SUFFICES ASSUME NEW q \in Launches, pc[q] \in Owning PROVE FALSE
          OBVIOUS
        <5>1. q \in At(LockPath)
          BY <4>1 DEF OwnersAtLock, At
        <5> QED BY <4>1, <4>2, <5>1
      <4> QED BY <4>3 DEF OwnersAtLock
    <3>2. CASE ~LockExists
      BY <3>2 DEF OwnersAtLock
    <3> QED BY <3>1, <3>2
  <2>2. OwnPid'
    BY DEF OwnPid
  <2>3. KillOk'
    BY DEF KillOk
  <2>4. MoveOk'
    BY DEF MoveOk
  <2> QED BY <2>1, <2>2, <2>3, <2>4
<1> QED BY <1>1, <1>2, <1>3, <1>4, <1>5, <1>6, <1>7

LEMMA ReapRecheckPreserves ==
    ASSUME NEW p \in Procs, IInv, ReapRecheck(p)
    PROVE  IInv'
<1> USE PathTypes DEF IInv, Structure, ReapRecheck, Goto, Return, history, Owning, Holding, Looking, Reaping, Ended, Finished, Past
<1>1. TypeOK'
  BY DEF TypeOK
<1>2. UniqueLoc'
  BY DEF UniqueLoc
<1>3. Created'
  BY DEF Created
<1>7. Places'
  BY DEF Places, PlacesOf
<1>4. PidPast'
  BY DEF PidPast
<1>5. RemoveOk'
  BY LockIsNotGone, PathsDiffer, PidAtFact DEF RemoveOk, PidPast, At, IsStale,
       Alive, Running
<1>6. Quiet'
  <2> SUFFICES ASSUME ~raced' PROVE (OwnersAtLock /\ OwnPid /\ KillOk /\ MoveOk)'
    BY DEF Quiet
  <2> USE DEF TypeOK, Quiet
  <2>1. OwnersAtLock'
    BY DEF OwnersAtLock
  <2>2. OwnPid'
    BY DEF OwnPid
  <2>3. KillOk'
    BY DEF KillOk
  <2>4. MoveOk'
    BY DEF MoveOk
  <2> QED BY <2>1, <2>2, <2>3, <2>4
<1> QED BY <1>1, <1>2, <1>3, <1>4, <1>5, <1>6, <1>7

LEMMA ReapRemovePreserves ==
    ASSUME NEW p \in Procs, IInv, ReapRemove(p)
    PROVE  IInv'
<1> USE PathTypes DEF IInv, Structure, ReapRemove, Goto, Return, history, Owning, Holding, Looking, Reaping, Ended, Finished, Past
<1>0. /\ \A e \in Launches : loc'[e] \in {loc[e], Gone}
      /\ \A e \in Launches : loc[e] = ReapPath(p) => loc'[e] = Gone
  BY DEF TypeOK, At
<1>1. TypeOK'
  BY DEF TypeOK, NotReturned
<1>2. UniqueLoc'
  BY <1>0 DEF UniqueLoc
<1>3. Created'
  BY <1>0 DEF TypeOK, Created
<1>7. Places'
  BY <1>0, PathsDiffer DEF TypeOK, Places, PlacesOf
<1>4. PidPast'
  BY DEF PidPast
<1>5. RemoveOk'
  BY <1>0, PathsDiffer DEF TypeOK, RemoveOk, At
<1>6. Quiet'
  <2> SUFFICES ASSUME ~raced' PROVE (OwnersAtLock /\ OwnPid /\ KillOk /\ MoveOk)'
    BY DEF Quiet
  <2> USE DEF TypeOK, Quiet
  <2>1. OwnersAtLock'
    <3> SUFFICES ASSUME NEW q \in Launches, pc'[q] \in Owning PROVE loc'[q] = LockPath
      BY DEF OwnersAtLock
    <3>1. loc[q] = LockPath
      BY DEF OwnersAtLock
    <3>2. \A d \in At(ReapPath(p)) : q # d /\ q \notin Below(d)
      BY <3>1, PathsDiffer, TheLockIsNotBelow DEF At
    <3> QED BY <3>1, <3>2
  <2>2. OwnPid'
    BY DEF OwnPid
  <2>3. KillOk'
    BY DEF KillOk
  <2>4. MoveOk'
    BY DEF MoveOk
  <2> QED BY <2>1, <2>2, <2>3, <2>4
<1> QED BY <1>1, <1>2, <1>3, <1>4, <1>5, <1>6, <1>7

LEMMA ReapTestPreserves ==
    ASSUME NEW p \in Procs, IInv, ReapTest(p)
    PROVE  IInv'
<1> USE DEF IInv, ReapTest, Goto, Return, history, Owning, Holding, Looking, Reaping, Ended, Finished
<1>1. TypeOK'
  <2>1. rc' \in [Procs -> 0..NotReturned]
    BY DEF TypeOK, NotReturned
  <2> QED BY <2>1 DEF TypeOK
<1>2. Structure'
  BY DEF TypeOK, Structure, UniqueLoc, Created, PidPast, Past, Places, PlacesOf
<1>3. RemoveOk'
  BY DEF TypeOK, RemoveOk, At
<1>4. Quiet'
  BY DEF TypeOK, Quiet, OwnersAtLock, OwnPid, KillOk, MoveOk, Past
<1> QED BY <1>1, <1>2, <1>3, <1>4

LEMMA ReapRestorePreserves ==
    ASSUME NEW p \in Procs, IInv, ReapRestore(p)
    PROVE  IInv'
<1> USE PathTypes DEF IInv, Structure, ReapRestore, Goto, Return, history, Owning, Holding, Looking, Reaping, Ended, Finished, Past
<1>1. TypeOK'
  <2>1. /\ Moved(ReapPath(p), LockPath) \in [Launches -> Paths]
        /\ \A d \in Launches : Moved(ReapPath(p), NestedPath(d, p)) \in [Launches -> Paths]
    BY DEF TypeOK, Moved
  <2>2. loc' \in [Launches -> Paths]
    BY <2>1 DEF At
  <2>3. raced' \in BOOLEAN
    BY DEF TypeOK
  <2> QED BY <2>2 DEF TypeOK
<1>2. UniqueLoc'
  <2>1. \A d, e \in Launches : loc[e] # NestedPath(d, p)
    BY DEF Places, PlacesOf
  <2>2. CASE ~LockExists /\ loc' = Moved(ReapPath(p), LockPath)
    BY <2>2, PathsDiffer DEF UniqueLoc, Moved, LockExists, At
  <2>3. ASSUME NEW d \in At(LockPath), loc' = Moved(ReapPath(p), NestedPath(d, p))
        PROVE  UniqueLoc'
    BY <2>1, <2>3, PathsDiffer DEF UniqueLoc, Moved, At
  <2>4. ASSUME NEW d \in At(LockPath),
               loc' = [Moved(ReapPath(p), LockPath) EXCEPT ![d] = Gone]
        PROVE  UniqueLoc'
    <3>1. \A e \in Launches : loc'[e] = IF e = d THEN Gone
                  ELSE IF loc[e] = ReapPath(p) THEN LockPath ELSE loc[e]
      BY <2>4 DEF Moved
    <3>2. \A e \in Launches : loc[e] = LockPath => e = d
      BY LockIsNotGone DEF UniqueLoc, At
    <3> QED BY <3>1, <3>2, PathsDiffer DEF UniqueLoc
  <2> QED BY <2>2, <2>3, <2>4
<1>3. Created'
  <2> SUFFICES ASSUME NEW e \in Launches, loc'[e] # Gone PROVE Past(e)'
    BY DEF Created
  <2>1. loc[e] # Gone
    BY PathsDiffer DEF Moved, At
  <2> QED BY <2>1 DEF Created
<1>7. Places'
  <2> SUFFICES ASSUME NEW r \in Procs, NEW e \in Launches
               PROVE  PlacesOf(r, e)'
    BY DEF Places
  <2>1. CASE r # p
    <3>1. /\ loc'[e] = ReapPath(r) => loc[e] = ReapPath(r)
          /\ \A d \in Launches : loc'[e] = NestedPath(d, r) => loc[e] = NestedPath(d, r)
      <4>1. \/ loc'[e] \in {loc[e], LockPath, Gone}
            \/ \E d \in Launches : loc'[e] = NestedPath(d, p)
        BY DEF Moved, At
      <4> QED BY <2>1, <4>1, PathsDiffer
    <3> QED BY <2>1, <3>1 DEF Places, PlacesOf
  <2>2. CASE r = p
    <3>1. \/ loc'[e] = loc[e] /\ loc[e] # ReapPath(p)
          \/ loc'[e] \in {LockPath, Gone}
          \/ \E d \in Launches : loc'[e] = NestedPath(d, p)
      BY LockIsNotGone DEF Moved, At
    <3> QED BY <2>2, <3>1, PathsDiffer DEF PlacesOf, TypeOK
  <2> QED BY <2>1, <2>2
<1>4. PidPast'
  BY DEF PidPast
<1>5. RemoveOk'
  <2> SUFFICES ASSUME NEW r \in Procs, pc'[r] = "reapRemove",
                      NEW d \in Launches, loc'[d] = ReapPath(r), pidFile[d] # NoPid
               PROVE  pc'[pidFile[d]] \in Finished
    BY DEF RemoveOk, At
  <2>1. r # p /\ pc[r] = "reapRemove"
    OBVIOUS
  <2>2. loc[d] = ReapPath(r)
    <3>1. \/ loc'[d] \in {loc[d], LockPath, Gone}
          \/ \E e \in Launches : loc'[d] = NestedPath(e, p)
      BY DEF Moved, At
    <3> QED BY <3>1, PathsDiffer
  <2>3. pc[pidFile[d]] \in Finished /\ pidFile[d] \in Launches
    BY <2>2 DEF RemoveOk, At, TypeOK
  <2> QED BY <2>3
<1>6. Quiet'
  <2> SUFFICES ASSUME ~raced' PROVE (OwnersAtLock /\ OwnPid /\ KillOk /\ MoveOk)'
    BY DEF Quiet
  <2> USE DEF TypeOK, Quiet
  <2>1. OwnersAtLock'
    BY PathsDiffer DEF OwnersAtLock, Moved
  <2>2. OwnPid'
    BY DEF OwnPid
  <2>3. KillOk'
    BY DEF KillOk
  <2>4. MoveOk'
    BY DEF MoveOk
  <2> QED BY <2>1, <2>2, <2>3, <2>4
<1> QED BY <1>1, <1>2, <1>3, <1>4, <1>5, <1>6, <1>7

LEMMA ReapNestedPreserves ==
    ASSUME NEW p \in Procs, IInv, ReapNested(p)
    PROVE  IInv'
<1> USE DEF IInv, ReapNested, Goto, Return, history, Owning, Holding, Looking, Reaping, Ended, Finished
<1>1. TypeOK'
  <2>1. rc' \in [Procs -> 0..NotReturned]
    BY DEF TypeOK, NotReturned
  <2> QED BY <2>1 DEF TypeOK
<1>2. Structure'
  BY DEF TypeOK, Structure, UniqueLoc, Created, PidPast, Past, Places, PlacesOf
<1>3. RemoveOk'
  BY DEF TypeOK, RemoveOk, At
<1>4. Quiet'
  BY DEF TypeOK, Quiet, OwnersAtLock, OwnPid, KillOk, MoveOk, Past
<1> QED BY <1>1, <1>2, <1>3, <1>4

LEMMA ReapUndoPreserves ==
    ASSUME NEW p \in Procs, IInv, ReapUndo(p)
    PROVE  IInv'
<1> USE PathTypes DEF IInv, Structure, ReapUndo, Goto, Return, history, Owning, Holding, Looking, Reaping, Ended, Finished, Past
<1>1. TypeOK'
  BY DEF TypeOK, NotReturned
<1>2. UniqueLoc'
  <2> DEFINE Nested(e) == \E d \in At(LockPath) : loc[e] = NestedPath(d, p)
  <2>1. \A d \in Launches : loc[d] # ReapPath(p)
    BY DEF Places, PlacesOf
  <2>2. \A e \in Launches : loc'[e] = IF Nested(e) THEN ReapPath(p) ELSE loc[e]
    OBVIOUS
  <2>3. \A d, e \in Launches : Nested(d) /\ Nested(e) => d = e
    BY LockIsNotGone, PathsDiffer DEF UniqueLoc, At
  <2> QED BY <2>1, <2>3 DEF UniqueLoc
<1>3. Created'
  BY PathsDiffer DEF Created, At
<1>7. Places'
  BY PathsDiffer DEF TypeOK, Places, PlacesOf
<1>4. PidPast'
  BY DEF PidPast
<1>5. RemoveOk'
  BY PathsDiffer DEF RemoveOk, At
<1>6. Quiet'
  <2> SUFFICES ASSUME ~raced' PROVE (OwnersAtLock /\ OwnPid /\ KillOk /\ MoveOk)'
    BY DEF Quiet
  <2> USE DEF TypeOK, Quiet
  <2>1. OwnersAtLock'
    BY PathsDiffer DEF OwnersAtLock, At
  <2>2. OwnPid'
    BY DEF OwnPid
  <2>3. KillOk'
    BY DEF KillOk
  <2>4. MoveOk'
    BY DEF MoveOk
  <2> QED BY <2>1, <2>2, <2>3, <2>4
<1> QED BY <1>1, <1>2, <1>3, <1>4, <1>5, <1>6, <1>7

LEMMA CrashPreserves ==
    ASSUME NEW p \in Procs, IInv, Crash(p)
    PROVE  IInv'
<1> USE DEF IInv, Crash, Goto, history, Owning, Holding, Looking, Reaping, Ended, Finished
<1>1. TypeOK'
  BY DEF TypeOK
<1>2. Structure'
  BY DEF Structure, UniqueLoc, Created, PidPast, Past, Places, PlacesOf
<1>3. RemoveOk'
  BY DEF RemoveOk, At
<1>4. Quiet'
  BY DEF Quiet, OwnersAtLock, OwnPid, KillOk, MoveOk, Past
<1> QED BY <1>1, <1>2, <1>3, <1>4

LEMMA ReusePidPreserves ==
    ASSUME NEW p \in Procs, IInv, ReusePid(p)
    PROVE  IInv'
<1> USE DEF IInv, ReusePid, Goto, history, Owning, Holding, Looking, Reaping, Ended, Finished
<1>1. TypeOK'
  BY DEF TypeOK
<1>2. Structure'
  BY DEF Structure, UniqueLoc, Created, PidPast, Past, Places, PlacesOf
<1>3. RemoveOk'
  BY DEF RemoveOk, At
<1>4. Quiet'
  BY DEF Quiet, OwnersAtLock, OwnPid, KillOk, MoveOk, Past
<1> QED BY <1>1, <1>2, <1>3, <1>4

LEMMA NextPreserves == IInv /\ [Next]_vars => IInv'
<1>1. ASSUME IInv, UNCHANGED vars PROVE IInv'
  BY <1>1 DEF IInv, TypeOK, Structure, UniqueLoc, Created, PidPast, Places,
       PlacesOf, RemoveOk, Quiet, OwnersAtLock, OwnPid, KillOk, MoveOk, Past,
       At, vars
<1> QED
  BY <1>1, StartPreserves, MkdirPreserves, LookCatPreserves, LookKillPreserves,
       MkdirRetryPreserves, WritePidPreserves, EndSessionPreserves,
       ReleaseCatPreserves, ReleaseUnlinkPreserves, ReleaseRmdirPreserves,
       ReapCatPreserves, ReapKillPreserves, ReapMovePreserves,
       ReapRecheckPreserves, ReapRemovePreserves, ReapTestPreserves,
       ReapRestorePreserves, ReapNestedPreserves, ReapUndoPreserves,
       CrashPreserves, ReusePidPreserves
  DEF Next, Launch, Reap

(* The inductive invariant holds throughout.                               *)
THEOREM Invariance == Spec => []IInv
BY InitEstablishes, NextPreserves, PTL DEF Spec

(* The variables keep their types.                                         *)
THEOREM TypeCorrect == Spec => []TypeOK
BY Invariance, PTL DEF IInv

(* No two launches hold a workspace's lock until a reaper's rename races.  *)
THEOREM Exclusion == Spec => []MutualExclusion
<1>1. IInv => MutualExclusion
  BY LockIsNotGone DEF IInv, Structure, UniqueLoc, Quiet, OwnersAtLock, Owning,
       MutualExclusion, Holders
<1> QED BY <1>1, Invariance, PTL

(* The lock a reaper is about to delete names an ended process, races      *)
(* included, and so do the locks nested in it until a rename races.        *)
THEOREM ReapSafety == Spec => []ReaperSparesTheLiving
<1>1. IInv => ReaperSparesTheLiving
  <2> SUFFICES ASSUME IInv, NEW r \in Procs, pc[r] = "reapRemove",
                      NEW d \in At(ReapPath(r))
               PROVE  NoLive({d}) /\ (~raced => NoLive(Below(d)))
    BY DEF ReaperSparesTheLiving
  <2>1. NoLive({d})
    BY DEF IInv, RemoveOk, NoLive, Running, Ended, Finished
  <2>2. ASSUME ~raced, NEW e \in Below(d), pidFile[e] # NoPid
        PROVE  ~Running(pidFile[e])
    <3>1. e \in Launches /\ d \in Launches
      BY DEF Below, At
    <3>2. PICK x \in Launches, q \in Procs : loc[e] = NestedPath(x, q)
      BY <3>1, BelowIsNested
    <3>3. loc[e] \notin {LockPath, Gone}
      BY <3>2, PathsDiffer
    <3>4. pc[e] \in Finished
      BY <2>2, <3>1, <3>3 DEF IInv, Structure, Created, Past, Quiet, OwnersAtLock
    <3>5. pidFile[e] = e
      BY <2>2, <3>1 DEF IInv, Quiet, OwnPid
    <3> QED BY <3>4, <3>5 DEF Running, Ended, Finished
  <2> QED BY <2>1, <2>2 DEF NoLive
<1> QED BY <1>1, Invariance, PTL

(* A step of the lock is a step of the abstract mutex, or changes nothing  *)
(* of it.                                                                  *)
LEMMA StepRefines == IInv /\ [Next]_vars => [Mutex!Next]_Mutex!vars
<1> SUFFICES ASSUME IInv, [Next]_vars PROVE [Mutex!Next]_Mutex!vars
  OBVIOUS
<1> USE DEF Mutex!Next, Mutex!vars, Mutex!Acquire, Mutex!Leave, Mutex!Forfeit,
       IInv, TypeOK, Goto, Return, history, Holders, Holding, Owning
<1>1. ASSUME NEW p \in Launches, WritePid(p) PROVE [Mutex!Next]_Mutex!vars
  <2>1. CASE LockExists
    <3>1. Holders' = Holders \cup {p} /\ p \notin Holders
      BY <1>1, <2>1 DEF WritePid
    <3>2. Holders = {} \/ raced
      BY <1>1, LockIsNotGone DEF WritePid, Structure, UniqueLoc, Quiet,
           OwnersAtLock
    <3> QED BY <1>1, <3>2 DEF WritePid
  <2>2. CASE ~LockExists
    BY <1>1, <2>2 DEF WritePid
  <2> QED BY <2>1, <2>2
<1>2. ASSUME NEW p \in Launches,
             ReleaseCat(p) \/ ReleaseUnlink(p) \/ ReleaseRmdir(p) \/ EndSession(p)
      PROVE  [Mutex!Next]_Mutex!vars
  <2>1. Holders' = Holders \/ (p \in Holders /\ Holders' = Holders \ {p})
    BY <1>2 DEF ReleaseCat, ReleaseUnlink, ReleaseRmdir, EndSession
  <2> QED BY <1>2 DEF ReleaseCat, ReleaseUnlink, ReleaseRmdir, EndSession
<1>3. ASSUME NEW p \in Procs, Start(p) \/ ReusePid(p) \/ Reap(p)
      PROVE  [Mutex!Next]_Mutex!vars
  <2>1. Holders' = Holders
    BY <1>3 DEF Start, ReusePid, Reap, ReapCat, ReapKill, ReapMove,
         ReapRecheck, ReapRemove, ReapTest, ReapRestore, ReapNested, ReapUndo
  <2>2. raced' \in {raced, TRUE}
    BY <1>3 DEF Start, ReusePid, Reap, ReapCat, ReapKill, ReapMove,
         ReapRecheck, ReapRemove, ReapTest, ReapRestore, ReapNested, ReapUndo
  <2> QED BY <2>1, <2>2
<1>4. ASSUME NEW p \in Procs, Crash(p) PROVE [Mutex!Next]_Mutex!vars
  <2>1. Holders' = Holders \/ (p \in Holders /\ Holders' = Holders \ {p})
    BY <1>4 DEF Crash
  <2> QED BY <1>4 DEF Crash
<1>5. ASSUME NEW p \in Launches, Mkdir(p) \/ LookCat(p) \/ LookKill(p) \/ MkdirRetry(p)
      PROVE  [Mutex!Next]_Mutex!vars
  <2>1. Holders' = Holders
    BY <1>5 DEF Mkdir, LookCat, LookKill, MkdirRetry
  <2> QED BY <1>5 DEF Mkdir, LookCat, LookKill, MkdirRetry
<1>6. CASE UNCHANGED vars
  BY <1>6 DEF vars
<1> QED BY <1>1, <1>2, <1>3, <1>4, <1>5, <1>6 DEF Next, Launch

(* The lock implements the abstract mutex: a launch enters only while      *)
(* nobody holds, until the first raced rename.                             *)
THEOREM Refinement == Spec => ImplementsMutex
<1>1. Init => Mutex!Init
  BY DEF Init, Mutex!Init, Holders, Holding
<1> QED BY <1>1, StepRefines, Invariance, PTL DEF Spec, Mutex!Spec, ImplementsMutex

----------------------------------------------------------------------------
(* Giving the lock back.  Until a rename races an owner's lock is signed   *)
(* from the write of the pid to the unlink and empty after it; until       *)
(* somebody was killed too, only owners have a directory anywhere.         *)
Orderly == ~raced /\ \A p \in Procs : pc[p] \notin {"dead", "reused"}

SignedFor(p) ==
    /\ pc[p] \in {"held", "releaseCat", "releaseUnlink"} => pidFile[p] = p
    /\ pc[p] = "releaseRmdir" => pidFile[p] = NoPid
Signed == ~raced => \A p \in Launches : SignedFor(p)
OwnersOnly == Orderly => \A d \in Launches : loc[d] # Gone => pc[d] \in Owning

(* Whoever ended orderly left nothing, so a reaper that is past its first  *)
(* check finds either no lock or one it did not check.                     *)
LEMMA NothingToMove ==
    ASSUME IInv, OwnersOnly, Orderly, NEW r \in Procs, pc[r] = "reapMove",
           LockExists
    PROVE  At(LockPath) # checked[r]
<1>1. PICK d \in Launches : checked[r] = {d} /\ pc[d] \in Finished
  BY DEF IInv, Quiet, MoveOk, Orderly
<1>2. loc[d] # LockPath
  BY <1>1, LockIsNotGone DEF OwnersOnly, Owning, Holding, Finished
<1> QED BY <1>1, <1>2 DEF At

LEMMA SignedKept ==
    ASSUME IInv, Signed, [Next]_vars
    PROVE  Signed'
<1> SUFFICES ASSUME ~raced', NEW q \in Launches
             PROVE  SignedFor(q)'
  BY DEF Signed
<1> USE DEF IInv, TypeOK, Goto, Return, history, SignedFor
<1>1. ~raced
  BY DEF Next, Launch, Reap, vars, Mkdir, LookCat, LookKill, MkdirRetry, WritePid,
     ReleaseCat, ReleaseUnlink, ReleaseRmdir, EndSession, ReapCat, ReapKill, ReapMove,
     ReapRecheck, ReapRemove, ReapTest, ReapRestore, ReapNested, ReapUndo, Start,
     Crash, ReusePid
<1>2. /\ SignedFor(q)
      /\ pc[q] \in Owning => q \in At(LockPath)
      /\ \A p \in Launches : pc[p] \in Owning /\ q \in At(LockPath) => p = q
  BY <1>1, LockIsNotGone DEF Signed, Structure, UniqueLoc, Quiet, OwnersAtLock, At
<1>3. ASSUME NEW p \in Launches, WritePid(p) PROVE SignedFor(q)'
  BY <1>2, <1>3 DEF WritePid, Owning, Holding, LockExists
<1>4. ASSUME NEW p \in Launches, ReleaseCat(p) \/ ReleaseUnlink(p) \/ ReleaseRmdir(p)
      PROVE  SignedFor(q)'
  BY <1>2, <1>4 DEF ReleaseCat, ReleaseUnlink, ReleaseRmdir, Owning, Holding
<1>5. ASSUME NEW p \in Launches,
             Mkdir(p) \/ LookCat(p) \/ LookKill(p) \/ MkdirRetry(p) \/ EndSession(p)
      PROVE  SignedFor(q)'
  BY <1>2, <1>5 DEF Mkdir, LookCat, LookKill, MkdirRetry, EndSession
<1>6. ASSUME NEW r \in Procs, Reap(r) PROVE SignedFor(q)'
  BY <1>2, <1>6 DEF Reap, ReapCat, ReapKill, ReapMove, ReapRecheck, ReapRemove,
     ReapTest, ReapRestore, ReapNested, ReapUndo
<1>7. ASSUME NEW p \in Procs, Start(p) \/ Crash(p) \/ ReusePid(p) PROVE SignedFor(q)'
  BY <1>2, <1>7 DEF Start, Crash, ReusePid
<1>8. CASE UNCHANGED vars
  BY <1>2, <1>8 DEF vars
<1> QED BY <1>3, <1>4, <1>5, <1>6, <1>7, <1>8 DEF Next, Launch

(* A process that is no owner before the step is at nobody's directory;    *)
(* an owner that ends takes its own along.                                 *)
LEMMA OwnersOnlyKept ==
    ASSUME IInv, Signed, OwnersOnly, [Next]_vars
    PROVE  OwnersOnly'
<1> SUFFICES ASSUME Orderly', NEW d \in Launches, loc'[d] # Gone
             PROVE  pc'[d] \in Owning
  BY DEF OwnersOnly
<1> USE DEF IInv, TypeOK, Goto, Return, history
<1>1. Orderly
  <2>1. ~raced
    BY DEF Orderly, Next, Launch, Reap, vars, Mkdir, LookCat, LookKill, MkdirRetry,
       WritePid, ReleaseCat, ReleaseUnlink, ReleaseRmdir, EndSession, ReapCat, ReapKill,
       ReapMove, ReapRecheck, ReapRemove, ReapTest, ReapRestore, ReapNested, ReapUndo,
       Start, Crash, ReusePid
  <2>2. ASSUME NEW p \in Procs, pc[p] \in {"dead", "reused"}
        PROVE  pc'[p] \in {"dead", "reused"}
    BY <2>2 DEF Next, Launch, Reap, vars, Mkdir, LookCat, LookKill, MkdirRetry,
       WritePid, ReleaseCat, ReleaseUnlink, ReleaseRmdir, EndSession, ReapCat, ReapKill,
       ReapMove, ReapRecheck, ReapRemove, ReapTest, ReapRestore, ReapNested, ReapUndo,
       Start, Crash, ReusePid
  <2> QED BY <2>1, <2>2 DEF Orderly
<1>2. /\ \A e \in Launches : loc[e] # Gone => pc[e] \in Owning /\ loc[e] = LockPath
      /\ \A e \in Launches : pc[e] \in Owning => loc[e] = LockPath /\ SignedFor(e)
  BY <1>1 DEF OwnersOnly, Quiet, OwnersAtLock, Orderly, Signed
<1>3. \A p, q \in At(LockPath) : p = q
  BY LockIsNotGone DEF At, Structure, UniqueLoc
<1>4. \A e \in Launches, r \in Procs, f \in Launches :
          loc[e] # ReapPath(r) /\ loc[e] # NestedPath(f, r)
  BY <1>2, PathsDiffer
<1>5. ASSUME NEW p \in Launches, Mkdir(p) \/ MkdirRetry(p)
      PROVE  pc'[d] \in Owning
  BY <1>2, <1>5 DEF Mkdir, MkdirRetry, Owning, Holding
<1>6. ASSUME NEW p \in Launches, WritePid(p) \/ EndSession(p)
      PROVE  pc'[d] \in Owning
  BY <1>2, <1>6 DEF WritePid, EndSession, Owning, Holding, LockExists, At
<1>7. ASSUME NEW p \in Launches, ReleaseCat(p) PROVE pc'[d] \in Owning
  <2>1. PidAt(LockPath) = p
    <3>1. p \in At(LockPath) /\ pidFile[p] = p
      BY <1>2, <1>7 DEF ReleaseCat, Owning, Holding, SignedFor, At
    <3> QED BY <3>1, PidAtFact, PathTypes, LockIsNotGone DEF Structure
  <2> QED BY <1>2, <1>7, <2>1 DEF ReleaseCat, Owning, Holding
<1>8. ASSUME NEW p \in Launches, ReleaseUnlink(p) PROVE pc'[d] \in Owning
  BY <1>2, <1>8 DEF ReleaseUnlink, Owning, Holding, LockExists, At
<1>9. ASSUME NEW p \in Launches, ReleaseRmdir(p) PROVE pc'[d] \in Owning
  <2>1. p \in At(LockPath) /\ pidFile[p] = NoPid
    BY <1>2, <1>9 DEF ReleaseRmdir, Owning, Holding, SignedFor, At
  <2>2. Inside(p) = {}
    BY <1>4 DEF Inside
  <2>3. d # p
    BY <1>9, <2>1, <2>2 DEF ReleaseRmdir
  <2>4. loc[d] # Gone
    BY <1>9, <2>1 DEF ReleaseRmdir
  <2> QED BY <1>2, <1>9, <2>3, <2>4 DEF ReleaseRmdir
<1>10. ASSUME NEW p \in Launches, LookCat(p) \/ LookKill(p) PROVE pc'[d] \in Owning
  BY <1>2, <1>10 DEF LookCat, LookKill, Owning, Holding
<1>11. ASSUME NEW r \in Procs, Reap(r) PROVE pc'[d] \in Owning
  <2>1. pc[r] \in Reaping /\ (d # r => pc'[d] = pc[d])
    BY <1>11 DEF Reap, ReapCat, ReapKill, ReapMove, ReapRecheck, ReapRemove,
       ReapTest, ReapRestore, ReapNested, ReapUndo, Reaping
  <2>2. loc' = loc
    <3>1. CASE ReapMove(r)
      <4>1. ~LockExists
        BY <1>1, <3>1, NothingToMove DEF ReapMove, Orderly
      <4> QED BY <3>1, <4>1 DEF ReapMove
    <3>2. CASE ReapRemove(r)
      BY <1>4, BelowIsNested, <3>2 DEF ReapRemove, At
    <3>3. CASE ReapRestore(r)
      <4>1. \A to \in Paths : Moved(ReapPath(r), to) = loc
        BY <1>4 DEF Moved
      <4> QED BY <3>3, <4>1, PathTypes DEF ReapRestore, Orderly, At
    <3>4. CASE ReapUndo(r)
      BY <1>4, <3>4 DEF ReapUndo, At
    <3> QED BY <1>11, <3>1, <3>2, <3>3, <3>4 DEF Reap, ReapCat, ReapKill,
       ReapRecheck, ReapTest, ReapNested
  <2> QED BY <1>2, <2>1, <2>2 DEF Owning, Holding, Reaping
<1>12. ASSUME NEW p \in Procs, Start(p) \/ Crash(p) \/ ReusePid(p)
       PROVE  pc'[d] \in Owning
  BY <1>2, <1>12 DEF Start, Crash, ReusePid, Orderly, Owning, Holding
<1>13. CASE UNCHANGED vars
  BY <1>2, <1>13 DEF vars
<1> QED BY <1>5, <1>6, <1>7, <1>8, <1>9, <1>10, <1>11, <1>12, <1>13 DEF Next, Launch

(* The lock found at $L is one whose launch still runs, until somebody was *)
(* killed or a rename raced: every way out gives it back.                  *)
THEOREM LockGivenBack == Spec => []OrderlyEndFreesLock
<1>1. Init => Signed /\ OwnersOnly
  BY DEF Init, Signed, SignedFor, OwnersOnly
<1>2. IInv /\ Signed /\ OwnersOnly /\ [Next]_vars => (Signed /\ OwnersOnly)'
  BY SignedKept, OwnersOnlyKept
<1>3. OwnersOnly => OrderlyEndFreesLock
  BY LockIsNotGone DEF OwnersOnly, Orderly, OrderlyEndFreesLock, At
<1> QED BY <1>1, <1>2, <1>3, Invariance, PTL DEF Spec
=============================================================================
