------------------------ MODULE HandoffStagingProofs ------------------------
(***************************************************************************)
(* Theorems about HandoffStaging, for any launches, targets and settings.  *)
(***************************************************************************)
EXTENDS HandoffStaging, TLAPS

USE HandoffAssumption

\* Only the lock's holder is at work, and no container outlives its launch's
\* stages.
Holder ==
    \A l \in Launches :
        /\ pc[l] \in {"sweep", "stage", "handOver", "run", "session"} => lock = l
        /\ Up(l) => pc[l] \in {"session", "dead"}

\* An agent's launch has nothing left to hand over, and others have nothing
\* staged once the holder has swept.
Empty(l) == \A t \in Targets : staged[l][t] = Absent
Past(l) == pc[l] \in {"handOver", "run", "session"} \/ Up(l)
Alone ==
    \A l \in Launches :
        /\ ctr[l] = "agent" => Empty(l)
        /\ (lock = l /\ (pc[l] = "stage" \/ Past(l))) =>
               \A k \in Launches \ {l} : Empty(k)

\* How far a target is, and that what is handed over says what it should.
Says(c, l, t) ==
    \/ c.keys = wants[l]
    \/ t \in Files \ equipped
    \/ t \in live /\ c = Torn
Prepared(l, t) ==
    IF staged[l][t] = Absent THEN Says(file[t], l, t) \/ t \in altered
                             ELSE Says(staged[l][t], l, t)
InPhase(l, t) ==
    /\ pc[l] = "sweep" => phase[t] = "none"
    /\ (pc[l] \in {"sweep", "stage"} /\ phase[t] = "none") => t \notin live
    /\ pc[l] = "stage" =>
        /\ phase[t] = "none" => staged[l][t] = Absent
        /\ t \in live => staged[l][t] \in {Absent, Torn}
        /\ phase[t] = "written" => Prepared(l, t)
        /\ (phase[t] = "written" /\ t \notin live) => staged[l][t] # Absent
        /\ phase[t] = "done" => Prepared(l, t)
    /\ (lock = l /\ Past(l)) => Prepared(l, t)
Phases == \A l \in Launches, t \in Targets : InPhase(l, t)

\* A copy has all that agents wrote but those that were there when it was
\* made, and of the others none comes up before it is handed over.
Made(l, t) ==
    \/ staged[l][t] # Absent
    \/ pc[l] = "stage" /\ phase[t] = "begun" /\ t \notin live
HasAll(l, t, k) ==
    /\ (Made(l, t) /\ k # l /\ Up(k)) => k \in overrun
    /\ (Made(l, t) /\ t \in Files /\ <<k, t>> \in wrote) =>
           k \in overrun \/ t \in failed \/ k \in staged[l][t].notes
Copies == \A l \in Launches, t \in Targets, k \in Launches : HasAll(l, t, k)

Failures == live \subseteq failed

IInv == TypeOK /\ Holder /\ Alone /\ Phases /\ Copies /\ Failures /\ NotesAreKept
-----------------------------------------------------------------------------
(* What a target says, and changing one of them.                           *)

LEMMA Contents ==
    /\ Absent \in Content /\ Absent.keys \notin Values /\ Absent.notes = {}
    /\ Torn \in Content /\ Torn # Absent /\ Torn.notes = {}
    /\ \A c \in Whole : c \in Content /\ c # Absent
    /\ \A c \in Whole, v \in Values, l \in Launches :
         /\ [keys |-> c.keys, notes |-> c.notes \cup {l}] \in Whole
         /\ [keys |-> v, notes |-> c.notes] \in Whole
BY DEF Absent, Torn, Content, Whole, None, Unreadable

LEMMA Setting ==
    ASSUME NEW t \in Targets, NEW c \in Content, NEW v \in Values
    PROVE  /\ Set(t, c, v) \in Content /\ Set(t, c, v) # Absent
           /\ Set(t, c, v).notes = c.notes
           /\ (t \notin Files \ equipped) => Set(t, c, v).keys = v
<1>1. c.notes \in SUBSET Launches BY Contents DEF Content, Whole
<1>2. [keys |-> v, notes |-> c.notes] \in Whole BY <1>1 DEF Whole
<1> QED BY <1>2, Contents DEF Set

LEMMA PutEffect ==
    ASSUME staged \in [Launches -> [Targets -> Content]],
           NEW l \in Launches, NEW t \in Targets, NEW c \in Content, Put(l, t, c)
    PROVE  /\ staged' \in [Launches -> [Targets -> Content]]
           /\ staged'[l][t] = c
           /\ \A k \in Launches, u \in Targets :
                 (k # l \/ u # t) => staged'[k][u] = staged[k][u]
BY DEF Put

LEMMA FileEffect ==
    ASSUME file \in [Targets -> Content],
           NEW t \in Targets, NEW c \in Content, file' = [file EXCEPT ![t] = c]
    PROVE  /\ file' \in [Targets -> Content]
           /\ file'[t] = c
           /\ \A u \in Targets : u # t => file'[u] = file[u]
OBVIOUS

\* The invariant holds at the start ...
THEOREM InitInv == Init => IInv
<1> SUFFICES ASSUME Init PROVE IInv
  OBVIOUS
<1>1. TypeOK BY Contents DEF Init, TypeOK, Steps
<1>2. Holder /\ Alone BY DEF Init, Holder, Up, Alone, Empty, Past
<1>3. Phases BY <1>2 DEF Init, Phases, InPhase, Holder, Past, Up
<1>4. Copies /\ Failures /\ NotesAreKept
  BY DEF Init, Copies, HasAll, Made, Failures, NotesAreKept
<1> QED BY <1>1, <1>2, <1>3, <1>4 DEF IInv

\* ... and each step keeps it: a launch takes the lock.
LEMMA LockStep ==
    ASSUME IInv, NEW l \in Launches, Lock(l)
    PROVE  IInv'
<1> USE DEF IInv, given, history, Failures
<1>1. TypeOK' BY DEF TypeOK, Lock, Goto, Steps
<1>2. Holder' BY DEF Holder, Up, Lock, Goto, TypeOK, Steps
<1>3. Alone' BY DEF Alone, Empty, Past, Holder, Up, Lock, Goto, TypeOK, Steps
<1>4. Phases'
  <2> SUFFICES ASSUME NEW k \in Launches, NEW u \in Targets PROVE InPhase(k, u)'
    BY DEF Phases
  <2>1. InPhase(k, u) BY DEF Phases
  <2> QED BY <2>1 DEF InPhase, Prepared, Says, Alone, Empty, Past, Holder, Up, Lock, Goto, TypeOK, Steps
<1>5. Copies'
  <2> SUFFICES ASSUME NEW k \in Launches, NEW u \in Targets, NEW m \in Launches
               PROVE  HasAll(k, u, m)'
    BY DEF Copies
  <2>1. HasAll(k, u, m) BY DEF Copies
  <2> QED BY <2>1 DEF HasAll, Made, Alone, Empty, Past, Holder, Up, Lock, Goto, TypeOK, Steps
<1>6. NotesAreKept' BY DEF NotesAreKept, Lock, Goto, TypeOK
<1>7. Failures' BY DEF Lock, host, Work
<1> QED BY <1>1, <1>2, <1>3, <1>4, <1>5, <1>6, <1>7

\* Nothing staged is left.
LEMMA SweepStep ==
    ASSUME IInv, NEW l \in Launches, Sweep(l)
    PROVE  IInv'
<1> USE DEF IInv, given, history, Failures
<1>1. TypeOK' BY Contents DEF TypeOK, Sweep, Goto, Steps
<1>2. Holder' BY Contents DEF Holder, Up, Sweep, Goto, TypeOK, Steps
<1>3. Alone' BY Contents DEF Alone, Empty, Past, Holder, Up, Sweep, Goto, TypeOK, Steps
<1>4. Phases'
  <2> SUFFICES ASSUME NEW k \in Launches, NEW u \in Targets PROVE InPhase(k, u)'
    BY DEF Phases
  <2>1. InPhase(k, u) BY DEF Phases
  <2> QED BY <2>1, Contents DEF InPhase, Prepared, Says, Alone, Empty, Past, Holder, Up, Sweep, Goto, TypeOK, Steps
<1>5. Copies'
  <2> SUFFICES ASSUME NEW k \in Launches, NEW u \in Targets, NEW m \in Launches
               PROVE  HasAll(k, u, m)'
    BY DEF Copies
  <2>1. HasAll(k, u, m) BY DEF Copies
  <2> QED BY <2>1, Contents DEF HasAll, Made, Alone, Empty, Past, Holder, Up, Sweep, Goto, TypeOK, Steps, Phases, InPhase
<1>6. NotesAreKept' BY Contents DEF NotesAreKept, Sweep, Goto, TypeOK
<1>7. Failures' BY DEF Sweep, host, Work
<1> QED BY <1>1, <1>2, <1>3, <1>4, <1>5, <1>6, <1>7

\* What is staged is ready to be handed over.
LEMMA ReadyStep ==
    ASSUME IInv, NEW l \in Launches, Ready(l)
    PROVE  IInv'
<1> USE DEF IInv, given, history, Failures
<1>1. TypeOK' BY DEF TypeOK, Ready, Goto, Steps
<1>2. Holder' BY DEF Holder, Up, Ready, Goto, TypeOK, Steps
<1>3. Alone' BY DEF Alone, Empty, Past, Holder, Up, Ready, Goto, TypeOK, Steps
<1>4. Phases'
  <2> SUFFICES ASSUME NEW k \in Launches, NEW u \in Targets PROVE InPhase(k, u)'
    BY DEF Phases
  <2>1. InPhase(k, u) BY DEF Phases
  <2> QED BY <2>1 DEF InPhase, Prepared, Says, Alone, Empty, Past, Holder, Up, Ready, Goto, TypeOK, Steps
<1>5. Copies'
  <2> SUFFICES ASSUME NEW k \in Launches, NEW u \in Targets, NEW m \in Launches
               PROVE  HasAll(k, u, m)'
    BY DEF Copies
  <2>1. HasAll(k, u, m) BY DEF Copies
  <2> QED BY <2>1 DEF HasAll, Made, Alone, Empty, Past, Holder, Up, Ready, Goto, TypeOK, Steps
<1>6. NotesAreKept' BY DEF NotesAreKept, Ready, Goto, TypeOK
<1>7. Failures' BY DEF Ready, host, Work
<1> QED BY <1>1, <1>2, <1>3, <1>4, <1>5, <1>6, <1>7

\* No container of the sandbox is up.
LEMMA RmOldStep ==
    ASSUME IInv, NEW l \in Launches, RmOld(l)
    PROVE  IInv'
<1> USE DEF IInv, given, history, Failures
<1>1. TypeOK' BY DEF TypeOK, RmOld, Goto, Steps
<1>2. Holder' BY DEF Holder, Up, RmOld, Goto, TypeOK, Steps
<1>3. Alone' BY DEF Alone, Empty, Past, Holder, Up, RmOld, Goto, TypeOK, Steps
<1>4. Phases'
  <2> SUFFICES ASSUME NEW k \in Launches, NEW u \in Targets PROVE InPhase(k, u)'
    BY DEF Phases
  <2>1. InPhase(k, u) BY DEF Phases
  <2> QED BY <2>1 DEF InPhase, Prepared, Says, Alone, Empty, Past, Holder, Up, RmOld, Goto, TypeOK, Steps
<1>5. Copies'
  <2> SUFFICES ASSUME NEW k \in Launches, NEW u \in Targets, NEW m \in Launches
               PROVE  HasAll(k, u, m)'
    BY DEF Copies
  <2>1. HasAll(k, u, m) BY DEF Copies
  <2> QED BY <2>1 DEF HasAll, Made, Alone, Empty, Past, Holder, Up, RmOld, Goto, TypeOK, Steps
<1>6. NotesAreKept' BY DEF NotesAreKept, RmOld, Goto, TypeOK
<1>7. Failures' BY DEF RmOld, host, Work
<1> QED BY <1>1, <1>2, <1>3, <1>4, <1>5, <1>6, <1>7

\* The one container is the holder's.
LEMMA RunStep ==
    ASSUME IInv, NEW l \in Launches, Run(l)
    PROVE  IInv'
<1> USE DEF IInv, given, history, Failures
<1>1. TypeOK' BY DEF TypeOK, Run, Goto, Steps
<1>2. Holder' BY DEF Holder, Up, Run, Goto, TypeOK, Steps
<1>3. Alone' BY DEF Alone, Empty, Past, Holder, Up, Run, Goto, TypeOK, Steps
<1>4. Phases'
  <2> SUFFICES ASSUME NEW k \in Launches, NEW u \in Targets PROVE InPhase(k, u)'
    BY DEF Phases
  <2>1. InPhase(k, u) BY DEF Phases
  <2> QED BY <2>1 DEF InPhase, Prepared, Says, Alone, Empty, Past, Holder, Up, Run, Goto, TypeOK, Steps
<1>5. Copies'
  <2> SUFFICES ASSUME NEW k \in Launches, NEW u \in Targets, NEW m \in Launches
               PROVE  HasAll(k, u, m)'
    BY DEF Copies
  <2>1. HasAll(k, u, m) BY DEF Copies
  <2> QED BY <2>1 DEF HasAll, Made, Alone, Empty, Past, Holder, Up, Run, Goto, TypeOK, Steps
<1>6. NotesAreKept' BY DEF NotesAreKept, Run, Goto, TypeOK
<1>7. Failures' BY DEF Run, host, Work
<1> QED BY <1>1, <1>2, <1>3, <1>4, <1>5, <1>6, <1>7

\* An orderly end takes the container with it.
LEMMA EndStep ==
    ASSUME IInv, NEW l \in Launches, End(l)
    PROVE  IInv'
<1> USE DEF IInv, given, history, Failures
<1>1. TypeOK' BY DEF TypeOK, End, Goto, Steps
<1>2. Holder' BY DEF Holder, Up, End, Goto, TypeOK, Steps
<1>3. Alone' BY DEF Alone, Empty, Past, Holder, Up, End, Goto, TypeOK, Steps
<1>4. Phases'
  <2> SUFFICES ASSUME NEW k \in Launches, NEW u \in Targets PROVE InPhase(k, u)'
    BY DEF Phases
  <2>1. InPhase(k, u) BY DEF Phases
  <2> QED BY <2>1 DEF InPhase, Prepared, Says, Alone, Empty, Past, Holder, Up, End, Goto, TypeOK, Steps
<1>5. Copies'
  <2> SUFFICES ASSUME NEW k \in Launches, NEW u \in Targets, NEW m \in Launches
               PROVE  HasAll(k, u, m)'
    BY DEF Copies
  <2>1. HasAll(k, u, m) BY DEF Copies
  <2> QED BY <2>1 DEF HasAll, Made, Alone, Empty, Past, Holder, Up, End, Goto, TypeOK, Steps
<1>6. NotesAreKept' BY DEF NotesAreKept, End, Goto, TypeOK
<1>7. Failures' BY DEF End, host, Work
<1> QED BY <1>1, <1>2, <1>3, <1>4, <1>5, <1>6, <1>7

\* A launch killed leaves its container to itself.
LEMMA KillStep ==
    ASSUME IInv, NEW l \in Launches, Kill(l)
    PROVE  IInv'
<1> USE DEF IInv, given, history, Failures
<1>1. TypeOK' BY DEF TypeOK, Kill, Goto, Steps
<1>2. Holder' BY DEF Holder, Up, Kill, Goto, TypeOK, Steps
<1>3. Alone' BY DEF Alone, Empty, Past, Holder, Up, Kill, Goto, TypeOK, Steps
<1>4. Phases'
  <2> SUFFICES ASSUME NEW k \in Launches, NEW u \in Targets PROVE InPhase(k, u)'
    BY DEF Phases
  <2>1. InPhase(k, u) BY DEF Phases
  <2> QED BY <2>1 DEF InPhase, Prepared, Says, Alone, Empty, Past, Holder, Up, Kill, Goto, TypeOK, Steps
<1>5. Copies'
  <2> SUFFICES ASSUME NEW k \in Launches, NEW u \in Targets, NEW m \in Launches
               PROVE  HasAll(k, u, m)'
    BY DEF Copies
  <2>1. HasAll(k, u, m) BY DEF Copies
  <2> QED BY <2>1 DEF HasAll, Made, Alone, Empty, Past, Holder, Up, Kill, Goto, TypeOK, Steps
<1>6. NotesAreKept' BY DEF NotesAreKept, Kill, Goto, TypeOK
<1>7. Failures' BY DEF Kill, host, Work
<1> QED BY <1>1, <1>2, <1>3, <1>4, <1>5, <1>6, <1>7

\* A restarted container is to be prepared again.
LEMMA RestartStep ==
    ASSUME IInv, NEW l \in Launches, Restart(l)
    PROVE  IInv'
<1> USE DEF IInv, given, history, Failures
<1>1. TypeOK' BY DEF TypeOK, Restart, host, Steps
<1>2. Holder' BY DEF Holder, Up, Restart, host, TypeOK, Steps
<1>3. Alone' BY DEF Alone, Empty, Past, Holder, Up, Restart, host, TypeOK, Steps
<1>4. Phases'
  <2> SUFFICES ASSUME NEW k \in Launches, NEW u \in Targets PROVE InPhase(k, u)'
    BY DEF Phases
  <2>1. InPhase(k, u) BY DEF Phases
  <2> QED BY <2>1 DEF InPhase, Prepared, Says, Alone, Empty, Past, Holder, Up, Restart, host, TypeOK, Steps
<1>5. Copies'
  <2> SUFFICES ASSUME NEW k \in Launches, NEW u \in Targets, NEW m \in Launches
               PROVE  HasAll(k, u, m)'
    BY DEF Copies
  <2>1. HasAll(k, u, m) BY DEF Copies
  <2> QED BY <2>1 DEF HasAll, Made, Alone, Empty, Past, Holder, Up, Restart, host, TypeOK, Steps
<1>6. NotesAreKept' BY DEF NotesAreKept, Restart, host, TypeOK
<1>7. Failures' BY DEF Restart, host, Work
<1> QED BY <1>1, <1>2, <1>3, <1>4, <1>5, <1>6, <1>7

\* A container that ends needs nothing.
LEMMA ExitStep ==
    ASSUME IInv, NEW l \in Launches, Exit(l)
    PROVE  IInv'
<1> USE DEF IInv, given, history, Failures
<1>1. TypeOK' BY DEF TypeOK, Exit, host, Steps
<1>2. Holder' BY DEF Holder, Up, Exit, host, TypeOK, Steps
<1>3. Alone' BY DEF Alone, Empty, Past, Holder, Up, Exit, host, TypeOK, Steps
<1>4. Phases'
  <2> SUFFICES ASSUME NEW k \in Launches, NEW u \in Targets PROVE InPhase(k, u)'
    BY DEF Phases
  <2>1. InPhase(k, u) BY DEF Phases
  <2> QED BY <2>1 DEF InPhase, Prepared, Says, Alone, Empty, Past, Holder, Up, Exit, host, TypeOK, Steps
<1>5. Copies'
  <2> SUFFICES ASSUME NEW k \in Launches, NEW u \in Targets, NEW m \in Launches
               PROVE  HasAll(k, u, m)'
    BY DEF Copies
  <2>1. HasAll(k, u, m) BY DEF Copies
  <2> QED BY <2>1 DEF HasAll, Made, Alone, Empty, Past, Holder, Up, Exit, host, TypeOK, Steps
<1>6. NotesAreKept' BY DEF NotesAreKept, Exit, host, TypeOK
<1>7. Failures' BY DEF Exit, host, Work
<1> QED BY <1>1, <1>2, <1>3, <1>4, <1>5, <1>6, <1>7

\* The agent starts with nothing left staged.
LEMMA StartStep ==
    ASSUME IInv, NEW l \in Launches, Start(l)
    PROVE  IInv'
<1> USE DEF IInv, given, history, Failures
<1>1. TypeOK' BY DEF TypeOK, Start, Staged, host, Steps
<1>2. Holder' BY DEF Holder, Up, Start, Staged, host, TypeOK, Steps
<1>3. Alone' BY DEF Alone, Empty, Past, Holder, Up, Start, Staged, host, TypeOK, Steps
<1>4. Phases'
  <2> SUFFICES ASSUME NEW k \in Launches, NEW u \in Targets PROVE InPhase(k, u)'
    BY DEF Phases
  <2>1. InPhase(k, u) BY DEF Phases
  <2> QED BY <2>1 DEF InPhase, Prepared, Says, Alone, Empty, Past, Holder, Up, Start, Staged, host, TypeOK, Steps
<1>5. Copies'
  <2> SUFFICES ASSUME NEW k \in Launches, NEW u \in Targets, NEW m \in Launches
               PROVE  HasAll(k, u, m)'
    BY DEF Copies
  <2>1. HasAll(k, u, m) BY DEF Copies
  <2> QED BY <2>1 DEF HasAll, Made, Alone, Empty, Past, Holder, Up, Start, Staged, host, TypeOK, Steps
<1>6. NotesAreKept' BY DEF NotesAreKept, Start, Staged, host, TypeOK
<1>7. Failures' BY DEF Start, host, Work
<1> QED BY <1>1, <1>2, <1>3, <1>4, <1>5, <1>6, <1>7

\* The copy has what the target says, so all that was written to it.
LEMMA BeginStep ==
    ASSUME IInv, NEW l \in Launches, NEW t \in Targets, Begin(l, t)
    PROVE  IInv'
<1> USE DEF IInv, given, history, Failures
<1> DEFINE c == IF t \in Dirs THEN Absent ELSE file[t]
<1>p. c \in Content /\ Put(l, t, c) BY Contents DEF Begin, TypeOK
<1>s. /\ staged' \in [Launches -> [Targets -> Content]]
      /\ staged'[l][t] = c
      /\ \A k \in Launches, u \in Targets :
            (k # l \/ u # t) => staged'[k][u] = staged[k][u]
  BY <1>p, PutEffect DEF TypeOK
<1>1. TypeOK' BY <1>p, <1>s DEF TypeOK, Begin, Copying, Work, Steps
<1>2. Holder' BY <1>p, <1>s DEF Holder, Up, Begin, Copying, Work, TypeOK, Steps
<1>3. Alone' BY <1>p, <1>s DEF Alone, Empty, Past, Holder, Up, Begin, Copying, Work, TypeOK, Steps
<1>4. Phases'
  <2> SUFFICES ASSUME NEW k \in Launches, NEW u \in Targets PROVE InPhase(k, u)'
    BY DEF Phases
  <2>1. InPhase(k, u) BY DEF Phases
  <2> QED BY <2>1, <1>p, <1>s DEF InPhase, Prepared, Says, Alone, Empty, Past, Holder, Up, Begin, Copying, Work, TypeOK, Steps
<1>5. Copies'
  <2> SUFFICES ASSUME NEW k \in Launches, NEW u \in Targets, NEW m \in Launches
               PROVE  HasAll(k, u, m)'
    BY DEF Copies
  <2>1. HasAll(k, u, m) BY DEF Copies
  <2>2. (<<m, u>> \in wrote /\ u \in Files) => (m \in overrun \/ u \in failed \/ m \in file[u].notes)
    BY DEF NotesAreKept
  <2> QED BY <2>1, <2>2, <1>p, <1>s DEF HasAll, Made, Alone, Empty, Past, Holder, Up, Begin, Copying, Work, TypeOK, Steps
<1>6. NotesAreKept' BY <1>p, <1>s DEF NotesAreKept, Begin, Copying, Work, TypeOK
<1>7. Failures' BY DEF Begin, host, Work
<1> QED BY <1>1, <1>2, <1>3, <1>4, <1>5, <1>6, <1>7

\* Without a copy the target itself is worked on.
LEMMA BeginFailsStep ==
    ASSUME IInv, NEW l \in Launches, NEW t \in Targets, BeginFails(l, t)
    PROVE  IInv'
<1> USE DEF IInv, given, history, Failures
<1>p. PICK c \in {Absent, Torn} : Put(l, t, c) BY DEF BeginFails
<1>s. /\ staged' \in [Launches -> [Targets -> Content]]
      /\ staged'[l][t] = c
      /\ \A k \in Launches, u \in Targets :
            (k # l \/ u # t) => staged'[k][u] = staged[k][u]
  BY <1>p, PutEffect, Contents DEF TypeOK
<1>1. TypeOK' BY <1>p, <1>s DEF TypeOK, BeginFails, Copying, Work, Steps
<1>2. Holder' BY <1>p, <1>s DEF Holder, Up, BeginFails, Copying, Work, TypeOK, Steps
<1>3. Alone' BY <1>p, <1>s DEF Alone, Empty, Past, Holder, Up, BeginFails, Copying, Work, TypeOK, Steps
<1>4. Phases'
  <2> SUFFICES ASSUME NEW k \in Launches, NEW u \in Targets PROVE InPhase(k, u)'
    BY <1>p, <1>s DEF Phases
  <2>1. InPhase(k, u) BY <1>p, <1>s DEF Phases
  <2> QED BY <2>1, <1>p, <1>s DEF InPhase, Prepared, Says, Alone, Empty, Past, Holder, Up, BeginFails, Copying, Work, TypeOK, Steps
<1>5. Copies'
  <2> SUFFICES ASSUME NEW k \in Launches, NEW u \in Targets, NEW m \in Launches
               PROVE  HasAll(k, u, m)'
    BY <1>p, <1>s DEF Copies
  <2>1. HasAll(k, u, m) BY <1>p, <1>s DEF Copies
  <2> QED BY <2>1, <1>p, <1>s DEF HasAll, Made, Alone, Empty, Past, Holder, Up, BeginFails, Copying, Work, TypeOK, Steps
<1>6. NotesAreKept' BY <1>p, <1>s DEF NotesAreKept, BeginFails, Copying, Work, TypeOK
<1>7. Failures' BY <1>p, <1>s DEF BeginFails, host, Work
<1> QED BY <1>1, <1>2, <1>3, <1>4, <1>5, <1>6, <1>7

\* A copy that goes is no loss: the target says the same.
LEMMA CommitStep ==
    ASSUME IInv, NEW l \in Launches, NEW t \in Targets, Commit(l, t)
    PROVE  IInv'
<1> USE DEF IInv, given, history, Failures
<1> DEFINE c == IF staged[l][t] = file[t] THEN Absent ELSE staged[l][t]
<1>p. c \in Content /\ Put(l, t, c) BY Contents DEF Commit, TypeOK
<1>s. /\ staged' \in [Launches -> [Targets -> Content]]
      /\ staged'[l][t] = c
      /\ \A k \in Launches, u \in Targets :
            (k # l \/ u # t) => staged'[k][u] = staged[k][u]
  BY <1>p, PutEffect DEF TypeOK
<1>1. TypeOK' BY <1>p, <1>s DEF TypeOK, Commit, Work, Steps
<1>2. Holder' BY <1>p, <1>s DEF Holder, Up, Commit, Work, TypeOK, Steps
<1>3. Alone' BY <1>p, <1>s DEF Alone, Empty, Past, Holder, Up, Commit, Work, TypeOK, Steps
<1>4. Phases'
  <2> SUFFICES ASSUME NEW k \in Launches, NEW u \in Targets PROVE InPhase(k, u)'
    BY DEF Phases
  <2>1. InPhase(k, u) BY DEF Phases
  <2> QED BY <2>1, <1>p, <1>s DEF InPhase, Prepared, Says, Alone, Empty, Past, Holder, Up, Commit, Work, TypeOK, Steps
<1>5. Copies'
  <2> SUFFICES ASSUME NEW k \in Launches, NEW u \in Targets, NEW m \in Launches
               PROVE  HasAll(k, u, m)'
    BY DEF Copies
  <2>1. HasAll(k, u, m) BY DEF Copies
  <2> QED BY <2>1, <1>p, <1>s DEF HasAll, Made, Alone, Empty, Past, Holder, Up, Commit, Work, TypeOK, Steps
<1>6. NotesAreKept' BY <1>p, <1>s DEF NotesAreKept, Commit, Work, TypeOK
<1>7. Failures' BY DEF Commit, host, Work
<1> QED BY <1>1, <1>2, <1>3, <1>4, <1>5, <1>6, <1>7

\* An agent adds to a file once its own are in place.
LEMMA AgentWritesStep ==
    ASSUME IInv, NEW l \in Launches, NEW t \in Targets, AgentWrites(l, t)
    PROVE  IInv'
<1> USE DEF IInv, given, history, Failures
<1>1. TypeOK' BY Contents DEF TypeOK, AgentWrites, host, Steps
<1>2. Holder' BY Contents DEF Holder, Up, AgentWrites, host, TypeOK, Steps
<1>3. Alone' BY Contents DEF Alone, Empty, Past, Holder, Up, AgentWrites, host, TypeOK, Steps
<1>4. Phases'
  <2> SUFFICES ASSUME NEW k \in Launches, NEW u \in Targets PROVE InPhase(k, u)'
    BY DEF Phases
  <2>1. InPhase(k, u) BY DEF Phases
  <2>2. file'[u].keys = file[u].keys
    BY DEF AgentWrites, TypeOK
  <2>3. file[u] = Torn => file'[u] = Torn
    <3>1. file[t] # Torn BY DEF AgentWrites, Whole, Torn, Unreadable
    <3> QED BY <3>1 DEF AgentWrites, TypeOK
  <2>4. UNCHANGED <<wants, equipped, pc, lock, phase, live, staged, ctr, altered>>
    BY DEF AgentWrites, host
  <2> QED BY <2>1, <2>2, <2>3, <2>4 DEF InPhase, Prepared, Says, Past, Up
<1>5. Copies'
  <2> SUFFICES ASSUME NEW k \in Launches, NEW u \in Targets, NEW m \in Launches
               PROVE  HasAll(k, u, m)'
    BY DEF Copies
  <2>1. HasAll(k, u, m) BY DEF Copies
  <2> QED BY <2>1, Contents DEF HasAll, Made, Alone, Empty, Past, Holder, Up, AgentWrites, host, TypeOK, Steps
<1>6. NotesAreKept' BY Contents DEF NotesAreKept, AgentWrites, host, TypeOK
<1>7. Failures' BY DEF AgentWrites, host, Work
<1> QED BY <1>1, <1>2, <1>3, <1>4, <1>5, <1>6, <1>7

\* An agent changes the host's part of a file.
LEMMA AgentAltersStep ==
    ASSUME IInv, NEW l \in Launches, NEW t \in Targets, AgentAlters(l, t)
    PROVE  IInv'
<1> USE DEF IInv, given, history, Failures
<1>1. TypeOK' BY Contents DEF TypeOK, AgentAlters, host, Steps
<1>2. Holder' BY Contents DEF Holder, Up, AgentAlters, host, TypeOK, Steps
<1>3. Alone' BY Contents DEF Alone, Empty, Past, Holder, Up, AgentAlters, host, TypeOK, Steps
<1>4. Phases'
  <2> SUFFICES ASSUME NEW k \in Launches, NEW u \in Targets PROVE InPhase(k, u)'
    BY DEF Phases
  <2>1. InPhase(k, u) BY DEF Phases
  <2> QED BY <2>1, Contents DEF InPhase, Prepared, Says, Alone, Empty, Past, Holder, Up, AgentAlters, host, TypeOK, Steps
<1>5. Copies'
  <2> SUFFICES ASSUME NEW k \in Launches, NEW u \in Targets, NEW m \in Launches
               PROVE  HasAll(k, u, m)'
    BY DEF Copies
  <2>1. HasAll(k, u, m) BY DEF Copies
  <2> QED BY <2>1, Contents DEF HasAll, Made, Alone, Empty, Past, Holder, Up, AgentAlters, host, TypeOK, Steps
<1>6. NotesAreKept' BY Contents DEF NotesAreKept, AgentAlters, host, TypeOK
<1>7. Failures' BY DEF AgentAlters, host, Work
<1> QED BY <1>1, <1>2, <1>3, <1>4, <1>5, <1>6, <1>7

\* An agent leaves a file that nobody can read.
LEMMA AgentSpoilsStep ==
    ASSUME IInv, NEW l \in Launches, NEW t \in Targets, AgentSpoils(l, t)
    PROVE  IInv'
<1> USE DEF IInv, given, history, Failures
<1>1. TypeOK' BY Contents DEF TypeOK, AgentSpoils, host, Steps
<1>2. Holder' BY Contents DEF Holder, Up, AgentSpoils, host, TypeOK, Steps
<1>3. Alone' BY Contents DEF Alone, Empty, Past, Holder, Up, AgentSpoils, host, TypeOK, Steps
<1>4. Phases'
  <2> SUFFICES ASSUME NEW k \in Launches, NEW u \in Targets PROVE InPhase(k, u)'
    BY DEF Phases
  <2>1. InPhase(k, u) BY DEF Phases
  <2> QED BY <2>1, Contents DEF InPhase, Prepared, Says, Alone, Empty, Past, Holder, Up, AgentSpoils, host, TypeOK, Steps
<1>5. Copies'
  <2> SUFFICES ASSUME NEW k \in Launches, NEW u \in Targets, NEW m \in Launches
               PROVE  HasAll(k, u, m)'
    BY DEF Copies
  <2>1. HasAll(k, u, m) BY DEF Copies
  <2> QED BY <2>1, Contents DEF HasAll, Made, Alone, Empty, Past, Holder, Up, AgentSpoils, host, TypeOK, Steps
<1>6. NotesAreKept' BY Contents DEF NotesAreKept, AgentSpoils, host, TypeOK
<1>7. Failures' BY DEF AgentSpoils, host, Work
<1> QED BY <1>1, <1>2, <1>3, <1>4, <1>5, <1>6, <1>7

\* Only a directory of the host's content is cleared.
LEMMA ClearDirStep ==
    ASSUME IInv, NEW l \in Launches, NEW t \in Targets, ClearDir(l, t)
    PROVE  IInv'
<1> USE DEF IInv, given, history, Failures
<1>1. TypeOK' BY Contents DEF TypeOK, ClearDir, host, Steps
<1>2. Holder' BY Contents DEF Holder, Up, ClearDir, host, TypeOK, Steps
<1>3. Alone' BY Contents DEF Alone, Empty, Past, Holder, Up, ClearDir, host, TypeOK, Steps
<1>4. Phases'
  <2> SUFFICES ASSUME NEW k \in Launches, NEW u \in Targets PROVE InPhase(k, u)'
    BY DEF Phases
  <2>1. InPhase(k, u) BY DEF Phases
  <2> QED BY <2>1, Contents DEF InPhase, Prepared, Says, Alone, Empty, Past, Holder, Up, ClearDir, host, TypeOK, Steps
<1>5. Copies'
  <2> SUFFICES ASSUME NEW k \in Launches, NEW u \in Targets, NEW m \in Launches
               PROVE  HasAll(k, u, m)'
    BY DEF Copies
  <2>1. HasAll(k, u, m) BY DEF Copies
  <2> QED BY <2>1, Contents DEF HasAll, Made, Alone, Empty, Past, Holder, Up, ClearDir, host, TypeOK, Steps
<1>6. NotesAreKept' BY Contents DEF NotesAreKept, ClearDir, host, TypeOK
<1>7. Failures' BY DEF ClearDir, host, Work
<1> QED BY <1>1, <1>2, <1>3, <1>4, <1>5, <1>6, <1>7

\* A target that could not be copied is written where it is ...
LEMMA WriteLiveStep ==
    ASSUME IInv, NEW l \in Launches, NEW t \in Targets, Write(l, t), t \in live
    PROVE  IInv'
<1> USE DEF IInv, given, history, Failures
<1>q. PICK read \in {file[t], Torn} : file' = [file EXCEPT ![t] = Set(t, read, wants[l])]
  BY DEF Write
<1> DEFINE c == Set(t, read, wants[l])
<1>p. c \in Content /\ c # Absent /\ ((t \notin Files \ equipped) => c.keys = wants[l])
  BY <1>q, Contents, Setting DEF TypeOK
<1>s. /\ staged' = staged
      /\ file' \in [Targets -> Content]
      /\ file'[t] = c
      /\ \A u \in Targets : u # t => file'[u] = file[u]
  BY <1>q, <1>p, FileEffect DEF Write, TypeOK
<1>w. Work(l, t, "begun", "written") /\ UNCHANGED <<live, overrun, failed, altered>>
  BY DEF Write
<1> HIDE DEF c
<1>1. TypeOK' BY <1>p, <1>s, <1>w DEF Work, TypeOK, Steps
<1>2. Holder' BY <1>p, <1>s, <1>w DEF Work, Holder, Up, TypeOK, Steps
<1>3. Alone' BY <1>p, <1>s, <1>w DEF Work, Alone, Empty, Past, Holder, Up, TypeOK, Steps
<1>4. Phases'
  <2> SUFFICES ASSUME NEW k \in Launches, NEW u \in Targets PROVE InPhase(k, u)'
    BY DEF Phases
  <2>1. InPhase(k, u) BY DEF Phases
  <2> QED BY <2>1, <1>p, <1>s, <1>w DEF Work, InPhase, Prepared, Says, Alone, Empty, Past, Holder, Up, TypeOK, Steps
<1>5. Copies'
  <2> SUFFICES ASSUME NEW k \in Launches, NEW u \in Targets, NEW m \in Launches
               PROVE  HasAll(k, u, m)'
    BY DEF Copies
  <2>1. HasAll(k, u, m) BY DEF Copies
  <2> QED BY <2>1, <1>p, <1>s, <1>w DEF Work, HasAll, Made, Alone, Empty, Past, Holder, Up, TypeOK, Steps
<1>6. NotesAreKept'
  <2> SUFFICES ASSUME NEW n \in wrote, n[2] \notin failed, n[1] \notin overrun
               PROVE  n[1] \in file'[n[2]].notes
    BY <1>w DEF NotesAreKept, Work
  <2>1. n[2] \in Targets /\ n[2] # t BY DEF TypeOK, Targets
  <2> QED BY <2>1, <1>s DEF NotesAreKept
<1>7. Failures' BY <1>w
<1> QED BY <1>1, <1>2, <1>3, <1>4, <1>5, <1>6, <1>7

\* ... and any other in its copy.
LEMMA WriteCopyStep ==
    ASSUME IInv, NEW l \in Launches, NEW t \in Targets, Write(l, t), t \notin live
    PROVE  IInv'
<1> USE DEF IInv, given, history, Failures
<1> DEFINE c == Set(t, staged[l][t], wants[l])
<1>q. staged[l][t] \in Content /\ wants[l] \in Values BY DEF TypeOK
<1>p. /\ c \in Content /\ c # Absent /\ c.notes = staged[l][t].notes
      /\ (t \notin Files \ equipped) => c.keys = wants[l]
  BY <1>q, Setting
<1>s. /\ file' = file
      /\ staged' \in [Launches -> [Targets -> Content]]
      /\ staged'[l][t] = c
      /\ \A k \in Launches, u \in Targets :
            (k # l \/ u # t) => staged'[k][u] = staged[k][u]
  BY <1>p, PutEffect DEF Write, TypeOK
<1>w. Work(l, t, "begun", "written") /\ UNCHANGED <<live, overrun, failed, altered>>
  BY DEF Write
<1> HIDE DEF c
<1>1. TypeOK' BY <1>p, <1>s, <1>w DEF Work, TypeOK, Steps
<1>2. Holder' BY <1>p, <1>s, <1>w DEF Work, Holder, Up, TypeOK, Steps
<1>3. Alone' BY <1>p, <1>s, <1>w DEF Work, Alone, Empty, Past, Holder, Up, TypeOK, Steps
<1>4. Phases'
  <2> SUFFICES ASSUME NEW k \in Launches, NEW u \in Targets PROVE InPhase(k, u)'
    BY DEF Phases
  <2>1. InPhase(k, u) BY DEF Phases
  <2> QED BY <2>1, <1>p, <1>s, <1>w DEF Work, InPhase, Prepared, Says, Alone, Empty, Past, Holder, Up, TypeOK, Steps
<1>5. Copies'
  <2> SUFFICES ASSUME NEW k \in Launches, NEW u \in Targets, NEW m \in Launches
               PROVE  HasAll(k, u, m)'
    BY DEF Copies
  <2>1. HasAll(k, u, m) BY DEF Copies
  <2> QED BY <2>1, <1>p, <1>s, <1>w DEF Work, HasAll, Made, Alone, Empty, Past, Holder, Up, TypeOK, Steps
<1>6. NotesAreKept' BY <1>p, <1>s, <1>w DEF Work, NotesAreKept, TypeOK
<1>7. Failures' BY <1>w
<1> QED BY <1>1, <1>2, <1>3, <1>4, <1>5, <1>6, <1>7

\* _sandy_launch_apply_staged: what was staged is the target's.
LEMMA ApplyOnHostStep ==
    ASSUME IInv, NEW l \in Launches, ApplyOnHost(l)
    PROVE  IInv'
<1> USE DEF IInv, given, history, Failures
<1>p. Absent \in Content BY Contents
<1>s. /\ staged' \in [Launches -> [Targets -> Content]]
      /\ file' \in [Targets -> Content]
      /\ \A u \in Targets :
            /\ staged'[l][u] = Absent
            /\ file'[u] = IF staged[l][u] # Absent THEN staged[l][u] ELSE file[u]
            /\ \A k \in Launches \ {l} : staged'[k][u] = staged[k][u]
  BY <1>p DEF ApplyOnHost, Staged, TypeOK
<1>w. /\ pc[l] = "handOver"
      /\ pc' = [pc EXCEPT ![l] = "run"]
      /\ altered' = altered \ Staged(l)
      /\ UNCHANGED <<given, lock, phase, live, ctr, used, wrote, overrun, failed>>
  BY DEF ApplyOnHost, Goto
<1>1. TypeOK' BY <1>p, <1>s, <1>w DEF TypeOK, Steps
<1>2. Holder' BY <1>p, <1>s, <1>w DEF Holder, Up, TypeOK, Steps
<1>3. Alone' BY <1>p, <1>s, <1>w DEF Alone, Empty, Past, Holder, Up, TypeOK, Steps
<1>4. Phases'
  <2> SUFFICES ASSUME NEW k \in Launches, NEW u \in Targets PROVE InPhase(k, u)'
    BY DEF Phases
  <2>1. InPhase(k, u) BY DEF Phases
  <2>2. lock = l BY <1>w DEF Holder
  <2>3. CASE k # l
    BY <2>1, <2>2, <2>3, <1>w DEF InPhase, Holder
  <2>4. CASE k = l
    <3>1. Prepared(l, u) BY <2>1, <2>2, <2>4, <1>w DEF InPhase, Past
    <3>2. staged[l][u] = Absent => (u \in altered' <=> u \in altered)
      BY <1>w DEF Staged
    <3>3. Prepared(l, u)' BY <3>1, <3>2, <1>s, <1>w DEF Prepared, Says
    <3>4. pc'[l] = "run" BY <1>w DEF TypeOK
    <3> QED BY <2>4, <3>3, <3>4 DEF InPhase
  <2> QED BY <2>3, <2>4
<1>5. Copies'
  <2> SUFFICES ASSUME NEW k \in Launches, NEW u \in Targets, NEW m \in Launches
               PROVE  HasAll(k, u, m)'
    BY DEF Copies
  <2>1. HasAll(k, u, m) BY DEF Copies
  <2> QED BY <2>1, <1>p, <1>s, <1>w DEF HasAll, Made, Alone, Empty, Past, Holder, Up, TypeOK, Steps
<1>6. NotesAreKept'
  <2> SUFFICES ASSUME NEW n \in wrote, n[2] \notin failed, n[1] \notin overrun
               PROVE  n[1] \in file'[n[2]].notes
    BY <1>w DEF NotesAreKept
  <2>1. n[1] \in Launches /\ n[2] \in Files /\ n[2] \in Targets /\ n = <<n[1], n[2]>>
    BY DEF TypeOK, Targets
  <2>2. HasAll(l, n[2], n[1]) BY <2>1 DEF Copies
  <2>3. n[1] \in file[n[2]].notes BY DEF NotesAreKept
  <2>4. staged[l][n[2]] = Absent \/ n[1] \in staged[l][n[2]].notes
    BY <2>1, <2>2 DEF HasAll, Made
  <2> QED BY <2>1, <2>3, <2>4, <1>p, <1>s, <1>w
<1>7. Failures' BY <1>w
<1> QED BY <1>1, <1>2, <1>3, <1>4, <1>5, <1>6, <1>7

\* The container moves a file of its own launch onto its target.
LEMMA ApplyStep ==
    ASSUME IInv, NEW l \in Launches, NEW t \in Targets, Apply(l, l, t)
    PROVE  IInv'
<1> USE DEF IInv, given, history, Failures
<1> DEFINE c == staged[l][t]
<1>p. Absent \in Content /\ Absent.notes = {} /\ c \in Content /\ c # Absent
  BY Contents DEF Apply, TypeOK
<1>s. /\ staged' \in [Launches -> [Targets -> Content]]
      /\ staged'[l][t] = Absent
      /\ \A k \in Launches, u \in Targets :
            (k # l \/ u # t) => staged'[k][u] = staged[k][u]
  BY <1>p, PutEffect DEF Apply, TypeOK
<1>f. /\ file' \in [Targets -> Content]
      /\ file'[t] = c
      /\ \A u \in Targets : u # t => file'[u] = file[u]
  BY <1>p, FileEffect DEF Apply, TypeOK
<1>w. /\ ctr[l] = "setup" /\ used' = used \cup {t} /\ altered' = altered \ {t}
      /\ UNCHANGED <<given, pc, lock, phase, live, ctr, wrote, overrun, failed>>
  BY DEF Apply, host
<1>1. TypeOK' BY <1>p, <1>s, <1>f, <1>w DEF TypeOK, Steps
<1>2. Holder' BY <1>p, <1>s, <1>f, <1>w DEF Holder, Up, TypeOK, Steps
<1>3. Alone' BY <1>p, <1>s, <1>f, <1>w DEF Alone, Empty, Past, Holder, Up, TypeOK, Steps
<1>4. Phases'
  <2> SUFFICES ASSUME NEW k \in Launches, NEW u \in Targets PROVE InPhase(k, u)'
    BY DEF Phases
  <2>1. InPhase(k, u) BY DEF Phases
  <2>2. CASE u # t
    BY <2>1, <2>2, <1>s, <1>f, <1>w DEF InPhase, Prepared, Says, Past, Up
  <2>3. CASE u = t /\ k = l
    BY <2>1, <2>3, <1>p, <1>s, <1>f, <1>w DEF InPhase, Prepared, Says, Past, Holder, Up
  <2>4. CASE u = t /\ k # l
    <3>1. ~Empty(l) BY <1>p DEF Empty
    <3>2. ~(lock = k /\ (pc[k] = "stage" \/ Past(k))) BY <2>4, <3>1 DEF Alone
    <3>3. pc[k] # "stage" BY <3>2 DEF Holder
    <3> QED BY <2>1, <2>4, <3>2, <3>3, <1>w DEF InPhase, Past, Up
  <2> QED BY <2>2, <2>3, <2>4
<1>5. Copies'
  <2> SUFFICES ASSUME NEW k \in Launches, NEW u \in Targets, NEW m \in Launches
               PROVE  HasAll(k, u, m)'
    BY DEF Copies
  <2>1. HasAll(k, u, m) BY DEF Copies
  <2>2. CASE k = l /\ u = t
    <3>1. pc[l] # "stage" BY <1>w DEF Holder, Up
    <3> QED BY <2>2, <3>1, <1>s, <1>w DEF HasAll, Made
  <2>3. CASE ~(k = l /\ u = t)
    BY <2>1, <2>3, <1>s, <1>w DEF HasAll, Made, Up
  <2> QED BY <2>2, <2>3
<1>6. NotesAreKept'
  <2> SUFFICES ASSUME NEW n \in wrote, n[2] \notin failed, n[1] \notin overrun
               PROVE  n[1] \in file'[n[2]].notes
    BY <1>w DEF NotesAreKept
  <2>1. n[1] \in Launches /\ n[2] \in Files /\ n[2] \in Targets /\ n = <<n[1], n[2]>>
    BY DEF TypeOK, Targets
  <2>2. HasAll(l, n[2], n[1]) BY <2>1 DEF Copies
  <2>3. n[1] \in file[n[2]].notes BY DEF NotesAreKept
  <2>4. staged[l][n[2]] = Absent \/ n[1] \in staged[l][n[2]].notes
    BY <2>1, <2>2 DEF HasAll, Made
  <2> QED BY <2>1, <2>3, <2>4, <1>p, <1>s, <1>f, <1>w
<1>7. Failures' BY <1>w
<1> QED BY <1>1, <1>2, <1>3, <1>4, <1>5, <1>6, <1>7

\* Nothing happens.
LEMMA Stutter == ASSUME IInv, UNCHANGED vars PROVE IInv'
BY DEF IInv, vars, given, history, host, Failures, TypeOK, Holder, Up, Alone, Empty, Past, Phases, InPhase,
   Prepared, Says, Copies, HasAll, Made, NotesAreKept

\* One case per action.
LEMMA NextStep == ASSUME IInv, [Next]_vars PROVE IInv'
<1>1. CASE UNCHANGED vars BY <1>1, Stutter
<1>2. CASE Next
  <2>1. PICK l \in Launches :
          \/ Lock(l) \/ Sweep(l) \/ Ready(l) \/ ApplyOnHost(l) \/ RmOld(l) \/ Run(l)
          \/ End(l) \/ Kill(l) \/ Start(l) \/ Restart(l) \/ Exit(l)
          \/ \E t \in Targets :
               \/ Begin(l, t) \/ BeginFails(l, t) \/ Write(l, t) \/ Commit(l, t)
               \/ ClearDir(l, t) \/ AgentWrites(l, t) \/ AgentAlters(l, t) \/ AgentSpoils(l, t)
               \/ \E k \in Mine(l) : Apply(l, k, t)
    BY <1>2 DEF Next
  <2>2. CASE \/ Lock(l) \/ Sweep(l) \/ Ready(l) \/ ApplyOnHost(l) \/ RmOld(l) \/ Run(l)
             \/ End(l) \/ Kill(l) \/ Start(l) \/ Restart(l) \/ Exit(l)
    BY <2>2, LockStep, SweepStep, ReadyStep, ApplyOnHostStep, RmOldStep, RunStep,
       EndStep, KillStep, StartStep, RestartStep, ExitStep
  <2>3. ASSUME NEW t \in Targets,
               \/ Begin(l, t) \/ BeginFails(l, t) \/ Write(l, t) \/ Commit(l, t)
               \/ ClearDir(l, t) \/ AgentWrites(l, t) \/ AgentAlters(l, t) \/ AgentSpoils(l, t)
               \/ \E k \in Mine(l) : Apply(l, k, t)
        PROVE  IInv'
    <3>1. (\E k \in Mine(l) : Apply(l, k, t)) => Apply(l, l, t) BY DEF Mine
    <3> QED BY <2>3, <3>1, BeginStep, BeginFailsStep, WriteLiveStep, WriteCopyStep,
               CommitStep, ClearDirStep, AgentWritesStep, AgentAltersStep, AgentSpoilsStep, ApplyStep
  <2> QED BY <2>1, <2>2, <2>3
<1> QED BY <1>1, <1>2

\* What each step keeps always holds.
THEOREM Inductive == Spec => []IInv
BY InitInv, NextStep, PTL DEF Spec

\* The variables keep their types.
THEOREM TypeCorrect == Spec => []TypeOK
<1>1. IInv => TypeOK BY DEF IInv
<1> QED BY <1>1, Inductive, PTL

\* An agent whose launch is there runs with what that launch prepared: by then
\* nothing of it is staged any more, and what was staged said so.  (Or an agent
\* has changed it, the host cannot merge, or a copy failed half way and the
\* launch handed that over: the exceptions AgentIsPrepared names.)
THEOREM AgentPrepared == Spec => []AgentIsPrepared
<1>1. IInv => AgentIsPrepared
  <2> SUFFICES ASSUME IInv, NEW l \in Launches, ctr[l] = "agent", lock = l,
                      NEW t \in Targets
               PROVE  Says(file[t], l, t) \/ t \in altered
    BY DEF AgentIsPrepared, Says
  <2>1. InPhase(l, t) /\ staged[l][t] = Absent BY DEF IInv, Phases, Alone, Empty
  <2> QED BY <2>1 DEF InPhase, Past, Up, Prepared
<1> QED BY <1>1, Inductive, PTL

\* What an agent added to its part of a merged file stays in it until an agent
\* spoils the file, but for a container that outlives its launch into a later
\* one's copies, and for a file that a launch could not copy.
THEOREM NotesKept == Spec => []NotesAreKept
<1>1. IInv => NotesAreKept BY DEF IInv
<1> QED BY <1>1, Inductive, PTL

\* The rule of the handoff holds of every step, whatever the state: the host
\* writes a target in place only where it had no copy.
THEOREM RuleHolds == Spec => HostReplacesNothingUsed
<1> DEFINE Rule ==
      \A t \in used \ live :
          (file[t] # Absent /\ file'[t] # file[t]) =>
              \/ UNCHANGED host
              \/ \E l \in Launches : pc[l] = "handOver" /\ pc'[l] = "run"
<1>1. ASSUME TypeOK, Next PROVE Rule
  <2> SUFFICES ASSUME NEW t \in used \ live, file'[t] # file[t], ~ UNCHANGED host
               PROVE  \E l \in Launches : pc[l] = "handOver" /\ pc'[l] = "run"
    OBVIOUS
  <2>1. t \in Targets BY <1>1 DEF TypeOK
  <2>2. PICK l \in Launches : ApplyOnHost(l) \/ \E u \in Targets : Write(l, u)
    BY <1>1, <2>1 DEF Next, Lock, Sweep, Ready, RmOld, Run, End, Kill, Start, Restart, Exit,
       Begin, BeginFails, Commit, ClearDir, AgentWrites, AgentAlters, AgentSpoils, Apply, Work, host
  <2>3. ASSUME NEW u \in Targets, Write(l, u) PROVE FALSE
    <3>1. u \in live /\ t # u BY <2>1, <2>3 DEF Write
    <3> QED BY <1>1, <2>1, <2>3, <3>1 DEF Write, TypeOK
  <2> QED BY <1>1, <2>2, <2>3 DEF ApplyOnHost, Goto, TypeOK
<1>2. TypeOK /\ [Next]_vars => [Rule]_vars BY <1>1
<1> QED BY <1>2, TypeCorrect, PTL DEF Spec, HostReplacesNothingUsed
=============================================================================
