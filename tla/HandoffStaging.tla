--------------------------- MODULE HandoffStaging ---------------------------
(***************************************************************************)
(* How a launch hands files to its container (the host-to-container        *)
(* handoff of src/sandy): the host prepares a copy beside each target, in  *)
(* a file whose name only this launch has, and the container moves it onto *)
(* the target before its agent starts.  One sandbox; launches follow each  *)
(* other under its lock, and any of them may be killed while its container *)
(* goes on.                                                                *)
(*                                                                         *)
(* A target has the host's part, which every launch sets anew (all of      *)
(* settings.json but enabledPlugins; a few keys of .claude.json), and the  *)
(* agents' part, which launches keep if they can read the file.  Agents    *)
(* may change both, or leave a file that no launch can read.               *)
(***************************************************************************)
EXTENDS Naturals

CONSTANTS
    Launches,
    Dirs,        \* targets whose content comes from the host (statsig)
    Files,       \* the targets that are merged: settings.json, .claude.json, ...
    Values       \* what the host's part may be

None == "none"
Unreadable == "unreadable"
Targets == Dirs \cup Files
Absent == [keys |-> None, notes |-> {}]
\* Empty, cut short, or for other reasons not read by the merges, as a
\* config.toml without sandbox_mode.
Torn == [keys |-> Unreadable, notes |-> {}]
Whole == [keys : Values, notes : SUBSET Launches]
Content == Whole \cup {Absent, Torn}

ASSUME HandoffAssumption ==
    /\ {None, Unreadable} \cap (Values \cup Launches) = {}
    /\ Dirs \cap Files = {}

VARIABLES
    equipped,    \* the files the host has the tools (node, jq) to merge
    wants,       \* what each launch sets the host's part to
    pc,          \* what each launch does next
    lock,        \* the launch the lock names; stale once that is dead
    phase,       \* how far the lock's holder is with each target
    live,        \* targets it writes in place, for want of a copy
    file,        \* the targets
    staged,      \* the files <target>.sandy-launch.<id>
    ctr,         \* the container of each launch
    used,        \* targets a container has seen
    wrote,       \* history: <<launch, file>> whose agent added something that
                 \* no agent has spoiled since
    overrun,     \* history: launches whose container was still there when
                 \* another launch made its copies
    failed,      \* history: targets that some launch could not copy
    altered      \* history: targets whose host's part an agent has changed since
                 \* a launch copied them or put them in place

given == <<equipped, wants>>
host == <<pc, lock, phase, live>>
history == <<used, wrote, overrun, failed, altered>>
vars == <<given, host, file, staged, ctr, history>>

Init ==
    /\ equipped \in SUBSET Files
    /\ wants \in [Launches -> Values]
    /\ pc = [l \in Launches |-> "idle"]
    /\ lock = None
    /\ phase = [t \in Targets |-> "none"]
    /\ live = {}
    /\ file = [t \in Targets |-> Absent]
    /\ staged = [l \in Launches |-> [t \in Targets |-> Absent]]
    /\ ctr = [l \in Launches |-> "none"]
    /\ used = {} /\ wrote = {} /\ overrun = {} /\ failed = {} /\ altered = {}

Goto(l, next) == pc' = [pc EXCEPT ![l] = next]
Up(l) == ctr[l] \in {"setup", "agent"}
-----------------------------------------------------------------------------
(* The host.                                                               *)

Lock(l) ==
    /\ pc[l] = "idle"
    /\ lock \in {None} \cup {k \in Launches : pc[k] = "dead"}
    /\ lock' = l
    /\ Goto(l, "sweep")
    /\ phase' = [t \in Targets |-> "none"] /\ live' = {}
    /\ UNCHANGED <<given, file, staged, ctr, history>>

\* What launches before this one left goes.
Sweep(l) ==
    /\ pc[l] = "sweep"
    /\ staged' = [k \in Launches |-> [t \in Targets |-> Absent]]
    /\ Goto(l, "stage")
    /\ UNCHANGED <<given, lock, phase, live, file, ctr, history>>

Work(l, t, from, to) ==
    /\ pc[l] = "stage" /\ phase[t] = from
    /\ phase' = [phase EXCEPT ![t] = to]
    /\ UNCHANGED <<given, pc, lock, ctr, used, wrote>>

Put(l, t, c) == staged' = [staged EXCEPT ![l] = [@ EXCEPT ![t] = c]]

\* What a launch reads when it begins; containers there then go on writing.
Copying(t) ==
    /\ overrun' = overrun \cup {k \in Launches : Up(k)}
    /\ altered' = altered \ {t}

\* mutant: the working file starts empty
MutantBegin(l, t) ==
    /\ Work(l, t, "none", "begun")
    /\ Put(l, t, Absent)
    /\ Copying(t)
    /\ UNCHANGED <<live, file, failed>>

\* _sandy_stage_begin: a copy to work on, if there is something to copy
Begin(l, t) ==
    /\ Work(l, t, "none", "begun")
    /\ Put(l, t, IF t \in Dirs THEN Absent ELSE file[t])
    /\ Copying(t)
    /\ UNCHANGED <<live, file, failed>>

\* The copy cannot be made: the launch goes on with the target itself.  What
\* there is of the copy stays.
BeginFails(l, t) ==
    /\ t \in Files /\ file[t] # Absent
    /\ Work(l, t, "none", "begun")
    /\ \E part \in {Absent, Torn} : Put(l, t, part)
    /\ live' = live \cup {t}
    /\ failed' = failed \cup {t}
    /\ Copying(t)
    /\ UNCHANGED file

\* A host without the tools only seeds what is not there.  Else the host's
\* part is set and the agents' is kept; what cannot be read starts afresh.
Set(t, c, v) ==
    IF t \in Files \ equipped /\ c # Absent THEN c ELSE [keys |-> v, notes |-> c.notes]

\* mutant: what is there already is written in place
MutantWrite(l, t) ==
    /\ Work(l, t, "begun", "written")
    /\ IF file[t] # Absent
       THEN file' = [file EXCEPT ![t] = Set(t, @, wants[l])] /\ UNCHANGED staged
       ELSE Put(l, t, Set(t, staged[l][t], wants[l])) /\ UNCHANGED file
    /\ UNCHANGED <<live, overrun, failed, altered>>

\* The launch's seeds, repairs and merges of a target.  One it could not copy
\* it may be unable to read here too.
Write(l, t) ==
    /\ Work(l, t, "begun", "written")
    /\ IF t \in live
       THEN /\ \E read \in {file[t]} \cup {c \in {Torn} : t \in equipped} :
                   file' = [file EXCEPT ![t] = Set(t, read, wants[l])]
            /\ UNCHANGED staged
       ELSE Put(l, t, Set(t, staged[l][t], wants[l])) /\ UNCHANGED file
    /\ UNCHANGED <<live, overrun, failed, altered>>

\* mutant: what is there already counts as the same
MutantCommit(l, t) ==
    /\ Work(l, t, "written", "done")
    /\ Put(l, t, IF file[t] # Absent THEN Absent ELSE staged[l][t])
    /\ UNCHANGED <<live, file, overrun, failed, altered>>

\* _sandy_stage_commit: a copy that says what the target says is dropped.
\* What a copy that failed has left is a copy here like any other.
Commit(l, t) ==
    /\ Work(l, t, "written", "done")
    /\ Put(l, t, IF staged[l][t] = file[t] THEN Absent ELSE staged[l][t])
    /\ UNCHANGED <<live, file, overrun, failed, altered>>

Staged(l) == {t \in Targets : staged[l][t] # Absent}

\* docker rm -f of the container's name.
RmOld(l) ==
    /\ pc[l] = "stage" /\ \A t \in Targets : phase[t] = "done"
    /\ ctr' = [k \in Launches |-> IF Up(k) THEN "gone" ELSE ctr[k]]
    /\ Goto(l, "handOver")
    /\ UNCHANGED <<given, lock, phase, live, file, staged, history>>

\* The image knows the handoff, or there is nothing to hand over ...
Ready(l) ==
    /\ pc[l] = "handOver"
    /\ Goto(l, "run")
    /\ UNCHANGED <<given, lock, phase, live, file, staged, ctr, history>>

\* ... or it is too old for it (_sandy_launch_apply_staged).
ApplyOnHost(l) ==
    /\ pc[l] = "handOver"
    /\ Staged(l) # {}
    /\ file' = [t \in Targets |-> IF t \in Staged(l) THEN staged[l][t] ELSE file[t]]
    /\ staged' = [staged EXCEPT ![l] = [t \in Targets |-> Absent]]
    /\ altered' = altered \ Staged(l)
    /\ Goto(l, "run")
    /\ UNCHANGED <<given, lock, phase, live, ctr, used, wrote, overrun, failed>>

\* docker run.
Run(l) ==
    /\ pc[l] = "run"
    /\ ctr' = [ctr EXCEPT ![l] = "setup"]
    /\ Goto(l, "session")
    /\ UNCHANGED <<given, lock, phase, live, file, staged, history>>

\* cleanup(): the container goes, then the lock.
End(l) ==
    /\ pc[l] = "session"
    /\ ctr' = [ctr EXCEPT ![l] = "gone"]
    /\ Goto(l, "over")
    /\ lock' = None
    /\ UNCHANGED <<given, phase, live, file, staged, history>>

\* The launch is killed; its container goes on.
Kill(l) ==
    /\ pc[l] \notin {"idle", "over", "dead"}
    /\ Goto(l, "dead")
    /\ UNCHANGED <<given, lock, phase, live, file, staged, ctr, history>>
-----------------------------------------------------------------------------
(* The container.                                                          *)

MutantMine(l) == {k \in Launches : \E t \in Targets : staged[k][t] # Absent}  \* mutant

\* The ids whose staged files user-setup.sh moves: SANDY_LAUNCH_ID alone.
Mine(l) == {l}

\* mv -f of a file, or of a directory whose target is out of the way
Apply(l, k, t) ==
    /\ ctr[l] = "setup" /\ staged[k][t] # Absent
    /\ t \in Dirs => file[t] = Absent
    /\ file' = [file EXCEPT ![t] = staged[k][t]]
    /\ Put(k, t, Absent)
    /\ used' = used \cup {t}
    /\ altered' = altered \ {t}
    /\ UNCHANGED <<given, host, ctr, wrote, overrun, failed>>

\* rm -rf of the directory
ClearDir(l, t) ==
    /\ ctr[l] = "setup" /\ t \in Dirs /\ staged[l][t] # Absent
    /\ file[t] # Absent
    /\ file' = [file EXCEPT ![t] = Absent]
    /\ UNCHANGED <<given, host, staged, ctr, history>>

\* mutant: the agent does not wait for the files
MutantStart(l) ==
    /\ ctr[l] = "setup"
    /\ ctr' = [ctr EXCEPT ![l] = "agent"]
    /\ used' = Targets
    /\ UNCHANGED <<given, host, file, staged, wrote, overrun, failed, altered>>

\* Every file of this launch is in place.
Start(l) ==
    /\ ctr[l] = "setup" /\ Staged(l) = {}
    /\ ctr' = [ctr EXCEPT ![l] = "agent"]
    /\ used' = Targets
    /\ UNCHANGED <<given, host, file, staged, wrote, overrun, failed, altered>>

\* An agent adds to its part of a file, changes the host's part, or leaves the
\* file such that nobody can read it.
AgentWrites(l, t) ==
    /\ ctr[l] = "agent" /\ file[t] \in Whole
    /\ file' = [file EXCEPT ![t] = [keys |-> @.keys, notes |-> @.notes \cup {l}]]
    /\ wrote' = wrote \cup ({l} \X ({t} \cap Files))
    /\ UNCHANGED <<given, host, staged, ctr, used, overrun, failed, altered>>

AgentAlters(l, t) ==
    /\ ctr[l] = "agent" /\ t \in Files /\ file[t] \in Whole
    /\ \E v \in Values : file' = [file EXCEPT ![t] = [keys |-> v, notes |-> @.notes]]
    /\ altered' = altered \cup {t}
    /\ UNCHANGED <<given, host, staged, ctr, used, wrote, overrun, failed>>

AgentSpoils(l, t) ==
    /\ ctr[l] = "agent" /\ t \in Files /\ file[t] \in Whole
    /\ file' = [file EXCEPT ![t] = Torn]
    /\ altered' = altered \cup {t}
    /\ wrote' = {n \in wrote : n[2] # t}
    /\ UNCHANGED <<given, host, staged, ctr, used, overrun, failed>>

\* The daemon's restart policy: user-setup.sh runs again.
Restart(l) ==
    /\ Up(l)
    /\ ctr' = [ctr EXCEPT ![l] = "setup"]
    /\ UNCHANGED <<given, host, file, staged, history>>

\* The container ends by itself.
Exit(l) ==
    /\ Up(l)
    /\ ctr' = [ctr EXCEPT ![l] = "gone"]
    /\ UNCHANGED <<given, host, file, staged, history>>

Next ==
    \/ \E l \in Launches :
        \/ Lock(l) \/ Sweep(l) \/ Ready(l) \/ ApplyOnHost(l) \/ RmOld(l) \/ Run(l)
        \/ End(l) \/ Kill(l) \/ Start(l) \/ Restart(l) \/ Exit(l)
        \/ \E t \in Targets :
            \/ Begin(l, t) \/ BeginFails(l, t) \/ Write(l, t) \/ Commit(l, t)
            \/ ClearDir(l, t) \/ AgentWrites(l, t) \/ AgentAlters(l, t) \/ AgentSpoils(l, t)
            \/ \E k \in Mine(l) : Apply(l, k, t)

Spec == Init /\ [][Next]_vars
-----------------------------------------------------------------------------
Steps == {"idle", "sweep", "stage", "handOver", "run", "session", "over", "dead"}

\* The types of the variables.
TypeOK ==
    /\ equipped \subseteq Files
    /\ wants \in [Launches -> Values]
    /\ pc \in [Launches -> Steps]
    /\ lock \in Launches \cup {None}
    /\ phase \in [Targets -> {"none", "begun", "written", "done"}]
    /\ live \subseteq Files
    /\ file \in [Targets -> Content]
    /\ staged \in [Launches -> [Targets -> Content]]
    /\ ctr \in [Launches -> {"none", "setup", "agent", "gone"}]
    /\ used \subseteq Targets
    /\ wrote \subseteq Launches \X Files
    /\ overrun \subseteq Launches
    /\ failed \subseteq Files
    /\ altered \subseteq Files

\* The host never replaces a path a container has used (the rule at the head
\* of the handoff), but for a target it could not copy and for an image that
\* does not know the handoff: any other change of what such a file says is a
\* container's, which leaves the host's part of the state as it is.
HostReplacesNothingUsed ==
    [][\A t \in used \ live :
          (file[t] # Absent /\ file'[t] # file[t]) =>
              \/ UNCHANGED host
              \/ \E l \in Launches : pc[l] = "handOver" /\ pc'[l] = "run"]_vars

\* An agent whose launch is there runs with what this launch prepared, never
\* with what a killed launch left, with what an agent of an earlier one changed
\* or with nothing, also when its container was restarted half way through
\* putting the files in place.  The exceptions: an agent has changed it since;
\* the host has not the tools for it; and a copy that failed half way, which
\* the launch hands over in place of what it has prepared.
AgentIsPrepared ==
    \A l \in Launches : (ctr[l] = "agent" /\ lock = l) =>
        \A t \in Targets :
            \/ file[t].keys = wants[l]
            \/ t \in altered
            \/ t \in Files \ equipped
            \/ t \in live /\ file[t] = Torn

\* What an agent adds to its part of a merged file is in it for good, through
\* any number of launches and kills between its write and now, until an agent
\* spoils the file.  Two cases may lose it: its container was still there when
\* a later launch made its copies, or a launch could not copy the file.
NotesAreKept ==
    \A n \in wrote :
        \/ n[1] \in overrun
        \/ n[2] \in failed
        \/ n[1] \in file[n[2]].notes
=============================================================================
