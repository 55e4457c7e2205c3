# sandy, specified in TLA+

sandy runs coding agents in Docker containers, one sandbox per workspace.  It is
one large shell script (`sandy`, the launcher with every maintenance command and
the generated container scripts) and a small Go program (`proxy/`, the egress
proxy sidecar, the only way off an agent's network).  This directory holds TLA+
models of the parts of both where processes race, crash or wait for each other,
TLC runs that check them on small instances, and TLAPS proofs of the properties
that matter most for instances of any size.

Every module is written from the source; line numbers in comments refer to it.
`PROJECT.json` maps each definition to the lines it models.

Contents: [inventory](#1-inventory) ·
[modules](#2-modules) · [runs](#3-runs-and-bounds) · [proofs](#4-proofs) ·
[divergences](#5-where-code-and-comments-differ) · [plan](#6-plan) ·
[not modelled](#7-what-is-not-modelled)

## 1. Inventory

### The launcher, `sandy` (bash)

| part | lines | state it keeps | operations | what is hard | what makes it correct |
|---|---|---|---|---|---|
| workspace lock | 2738-2842, 15751-15864 | directory `sandboxes/.<name>.lock` with a pid file | take, release, reap a stale one | launches and reapers interleave between single file-system calls; kills; pid reuse | one session per workspace; no reaper deletes a live lock; a dead lock never blocks for ever |
| session resources | 15290-15568, 18150-18252, 21454-21540 | networks, proxy and agent container of a session | build, watch, `cleanup()` | any step can fail or be signalled; the names are fixed per workspace | nothing is left behind; a session keeps what is its own |
| reapers and `--gc` | 2963-3410, 5056-5180 | none of their own: they list, judge, remove | eager reaps of each launch, `--gc`, `--doctor --fix` | lists are stale when acted on; sessions come up between | only what is dead goes, and it goes some time |
| daemon sessions | 12178-12618 | supervisor process, markers of readiness and refusal | `--start`, `--attach`, `--stop` | a client polls a supervisor that may be slow, refuse or die | the client's exit code tells what happened |
| handoff staging | 576-696, 9850-9863, 15866-15892 | per launch a copy `<target>.sandy-launch.<id>` of each file it prepares | sweep, begin, write, commit, hand over, apply | kills between staging and handing over; a container that outlives its launch, or restarts half way through its moves | the host replaces no path a container has used; the agent runs with what its launch prepared and keeps its part of the files |
| configuration and approvals | 12977-13514, 14388-14990, 17704-17790 | pending keys, approval files by hash, the project image, the created-by-a-session record | load, ask, record, stage, build | a workspace's files change under an approval; pre-pass and supervisor read them apart | nothing is in force, built or mounted that was not approved as it stands |
| image build and cache | 15052-15304, 15648-15725 | image labels, content hashes, update stamps | decide, build, tag | who rebuilds what when one tier changed | an image is rebuilt exactly when its inputs changed |
| sessions: registry, update | 12634-12950, 19195-19396 | registry of agent sessions, resumption state | prune, `--update-sessions` | restart of running sessions, partial failure | no session is lost by an update |
| network isolation rules | 17802-17919 | host firewall rules | insert, remove | crash between the two | removed with the session |
| credentials | 18476-19165 | seeded copies of agent credentials | seed, refresh, copy back | refresh in two places | the newer token wins |
| sandbox maintenance | 883-953, 5200-6800, 7110-7316 | sandbox directories | classify, reset, remove, move, rekey | crash half way | each command can be repeated |
| container set-up | 9657-11740 | files, tmux and agents in one container | entrypoint, supervise, resume | agents that exit and are restarted | the agent's sessions come back |
| channel relay | 11794-11940 | cursor into an external chat | relay | an external service | - |
| reports | 3432-4265, 7317-7615, `doctor.sh` | none | `--print-state`, `--doctor`, `--validate` | - | - |
| self-update, installer | 482-575, `install.sh` | the script file | download, replace | - | - |

### The proxy, `proxy/` (Go)

| part | files | state it keeps | operations | what is hard | what makes it correct |
|---|---|---|---|---|---|
| connections | accept, guard, transparent, connect, forward, splice, egresslog, healthcheck, main | 512 shared slots, per connection two copying goroutines, the set of logged destinations | accept, peek, decide, dial, splice, log, probe | panics and early returns with a slot held; half-closed and reset streams; handlers that log together | no slot leaks; a stream arrives once, whole and in order; each destination is logged once |
| policy, allowlist, DNS | policy, allowlist, dns, doh, config | none after start | `PermitDNS`, `Egress`, `ServeDNS` | names resolve differently from one moment to the next; the two halves decide apart; entries that are neither name nor host:port | no local address without an exception that names it; what is dialled is what was screened; an entry opens what it says, no more and no less |
| finding the host name | sni, reader | none | `extractSNI`, `extractHTTPHost` on a growing window | a verdict on a prefix; a read that waits for bytes that need not come | the host is the one the client asked for, however the bytes arrive |

How they interact: a launch takes the workspace lock, reaps what dead sessions
left, builds the networks and starts the proxy container, then the agent
container, and waits for it (a `--start` supervisor watches the tmux session
instead); `cleanup()` takes everything down in the opposite order and gives the
lock back.  The agent reaches the world through the proxy alone: it asks the
proxy's DNS responder, is led to the proxy's own address, and the proxy reads
the host name off the connection, asks `Policy.Egress` and splices.  The only
shared state between launches is the file system (locks, sandboxes, registry)
and the Docker daemon (names, networks, labels).

## 2. Modules

### WorkspaceLock, SessionMutex, WorkspaceLockProofs

`WorkspaceLock` is the lock directory down to single file-system calls.  `pc` is
the next call of each process, `loc` the path each created directory is found
under (`$L`, a reaper's private `$L.reap.<pid>`, nested in another directory by
an `mv` that met one, or nowhere), `pidFile` what its pid file says.  `Mkdir`,
`LookCat`, `LookKill`, `MkdirRetry`, `WritePid` are the launch (15808-15855),
`ReleaseCat/Unlink/Rmdir` the release, whose `rm -rf` is two steps, and `Reap...`
the nine steps of `_sandy_lock_reap_stale`.  `Crash` is SIGKILL at any point,
`ReusePid` gives an ended process's number to an unrelated one, so that `kill -0`
answers.  `MvReplaces` is whether `mv` may replace an empty directory made
between its own test and its rename (BSD) or not (GNU).  An `rm -rf` takes along
whatever a put-back nested in the directory, at any depth (`Below`).

`SessionMutex` is what the lock promises: one holder at a time, until a reaper's
rename hits another lock than the one it checked (`forfeited`).  `WorkspaceLock`
implements it with `holders <- Holders, forfeited <- raced` (`ImplementsMutex`).
The history variables `checked` and `raced` are read by no action's guard.

### SessionResources, SessionResourcesProofs

The networks, the proxy and the agent of every workspace, with everyone who makes
or removes them.  Networks are named by the owner's pid (one that a process with
the same pid later owns again is the same name: pid reuse is left out here);
containers are named by the workspace, so a name can change hands, which is what
most properties are about.  Each Docker call is a step; that the pool of subnets
is exhausted is a choice at each network creation (the launch then reaps and tries
once more).  A list made by a reaper
(`doomed`, `victim`) is worked off step by step while the others go on.  `Look`
and `Stop` are the daemon gate and `--stop`; `BreakOff` is a signal or a failing
command at any point of the set-up; `Reboot` revives what Docker's restart
policies revive.  `stray` is a history variable: which step removed a container
of a launch that was under way.

### ProxyConnections, BytePipes, ProxyConnectionsProofs

Accept loops that take a slot before they accept, handlers up to the splice, the
splice's two copying goroutines with half-closes and resets, the egress log and
the health probe.  `conn[c]` has both ends of a connection as the proxy can see
them; the client's stream is 1, 2, ..., byte 1 being the head; `read` and `used`
are what has left the socket and what has left the `bufio.Reader`, and `got` is
what the upstream received.  `prefixConn` hides `CloseWrite`, so `EndIn` closes
whole what `Raw` connections (the forward listener) half-close.  A peer may stop reading
for good: `StallOut` and `StallIn` are a copy whose `Write` finds no room and does not
return (splice.go:26 sets no deadline), until that peer's reset ends it.  `Lost` is a splice
both of whose peers have ended their streams and that is still in such a write.  A panic can
come at every step of a handler before the splice.  What `Policy.Egress` decides is a
choice here.

`BytePipes` is what the proxy promises of each stream towards an upstream, with no
slots, stages, buffers or goroutines: bytes written at one end come out at the other in
order, and the stream is over when all of it is out or an end is gone.  The refinement
mapping (`PipeOf`) takes from a connection what was sent, what has arrived, whether the
client has ended its stream, whether one of its ends is gone (`Broken`), and whether the
copy towards the upstream has ended (`Over`).

### EgressPolicy, EgressPolicyProofs

`LoadConfig`, `NewAllowlist`, `PermitDNS`, `Egress` and the responder against a
resolver (`zone`) that changes any answer between any two steps (`Rebind`).  `file` is
the configuration the proxy finds, readable or not; the mode follows from it or the
proxy does not start.  An entry of the allow list is raw, as `[prefix, host, port]`,
and the constructor's case distinction makes the four sets of the code of it; what an
entry is *for* (`Opens`) is stated apart, from the comment at the head of allowlist.go,
and the two are compared.  A name is the sequence of its labels, so that a subdomain is
a proper suffix; an address is two octets, enough for every private block but IPv6's.
`Refused` are the denials before a lookup in the code's order, `AsIs` is what is dialled
unscreened (where the dialler resolves once more), `Lookup`, `Screen`, `Connect` are the
screened way.

### HostNames, HostRequests, HostPeek, HostPeekProofs

`HostNames` has the two parsers as pure operators on a sequence of bytes: `ExtractSNI`
with its reader, a cursor that goes one past the end when a read comes up short, and
`ExtractHTTPHost` with its lines.  `RandomLen` is the length of ClientHello.random, so
that the instances need not carry 32 idle bytes; the `host:` of a header is one symbol.
`HostPeek` is `peekHost`: bytes `Arrive` at any time, the client may `End` anywhere,
`Look` parses a window that grows by one byte, `LookLast` is the last try on what
`Peek` got when it got less than it asked for.  A stream carries what its client meant
(`asks`, `head`), which is what the verdict is compared with.

What a client means is said in `HostRequests` without a parser: a ClientHello as nested
vectors and lists of entries, a head as lines, by quantifiers over positions.  Nothing in
it is code.  `StreamAssumption` says by it which streams there are: a hello alone in its
record, or the head of a request, that asks for `asks`, followed by anything; a record
that is no hello; a hello with a length in it that goes beyond what it is a length in,
which is never complete.  Any of them may end early (`End`).  TLC evaluates it for the
streams of `MCHostPeek`.

### HandoffStaging, HandoffStagingProofs

One sandbox and the launches that follow each other in it.  `file[t]` is what a target
says: `keys`, the host's part, which each launch sets anew (all of settings.json but
`enabledPlugins`, a few keys of .claude.json), and `notes`, the launches whose agents have
added to their own part, which launches keep (`enabledPlugins`, the rest of .claude.json).
What an agent changes of the host's part (`AgentAlters`) is overwritten by the next launch,
as the comment at 16355-16374 says.  A file may also be `Torn`: empty, cut short, or one
that the merges do not accept (a config.toml without `sandbox_mode`); agents can leave such
a file (`AgentSpoils`), and so can a copy that fails.  `equipped` are the files the host has
the tools (node, jq) to merge: others it only seeds.

`staged[l][t]` is the copy of a launch.  `Sweep` removes what earlier launches left,
`Begin`, `Write`, `Commit` are the life of one copy (`_sandy_stage_begin`, the seeds and
merges, `_sandy_stage_commit`).  When the copy cannot be made (`BeginFails`), the launch
goes on with the target itself, and what there is of the copy stays: nothing, or a torn
file, which `Commit` hands over like any other.  `ApplyOnHost` is the fallback for images
that do not know the handoff.  `RmOld` and `Run` replace the container; its `Apply`,
`ClearDir` and `Start` are user-setup.sh, which moves the files of its own launch and no
other, and which `Restart` begins again.  `Kill` leaves the container to itself, with the
lock stale.  History variables: `used` (what a container has seen), `wrote`, `overrun`
(launches whose container was up while a later launch made its copies), `failed` (targets a
launch could not copy), `altered` (targets whose host's part an agent has changed since a
launch last copied or placed them).

### DaemonSession, DaemonSessionProofs

The `--start`, `--stop` and `--attach` clients of one workspace and the supervisors
that the `--start` clients spawn.  A supervisor and its client have one name.  `pc`
is the next step of a client, `sup` that of a supervisor; `seen` is the container a
client looked up last and acts on later, whatever has happened to it since; `box` is
the workspace's agent container with the supervisor whose pid its label has.  A
client's steps are `Look`, `Approve`, `Clear`, `Poll`, `Check`, `TearDown`
(12178-12463), `StopLook` to `DockerRm` (12535-12617; also called by `--start` for a
container without a session) and `AttachLook` to `Reprobe` (12475-12528).  A
supervisor takes the lock (`SupBegin`), removes the name's old container
(`Prepare`), starts its own (`Run`), watches it (`Watch`) and cleans up (`CleanBox`,
`Release`); `Refuse` is a hard exit, with the marker or, at some places, without.
`Kill`, `Crash` (docker restarts the main process), wrong answers of docker, a failing
`docker stop` and a foreground session that has the lock are the environment.

A probe of the session (`docker exec ... has-session`) may fail at any time, and so may the
`docker inspect` after it, which is `|| echo false` and then reads as "not running": both in
the watch loop (21520-21524) and in `--attach` (12510-12513).  `slips` and `misled` count
the wrong answers in a row that a watch loop and an `--attach` client have had; `told` are
the clients that left a failed start's teardown to a supervisor that was alive (12456-12457)
instead of removing the container themselves (12459).  These, `honest` (a missed poll was
right) and `fatal` are history variables.

### LaunchApprovals, LaunchApprovalsProofs

The three questions of a launch: the privileged keys of a workspace's config, its
`.sandy/Dockerfile`, the links that leave it.  `context`, `config` and `links` are
the workspace, which `Edit` changes at any time (an agent, the operator, a pull);
`keysList`, `contextList`, `linksList` are the approval files, a hash being the
content it is of; `record` and `snapshot` tell whether a session created `.sandy/`.
`run` has two processes, the pre-pass of a `--start` client and the launch (in the
foreground, or the supervisor that `Spawn` starts), which share the files without a
lock: a record per process holds what it read and when.  `KeysGate`/`AskKeys`/
`AnswerKeys`, the `...Context` actions, `HashContext` to `SaveHash` (the staleness
check, the staged copy, the build) and the `...Links` actions follow the code; each
question and its answer are two steps with edits in between.  `Revoke` is the `rm`
that the messages advise, `--reset-sandbox` and `--remove-sandbox`.  The history
variable `said` has what the operator said yes to: sets of entries and links since
their list was last removed, contents for good, because an image outlives its
approval.

## 3. Runs and bounds

| run | what it asks | bounds and why they are enough |
|---|---|---|
| `workspace_lock` | exclusion, reap safety, orderly release, refinement of `SessionMutex`; a stale lock does not stay | 2 launches and 2 tools, four processes that may reap: a holder, one that re-takes, and reapers that meet the put-back; the proofs cover any number |
| `session_resources` | nothing is left, nothing of another launch is removed, orphans are reclaimed | a foreground launch and a daemon of one workspace, a `--gc`/`--stop`, one reboot: a container name changes hands between every two of them |
| `stranded_proxy` (violation) | a claim of a comment, see 5 | two launches of a workspace each |
| `proxy_connections` | slots, log; splices return, a backlog gets through | two listeners with two slots, so that the idle one keeps one of them; two connections of the other to one destination: handlers race for the log and for the slot; peers that end their streams, or stop reading |
| `proxy_streams` | streams exact and whole, the client's stream goes on; refinement of `BytePipes` | CONNECT and forward listener, one slot, streams of two bytes: head and payload; one health probe |
| `egress_policy` | exceptions, screen, denials, what is listed is served, agreement of the two halves | files of both modes, without one, without an address, unreadable; entries: a name, a wildcard with a subdomain, a host:port name and address, a name below a resolver, and ones that are neither (a bare address, a wildcard with a port, a port out of range); a public, a private and the last CGNAT address; failing, rebinding and mixed answers |
| `host_peek` | the verdict is the name asked for, and arrival has no part in it | hellos with and without a session id, an extension block, an SNI, names of another type, early data after the hello; lengths that promise more than there is; requests with ports, brackets, spaces, two Host lines, none; a limit that the longest hello exceeds by a byte |
| `handoff_staging` | what is replaced, what the agent starts with, what it keeps | three launches, so that one is killed, one is killed while the container of the first goes on, and one comes after both; a directory and a merged file, with the tools to merge it and without; two values of the host's part; the proofs cover any number of each |
| `daemon_session` | lock and container, exit codes, wrong answers of docker, teardown | two clients, each any of the three commands, with their supervisors; two polls instead of 600, so that a time-out meets a start that is still coming up; one restart makes a crash loop instead of three; the proofs cover any number of each |
| `daemon_refused` (violation) | a claim of a comment | the same |
| `launch_approvals` | what is granted, built and mounted was approved | two Dockerfile contents, one with a linked Dockerfile, one without any; one key with two values; a link to be mounted and one that is not; two launches or pre-passes, two edits or revocations: enough for an approval, a change and a use; `OneSubject`: at any moment the workspace gives reason for one question only (edits change which), because the questions share no state but the order of the steps |
| `links_pruned` (violation) | a claim of the specification | the same |

The bounds by name: `MaxConns` is the code's `maxConns`, `MaxBytes` the length of a
client's stream, `MaxProbes` the number of health probes, `MaxWait` the polls of a
`--start` client, `CrashLoop` the restarts after which it gives up and after which
the container crashes no more, `rebooted` one reboot,
`PeekLimit` the window of `peekHost` (16 KiB) and `RandomLen` 32 bytes in the code,
`MaxEdits` and `MaxLaunches` the edits or revocations and the launches or pre-passes.

Type invariants are theorems (section 4), not properties of the runs.

Deadlock is not checked (`CHECK_DEADLOCK FALSE`) where users may stop starting
launches, clients may be done and every process may have ended: each such state
is one the system really stops in.

**Fairness.**  `WorkspaceLock` and `SessionResources`: a process that runs goes on
(weak fairness of its own next step); when a user starts, ends or kills anything
is free.  `SessionResources` also lets a supervisor notice that its session has
ended: its watch loop polls.  `DaemonSession`: the same for the clients of `--start`
and `--stop` and for the supervisors, whose loops are bounded by sleeps; users at a
terminal (`--attach`), containers, kills and the foreground session are free.
`ProxyConnections`: goroutines run (weak fairness), and the loops that wait on the
semaphore are served in turn (strong fairness: a Go channel queues its senders);
`FairPeersSpec` adds that every peer ends its stream some time.  That is an
assumption about the peers, not about the proxy, which sets no deadlines; only
`proxy_connections` uses it, for `EndedSplicesReturn` and `BacklogIsServed`.  That a peer
goes on *reading* is not assumed: a copy may stall in `Write` at every byte, for good, and a
peer that has stalled one need not reset.  The two properties therefore except a splice that
is `Lost` to such a write, and only that: where no copy is blocked, fairness of the copying
goroutines is that of the Go scheduler.
`EgressPolicy`, `HostPeek`, `LaunchApprovals` and `HandoffStaging` state no fairness:
their properties are about safety.  That `peekHost` never waits without need is one,
too (`WaitsOnlyForMore`): the code sets no deadline on the head of a connection, so a
client that sends half a head keeps its slot, and nothing better can be promised.

## 4. Proofs

| theorem | says, for every value of the constants |
|---|---|
| `WorkspaceLockProofs!Invariance`, `TypeCorrect` | the inductive invariant, the types |
| `WorkspaceLockProofs!Exclusion` | at most one holder unless a rename raced |
| `WorkspaceLockProofs!ReapSafety` | a lock a reaper found stale after its rename names an ended process, races included; those nested in it do until a rename races |
| `WorkspaceLockProofs!Refinement` | the protocol implements `SessionMutex` |
| `WorkspaceLockProofs!LockGivenBack` | orderly launches leave no lock behind |
| `SessionResourcesProofs!Inductive`, `TypeCorrect` | the inductive invariant, the types |
| `SessionResourcesProofs!NetworksStay` | no reaper takes a network of a launch under way |
| `SessionResourcesProofs!NamesHeld` | no set-up and no cleanup removes another running launch's container |
| `SessionResourcesProofs!NothingLeft` | an orderly end leaves no network and no container |
| `SessionResourcesProofs!AgentKeepsProxy` | an agent whose launch lives has that launch's proxy, unless a reaper took a container in use |
| `ProxyConnectionsProofs!SlotsCounted`, `HandlersBounded` | slots taken = loops in Accept + handlers; never more handlers than slots |
| `ProxyConnectionsProofs!DestinationLoggedOnce`, `SplicesLogged` | one line per destination, and none is missed |
| `ProxyConnectionsProofs!StreamExact` | in order, no loss, no repetition |
| `ProxyConnectionsProofs!HalfClosedIsWhole` | a half-closed stream arrives whole, unless something else broke it off |
| `ProxyConnectionsProofs!Pipes` | the streams towards the upstreams implement `BytePipes` |
| `ProxyConnectionsProofs!ForwardedGoesOn` | the upstream's end does not close a forwarded client |
| `ProxyConnectionsProofs!TypeCorrect` | the types |
| `EgressPolicyProofs!TypeCorrect` | the types |
| `EgressPolicyProofs!LanNeedsException` | no private address without an entry that names it |
| `EgressPolicyProofs!DialIsScreened` | what is dialled after a lookup passed the screen of that lookup |
| `EgressPolicyProofs!AllowlistIsWhatItSays` | what the constructor makes of the entries allows just what they are for |
| `EgressPolicyProofs!UnlistedDenied`, `ListedServed`, `ToldIsServed` | denials; no more and no less than the list; the responder and `Egress` agree |
| `HostPeekProofs!TypeCorrect`, `ArrivalDoesNotMatter` | the types; the verdict is that of the first window that has one, for any parser results |
| `HostPeekProofs!PlainVerdictIsFinal`, `PlainNameIsOfTheWhole` | on the plain listener a verdict on a prefix is the verdict on the whole stream |
| `HostPeekProofs!LoopsFindFirst` | what the two loops of `extractSNI` find in any list of entries |
| `HostPeekProofs!HelloIsAnswered`, `HeadIsAnswered` | what the parsers return of any whole hello and head is what `HostRequests` says it asks for |
| `HostPeekProofs!NameAsked` | the host a connection is screened by is the one its client asks for |
| `HostPeekProofs!WaitsForMore` | `peekHost` never waits with a whole request in its window |
| `DaemonSessionProofs!Invariance`, `TypeCorrect` | the inductive invariant, the types |
| `DaemonSessionProofs!ContainerIsLocked` | the container of a live supervisor is covered by the workspace lock |
| `DaemonSessionProofs!SixIsRefused` | exit code 6 of `--start` means that its own launch was refused |
| `DaemonSessionProofs!StoppedStays` | a container `--stop` reported as stopped never runs again |
| `DaemonSessionProofs!LiveIsSpared` | one wrong answer of docker does not pass for the end of a session |
| `LaunchApprovalsProofs!TypeCorrect` | the types |
| `LaunchApprovalsProofs!BuiltIsReviewed` | the project image was built from content the operator said yes to |
| `LaunchApprovalsProofs!KeysOnlyAsGranted` | privileged entries are in force only as an approved set |
| `LaunchApprovalsProofs!LinksOnlyAsGranted` | a target outside is mounted only through an approved link |
| `HandoffStagingProofs!TypeCorrect`, `RuleHolds` | the types; the host replaces nothing a container has used |
| `HandoffStagingProofs!AgentPrepared`, `NotesKept` | the agent runs with what its launch prepared, and what agents added to their part of a file stays, but for the exceptions the two name |

*Assumptions* are the `ASSUME`s of the modules: launches and tools are disjoint, listeners
and connections are finite sets, ports are numbers, addresses are pairs of octets, ports
of entries are numbers, streams are sequences of numbers and such as `HostRequests`
describes, the peek limit is positive, directories and merged files are different targets,
every launch has a workspace, daemons are launches, a client waits at least one poll, no
content of a `.sandy/` and no set of entries or links is the absent file.  TLC evaluates
them in every run.

*Workspace lock.*  `MutualExclusion` is not inductive.  `IInv` (in `WorkspaceLockProofs`)
adds that, while no rename has raced, a process that is past its `mkdir` and not yet out
owns the directory at `$L` and no other process does, that a reaper about to rename has
checked what is there, and, whether or not it raced, that what a reaper is about to delete
names an ended process, which no later step can bring back.  A lock nested in it is no
owner's (`BelowIsNested`: what is below a directory has not the path `$L`), as long as no
rename raced.  `OrderlyEndFreesLock` rests on two more conjuncts: an owner's lock is
signed from the write of the pid to the unlink, and empty after it (`Signed`), so the
release finds its own pid and its `rmdir` is not refused; and, until somebody was killed,
only owners have a directory anywhere (`OwnersOnly`), so a reaper that is past its check
finds no lock or one it did not check (`NothingToMove`).

*Session resources.*  Everything a launch makes carries either its pid or its
workspace's name.  `IInv` (in `SessionResourcesProofs`) says, of the names with the pid,
that a network exists only between its making and its removal or after a kill
(`OwnedNets`), and that whatever a reaper has listed had an owner that was through with
it, which no later step changes (`Listed`): so the list may be as old as it likes.  Of
the fixed names it says that whoever is between the lock and the release is the one the
lock names (`Held`), and that a container's owner is in between, or dead
(`OwnedContainers`): who removes by name and finds another's container has found a dead
one's.  `ProxyStays` is the third chain, for the agent's proxy.  Each action has a
lemma with one step per conjunct.

*Slots and streams.*  `sem` is the cardinality of the loops in Accept plus that of
the handlers, so each step's proof is one of `FiniteSetTheorems` about adding or
removing an element.  The stream's invariant is that `got` is 1..k for the
k bytes that have left the buffer, and that `used <= read <= sent`.  A copy from the
client ends only when all that was sent was passed on, or when an end broke off;
of a forwarded client the proxy closes only the write side, and that only once the copy
towards it has ended.

`Pipes` says in addition what a step may do to a stream: each action is a step of one
connection's pipe (`PipeStep`), or of none.  That a delivery is the next byte, and that a
copy that ends has passed all on, is the invariant's; that the ends stay as they are
before the splice needs it to say that a connection nobody has opened has no client, and
one that has not been dialled no upstream.

*Policy.*  A request carries what it was decided on: `ReqInv` says for each stage
which checks it has passed, `ToldInv` that whoever was answered is permitted.
`LanNeedsException` needs arithmetic on the blocks (`PrivateCoversLan`), where the
code compares octets and the property divides addresses by block sizes.

`AllowlistIsWhatItSays` compares the constructor's sets with `Opens` entry by entry;
`ListedServed` and `UnlistedDenied` rest on it.

*Finding the host name.*  `ArrivalDoesNotMatter` needs no property of the parsers: every
window below `n` was short (`WindowInv`).  The other two invariants need to know what
the parsers compute.

The loops of `extractSNI` are a recursive function, `start` of `HostRequests` another.
That functions with such equations exist is proved once, by a least counterexample
(`DownwardFunction`, `UpwardFunction`, from `WFMin` on the naturals); `ScanUnfolds` and
`StartsAre` are the equations.  The same argument shows that the loop passes every entry
before the first of type 0 (`ScanFrom`) and that starts are where entries end
(`StartsInOrder`); `LoopsFindFirst` sums up.  `HelloIsAnswered` adds the vectors around
the lists, `HeadIsAnswered` the lines, the port and the brackets (`StripPortLeavesHost`:
the last colon of a value is the port's, or is inside the brackets).

Before its end a request has no verdict that it would not have at its end: a part of a
record is short (`PartOfRecordIsShort`), and `PlainVerdictIsFinal` says it of a head: the
first blank or Host line of a prefix that ends in a line feed is that of every longer
one.  (Of what follows the hello it would not be true: one without extensions is one only
up to its last byte.)  `WindowsAnswer` puts this together for any stream.  So the loop
ends with the request at the latest (`WindowWithinRequest`), which is `WaitsForMore`, and
ends with its answer, which is `NameAsked`.

*Handoff staging.*  `IInv` (in `HandoffStagingProofs`): only the lock's holder is at work
and the container that is up belongs to it or to a killed launch (`Holder`); whoever's
agent runs has nothing staged, and once the holder has swept nobody else has (`Alone`);
a target that is done is prepared, in place or in the copy (`Phases`), where "prepared"
(`Says`) has the exceptions of the property: the torn rest of a copy that failed is one only
for a target written in place; a copy lacks only what containers wrote that were up when it
was made, or what a failed copy lost (`Copies`, which carries `NotesAreKept`); and what is
written in place has failed to be copied (`Failures`).

*Daemon sessions.*  `IInv` (in `DaemonSessionProofs`) adds to the types that a
supervisor past its lock and not yet out is the one the lock names, so that there is
one at most; that a container belongs to a supervisor that got as far as `docker
run`; that a client which sees the marker while it polls sees its own supervisor's,
because it removed any older one; that the container a `--stop` found is, once it is
down, not run again by anybody (a supervisor runs one container in its life); that
the run an `--attach` was joined to has the restart count of that time; and, for
`LiveIsSpared`, that each missed poll a watch loop has counted was right or was a slip
(`WatchInv`), and that an `--attach` client before its second probe has been told "no" by a
session that is gone or by one slip (`ReprobeInv`).  Each conjunct has a lemma with one step
per action.

*Launch approvals.*  `IInv` (in `LaunchApprovalsProofs`) adds that each approval file
has what the operator said yes to since it was last removed, that what the launch
judged is among it from the yes to the end of the build, and that a question is about
something.  The edits of the workspace disturb none of that, which is the point: no
conjunct mentions the workspace.  The two action properties follow from the lists'
conjunct at the steps that read a list (`KeysStep`, `LinksStep`); all other steps
grant nothing (`OthersGrantNothing`).

Only model-checked: the liveness properties, for which the prover has no rules (fairness,
ENABLED).  Every invariant and action property of a passing run is a theorem.  The
library's induction theorems take an operator as a parameter and cannot be used; where
the model has recursive functions (the host names) the proofs argue by a least
counterexample instead.

## 5. Where code and comments differ

Three runs are expected to end in a violation:

- `stranded_proxy` - a launch's new proxy has no agent yet, and another launch's
  reaper takes it for stranded (comment at sandy:3364-3367).
- `daemon_refused` - a supervisor that finds the lock taken tells nobody, and its
  client polls out ten minutes (comment at sandy:367-375, exits at 15835-15852).
- `links_pruned` - "Identical or reduced set: ... Removed entries are pruned from the
  list silently" (SPECIFICATION.md:970): the refresh is inside the branch for a
  launch that finds links (sandy:14838-14870), so when the last one is removed the
  list stays, and the link made again is mounted without a question.

Met while modelling, visible in the models, without a run of their own:

- Two sessions can run in one workspace unreported after a put-back that meets a
  third launch (sandy:2791-2796), and a release misses a lock that a reaper has
  displaced for a moment (2784-2787): `forfeited` in `SessionMutex` and the guard
  `raced` of `MutualExclusion` mark exactly these.
- "remove a stale lock WITHOUT ever removing a live one" (2760): a put-back that nests
  a displaced live lock in a newer one "is detected and undone" (2800-2801), but if the
  newer lock's launch is killed and another reaper renames that lock before the undo,
  its `rm -rf "$_m"` (2823) takes the live lock along.  With three launches and two
  reapers TLC finds this after 26 steps when `ReaperSparesTheLiving` is asked without its
  `~raced`.  What holds: the lock the reaper looked at names an ended process in every
  case, those nested in it as long as no rename raced.
- `--gc` takes a daemon whose session comes up slowly for a zombie (3180-3183), and
  works off its list by name (3339-3345).  `--start` does the same after five probes
  (12205-12217).
- "copies bytes in both directions between two connections until either side closes, then
  closes both" (splice.go:20-21): one end's close does not end a splice, which keeps its
  slot until the other ends too; and `Write` (26) has no deadline, so that a peer which has
  ended its own stream but does not read keeps the splice and its slot for as long as it
  likes (`StallOut`, `StallIn`, `Lost`), whatever the other peer does.
- "not if it's an unbracketed IPv6" (sni.go:166-167): what follows the last colon of an
  unbracketed host is taken off whatever it is, so `::a` becomes `:`.
- "Bound the handshake body to the record length" (sni.go:51): the record's length is
  read, but the cursor of the hello is not bounded by it.  A hello split over several
  records is read across the next record's header.
- "no other launch, and no container of this sandbox, is using any of it"
  (sandy:15875-15876): the container of a launch that was killed may still be about to
  move the files swept here.  Its agent is then not prepared, or, restarted, keeps what it
  has; `AgentIsPrepared` speaks of agents whose launch holds the lock.
- "THE RULE" at the head of the handoff (577-578) has an exception: a copy that cannot be
  made leaves the launch writing the target itself (`BeginFails`; `live` in the
  property).
- The same copy, when its `cat` fails half way, is not removed (617: the redirect has
  created the file, `return 1` leaves it).  `_sandy_stage_commit` (640-655) goes by the
  name, finds a file that differs from the target, and hands it over; the container moves
  the torn file onto the target the launch has written in the meantime.  The agent starts
  with an empty or truncated file, and what agents had added is gone.  The gemini merge
  (18643) finds it by its name, too, and merges into it afresh.  `AgentIsPrepared` and
  `NotesAreKept` except exactly this (`t \in live` with a torn file; `failed`).
- "Guard against a transient `docker exec` hiccup: only break when has-session fails on TWO
  consecutive polls AND the container is still running" (21507-21511): if the `docker
  inspect` of the same poll fails too, its `|| echo false` (21524) reads as a container that
  is gone, and one poll ends a live session.  The same at 12513 makes `--attach` report the
  end (0) of a session that lives, against 12517-12519.  `LiveIsNotCalledEnded` says what
  holds: it takes two wrong answers in a row.
- The half-close of `splice` is hidden by `prefixConn` (splice.go:27-28); the health
  probe is answered by the kernel's backlog (healthcheck.go:40); the forward listener
  is not logged (egresslog.go:6-8).
- The comment at 12335-12337 says that the supervisor has cleaned up by the time it
  writes the marker; `_sandy_daemon_fatal; exit 1` writes it first.  A marker written
  before the client's `rm -f` (12339, after the spawn) is lost.
- A start that fails tears down the container it saw last, another start's too; one
  that times out before there is a container leaves its supervisor at work.
- `--stop` reads the label that leads to the stale lock after it has removed the
  container (12584, 12596): the lock is reaped only if the removal failed.

- The advice for a new link, "delete the symlink, relaunch sandy, re-create it, and
  re-approve" (14861-14862), leads to the same refusal: there is a question only
  while there is no list.
- The flag of a `.sandy/` that a session created is removed by the answer about the
  content that was judged (14668-14671), though `.sandy/` may hold another by then;
  the next prompt speaks of a change since the approval only.
- A killed session that created a `.sandy/` without a Dockerfile leaves no record: the
  gate that would read its snapshot is not reached, and the sweep (18271) removes it.
  A launch killed between 19862 and the entry for `.sandy/` leaves a snapshot that
  flags a directory which was there.
- A launch killed between the build of the project image and the write of its hash
  (17782) leaves an image that an older hash calls up to date when the context is
  changed back.

## 6. Plan

Done, in this order: the lock and its proof, the session resources, the proxy's
connections and their proof, the policy and its proof, the daemon sessions and their
proof, the launch approvals and their proof, the host names and their proof, the allow
list's construction, the handoff staging and its proof, the proof about the session
resources, the proof of what the host name parsers compute, the streams as pipes.

Next, each with a run and mutants:

1. **ImageCache** - rebuild decisions over a history of edits and updates; abstract
   specification: an image is current for its inputs.
2. **SandboxLifecycle** - classify, reset, remove, rekey under the lock, repeated
   after a crash.
3. **UpdateSessions** - restarts with resumption, partial failure.
4. What the record and the snapshot of `LaunchApprovals`, which no property speaks of
   yet, promise.

## 7. What is not modelled

Components with status `not_modelled` in `PROJECT.json` give their reason: planned above,
sequential text and file generation (entrypoints, reports), external services (OAuth, chat
relay, downloads).  Inside modelled components: the single-network topology without a
proxy, the image tiers of `--gc`, IPv6 in the policy, the characters `normalizeHost`
rejects, the case of names, pids reused by another launch's networks, a restart of dockerd
alone; of the daemon sessions the status file of named sessions (exit 9 is a choice), a
failing `docker rm` in a failed start or in `cleanup()`, a failing `docker ps` (12194,
12364, 12477, 12537 and 12560 have `|| true`: the failure reads as "no container", so that
at 12560 `--stop` may report 0 for a daemon that still runs), a `docker inspect` of the
label that fails in `--stop` (12543; it then stops the container itself), and a
supervisor's pid given to another process; of the approvals the composition of
`SANDY_EXTRA_ENV`, the passive keys, the `--approvals` report, and the review text, which
is read from the Dockerfile after its hash; of the host names the bytes of a hello between
its fixed fields; of the handoff the one-time move of a legacy `.claude.json`
(18311-18326), a move that fails in the container, a merge that fails for one launch only
(a host settings.json that jq does not parse leaves the copy as it was), and the markers
of resumed sessions.
