-------------------------- MODULE LaunchApprovals --------------------------
(***************************************************************************)
(* The three questions a launch asks before it trusts a workspace          *)
(* (src/sandy): may the workspace's config set privileged keys, may its    *)
(* .sandy/Dockerfile be built, may links that leave it be mounted.  Each   *)
(* answer is kept in a file and bound to what was asked about; everything  *)
(* asked about lies in the workspace, where the operator, other programs   *)
(* and the agent of a running session edit it at any time.                 *)
(*                                                                         *)
(* Two processes come to the questions: the pre-pass that `sandy --start`  *)
(* runs on the client's terminal, before any lock is taken, and the        *)
(* launch that holds the workspace lock, in the foreground or as the       *)
(* supervisor.  A hash is modelled by the content it is the hash of.       *)
(***************************************************************************)
EXTENDS Naturals

CONSTANTS
    Contexts,        \* what .sandy/ can hold beside config and .secrets
    Buildable,       \* the contexts whose Dockerfile is a regular file
    Linked,          \* the contexts whose Dockerfile is a symlink
    Keys, Values,    \* of privileged KEY=VALUE entries
    HomeLinks,       \* links to targets under $HOME, outside the workspace
    ProtectedLinks,  \* links at a protected path to targets elsewhere
    None,
    MaxEdits,        \* bound on edits of the workspace and on revocations
    MaxLaunches      \* bound on launches and on pre-passes

ASSUME ContextAssumption ==
    /\ Buildable \subseteq Contexts
    /\ Linked \subseteq Contexts \ Buildable
    /\ None \notin Contexts
ASSUME NoneAssumption ==
    \A s \in (SUBSET (Keys \X Values)) \cup (SUBSET (HomeLinks \cup ProtectedLinks)) : s # None
ASSUME BoundAssumption == MaxEdits \in Nat /\ MaxLaunches \in Nat

VARIABLES
    context,         \* the content of .sandy/, None when there is no .sandy/
    config,          \* the privileged entries of .sandy/config and .secrets
    links,           \* the links of the workspace that leave it
    keysList,        \* approvals/passive-<workspace>.list, first line
    contextList,     \* approvals/dockerfile-<workspace>.list, first line
    linksList,       \* .sandy-approved-symlinks.list
    record,          \* approvals/dockerfile-<workspace>.session-created
    snapshot,        \* .protected-existed-at-launch: does it list .sandy?
    image,           \* what sandy-project-<sandbox> was built from
    imageHash,       \* .project_build_hash
    run,             \* the processes
    said,            \* history: what the operator said yes to
    edits, launches

workspace == <<context, config, links>>
lists == <<keysList, contextList, linksList>>
build == <<image, imageHash>>
bounds == <<edits, launches>>
vars == <<workspace, lists, record, snapshot, build, run, said, bounds>>

Entries == Keys \X Values
Links == HomeLinks \cup ProtectedLinks
Processes == {"client", "launch"}
Modes == {"asks", "headless", "no_tty"}
HasDockerfile(c) == c \in Buildable \cup Linked

Idle == [step |-> "idle", mode |-> "asks", auto |-> FALSE, env |-> {},
         pending |-> {}, keys |-> {}, judged |-> None, declined |-> None,
         hash |-> None, layer |-> FALSE, found |-> {}, mounted |-> {}]

At(p, step) == run[p].step = step
\* the process p goes on with the step `step`
Goes(p, step) == run' = [run EXCEPT ![p].step = step]
Exits(p) == run' = [run EXCEPT ![p] = Idle]
\* p goes on with `step` and what `r` says
GoesWith(p, step, r) == run' = [run EXCEPT ![p] = [r EXCEPT !.step = step]]

\* there is nobody to answer a question on the terminal
Headless(p) == run[p].mode # "asks"

(***************************************************************************)
(* The workspace is edited: by anybody while no session runs, and by the   *)
(* agent too while one does.  A config is a file in .sandy/.               *)
(***************************************************************************)
EditSandyDir ==
    \E c \in Contexts \cup {None}, e \in SUBSET Entries :
        /\ c = None => e = {}
        /\ <<c, e>> # <<context, config>>
        /\ context' = c
        /\ config' = e
        /\ UNCHANGED links

EditLinks ==
    \E l \in Links :
        /\ links' = IF l \in links THEN links \ {l} ELSE links \cup {l}
        /\ UNCHANGED <<context, config>>

Edit ==
    /\ edits < MaxEdits
    /\ edits' = edits + 1
    /\ EditSandyDir \/ EditLinks
    /\ UNCHANGED <<lists, record, snapshot, build, run, said, launches>>

(***************************************************************************)
(* The config is read, once, into memory.  A key set in the environment    *)
(* is skipped; the others are pending until approved as one set.           *)
(***************************************************************************)
Pending(env) == {e \in config : e[1] \notin env}

Start(p) ==
    /\ At(p, "idle")
    /\ launches < MaxLaunches
    /\ launches' = launches + 1
    /\ \E mode \in Modes, auto \in BOOLEAN, env \in SUBSET Keys :
        /\ p = "client" => mode = "asks"
        /\ GoesWith(p, "keys", [Idle EXCEPT !.mode = mode, !.auto = auto, !.env = env,
                                           !.pending = Pending(env)])
    /\ UNCHANGED <<workspace, lists, record, snapshot, build, said, edits>>

\* after the keys the pre-pass judges the links, the launch the Dockerfile
AfterKeys(p) == IF p = "client" THEN "links" ELSE "context"

\* a bug: the approval is bound to the names of the keys
MutantListed(list, set) ==
    list # None /\ {e[1] : e \in list} = {e[1] : e \in set}

\* the stored approval is of exactly this set of entries
Listed(list, set) == list = set

\* the pending keys are granted without a question, or dropped
KeysGate(p) ==
    /\ At(p, "keys")
    /\ LET r == run[p]
           granted == r.auto \/ Listed(keysList, r.pending)
       IN  /\ r.pending = {} \/ granted \/ Headless(p)
           /\ GoesWith(p, AfterKeys(p),
                       IF granted THEN [r EXCEPT !.keys = r.pending] ELSE r)
    /\ UNCHANGED <<workspace, lists, record, snapshot, build, said, bounds>>

AskKeys(p) ==
    /\ At(p, "keys")
    /\ run[p].pending # {}
    /\ ~run[p].auto
    /\ ~Listed(keysList, run[p].pending)
    /\ ~Headless(p)
    /\ Goes(p, "ask_keys")
    /\ UNCHANGED <<workspace, lists, record, snapshot, build, said, bounds>>

AnswerKeys(p) ==
    /\ At(p, "ask_keys")
    /\ \/ /\ keysList' = run[p].pending
          /\ said' = [said EXCEPT !.keys = @ \cup {run[p].pending}]
          /\ GoesWith(p, AfterKeys(p), [run[p] EXCEPT !.keys = run[p].pending])
       \/ /\ Goes(p, AfterKeys(p))
          /\ UNCHANGED <<keysList, said>>
    /\ UNCHANGED <<workspace, contextList, linksList, record, snapshot, build, bounds>>

(***************************************************************************)
(* The Dockerfile is judged by the whole context.  An approved context     *)
(* clears the flag of a directory that a session created; otherwise the    *)
(* snapshot a killed session left behind, or a live one holds, is read     *)
(* before the launch deletes it.  The pre-pass goes on with the exit, the  *)
(* launch with the build or, without the layer, with the links.            *)
(***************************************************************************)
Yes(p) == IF p = "client" THEN "spawn" ELSE "hash"
No(p) == IF p = "client" THEN "spawn" ELSE "sweep"

\* the record after somebody looked whether .sandy/ appeared in the session
Noted == IF snapshot = "without" /\ context # None THEN context ELSE record

NoDockerfile(p) ==
    /\ At(p, "context")
    /\ ~HasDockerfile(context)
    /\ Goes(p, No(p))
    /\ UNCHANGED <<workspace, lists, record, snapshot, build, said, bounds>>

ApprovedContext(p) ==
    /\ At(p, "context")
    /\ HasDockerfile(context)
    /\ contextList = context
    /\ record' = None
    /\ GoesWith(p, Yes(p), [run[p] EXCEPT !.judged = context])
    /\ UNCHANGED <<workspace, lists, snapshot, build, said, bounds>>

AutoContext(p) ==
    /\ At(p, "context")
    /\ HasDockerfile(context)
    /\ contextList # context
    /\ run[p].auto
    /\ record' = Noted
    /\ said' = [said EXCEPT !.contexts = @ \cup {context}]
    /\ GoesWith(p, Yes(p), [run[p] EXCEPT !.judged = context])
    /\ UNCHANGED <<workspace, lists, snapshot, build, bounds>>

\* declined in the pre-pass, or nobody to ask: the base image is used
SkipContext(p) ==
    /\ At(p, "context")
    /\ HasDockerfile(context)
    /\ contextList # context
    /\ ~run[p].auto
    /\ Headless(p) \/ run[p].declined = context
    /\ record' = Noted
    /\ GoesWith(p, No(p), [run[p] EXCEPT !.judged = context])
    /\ UNCHANGED <<workspace, lists, snapshot, build, said, bounds>>

AskContext(p) ==
    /\ At(p, "context")
    /\ HasDockerfile(context)
    /\ contextList # context
    /\ ~run[p].auto
    /\ ~Headless(p)
    /\ run[p].declined # context
    /\ record' = Noted
    /\ GoesWith(p, "ask_context", [run[p] EXCEPT !.judged = context])
    /\ UNCHANGED <<workspace, lists, snapshot, build, said, bounds>>

\* the answer is about what was judged, whatever .sandy/ holds by now
AnswerContext(p) ==
    /\ At(p, "ask_context")
    /\ \/ /\ contextList' = run[p].judged
          /\ record' = None
          /\ said' = [said EXCEPT !.contexts = @ \cup {run[p].judged}]
          /\ Goes(p, Yes(p))
       \/ /\ GoesWith(p, No(p), [run[p] EXCEPT !.declined =
                                     IF p = "client" THEN run[p].judged ELSE @])
          /\ UNCHANGED <<contextList, record, said>>
    /\ UNCHANGED <<workspace, keysList, linksList, snapshot, build, bounds>>

(***************************************************************************)
(* The project image.  It is fresh when the stored hash is the one of the  *)
(* context read now; a changed parent image, a rebuild in this launch or   *)
(* an unknown image force a build.  The build gets a staged copy, refused  *)
(* when it is not what was judged.  Without the network an image that      *)
(* exists is used as it is.                                                *)
(***************************************************************************)
HashContext ==
    /\ At("launch", "hash")
    /\ \E forced \in BOOLEAN :
         LET fresh == imageHash = context /\ image # None /\ ~forced
         IN  GoesWith("launch", IF fresh THEN "sweep" ELSE "stage",
                      [run["launch"] EXCEPT !.hash = context, !.layer = fresh])
    /\ UNCHANGED <<workspace, lists, record, snapshot, build, said, bounds>>

SkipBuild ==
    /\ At("launch", "stage")
    /\ IF image # None THEN GoesWith("launch", "sweep", [run["launch"] EXCEPT !.layer = TRUE])
                       ELSE Exits("launch")
    /\ UNCHANGED <<workspace, lists, record, snapshot, build, said, bounds>>

\* a bug: what is staged is not compared with what was judged
MutantStageable(c, judged) == c \in Buildable

\* what is staged hashes to what was judged
Stageable(c, judged) == c \in Buildable /\ c = judged

RefuseStage ==
    /\ At("launch", "stage")
    /\ ~Stageable(context, run["launch"].judged)
    /\ Exits("launch")
    /\ UNCHANGED <<workspace, lists, record, snapshot, build, said, bounds>>

\* staged and built; nothing else reads the image before its hash is saved
Build ==
    /\ At("launch", "stage")
    /\ Stageable(context, run["launch"].judged)
    /\ \/ image' = context /\ Goes("launch", "save")
       \/ image' = image /\ Exits("launch")
    /\ UNCHANGED <<workspace, lists, record, snapshot, imageHash, said, bounds>>

SaveHash ==
    /\ At("launch", "save")
    /\ imageHash' = run["launch"].hash
    /\ GoesWith("launch", "sweep", [run["launch"] EXCEPT !.layer = TRUE])
    /\ UNCHANGED <<workspace, lists, record, snapshot, image, said, bounds>>

\* the cleanup trap is armed and what a killed session left is removed
Sweep ==
    /\ At("launch", "sweep")
    /\ snapshot' = None
    /\ Goes("launch", "links")
    /\ UNCHANGED <<workspace, lists, record, build, said, bounds>>

(***************************************************************************)
(* The links that leave the workspace are approved one by one, but asked   *)
(* about only while there is no list: a link the list does not have is     *)
(* refused.  A launch with links cuts the list down to them.               *)
(***************************************************************************)
AfterLinks(p) == IF p = "client" THEN "context" ELSE "truncate"

\* p goes on; the targets of the links it found are mounted
Mounts(p, found) ==
    GoesWith(p, AfterLinks(p), [run[p] EXCEPT !.found = found,
                                              !.mounted = found \cap HomeLinks])

NoLinks(p) ==
    /\ At(p, "links")
    /\ links = {}
    /\ Mounts(p, {})
    /\ UNCHANGED <<workspace, lists, record, snapshot, build, said, bounds>>

\* a bug: a list, whatever it holds, lets the launch go on
MutantNoneNew(list) == list # None

\* no link is new since the approval
NoneNew(list) == list # None /\ links \subseteq list

ApprovedLinks(p) ==
    /\ At(p, "links")
    /\ links # {}
    /\ NoneNew(linksList)
    /\ linksList' = links
    /\ Mounts(p, links)
    /\ UNCHANGED <<workspace, keysList, contextList, record, snapshot, build, said, bounds>>

RefuseLinks(p) ==
    /\ At(p, "links")
    /\ links # {}
    /\ ~NoneNew(linksList)
    /\ linksList # None \/ run[p].mode = "no_tty"
    /\ Exits(p)
    /\ UNCHANGED <<workspace, lists, record, snapshot, build, said, bounds>>

AskLinks(p) ==
    /\ At(p, "links")
    /\ links # {}
    /\ linksList = None
    /\ run[p].mode # "no_tty"
    /\ GoesWith(p, "ask_links", [run[p] EXCEPT !.found = links])
    /\ UNCHANGED <<workspace, lists, record, snapshot, build, said, bounds>>

AnswerLinks(p) ==
    /\ At(p, "ask_links")
    /\ \/ /\ linksList' = run[p].found
          /\ said' = [said EXCEPT !.links = @ \cup run[p].found]
          /\ Mounts(p, run[p].found)
       \/ Exits(p) /\ UNCHANGED <<linksList, said>>
    /\ UNCHANGED <<workspace, keysList, contextList, record, snapshot, build, bounds>>

(***************************************************************************)
(* The session.  Its snapshot is emptied and then written; the cleanup     *)
(* compares it with the workspace, a kill leaves it behind.                *)
(***************************************************************************)
TruncateSnapshot ==
    /\ At("launch", "truncate")
    /\ snapshot' = "without"
    /\ Goes("launch", "write")
    /\ UNCHANGED <<workspace, lists, record, build, said, bounds>>

WriteSnapshot ==
    /\ At("launch", "write")
    /\ snapshot' = IF context # None THEN "with" ELSE "without"
    /\ Goes("launch", "running")
    /\ UNCHANGED <<workspace, lists, record, build, said, bounds>>

EndSession ==
    /\ run["launch"].step \in {"links", "ask_links", "truncate", "write", "running"}
    /\ record' = Noted
    /\ snapshot' = None
    /\ Exits("launch")
    /\ UNCHANGED <<workspace, lists, build, said, bounds>>

Kill(p) ==
    /\ ~At(p, "idle")
    /\ Exits(p)
    /\ UNCHANGED <<workspace, lists, record, snapshot, build, said, bounds>>

\* the pre-pass is done: the supervisor starts, and ends if the lock is taken
Spawn ==
    /\ At("client", "spawn")
    /\ LET c == run["client"]
           supervisor == [Idle EXCEPT !.step = "keys", !.mode = "no_tty", !.auto = c.auto,
                              !.declined = c.declined, !.env = c.env,
                              !.pending = Pending(c.env)]
       IN  run' = [run EXCEPT !["client"] = Idle,
                              !["launch"] = IF At("launch", "idle") THEN supervisor ELSE @]
    /\ UNCHANGED <<workspace, lists, record, snapshot, build, said, bounds>>

(***************************************************************************)
(* The operator takes approvals back.  A list can be removed at any time;  *)
(* --reset-sandbox and --remove-sandbox refuse while a session runs.       *)
(***************************************************************************)
RevokeKeys ==
    /\ keysList' = None
    /\ said' = [said EXCEPT !.keys = {}]
    /\ UNCHANGED <<contextList, linksList, record, snapshot, imageHash>>

RevokeContext ==
    /\ contextList' = None
    /\ UNCHANGED <<keysList, linksList, record, snapshot, imageHash, said>>

RevokeLinks ==
    /\ linksList' = None
    /\ said' = [said EXCEPT !.links = {}]
    /\ UNCHANGED <<keysList, contextList, record, snapshot, imageHash>>

ResetSandbox ==
    /\ At("launch", "idle")
    /\ \/ UNCHANGED <<linksList, said>>
       \/ linksList' = None /\ said' = [said EXCEPT !.links = {}]
    /\ snapshot' = None
    /\ imageHash' = None
    /\ UNCHANGED <<keysList, contextList, record>>

RemoveSandbox ==
    /\ At("launch", "idle")
    /\ keysList' = None /\ contextList' = None /\ linksList' = None
    /\ said' = [said EXCEPT !.keys = {}, !.links = {}]
    /\ record' = None
    /\ snapshot' = None
    /\ imageHash' = None

Revoke ==
    /\ edits < MaxEdits
    /\ edits' = edits + 1
    /\ RevokeKeys \/ RevokeContext \/ RevokeLinks \/ ResetSandbox \/ RemoveSandbox
    /\ UNCHANGED <<workspace, image, run, launches>>
-----------------------------------------------------------------------------
Init ==
    /\ context \in Contexts \cup {None}
    /\ config \in {e \in SUBSET Entries : context = None => e = {}}
    /\ links \in SUBSET Links
    /\ keysList = None /\ contextList = None /\ linksList = None
    /\ record = None /\ snapshot = None
    /\ image = None /\ imageHash = None
    /\ run = [p \in Processes |-> Idle]
    /\ said = [keys |-> {}, contexts |-> {}, links |-> {}]
    /\ edits = 0 /\ launches = 0

AskAboutKeys(p) == KeysGate(p) \/ AskKeys(p) \/ AnswerKeys(p)
AskAboutContext(p) ==
    \/ NoDockerfile(p) \/ ApprovedContext(p) \/ AutoContext(p)
    \/ SkipContext(p) \/ AskContext(p) \/ AnswerContext(p)
AskAboutLinks(p) ==
    \/ NoLinks(p) \/ ApprovedLinks(p) \/ RefuseLinks(p)
    \/ AskLinks(p) \/ AnswerLinks(p)
BuildImage == HashContext \/ SkipBuild \/ RefuseStage \/ Build \/ SaveHash
Session == Sweep \/ TruncateSnapshot \/ WriteSnapshot \/ EndSession

Next ==
    \/ Edit \/ Revoke
    \/ \E p \in Processes :
         Start(p) \/ AskAboutKeys(p) \/ AskAboutContext(p) \/ AskAboutLinks(p) \/ Kill(p)
    \/ BuildImage \/ Session \/ Spawn

Spec == Init /\ [][Next]_vars
-----------------------------------------------------------------------------
Steps == {"idle", "keys", "ask_keys", "context", "ask_context", "hash", "stage", "save",
          "sweep", "links", "ask_links", "truncate", "write", "running", "spawn"}
Runs == [step : Steps, mode : Modes, auto : BOOLEAN, env : SUBSET Keys,
         pending : SUBSET Entries, keys : SUBSET Entries, judged : Contexts \cup {None},
         declined : Contexts \cup {None}, hash : Contexts \cup {None},
         layer : BOOLEAN, found : SUBSET Links, mounted : SUBSET HomeLinks]

Answers == [keys : SUBSET SUBSET Entries, contexts : SUBSET Contexts, links : SUBSET Links]

\* Every variable has its type; the counters keep to their bounds.
TypeOK ==
    /\ context \in Contexts \cup {None}
    /\ config \in SUBSET Entries
    /\ links \in SUBSET Links
    /\ keysList \in (SUBSET Entries) \cup {None}
    /\ contextList \in Contexts \cup {None}
    /\ linksList \in (SUBSET Links) \cup {None}
    /\ record \in Contexts \cup {None}
    /\ snapshot \in {"with", "without", None}
    /\ image \in Contexts \cup {None}
    /\ imageHash \in Contexts \cup {None}
    /\ run \in [Processes -> Runs]
    /\ said \in Answers
    /\ edits \in 0 .. MaxEdits
    /\ launches \in 0 .. MaxLaunches

\* The project image was built from content the operator had said yes to,
\* at a prompt of this or an earlier launch or by the environment, whatever
\* happened to .sandy/ between the judgement, the answer, the hash that
\* decides about the rebuild and the staging; and a launch that says it
\* runs the layer has an image.
ImageIsReviewed ==
    /\ image # None => image \in said.contexts
    /\ run["launch"].layer => image # None

\* Privileged entries of the workspace reach a launch only as the exact set
\* the operator approved since the approval was last removed, or by the
\* environment: not a changed value, nor a part or a mix of approved sets.
KeysAreGranted ==
    [][\A p \in Processes :
         run'[p].keys \notin {run[p].keys, {}}
           => run'[p].auto \/ run'[p].keys \in said'.keys]_vars

\* A target outside the workspace is mounted only through a link the
\* operator said yes to since the list was last removed, whoever scanned
\* the workspace for that question and however it changed since.
LinksAreGranted ==
    [][\A p \in Processes :
         run'[p].mounted # run[p].mounted => run'[p].mounted \subseteq said'.links]_vars

\* After the links are judged the list says nothing about a link that is
\* not there ("Removed entries are pruned from the list silently").
RemovedLinksArePruned ==
    [][\A p \in Processes :
         At(p, "links") /\ run'[p].step = AfterLinks(p) => linksList' \in {None, links}]_vars
============================================================================
