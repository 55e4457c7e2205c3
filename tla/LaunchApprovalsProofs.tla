---------------------- MODULE LaunchApprovalsProofs ----------------------
(***************************************************************************)
(* Proofs about LaunchApprovals.  What a list says was said by the         *)
(* operator, and so was what a launch judged and goes on to build; every   *)
(* step keeps that, and what a step grants follows from it.                *)
(***************************************************************************)
EXTENDS LaunchApprovals, TLAPS

\* each stored approval is of something the operator said yes to
ListsAreSaid ==
    /\ keysList # None => keysList \in said.keys
    /\ contextList # None => contextList \in said.contexts
    /\ linksList # None => linksList \subseteq said.links

\* so is what the launch judged, from the yes to the end of the build
JudgedIsSaid ==
    run["launch"].step \in {"hash", "stage", "save"} => run["launch"].judged \in said.contexts

\* a question is about something
AskedIsJudged ==
    \A p \in Processes : run[p].step = "ask_context" => run[p].judged \in Contexts

SavedIsBuilt == run["launch"].step = "save" => image # None

IInv ==
    /\ TypeOK /\ ListsAreSaid /\ JudgedIsSaid /\ AskedIsJudged /\ SavedIsBuilt
    /\ ImageIsReviewed

\* A process that is not there is described as one.
LEMMA IdleIsRun == Idle \in Runs
  BY ContextAssumption DEF Idle, Runs, Steps, Modes

\* The initial states satisfy the invariant: nothing is approved, nothing built.
LEMMA InitInvariant == Init => IInv
<1> SUFFICES ASSUME Init PROVE IInv
  OBVIOUS
<1>2. run \in [Processes -> Runs]
  BY IdleIsRun DEF Init
<1>3. said \in Answers
  BY DEF Init, Answers
<1>4. edits \in 0 .. MaxEdits /\ launches \in 0 .. MaxLaunches
  BY BoundAssumption DEF Init
<1>5. config \in SUBSET Entries /\ context \in Contexts \cup {None} /\ links \in SUBSET Links
  BY DEF Init
<1>6. TypeOK
  BY <1>2, <1>3, <1>4, <1>5 DEF Init, TypeOK
<1>7. ListsAreSaid /\ JudgedIsSaid /\ AskedIsJudged /\ SavedIsBuilt /\ ImageIsReviewed
  BY DEF Init, Idle, ListsAreSaid, JudgedIsSaid, AskedIsJudged, SavedIsBuilt,
     ImageIsReviewed, Processes
<1> QED  BY <1>6, <1>7 DEF IInv

\* A process that goes on changes its own record only.
LEMMA Moved ==
    ASSUME TypeOK, NEW p \in Processes, NEW r \in Runs, NEW s \in Steps, GoesWith(p, s, r)
    PROVE  /\ run' \in [Processes -> Runs]
           /\ run'[p].step = s
           /\ run'[p].judged = r.judged
           /\ run'[p].layer = r.layer
           /\ \A q \in Processes : q # p => run'[q] = run[q]
<1>1. [r EXCEPT !.step = s] \in Runs
  BY DEF Runs
<1>2. run' = [run EXCEPT ![p] = [r EXCEPT !.step = s]]
  BY DEF GoesWith
<1> QED  BY <1>1, <1>2 DEF TypeOK, Runs

\* A process that exits leaves the others as they are.
LEMMA Left ==
    ASSUME TypeOK, NEW p \in Processes, Exits(p)
    PROVE  /\ run' \in [Processes -> Runs]
           /\ run'[p].step = "idle" /\ ~run'[p].layer
           /\ \A q \in Processes : q # p => run'[q] = run[q]
  BY IdleIsRun DEF Exits, TypeOK, Idle

\* Deciding about the keys without a question changes no list.
LEMMA KeysGateKeeps ==
    ASSUME IInv, NEW p \in Processes, KeysGate(p)
    PROVE  IInv'
  BY ContextAssumption, BoundAssumption DEF KeysGate, AfterKeys, Listed, Headless,
     Goes, GoesWith, Exits, At, Idle, Runs, Steps, Modes, Processes, Entries, Links,
     workspace, lists, build, bounds, IInv, TypeOK, ListsAreSaid, JudgedIsSaid,
     AskedIsJudged, SavedIsBuilt, ImageIsReviewed

\* Asking about the keys only moves the process.
LEMMA AskKeysKeeps ==
    ASSUME IInv, NEW p \in Processes, AskKeys(p)
    PROVE  IInv'
  BY ContextAssumption, BoundAssumption DEF AskKeys, Listed, Headless, Goes, GoesWith,
     Exits, At, Idle, Runs, Steps, Modes, Processes, Entries, Links, workspace, lists,
     build, bounds, IInv, TypeOK, ListsAreSaid, JudgedIsSaid, AskedIsJudged,
     SavedIsBuilt, ImageIsReviewed

\* A yes to the keys is remembered with the list.
LEMMA AnswerKeysKeeps ==
    ASSUME IInv, NEW p \in Processes, AnswerKeys(p)
    PROVE  IInv'
<1>1. /\ run[p] \in Runs
      /\ said \in Answers
  BY DEF IInv, TypeOK
<1>2. CASE Goes(p, AfterKeys(p)) /\ UNCHANGED <<keysList, said>>
  BY <1>2, ContextAssumption DEF AnswerKeys, AfterKeys, Goes, GoesWith, Exits, At,
     Idle, Runs, Steps, Modes, Processes, Entries, Links, workspace, lists, build,
     bounds, IInv, TypeOK, ListsAreSaid, JudgedIsSaid, AskedIsJudged, SavedIsBuilt,
     ImageIsReviewed
<1>3. CASE /\ keysList' = run[p].pending
           /\ said' = [said EXCEPT !.keys = @ \cup {run[p].pending}]
           /\ GoesWith(p, AfterKeys(p), [run[p] EXCEPT !.keys = run[p].pending])
  <2> DEFINE r == [run[p] EXCEPT !.keys = run[p].pending]
  <2>1. r \in Runs /\ r.judged = run[p].judged /\ r.layer = run[p].layer
    BY <1>1 DEF Runs
  <2>2. AfterKeys(p) \in Steps
    BY DEF AfterKeys, Steps
  <2>3. GoesWith(p, AfterKeys(p), r)
    BY <1>3
  <2> HIDE DEF r
  <2>4. /\ run' \in [Processes -> Runs]
        /\ run'[p].step = AfterKeys(p)
        /\ run'[p].judged = r.judged
        /\ run'[p].layer = r.layer
        /\ \A q \in Processes : q # p => run'[q] = run[q]
    BY <2>1, <2>2, <2>3, Moved DEF IInv
  <2>5. /\ run[p].pending \in SUBSET Entries
        /\ said' \in Answers
        /\ said'.keys = said.keys \cup {run[p].pending}
        /\ said'.contexts = said.contexts /\ said'.links = said.links
    BY <1>1, <1>3 DEF Runs, Answers
  <2>6. TypeOK'
    BY <1>3, <2>4, <2>5 DEF AnswerKeys, workspace, build, bounds, IInv, TypeOK
  <2>7. (ListsAreSaid /\ JudgedIsSaid /\ AskedIsJudged /\ SavedIsBuilt /\ ImageIsReviewed)'
    BY <1>3, <2>1, <2>4, <2>5 DEF AnswerKeys, AfterKeys, Processes, workspace, build,
       bounds,
       IInv, ListsAreSaid, JudgedIsSaid, AskedIsJudged, SavedIsBuilt, ImageIsReviewed
  <2> QED  BY <2>6, <2>7 DEF IInv
<1> QED  BY <1>2, <1>3 DEF AnswerKeys

\* Nothing to judge: only the step changes.
LEMMA NoDockerfileKeeps ==
    ASSUME IInv, NEW p \in Processes, NoDockerfile(p)
    PROVE  IInv'
  BY ContextAssumption, BoundAssumption DEF NoDockerfile, No, HasDockerfile, Goes,
     GoesWith, Exits, At, Idle, Runs, Steps, Modes, Processes, Entries, Links,
     workspace, lists, build, bounds, IInv, TypeOK, ListsAreSaid, JudgedIsSaid,
     AskedIsJudged, SavedIsBuilt, ImageIsReviewed

\* An approved context is judged because the operator said yes to it.
LEMMA ApprovedContextKeeps ==
    ASSUME IInv, NEW p \in Processes, ApprovedContext(p)
    PROVE  IInv'
<1> DEFINE r == [run[p] EXCEPT !.judged = context]
<1>1. run[p] \in Runs /\ context \in Contexts \cup {None} /\ links \subseteq Links
  BY DEF IInv, TypeOK
<1>2. r \in Runs /\ r.layer = run[p].layer /\ r.judged = context
  BY <1>1 DEF Runs
<1>3. Yes(p) \in Steps
  BY DEF Steps, Yes
<1>4. GoesWith(p, Yes(p), r)
  BY DEF ApprovedContext
<1> HIDE DEF r
<1>5. /\ run' \in [Processes -> Runs]
      /\ run'[p].step = Yes(p)
      /\ run'[p].judged = r.judged
      /\ run'[p].layer = r.layer
      /\ \A q \in Processes : q # p => run'[q] = run[q]
  BY <1>2, <1>3, <1>4, Moved DEF IInv
<1>6. TypeOK'
  BY <1>1, <1>5, ContextAssumption DEF ApprovedContext, Yes, HasDockerfile, workspace,
     lists, build, bounds, IInv, TypeOK
<1>7. (ListsAreSaid /\ JudgedIsSaid /\ AskedIsJudged /\ SavedIsBuilt /\ ImageIsReviewed)'
  BY <1>2, <1>5, ContextAssumption DEF ApprovedContext, Yes, HasDockerfile, At,
     Processes, workspace, lists, build, bounds, IInv, TypeOK, ListsAreSaid,
     JudgedIsSaid, AskedIsJudged, SavedIsBuilt, ImageIsReviewed
<1> QED  BY <1>6, <1>7 DEF IInv

\* The environment says yes to what is judged.
LEMMA AutoContextKeeps ==
    ASSUME IInv, NEW p \in Processes, AutoContext(p)
    PROVE  IInv'
<1> DEFINE r == [run[p] EXCEPT !.judged = context]
<1>1. run[p] \in Runs /\ context \in Contexts \cup {None} /\ links \subseteq Links
  BY DEF IInv, TypeOK
<1>2. r \in Runs /\ r.layer = run[p].layer /\ r.judged = context
  BY <1>1 DEF Runs
<1>3. Yes(p) \in Steps
  BY DEF Steps, Yes
<1>4. GoesWith(p, Yes(p), r)
  BY DEF AutoContext
<1> HIDE DEF r
<1>5. /\ run' \in [Processes -> Runs]
      /\ run'[p].step = Yes(p)
      /\ run'[p].judged = r.judged
      /\ run'[p].layer = r.layer
      /\ \A q \in Processes : q # p => run'[q] = run[q]
  BY <1>2, <1>3, <1>4, Moved DEF IInv
<1>6. /\ said' \in Answers
      /\ said'.contexts = said.contexts \cup {context}
      /\ said'.keys = said.keys /\ said'.links = said.links
  BY ContextAssumption DEF AutoContext, HasDockerfile, IInv, TypeOK, Answers
<1>7. TypeOK'
  BY <1>1, <1>5, <1>6, ContextAssumption DEF AutoContext, Yes, HasDockerfile, Noted,
     workspace, lists, build, bounds, IInv, TypeOK
<1>8. (ListsAreSaid /\ JudgedIsSaid /\ AskedIsJudged /\ SavedIsBuilt /\ ImageIsReviewed)'
  BY <1>2, <1>5, <1>6, ContextAssumption DEF AutoContext, Yes, HasDockerfile, Noted, At,
     Processes, workspace, lists, build, bounds, IInv, TypeOK, ListsAreSaid,
     JudgedIsSaid, AskedIsJudged, SavedIsBuilt, ImageIsReviewed
<1> QED  BY <1>7, <1>8 DEF IInv

\* A context that is skipped is judged but not built.
LEMMA SkipContextKeeps ==
    ASSUME IInv, NEW p \in Processes, SkipContext(p)
    PROVE  IInv'
<1> DEFINE r == [run[p] EXCEPT !.judged = context]
<1>1. run[p] \in Runs /\ context \in Contexts \cup {None} /\ links \subseteq Links
  BY DEF IInv, TypeOK
<1>2. r \in Runs /\ r.layer = run[p].layer /\ r.judged = context
  BY <1>1 DEF Runs
<1>3. No(p) \in Steps
  BY DEF Steps, No
<1>4. GoesWith(p, No(p), r)
  BY DEF SkipContext
<1> HIDE DEF r
<1>5. /\ run' \in [Processes -> Runs]
      /\ run'[p].step = No(p)
      /\ run'[p].judged = r.judged
      /\ run'[p].layer = r.layer
      /\ \A q \in Processes : q # p => run'[q] = run[q]
  BY <1>2, <1>3, <1>4, Moved DEF IInv
<1>6. TypeOK'
  BY <1>1, <1>5, ContextAssumption DEF SkipContext, No, HasDockerfile, Headless, Noted,
     workspace, lists, build, bounds, IInv, TypeOK
<1>7. (ListsAreSaid /\ JudgedIsSaid /\ AskedIsJudged /\ SavedIsBuilt /\ ImageIsReviewed)'
  BY <1>2, <1>5, ContextAssumption DEF SkipContext, No, HasDockerfile, Headless, Noted,
     At, Processes, workspace, lists, build, bounds, IInv, TypeOK, ListsAreSaid,
     JudgedIsSaid, AskedIsJudged, SavedIsBuilt, ImageIsReviewed
<1> QED  BY <1>6, <1>7 DEF IInv

\* The question is about the content read now.
LEMMA AskContextKeeps ==
    ASSUME IInv, NEW p \in Processes, AskContext(p)
    PROVE  IInv'
<1> DEFINE r == [run[p] EXCEPT !.judged = context]
<1>1. run[p] \in Runs /\ context \in Contexts \cup {None} /\ links \subseteq Links
  BY DEF IInv, TypeOK
<1>2. r \in Runs /\ r.layer = run[p].layer /\ r.judged = context
  BY <1>1 DEF Runs
<1>3. "ask_context" \in Steps
  BY DEF Steps
<1>4. GoesWith(p, "ask_context", r)
  BY DEF AskContext
<1> HIDE DEF r
<1>5. /\ run' \in [Processes -> Runs]
      /\ run'[p].step = "ask_context"
      /\ run'[p].judged = r.judged
      /\ run'[p].layer = r.layer
      /\ \A q \in Processes : q # p => run'[q] = run[q]
  BY <1>2, <1>3, <1>4, Moved DEF IInv
<1>6. TypeOK'
  BY <1>1, <1>5, ContextAssumption DEF AskContext, HasDockerfile, Headless, Noted,
     workspace, lists, build, bounds, IInv, TypeOK
<1>7. (ListsAreSaid /\ JudgedIsSaid /\ AskedIsJudged /\ SavedIsBuilt /\ ImageIsReviewed)'
  BY <1>2, <1>5, ContextAssumption DEF AskContext, HasDockerfile, Headless, Noted, At,
     Processes, workspace, lists, build, bounds, IInv, TypeOK, ListsAreSaid,
     JudgedIsSaid, AskedIsJudged, SavedIsBuilt, ImageIsReviewed
<1> QED  BY <1>6, <1>7 DEF IInv

\* A yes is to what was judged, which is what the launch goes on with.
LEMMA AnswerContextKeeps ==
    ASSUME IInv, NEW p \in Processes, AnswerContext(p)
    PROVE  IInv'
<1>1. /\ run[p] \in Runs
      /\ said \in Answers
      /\ run[p].judged \in Contexts \cup {None}
  BY DEF IInv, TypeOK, Runs
<1>2. CASE /\ contextList' = run[p].judged
           /\ record' = None
           /\ said' = [said EXCEPT !.contexts = @ \cup {run[p].judged}]
           /\ Goes(p, Yes(p))
  <2>1. run[p].judged \in Contexts
    BY <1>1 DEF AnswerContext, At, IInv, AskedIsJudged
  <2>2. GoesWith(p, Yes(p), run[p]) /\ Yes(p) \in Steps
    BY <1>2 DEF Goes, GoesWith, Yes, Steps, IInv, TypeOK
  <2>3. /\ run' \in [Processes -> Runs]
        /\ run'[p].step = Yes(p)
        /\ run'[p].judged = run[p].judged
        /\ run'[p].layer = run[p].layer
        /\ \A q \in Processes : q # p => run'[q] = run[q]
    BY <1>1, <2>2, Moved DEF IInv
  <2>4. /\ said' \in Answers
        /\ said'.contexts = said.contexts \cup {run[p].judged}
        /\ said'.keys = said.keys /\ said'.links = said.links
    BY <1>1, <1>2, <2>1 DEF Answers
  <2>5. TypeOK'
    BY <1>2, <2>1, <2>3, <2>4 DEF AnswerContext, workspace, build, bounds, IInv, TypeOK
  <2>6. (ListsAreSaid /\ JudgedIsSaid /\ AskedIsJudged /\ SavedIsBuilt /\ ImageIsReviewed)'
    BY <1>2, <2>3, <2>4 DEF AnswerContext, Yes, Processes, workspace, build, bounds,
       IInv, ListsAreSaid, JudgedIsSaid, AskedIsJudged, SavedIsBuilt, ImageIsReviewed
  <2> QED  BY <2>5, <2>6 DEF IInv
<1>3. CASE /\ GoesWith(p, No(p), [run[p] EXCEPT !.declined =
                                      IF p = "client" THEN run[p].judged ELSE @])
           /\ UNCHANGED <<contextList, record, said>>
  <2> DEFINE r == [run[p] EXCEPT !.declined = IF p = "client" THEN run[p].judged ELSE @]
  <2>1. r \in Runs /\ r.judged = run[p].judged /\ r.layer = run[p].layer
    BY <1>1 DEF Runs
  <2>2. GoesWith(p, No(p), r) /\ No(p) \in Steps
    BY <1>3 DEF No, Steps
  <2> HIDE DEF r
  <2>3. /\ run' \in [Processes -> Runs]
        /\ run'[p].step = No(p)
        /\ run'[p].judged = r.judged
        /\ run'[p].layer = r.layer
        /\ \A q \in Processes : q # p => run'[q] = run[q]
    BY <2>1, <2>2, Moved DEF IInv
  <2>4. TypeOK'
    BY <1>3, <2>3 DEF AnswerContext, workspace, build, bounds, IInv, TypeOK
  <2>5. (ListsAreSaid /\ JudgedIsSaid /\ AskedIsJudged /\ SavedIsBuilt /\ ImageIsReviewed)'
    BY <1>3, <2>1, <2>3 DEF AnswerContext, No, Processes, workspace, build, bounds,
       IInv, ListsAreSaid, JudgedIsSaid, AskedIsJudged, SavedIsBuilt, ImageIsReviewed
  <2> QED  BY <2>4, <2>5 DEF IInv
<1> QED  BY <1>2, <1>3 DEF AnswerContext

\* No links: only the process's own record changes.
LEMMA NoLinksKeeps ==
    ASSUME IInv, NEW p \in Processes, NoLinks(p)
    PROVE  IInv'
<1> DEFINE r == [run[p] EXCEPT !.found = {}, !.mounted = {} \cap HomeLinks]
<1>1. run[p] \in Runs /\ context \in Contexts \cup {None} /\ links \subseteq Links
  BY DEF IInv, TypeOK
<1>2. r \in Runs /\ r.layer = run[p].layer /\ r.judged = run[p].judged
  BY <1>1 DEF Runs
<1>3. AfterLinks(p) \in Steps
  BY DEF Steps, AfterLinks
<1>4. GoesWith(p, AfterLinks(p), r)
  BY DEF NoLinks, Mounts
<1> HIDE DEF r
<1>5. /\ run' \in [Processes -> Runs]
      /\ run'[p].step = AfterLinks(p)
      /\ run'[p].judged = r.judged
      /\ run'[p].layer = r.layer
      /\ \A q \in Processes : q # p => run'[q] = run[q]
  BY <1>2, <1>3, <1>4, Moved DEF IInv
<1>6. TypeOK'
  BY <1>1, <1>5, ContextAssumption DEF NoLinks, Mounts, AfterLinks, workspace, lists,
     build, bounds, IInv, TypeOK
<1>7. (ListsAreSaid /\ JudgedIsSaid /\ AskedIsJudged /\ SavedIsBuilt /\ ImageIsReviewed)'
  BY <1>2, <1>5, ContextAssumption DEF NoLinks, Mounts, AfterLinks, At, Processes,
     workspace, lists, build, bounds, IInv, TypeOK, ListsAreSaid, JudgedIsSaid,
     AskedIsJudged, SavedIsBuilt, ImageIsReviewed
<1> QED  BY <1>6, <1>7 DEF IInv

\* The list is cut down to links it already had.
LEMMA ApprovedLinksKeeps ==
    ASSUME IInv, NEW p \in Processes, ApprovedLinks(p)
    PROVE  IInv'
<1> DEFINE r == [run[p] EXCEPT !.found = links, !.mounted = links \cap HomeLinks]
<1>1. run[p] \in Runs /\ context \in Contexts \cup {None} /\ links \subseteq Links
  BY DEF IInv, TypeOK
<1>2. r \in Runs /\ r.layer = run[p].layer /\ r.judged = run[p].judged
  BY <1>1 DEF Runs
<1>3. AfterLinks(p) \in Steps
  BY DEF Steps, AfterLinks
<1>4. GoesWith(p, AfterLinks(p), r)
  BY DEF ApprovedLinks, Mounts
<1> HIDE DEF r
<1>5. /\ run' \in [Processes -> Runs]
      /\ run'[p].step = AfterLinks(p)
      /\ run'[p].judged = r.judged
      /\ run'[p].layer = r.layer
      /\ \A q \in Processes : q # p => run'[q] = run[q]
  BY <1>2, <1>3, <1>4, Moved DEF IInv
<1>6. TypeOK'
  BY <1>1, <1>5, ContextAssumption DEF ApprovedLinks, Mounts, AfterLinks, NoneNew,
     workspace, lists, build, bounds, IInv, TypeOK
<1>7. (ListsAreSaid /\ JudgedIsSaid /\ AskedIsJudged /\ SavedIsBuilt /\ ImageIsReviewed)'
  BY <1>2, <1>5, ContextAssumption DEF ApprovedLinks, Mounts, AfterLinks, NoneNew, At,
     Processes, workspace, lists, build, bounds, IInv, TypeOK, ListsAreSaid,
     JudgedIsSaid, AskedIsJudged, SavedIsBuilt, ImageIsReviewed
<1> QED  BY <1>6, <1>7 DEF IInv

\* A refused launch exits.
LEMMA RefuseLinksKeeps ==
    ASSUME IInv, NEW p \in Processes, RefuseLinks(p)
    PROVE  IInv'
  BY ContextAssumption, BoundAssumption DEF RefuseLinks, NoneNew, Goes, GoesWith,
     Exits, At, Idle, Runs, Steps, Modes, Processes, Entries, Links, workspace, lists,
     build, bounds, IInv, TypeOK, ListsAreSaid, JudgedIsSaid, AskedIsJudged,
     SavedIsBuilt, ImageIsReviewed

\* The question is about the links found now.
LEMMA AskLinksKeeps ==
    ASSUME IInv, NEW p \in Processes, AskLinks(p)
    PROVE  IInv'
<1> DEFINE r == [run[p] EXCEPT !.found = links]
<1>1. run[p] \in Runs /\ context \in Contexts \cup {None} /\ links \subseteq Links
  BY DEF IInv, TypeOK
<1>2. r \in Runs /\ r.layer = run[p].layer /\ r.judged = run[p].judged
  BY <1>1 DEF Runs
<1>3. "ask_links" \in Steps
  BY DEF Steps
<1>4. GoesWith(p, "ask_links", r)
  BY DEF AskLinks
<1> HIDE DEF r
<1>5. /\ run' \in [Processes -> Runs]
      /\ run'[p].step = "ask_links"
      /\ run'[p].judged = r.judged
      /\ run'[p].layer = r.layer
      /\ \A q \in Processes : q # p => run'[q] = run[q]
  BY <1>2, <1>3, <1>4, Moved DEF IInv
<1>6. TypeOK'
  BY <1>1, <1>5, ContextAssumption DEF AskLinks, workspace, lists, build, bounds, IInv,
     TypeOK
<1>7. (ListsAreSaid /\ JudgedIsSaid /\ AskedIsJudged /\ SavedIsBuilt /\ ImageIsReviewed)'
  BY <1>2, <1>5, ContextAssumption DEF AskLinks, At, Processes, workspace, lists,
     build, bounds, IInv, TypeOK, ListsAreSaid, JudgedIsSaid, AskedIsJudged,
     SavedIsBuilt, ImageIsReviewed
<1> QED  BY <1>6, <1>7 DEF IInv

\* A yes to the links is remembered with the list.
LEMMA AnswerLinksKeeps ==
    ASSUME IInv, NEW p \in Processes, AnswerLinks(p)
    PROVE  IInv'
<1>1. /\ run[p] \in Runs
      /\ said \in Answers
      /\ run[p].found \in SUBSET Links
  BY DEF IInv, TypeOK, Runs
<1>2. CASE Exits(p) /\ UNCHANGED <<linksList, said>>
  <2>1. /\ run' \in [Processes -> Runs]
        /\ run'[p].step = "idle" /\ ~run'[p].layer
        /\ \A q \in Processes : q # p => run'[q] = run[q]
    BY <1>2, Left DEF AnswerLinks, IInv, Processes
  <2>2. TypeOK'
    BY <1>2, <2>1 DEF AnswerLinks, workspace, build, bounds, IInv, TypeOK
  <2>3. (ListsAreSaid /\ JudgedIsSaid /\ AskedIsJudged /\ SavedIsBuilt /\ ImageIsReviewed)'
    BY <1>2, <2>1 DEF AnswerLinks, Processes, workspace, build, bounds, IInv,
       ListsAreSaid, JudgedIsSaid, AskedIsJudged, SavedIsBuilt, ImageIsReviewed
  <2> QED  BY <2>2, <2>3 DEF IInv
<1>3. CASE /\ linksList' = run[p].found
           /\ said' = [said EXCEPT !.links = @ \cup run[p].found]
           /\ Mounts(p, run[p].found)
  <2> DEFINE r == [run[p] EXCEPT !.found = run[p].found, !.mounted = run[p].found \cap HomeLinks]
  <2>1. r \in Runs /\ r.judged = run[p].judged /\ r.layer = run[p].layer
    BY <1>1 DEF Runs
  <2>2. GoesWith(p, AfterLinks(p), r) /\ AfterLinks(p) \in Steps
    BY <1>3 DEF Mounts, AfterLinks, Steps
  <2> HIDE DEF r
  <2>3. /\ run' \in [Processes -> Runs]
        /\ run'[p].step = AfterLinks(p)
        /\ run'[p].judged = r.judged
        /\ run'[p].layer = r.layer
        /\ \A q \in Processes : q # p => run'[q] = run[q]
    BY <2>1, <2>2, Moved DEF IInv
  <2>4. /\ said' \in Answers
        /\ said'.links = said.links \cup run[p].found
        /\ said'.keys = said.keys /\ said'.contexts = said.contexts
    BY <1>1, <1>3 DEF Answers
  <2>5. TypeOK'
    BY <1>1, <1>3, <2>3, <2>4 DEF AnswerLinks, workspace, build, bounds, IInv, TypeOK
  <2>6. (ListsAreSaid /\ JudgedIsSaid /\ AskedIsJudged /\ SavedIsBuilt /\ ImageIsReviewed)'
    BY <1>3, <2>1, <2>3, <2>4 DEF AnswerLinks, AfterLinks, Processes, workspace, build,
       bounds, IInv, ListsAreSaid, JudgedIsSaid, AskedIsJudged, SavedIsBuilt,
       ImageIsReviewed
  <2> QED  BY <2>5, <2>6 DEF IInv
<1> QED  BY <1>2, <1>3 DEF AnswerLinks

\* A new process has judged nothing.
LEMMA StartKeeps ==
    ASSUME IInv, NEW p \in Processes, Start(p)
    PROVE  IInv'
<1> PICK mode \in Modes, auto \in BOOLEAN, env \in SUBSET Keys :
        GoesWith(p, "keys", [Idle EXCEPT !.mode = mode, !.auto = auto, !.env = env,
                                         !.pending = Pending(env)])
  BY DEF Start
<1> DEFINE r == [Idle EXCEPT !.mode = mode, !.auto = auto, !.env = env, !.pending = Pending(env)]
<1>1. Pending(env) \in SUBSET Entries
  BY DEF Pending, IInv, TypeOK
<1>2. r \in Runs /\ r.layer = FALSE
  BY <1>1, IdleIsRun DEF Runs, Idle
<1>3. "keys" \in Steps /\ GoesWith(p, "keys", r)
  BY DEF Steps
<1> HIDE DEF r
<1>4. /\ run' \in [Processes -> Runs]
      /\ run'[p].step = "keys"
      /\ run'[p].layer = r.layer
      /\ \A q \in Processes : q # p => run'[q] = run[q]
  BY <1>2, <1>3, Moved DEF IInv
<1>5. TypeOK'
  BY <1>4, BoundAssumption DEF Start, workspace, lists, build, IInv, TypeOK
<1>6. (ListsAreSaid /\ JudgedIsSaid /\ AskedIsJudged /\ SavedIsBuilt /\ ImageIsReviewed)'
  BY <1>2, <1>4 DEF Start, Processes, workspace, lists, build, IInv, ListsAreSaid,
     JudgedIsSaid, AskedIsJudged, SavedIsBuilt, ImageIsReviewed
<1> QED  BY <1>5, <1>6 DEF IInv

\* A kill leaves the files as they are.
LEMMA KillKeeps ==
    ASSUME IInv, NEW p \in Processes, Kill(p)
    PROVE  IInv'
  BY ContextAssumption, BoundAssumption DEF Kill, Goes, GoesWith, Exits, At, Idle,
     Runs, Steps, Modes, Processes, Entries, Links, workspace, lists, build, bounds,
     IInv, TypeOK, ListsAreSaid, JudgedIsSaid, AskedIsJudged, SavedIsBuilt,
     ImageIsReviewed

\* The layer is used as it is only if there is an image.
LEMMA HashContextKeeps ==
    ASSUME IInv, HashContext
    PROVE  IInv'
<1> PICK forced \in BOOLEAN :
        LET fresh == imageHash = context /\ image # None /\ ~forced
        IN  GoesWith("launch", IF fresh THEN "sweep" ELSE "stage",
                     [run["launch"] EXCEPT !.hash = context, !.layer = fresh])
  BY DEF HashContext
<1> DEFINE fresh == imageHash = context /\ image # None /\ ~forced
           r == [run["launch"] EXCEPT !.hash = context, !.layer = fresh]
           s == IF fresh THEN "sweep" ELSE "stage"
<1>1. run["launch"] \in Runs /\ context \in Contexts \cup {None} /\ fresh \in BOOLEAN
  BY DEF IInv, TypeOK, Processes
<1>2. GoesWith("launch", s, r)
  OBVIOUS
<1>3. s \in {"sweep", "stage"} /\ s \in Steps /\ (fresh => image # None)
  BY DEF Steps
<1> HIDE DEF s, fresh
<1>4. r \in Runs /\ r.judged = run["launch"].judged /\ r.layer = fresh
  BY <1>1 DEF Runs
<1> HIDE DEF r
<1>5. /\ run' \in [Processes -> Runs]
      /\ run'["launch"].step = s
      /\ run'["launch"].judged = r.judged
      /\ run'["launch"].layer = r.layer
      /\ \A q \in Processes : q # "launch" => run'[q] = run[q]
  BY <1>2, <1>3, <1>4, Moved DEF IInv, Processes
<1>6. TypeOK'
  BY <1>5 DEF HashContext, Processes, workspace, lists, build, bounds, IInv, TypeOK
<1>7. (ListsAreSaid /\ JudgedIsSaid /\ AskedIsJudged /\ SavedIsBuilt /\ ImageIsReviewed)'
  BY <1>3, <1>4, <1>5 DEF HashContext, Processes, At, workspace, lists, build, bounds, IInv,
     ListsAreSaid, JudgedIsSaid, AskedIsJudged, SavedIsBuilt, ImageIsReviewed
<1> QED  BY <1>6, <1>7 DEF IInv

\* Without the network the image that exists, and none other, is used.
LEMMA SkipBuildKeeps ==
    ASSUME IInv, SkipBuild
    PROVE  IInv'
<1>1. CASE image = None
  <2>1. /\ run' \in [Processes -> Runs]
        /\ run'["launch"].step = "idle" /\ ~run'["launch"].layer
        /\ \A q \in Processes : q # "launch" => run'[q] = run[q]
    BY <1>1, Left DEF SkipBuild, IInv, Processes
  <2>2. TypeOK'
    BY <1>1, <2>1 DEF SkipBuild, Processes, workspace, lists, build, bounds, IInv, TypeOK
  <2>3. (ListsAreSaid /\ JudgedIsSaid /\ AskedIsJudged /\ SavedIsBuilt /\ ImageIsReviewed)'
    BY <1>1, <2>1 DEF SkipBuild, Processes, workspace, lists, build, bounds, IInv,
       ListsAreSaid, JudgedIsSaid, AskedIsJudged, SavedIsBuilt, ImageIsReviewed
  <2> QED  BY <2>2, <2>3 DEF IInv
<1>2. CASE image # None
  <2> DEFINE r == [run["launch"] EXCEPT !.layer = TRUE]
  <2>1. r \in Runs
    BY DEF Runs, IInv, TypeOK, Processes
  <2>2. GoesWith("launch", "sweep", r) /\ "sweep" \in Steps
    BY <1>2 DEF SkipBuild, Steps
  <2> HIDE DEF r
  <2>3. /\ run' \in [Processes -> Runs]
        /\ run'["launch"].step = "sweep"
        /\ \A q \in Processes : q # "launch" => run'[q] = run[q]
    BY <2>1, <2>2, Moved DEF IInv, Processes
  <2>4. TypeOK'
    BY <2>3 DEF SkipBuild, Processes, workspace, lists, build, bounds, IInv, TypeOK
  <2>5. (ListsAreSaid /\ JudgedIsSaid /\ AskedIsJudged /\ SavedIsBuilt /\ ImageIsReviewed)'
    BY <1>2, <2>3 DEF SkipBuild, Processes, workspace, lists, build, bounds, IInv, ListsAreSaid,
       JudgedIsSaid, AskedIsJudged, SavedIsBuilt, ImageIsReviewed
  <2> QED  BY <2>4, <2>5 DEF IInv
<1> QED  BY <1>1, <1>2

\* A refused staging exits.
LEMMA RefuseStageKeeps ==
    ASSUME IInv, RefuseStage
    PROVE  IInv'
  BY ContextAssumption, BoundAssumption DEF RefuseStage, Stageable, Goes, GoesWith,
     Exits, At, Idle, Runs, Steps, Modes, Processes, Entries, Links, workspace, lists,
     build, bounds, IInv, TypeOK, ListsAreSaid, JudgedIsSaid, AskedIsJudged,
     SavedIsBuilt, ImageIsReviewed

\* What is built is what was judged, so what the operator said yes to.
LEMMA BuildKeeps ==
    ASSUME IInv, Build
    PROVE  IInv'
<1>1. CASE image' = image /\ Exits("launch")
  <2>1. /\ run' \in [Processes -> Runs]
        /\ run'["launch"].step = "idle" /\ ~run'["launch"].layer
        /\ \A q \in Processes : q # "launch" => run'[q] = run[q]
    BY <1>1, Left DEF Build, IInv, Processes
  <2>2. TypeOK'
    BY <1>1, <2>1 DEF Build, Processes, workspace, lists, bounds, IInv, TypeOK
  <2>3. (ListsAreSaid /\ JudgedIsSaid /\ AskedIsJudged /\ SavedIsBuilt /\ ImageIsReviewed)'
    BY <1>1, <2>1 DEF Build, Processes, workspace, lists, bounds, IInv,
       ListsAreSaid, JudgedIsSaid, AskedIsJudged, SavedIsBuilt, ImageIsReviewed
  <2> QED  BY <2>2, <2>3 DEF IInv
<1>2. CASE image' = context /\ Goes("launch", "save")
  <2>1. run["launch"] \in Runs /\ context \in Contexts /\ context \in said.contexts
    BY ContextAssumption DEF Build, Stageable, At, Processes, IInv, TypeOK, JudgedIsSaid
  <2>2. GoesWith("launch", "save", run["launch"]) /\ "save" \in Steps
    BY <1>2 DEF Goes, GoesWith, Steps, IInv, TypeOK
  <2>3. /\ run' \in [Processes -> Runs]
        /\ run'["launch"].step = "save"
        /\ run'["launch"].judged = run["launch"].judged
        /\ run'["launch"].layer = run["launch"].layer
        /\ \A q \in Processes : q # "launch" => run'[q] = run[q]
    BY <2>1, <2>2, Moved DEF IInv, Processes
  <2>4. TypeOK'
    BY <1>2, <2>1, <2>3 DEF Build, Processes, workspace, lists, bounds, IInv, TypeOK
  <2>5. (ListsAreSaid /\ JudgedIsSaid /\ AskedIsJudged /\ SavedIsBuilt /\ ImageIsReviewed)'
    BY <1>2, <2>1, <2>3, ContextAssumption DEF Build, Processes, At, workspace, lists, bounds,
       IInv, ListsAreSaid, JudgedIsSaid, AskedIsJudged, SavedIsBuilt, ImageIsReviewed
  <2> QED  BY <2>4, <2>5 DEF IInv
<1> QED  BY <1>1, <1>2 DEF Build

\* The hash is saved once the image is there.
LEMMA SaveHashKeeps ==
    ASSUME IInv, SaveHash
    PROVE  IInv'
<1> DEFINE r == [run["launch"] EXCEPT !.layer = TRUE]
<1>1. r \in Runs /\ run["launch"].hash \in Contexts \cup {None}
  BY DEF Runs, IInv, TypeOK, Processes
<1>2. GoesWith("launch", "sweep", r) /\ "sweep" \in Steps
  BY DEF SaveHash, Steps
<1> HIDE DEF r
<1>3. /\ run' \in [Processes -> Runs]
      /\ run'["launch"].step = "sweep"
      /\ \A q \in Processes : q # "launch" => run'[q] = run[q]
  BY <1>1, <1>2, Moved DEF IInv, Processes
<1>4. TypeOK'
  BY <1>1, <1>3 DEF SaveHash, Processes, workspace, lists, bounds, IInv, TypeOK
<1>5. (ListsAreSaid /\ JudgedIsSaid /\ AskedIsJudged /\ SavedIsBuilt /\ ImageIsReviewed)'
  BY <1>3 DEF SaveHash, Processes, At, workspace, lists, bounds, IInv, ListsAreSaid, JudgedIsSaid,
     AskedIsJudged, SavedIsBuilt, ImageIsReviewed
<1> QED  BY <1>4, <1>5 DEF IInv

\* The sweep removes the snapshot only.
LEMMA SweepKeeps ==
    ASSUME IInv, Sweep
    PROVE  IInv'
  BY ContextAssumption, BoundAssumption DEF Sweep, Goes, GoesWith, Exits, At, Idle,
     Runs, Steps, Modes, Processes, Entries, Links, workspace, lists, build, bounds,
     IInv, TypeOK, ListsAreSaid, JudgedIsSaid, AskedIsJudged, SavedIsBuilt,
     ImageIsReviewed

\* The snapshot is no part of an approval.
LEMMA TruncateSnapshotKeeps ==
    ASSUME IInv, TruncateSnapshot
    PROVE  IInv'
  BY ContextAssumption, BoundAssumption DEF TruncateSnapshot, Goes, GoesWith, Exits,
     At, Idle, Runs, Steps, Modes, Processes, Entries, Links, workspace, lists, build,
     bounds, IInv, TypeOK, ListsAreSaid, JudgedIsSaid, AskedIsJudged, SavedIsBuilt,
     ImageIsReviewed

\* The snapshot is no part of an approval.
LEMMA WriteSnapshotKeeps ==
    ASSUME IInv, WriteSnapshot
    PROVE  IInv'
  BY ContextAssumption, BoundAssumption DEF WriteSnapshot, Goes, GoesWith, Exits, At,
     Idle, Runs, Steps, Modes, Processes, Entries, Links, workspace, lists, build,
     bounds, IInv, TypeOK, ListsAreSaid, JudgedIsSaid, AskedIsJudged, SavedIsBuilt,
     ImageIsReviewed

\* The cleanup touches the record and the snapshot only.
LEMMA EndSessionKeeps ==
    ASSUME IInv, EndSession
    PROVE  IInv'
  BY ContextAssumption, BoundAssumption DEF EndSession, Noted, Goes, GoesWith, Exits,
     At, Idle, Runs, Steps, Modes, Processes, Entries, Links, workspace, lists, build,
     bounds, IInv, TypeOK, ListsAreSaid, JudgedIsSaid, AskedIsJudged, SavedIsBuilt,
     ImageIsReviewed

\* The supervisor starts with nothing judged.
LEMMA SpawnKeeps ==
    ASSUME IInv, Spawn
    PROVE  IInv'
<1> DEFINE c == run["client"]
           s == [Idle EXCEPT !.step = "keys", !.mode = "no_tty", !.auto = c.auto,
                             !.declined = c.declined, !.env = c.env, !.pending = Pending(c.env)]
           l == IF At("launch", "idle") THEN s ELSE run["launch"]
<1>1. /\ c.auto \in BOOLEAN /\ c.declined \in Contexts \cup {None} /\ c.env \in SUBSET Keys
      /\ Pending(c.env) \in SUBSET Entries /\ run["launch"] \in Runs
  BY DEF IInv, TypeOK, Runs, Processes, Pending
<1>2. s \in Runs /\ s.step = "keys" /\ s.layer = FALSE
  <2>1. Idle.layer = FALSE
    BY DEF Idle
  <2> QED  BY <1>1, <2>1, IdleIsRun DEF Runs, Steps, Modes
<1>3. run' = [run EXCEPT !["client"] = Idle, !["launch"] = l]
  BY DEF Spawn
<1> HIDE DEF s
<1>4. l \in Runs /\ (l = run["launch"] \/ (l.step = "keys" /\ l.layer = FALSE))
  BY <1>1, <1>2 DEF l
<1> HIDE DEF l
<1>5. /\ run' \in [Processes -> Runs]
      /\ run'["launch"] = l /\ run'["client"].step = "idle"
  BY <1>3, <1>4, IdleIsRun DEF IInv, TypeOK, Processes, Idle
<1>6. TypeOK'
  BY <1>5 DEF Spawn, Processes, workspace, lists, build, bounds, IInv, TypeOK
<1>7. (ListsAreSaid /\ JudgedIsSaid /\ AskedIsJudged /\ SavedIsBuilt /\ ImageIsReviewed)'
  BY <1>4, <1>5 DEF Spawn, Processes, workspace, lists, build, bounds, IInv, ListsAreSaid,
     JudgedIsSaid, AskedIsJudged, SavedIsBuilt, ImageIsReviewed
<1> QED  BY <1>6, <1>7 DEF IInv

\* An edit of the workspace changes no list.
LEMMA EditKeeps ==
    ASSUME IInv, Edit
    PROVE  IInv'
  BY ContextAssumption, BoundAssumption DEF Edit, EditSandyDir, EditLinks, Goes,
     GoesWith, Exits, At, Idle, Runs, Steps, Modes, Processes, Entries, Links,
     workspace, lists, build, bounds, IInv, TypeOK, ListsAreSaid, JudgedIsSaid,
     AskedIsJudged, SavedIsBuilt, ImageIsReviewed

\* A list goes together with the answers that made it.
LEMMA RevokeKeeps ==
    ASSUME IInv, Revoke
    PROVE  IInv'
<1>1. /\ said' \in Answers
      /\ said'.contexts = said.contexts
      /\ keysList' = None \/ (keysList' = keysList /\ said'.keys = said.keys)
      /\ contextList' \in {None, contextList}
      /\ linksList' = None \/ (linksList' = linksList /\ said'.links = said.links)
  <2>1. said \in Answers
    BY DEF IInv, TypeOK
  <2>2. CASE RevokeKeys
    BY <2>1, <2>2 DEF RevokeKeys, Answers
  <2>3. CASE RevokeContext
    BY <2>1, <2>3 DEF RevokeContext
  <2>4. CASE RevokeLinks
    BY <2>1, <2>4 DEF RevokeLinks, Answers
  <2>5. CASE ResetSandbox
    BY <2>1, <2>5 DEF ResetSandbox, Answers
  <2>6. CASE RemoveSandbox
    BY <2>1, <2>6 DEF RemoveSandbox, Answers
  <2> QED  BY <2>2, <2>3, <2>4, <2>5, <2>6 DEF Revoke
<1>2. /\ record' \in {None, record} /\ snapshot' \in {None, snapshot}
      /\ imageHash' \in {None, imageHash}
      /\ edits' \in 0 .. MaxEdits
  BY BoundAssumption DEF Revoke, RevokeKeys, RevokeContext, RevokeLinks, ResetSandbox,
     RemoveSandbox, IInv, TypeOK
<1>3. TypeOK'
  BY <1>1, <1>2 DEF Revoke, Processes, workspace, IInv, TypeOK
<1>4. (ListsAreSaid /\ JudgedIsSaid /\ AskedIsJudged /\ SavedIsBuilt /\ ImageIsReviewed)'
  BY <1>1, <1>2 DEF Revoke, Processes, workspace, IInv, ListsAreSaid, JudgedIsSaid, AskedIsJudged,
     SavedIsBuilt, ImageIsReviewed
<1> QED  BY <1>3, <1>4 DEF IInv

\* Every step keeps the invariant.
LEMMA NextKeeps == IInv /\ [Next]_vars => IInv'
<1> SUFFICES ASSUME IInv, [Next]_vars PROVE IInv'
  OBVIOUS
<1>1. ASSUME NEW p \in Processes, AskAboutKeys(p) PROVE IInv'
  BY <1>1, KeysGateKeeps, AskKeysKeeps, AnswerKeysKeeps DEF AskAboutKeys
<1>2. ASSUME NEW p \in Processes, AskAboutContext(p) PROVE IInv'
  BY <1>2, NoDockerfileKeeps, ApprovedContextKeeps, AutoContextKeeps, SkipContextKeeps,
     AskContextKeeps, AnswerContextKeeps DEF AskAboutContext
<1>3. ASSUME NEW p \in Processes, AskAboutLinks(p) PROVE IInv'
  BY <1>3, NoLinksKeeps, ApprovedLinksKeeps, RefuseLinksKeeps, AskLinksKeeps,
     AnswerLinksKeeps DEF AskAboutLinks
<1>4. CASE BuildImage
  BY <1>4, HashContextKeeps, SkipBuildKeeps, RefuseStageKeeps, BuildKeeps, SaveHashKeeps
     DEF BuildImage
<1>5. CASE Session
  BY <1>5, SweepKeeps, TruncateSnapshotKeeps, WriteSnapshotKeeps, EndSessionKeeps
     DEF Session
<1>6. CASE UNCHANGED vars
  BY <1>6 DEF vars, workspace, lists, build, bounds, IInv, TypeOK, ListsAreSaid,
     JudgedIsSaid, AskedIsJudged, SavedIsBuilt, ImageIsReviewed
<1> QED  BY <1>1, <1>2, <1>3, <1>4, <1>5, <1>6, StartKeeps, KillKeeps, SpawnKeeps,
            EditKeeps, RevokeKeeps DEF Next

\* The invariant holds in every reachable state, for any contents, keys and
\* links and any number of edits, launches and revocations.
THEOREM Invariant == Spec => []IInv
  BY InitInvariant, NextKeeps, PTL DEF Spec

\* Every variable of the approval files, the snapshot, the image and the two
\* processes keeps its type.
THEOREM TypeCorrect == Spec => []TypeOK
<1>1. IInv => TypeOK
  BY DEF IInv
<1> QED  BY <1>1, Invariant, PTL

\* The project image is only ever built from content the operator had said
\* yes to (the hash check of _sandy_stage_build_context against the hash
\* _sandy_approve_project_dockerfile judged).
THEOREM BuiltIsReviewed == Spec => []ImageIsReviewed
<1>1. IInv => ImageIsReviewed
  BY DEF IInv
<1> QED  BY <1>1, Invariant, PTL

\* what a step that grants neither keys nor links leaves to the process p
Ungranted(p) ==
    run'[p].keys \in {run[p].keys, {}} /\ run'[p].mounted \in {run[p].mounted, {}}

KeysGranted(p) ==
    run'[p].keys \notin {run[p].keys, {}} => run'[p].auto \/ run'[p].keys \in said'.keys

LinksGranted(p) ==
    run'[p].mounted # run[p].mounted => run'[p].mounted \subseteq said'.links

\* A process that goes on with its own keys and links is granted nothing.
LEMMA MovedUngranted ==
    ASSUME TypeOK, NEW p \in Processes, NEW r \in Runs, NEW s \in Steps,
           r.keys = run[p].keys, r.mounted = run[p].mounted, GoesWith(p, s, r),
           NEW q \in Processes
    PROVE  Ungranted(q)
<1>1. run' = [run EXCEPT ![p] = [r EXCEPT !.step = s]]
  BY DEF GoesWith
<1>2. CASE q = p
  BY <1>1, <1>2 DEF TypeOK, Runs, Ungranted
<1>3. CASE q # p
  BY <1>1, <1>3 DEF TypeOK, Ungranted
<1> QED  BY <1>2, <1>3

\* The steps that ask about no keys and mount no links.
LEMMA OthersGrantNothing ==
    ASSUME IInv, Next, NEW q \in Processes,
           \A p \in Processes : ~(KeysGate(p) \/ AnswerKeys(p) \/ NoLinks(p)
                                  \/ ApprovedLinks(p) \/ AnswerLinks(p))
    PROVE  Ungranted(q)
<1>0. TypeOK /\ run \in [Processes -> Runs] /\ Idle.keys = {} /\ Idle.mounted = {}
  BY DEF IInv, TypeOK, Idle
<1>1. ASSUME NEW p \in Processes, Exits(p) PROVE Ungranted(q)
  BY <1>0, <1>1 DEF Exits, Ungranted
<1>2. ASSUME NEW p \in Processes, NEW s \in Steps, Goes(p, s) PROVE Ungranted(q)
  BY <1>0, <1>2 DEF Goes, Ungranted, Runs
<1>3. ASSUME run' = run PROVE Ungranted(q)
  BY <1>3 DEF Ungranted
<1>4. ASSUME NEW p \in Processes, Start(p) PROVE Ungranted(q)
  BY <1>0, <1>4 DEF Start, GoesWith, Ungranted, Idle
<1>5. ASSUME NEW p \in Processes, AskKeys(p) \/ NoDockerfile(p) PROVE Ungranted(q)
  BY <1>2, <1>5 DEF AskKeys, NoDockerfile, No, Steps
<1>6. ASSUME NEW p \in Processes,
             ApprovedContext(p) \/ AutoContext(p) \/ SkipContext(p) \/ AskContext(p)
      PROVE  Ungranted(q)
  <2> DEFINE r == [run[p] EXCEPT !.judged = context]
  <2>1. PICK s \in Steps : GoesWith(p, s, r)
    BY <1>6 DEF ApprovedContext, AutoContext, SkipContext, AskContext, Yes, No, Steps
  <2>2. r \in Runs /\ r.keys = run[p].keys /\ r.mounted = run[p].mounted
    BY <1>0 DEF Runs, TypeOK
  <2> HIDE DEF r
  <2> QED  BY <1>0, <2>1, <2>2, MovedUngranted
<1>7. ASSUME NEW p \in Processes, AnswerContext(p) PROVE Ungranted(q)
  <2>1. CASE Goes(p, Yes(p))
    BY <1>2, <2>1 DEF Yes, Steps
  <2>2. CASE ~Goes(p, Yes(p))
    <3> DEFINE d == IF p = "client" THEN run[p].judged ELSE run[p].declined
               r == [run[p] EXCEPT !.declined = d]
    <3>1. GoesWith(p, No(p), r) /\ No(p) \in Steps
      BY <1>0, <1>7, <2>2 DEF AnswerContext, Runs, No, Steps
    <3>2. r \in Runs /\ r.keys = run[p].keys /\ r.mounted = run[p].mounted
      BY <1>0 DEF Runs
    <3> HIDE DEF r
    <3> QED  BY <1>0, <3>1, <3>2, MovedUngranted
  <2> QED  BY <2>1, <2>2
<1>8. ASSUME NEW p \in Processes, RefuseLinks(p) \/ Kill(p) PROVE Ungranted(q)
  BY <1>1, <1>8 DEF RefuseLinks, Kill
<1>9. ASSUME NEW p \in Processes, AskLinks(p) PROVE Ungranted(q)
  <2> DEFINE r == [run[p] EXCEPT !.found = links]
  <2>1. GoesWith(p, "ask_links", r) /\ "ask_links" \in Steps
    BY <1>9 DEF AskLinks, Steps
  <2>2. r \in Runs /\ r.keys = run[p].keys /\ r.mounted = run[p].mounted
    BY <1>0 DEF Runs, TypeOK
  <2> HIDE DEF r
  <2> QED  BY <1>0, <2>1, <2>2, MovedUngranted
<1>10. CASE BuildImage
  <2> DEFINE l == run["launch"]
             r(h, b) == [l EXCEPT !.hash = h, !.layer = b]
  <2>0. "launch" \in Processes /\ l \in Runs
    BY <1>0 DEF Processes
  <2>1. ASSUME NEW h \in Contexts \cup {None}, NEW b \in BOOLEAN, NEW s \in Steps,
               GoesWith("launch", s, r(h, b))
        PROVE  Ungranted(q)
    <3>1. r(h, b) \in Runs /\ r(h, b).keys = l.keys /\ r(h, b).mounted = l.mounted
      BY <2>0 DEF Runs
    <3> HIDE DEF r
    <3> QED  BY <1>0, <2>0, <2>1, <3>1, MovedUngranted
  <2>2. r(l.hash, TRUE) = [l EXCEPT !.layer = TRUE]
    BY <2>0 DEF Runs
  <2>3. CASE HashContext
    BY <1>0, <2>1, <2>3 DEF HashContext, Steps, TypeOK
  <2>4. CASE SkipBuild \/ RefuseStage
    BY <1>1, <2>0, <2>1, <2>2, <2>4 DEF SkipBuild, RefuseStage, Steps, Runs
  <2>5. CASE Build
    BY <1>1, <1>2, <2>0, <2>5 DEF Build, Steps
  <2>6. CASE SaveHash
    BY <2>0, <2>1, <2>2, <2>6 DEF SaveHash, Steps, Runs
  <2> QED  BY <1>10, <2>3, <2>4, <2>5, <2>6 DEF BuildImage
<1>11. CASE Session
  BY <1>0, <1>11 DEF Session, Sweep, TruncateSnapshot, WriteSnapshot, EndSession, Goes, Exits,
     Ungranted, Runs, Processes
<1>12. CASE Spawn
  BY <1>0, <1>12 DEF Spawn, Ungranted, Processes, Idle, Pending
<1>13. CASE Edit \/ Revoke
  BY <1>3, <1>13 DEF Edit, Revoke
<1> QED  BY <1>4, <1>5, <1>6, <1>7, <1>8, <1>9, <1>10, <1>11, <1>12, <1>13
         DEF Next, AskAboutKeys, AskAboutContext, AskAboutLinks

\* The steps that answer for the keys grant what the operator said yes to.
LEMMA KeysStep ==
    ASSUME IInv, NEW p \in Processes, KeysGate(p) \/ AnswerKeys(p), NEW q \in Processes
    PROVE  KeysGranted(q) /\ LinksGranted(q)
<1>0. run \in [Processes -> Runs] /\ run[p] \in Runs
  BY DEF IInv, TypeOK
<1>1. CASE q # p
  BY <1>0, <1>1 DEF KeysGate, AnswerKeys, GoesWith, Goes, KeysGranted, LinksGranted
<1>2. CASE q = p /\ KeysGate(p)
  <2>1. Listed(keysList, run[p].pending) => run[p].pending \in said.keys
    BY <1>0, NoneAssumption DEF Listed, IInv, ListsAreSaid, Runs, Entries
  <2>2. said' = said
    BY <1>2 DEF KeysGate
  <2> QED  BY <1>0, <1>2, <2>1, <2>2 DEF KeysGate, GoesWith, KeysGranted, LinksGranted, Runs
<1>3. CASE q = p /\ AnswerKeys(p)
  <2>1. CASE Goes(p, AfterKeys(p))
    BY <1>0, <1>3, <2>1 DEF Goes, KeysGranted, LinksGranted, Runs
  <2>2. CASE ~Goes(p, AfterKeys(p))
    <3>1. said' = [said EXCEPT !.keys = @ \cup {run[p].pending}] /\ said \in Answers
      BY <1>3, <2>2 DEF AnswerKeys, IInv, TypeOK
    <3>2. run[p].pending \in said'.keys
      BY <3>1 DEF Answers
    <3>3. run'[p].keys = run[p].pending /\ run'[p].mounted = run[p].mounted
      BY <1>0, <1>3, <2>2 DEF AnswerKeys, GoesWith, Runs
    <3> QED  BY <1>3, <3>2, <3>3 DEF KeysGranted, LinksGranted
  <2> QED  BY <2>1, <2>2
<1> QED  BY <1>1, <1>2, <1>3

\* The steps that mount the targets of links have a yes to each of them.
LEMMA LinksStep ==
    ASSUME IInv, NEW p \in Processes, NoLinks(p) \/ ApprovedLinks(p) \/ AnswerLinks(p),
           NEW q \in Processes
    PROVE  KeysGranted(q) /\ LinksGranted(q)
<1>0. run \in [Processes -> Runs] /\ run[p] \in Runs
  BY DEF IInv, TypeOK
<1>1. CASE q # p
  BY <1>0, <1>1 DEF NoLinks, ApprovedLinks, AnswerLinks, Mounts, GoesWith, Exits, KeysGranted,
     LinksGranted
<1>2. CASE q = p /\ NoLinks(p)
  BY <1>0, <1>2 DEF NoLinks, Mounts, GoesWith, KeysGranted, LinksGranted, Runs
<1>3. CASE q = p /\ ApprovedLinks(p)
  <2>1. links \subseteq said.links /\ said' = said
    BY <1>3 DEF ApprovedLinks, NoneNew, IInv, ListsAreSaid
  <2> QED  BY <1>0, <1>3, <2>1 DEF ApprovedLinks, Mounts, GoesWith, KeysGranted,
           LinksGranted, Runs
<1>4. CASE q = p /\ AnswerLinks(p)
  <2>1. CASE Exits(p)
    BY <1>0, <1>4, <2>1 DEF Exits, Idle, KeysGranted, LinksGranted
  <2>2. CASE ~Exits(p)
    <3>1. said' = [said EXCEPT !.links = @ \cup run[p].found] /\ said \in Answers
      BY <1>4, <2>2 DEF AnswerLinks, IInv, TypeOK
    <3>2. run[p].found \subseteq said'.links
      BY <3>1 DEF Answers
    <3>3. /\ run'[p].keys = run[p].keys
          /\ run'[p].mounted = run[p].found \cap HomeLinks
      <4> DEFINE r == [run[p] EXCEPT !.found = run[p].found,
                                     !.mounted = run[p].found \cap HomeLinks]
      <4>1. run' = [run EXCEPT ![p] = [r EXCEPT !.step = AfterLinks(p)]]
        BY <1>4, <2>2 DEF AnswerLinks, Mounts, GoesWith
      <4>2. r.keys = run[p].keys /\ r.mounted = run[p].found \cap HomeLinks /\ r \in Runs
        BY <1>0 DEF Runs
      <4> HIDE DEF r
      <4> QED  BY <1>0, <4>1, <4>2 DEF Runs
    <3> QED  BY <1>4, <3>2, <3>3 DEF KeysGranted, LinksGranted
  <2> QED  BY <2>1, <2>2
<1> QED  BY <1>1, <1>2, <1>3, <1>4

\* No step gives a process more than the operator said yes to.
LEMMA StepGrants ==
    IInv /\ [Next]_vars => [\A q \in Processes : KeysGranted(q) /\ LinksGranted(q)]_vars
<1> SUFFICES ASSUME IInv, Next, NEW q \in Processes PROVE KeysGranted(q) /\ LinksGranted(q)
  OBVIOUS
<1>1. Ungranted(q) => KeysGranted(q) /\ LinksGranted(q)
  BY DEF Ungranted, KeysGranted, LinksGranted
<1> QED  BY <1>1, KeysStep, LinksStep, OthersGrantNothing

\* Privileged entries reach a launch only as an exact set the operator
\* approved, or by the environment (the gate on the passive keys,
\* _sandy_load_config and the approval files).
THEOREM KeysOnlyAsGranted == Spec => KeysAreGranted
<1>1. IInv /\ [Next]_vars
        => [\A p \in Processes :
              run'[p].keys \notin {run[p].keys, {}}
                => run'[p].auto \/ run'[p].keys \in said'.keys]_vars
  BY StepGrants DEF KeysGranted
<1> QED  BY <1>1, Invariant, PTL DEF Spec, KeysAreGranted

\* A target outside the workspace is mounted only through a link the operator
\* said yes to since the list was last removed (the symlink gate).
THEOREM LinksOnlyAsGranted == Spec => LinksAreGranted
<1>1. IInv /\ [Next]_vars
        => [\A p \in Processes :
              run'[p].mounted # run[p].mounted => run'[p].mounted \subseteq said'.links]_vars
  BY StepGrants DEF LinksGranted
<1> QED  BY <1>1, Invariant, PTL DEF Spec, LinksAreGranted
=============================================================================
