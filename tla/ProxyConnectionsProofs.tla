----------------------- MODULE ProxyConnectionsProofs -----------------------
(***************************************************************************)
(* What holds of the proxy's connections for any number of listeners,     *)
(* connections and slots: the slots are counted exactly, the log has each  *)
(* destination once, and the upstream gets the client's stream exactly.    *)
(***************************************************************************)
EXTENDS ProxyConnections, FiniteSetTheorems, TLAPS

USE ConnsAssumption

(* A step of one connection that begins or ends no handler.                *)
LEMMA ConnStep ==
    ASSUME TypeOK, SlotsAreCounted, NEW c \in Conns, NEW r \in ConnType,
           conn' = [conn EXCEPT ![c] = r],
           (r.stage \in HandlerStages) <=> (conn[c].stage \in HandlerStages),
           UNCHANGED <<lst, sem>>
    PROVE  conn' \in [Conns -> ConnType] /\ SlotsAreCounted'
<1>1. conn' \in [Conns -> ConnType]
  BY DEF TypeOK
<1>2. Handled' = Handled
  BY DEF Handled, TypeOK
<1>3. Accepting' = Accepting
  BY DEF Accepting
<1> QED BY <1>1, <1>2, <1>3 DEF SlotsAreCounted

(* The sets that are counted are finite.                                   *)
LEMMA FiniteCounts ==
    /\ IsFiniteSet(Accepting) /\ Cardinality(Accepting) \in Nat
    /\ IsFiniteSet(Handled) /\ Cardinality(Handled) \in Nat
<1>1. Accepting \in SUBSET Listeners /\ Handled \in SUBSET Conns
  BY DEF Accepting, Handled
<1> QED BY <1>1, FS_Subset, FS_CardinalityType

(* handle returns, whatever way: one handler and one slot fewer.           *)
LEMMA ReturnStep ==
    ASSUME TypeOK, SlotsAreCounted, NEW c \in Conns, NEW b \in BOOLEAN,
           conn[c].stage \in HandlerStages, Return(c, b),
           UNCHANGED <<lst, seen, log, probe>>
    PROVE  TypeOK' /\ SlotsAreCounted'
<1> DEFINE r == [conn[c] EXCEPT !.stage = "over",
                              !.shut = IF b THEN "all" ELSE @]
<1>0. conn[c] \in ConnType
  BY DEF TypeOK
<1>a. r \in ConnType
  BY <1>0 DEF ConnType, Stages
<1>b. conn' = [conn EXCEPT ![c] = r]
  BY DEF Return
<1>1. conn' \in [Conns -> ConnType]
  BY <1>a, <1>b DEF TypeOK
<1>2. Handled' = Handled \ {c} /\ c \in Handled
  BY DEF Handled, Return, TypeOK, ConnType, HandlerStages
<1>3. Cardinality(Handled') = Cardinality(Handled) - 1
  BY <1>2, FiniteCounts, FS_RemoveElement
<1>4. Cardinality(Handled) > 0
  BY <1>2, FiniteCounts, FS_EmptySet
<1>5. Accepting' = Accepting
  BY DEF Accepting
<1>6. SlotsAreCounted'
  BY <1>3, <1>5, FiniteCounts DEF SlotsAreCounted, Return
<1>7. sem' \in 0 .. MaxConns
  BY <1>4, FiniteCounts DEF SlotsAreCounted, Return, TypeOK
<1> QED BY <1>1, <1>6, <1>7 DEF TypeOK

SlotInv == TypeOK /\ SlotsAreCounted

(* The slots: the loops.                                                   *)
LEMMA LoopSlots ==
    ASSUME SlotInv, NEW l \in Listeners, Loop(l)
    PROVE  SlotInv'
<1> USE DEF SlotInv
<1>1. CASE Acquire(l)
  <2>1. Accepting' = Accepting \cup {l} /\ l \notin Accepting
    BY <1>1 DEF Accepting, Acquire, TypeOK
  <2>2. Cardinality(Accepting') = Cardinality(Accepting) + 1
    BY <2>1, FiniteCounts, FS_AddElement
  <2>3. Handled' = Handled
    BY <1>1 DEF Handled, Acquire
  <2>4. SlotsAreCounted'
    BY <1>1, <2>2, <2>3, FiniteCounts DEF SlotsAreCounted, Acquire
  <2> QED BY <1>1, <2>4 DEF Acquire, TypeOK
<1>2. CASE AcceptFails(l)
  <2>1. Accepting' = Accepting \ {l} /\ l \in Accepting
    BY <1>2 DEF Accepting, AcceptFails, TypeOK
  <2>2. Cardinality(Accepting') = Cardinality(Accepting) - 1
    BY <2>1, FiniteCounts, FS_RemoveElement
  <2>3. Cardinality(Accepting) > 0
    BY <2>1, FiniteCounts, FS_EmptySet
  <2>4. Handled' = Handled
    BY <1>2 DEF Handled, AcceptFails
  <2>5. SlotsAreCounted'
    BY <1>2, <2>2, <2>4, FiniteCounts DEF SlotsAreCounted, AcceptFails
  <2>6. sem' \in 0 .. MaxConns
    BY <1>2, <2>3, FiniteCounts DEF SlotsAreCounted, AcceptFails, TypeOK
  <2> QED BY <1>2, <2>5, <2>6 DEF AcceptFails, TypeOK
<1>3. CASE Finalize(l)
  <2>1. Accepting' = Accepting /\ Handled' = Handled
    BY <1>3 DEF Accepting, Handled, Finalize, TypeOK
  <2> QED BY <1>3, <2>1 DEF Finalize, TypeOK, SlotsAreCounted
<1>4. CASE ProbeFails(l)
  <2>1. Accepting' = Accepting /\ Handled' = Handled
    BY <1>4 DEF Accepting, Handled, ProbeFails
  <2> QED BY <1>4, <2>1 DEF ProbeFails, NoProbe, TypeOK, SlotsAreCounted
<1>5. ASSUME NEW c \in Conns, Accept(l, c)
      PROVE  SlotInv'
  <2>1. Accepting' = Accepting \ {l} /\ l \in Accepting
    BY <1>5 DEF Accepting, Accept, TypeOK
  <2>2. Cardinality(Accepting') = Cardinality(Accepting) - 1
    BY <2>1, FiniteCounts, FS_RemoveElement
  <2> DEFINE r == [conn[c] EXCEPT !.stage = IF Raw(c) THEN "egress" ELSE "head"]
  <2>a. conn[c] \in ConnType
    BY DEF TypeOK
  <2>b. r \in ConnType
    BY <2>a DEF ConnType, Stages, HandlerStages
  <2>c. conn' = [conn EXCEPT ![c] = r]
    BY <1>5 DEF Accept
  <2>3. conn' \in [Conns -> ConnType]
    BY <2>b, <2>c DEF TypeOK
  <2>4. Handled' = Handled \cup {c} /\ c \notin Handled
    BY <1>5 DEF Handled, Accept, TypeOK, ConnType, HandlerStages
  <2>5. Cardinality(Handled') = Cardinality(Handled) + 1
    BY <2>4, FiniteCounts, FS_AddElement
  <2>6. SlotsAreCounted'
    BY <1>5, <2>2, <2>5, FiniteCounts DEF SlotsAreCounted, Accept
  <2> QED BY <1>5, <2>3, <2>6 DEF Accept, TypeOK
<1> QED BY <1>1, <1>2, <1>3, <1>4, <1>5 DEF Loop

(* The slots: the handlers.                                                *)
LEMMA HandlerSlots ==
    ASSUME SlotInv, NEW c \in Conns, Handler(c)
    PROVE  SlotInv'
<1> USE DEF SlotInv
<1> conn[c] \in ConnType
  BY DEF TypeOK
<1>1. CASE ReadHead(c)
  <2>1. PICK n \in 1 .. conn[c].sent :
          conn' = [conn EXCEPT ![c].stage = "egress", ![c].read = n,
                               ![c].used = IF KindOf(c) = "connect" THEN 1 ELSE 0]
    BY <1>1 DEF ReadHead
  <2> DEFINE r == [conn[c] EXCEPT !.stage = "egress", !.read = n,
                               !.used = IF KindOf(c) = "connect" THEN 1 ELSE 0]
  <2>2. r \in ConnType /\ r.stage = "egress"
    <3>1. conn[c].sent \in Nat
      BY DEF ConnType
    <3>2. n \in Nat
      BY <2>1, <3>1
    <3> QED BY <3>2 DEF ConnType, Stages, HandlerStages
  <2>3. conn' = [conn EXCEPT ![c] = r]
    BY <2>1
  <2>4. conn' \in [Conns -> ConnType] /\ SlotsAreCounted'
    BY <1>1, <2>2, <2>3, ConnStep DEF ReadHead, HandlerStages
  <2> QED BY <1>1, <2>4 DEF ReadHead, TypeOK
<1>2. CASE RejectHead(c) \/ Refuse(c) \/ Panic(c)
  BY <1>2, ReturnStep DEF RejectHead, Refuse, Panic, HandlerStages
<1>3. CASE Dial(c)
  <2> DEFINE r == [conn[c] EXCEPT !.up = "open"]
             q == CASE KindOf(c) = "connect" -> [r EXCEPT !.stage = "reply"]
                    [] KindOf(c) = "transparent" -> [r EXCEPT !.stage = "note"]
                    [] OTHER -> StartSplice(r)
  <2>1. q \in ConnType /\ q.stage \in HandlerStages
    BY DEF ConnType, Stages, HandlerStages, StartSplice
  <2>2. conn' = [conn EXCEPT ![c] = q]
    BY <1>3 DEF Dial
  <2> HIDE DEF q
  <2>3. conn' \in [Conns -> ConnType] /\ SlotsAreCounted'
    BY <1>3, <2>1, <2>2, ConnStep DEF Dial, HandlerStages
  <2> QED BY <1>3, <2>3 DEF Dial, TypeOK
<1>4. CASE Reply(c)
  <2>1. CASE conn' = [conn EXCEPT ![c].stage = "note"] /\ UNCHANGED sem
    <3> DEFINE r == [conn[c] EXCEPT !.stage = "note"]
    <3>1. r \in ConnType /\ r.stage = "note" /\ conn' = [conn EXCEPT ![c] = r]
      BY <2>1 DEF ConnType, Stages, HandlerStages
    <3>2. conn' \in [Conns -> ConnType] /\ SlotsAreCounted'
      BY <1>4, <2>1, <3>1, ConnStep DEF Reply, HandlerStages
    <3> QED BY <1>4, <2>1, <3>2 DEF Reply, TypeOK
  <2>2. CASE Return(c, TRUE)
    BY <1>4, <2>2, ReturnStep DEF Reply, HandlerStages
  <2> QED BY <1>4, <2>1, <2>2 DEF Reply
<1>5. CASE Note(c)
  <2> DEFINE q == IF DestOf[c] \in seen THEN StartSplice(conn[c])
                  ELSE [conn[c] EXCEPT !.stage = "log"]
  <2>1. q \in ConnType /\ q.stage \in HandlerStages
    BY DEF ConnType, Stages, HandlerStages, StartSplice
  <2>2. conn' = [conn EXCEPT ![c] = q]
    BY <1>5 DEF Note, TypeOK
  <2> HIDE DEF q
  <2>3. conn' \in [Conns -> ConnType] /\ SlotsAreCounted'
    BY <1>5, <2>1, <2>2, ConnStep DEF Note, HandlerStages
  <2> QED BY <1>5, <2>3 DEF Note, TypeOK
<1>6. CASE WriteLog(c)
  <2> DEFINE q == StartSplice(conn[c])
  <2>1. q \in ConnType /\ q.stage \in HandlerStages
    BY DEF ConnType, Stages, HandlerStages, StartSplice
  <2>2. conn' = [conn EXCEPT ![c] = q]
    BY <1>6 DEF WriteLog, TypeOK
  <2> HIDE DEF q
  <2>3. conn' \in [Conns -> ConnType] /\ SlotsAreCounted'
    BY <1>6, <2>1, <2>2, ConnStep DEF WriteLog, HandlerStages
  <2> QED BY <1>6, <2>3 DEF WriteLog, TypeOK
<1> QED BY <1>1, <1>2, <1>3, <1>4, <1>5, <1>6 DEF Handler

(* The slots: the copies and the peers.                                    *)
LEMMA PeerSlots ==
    ASSUME SlotInv, NEW c \in Conns,
           Splice(c) \/ Client(c) \/ Upstream(c) \/ ProbeDial(c)
    PROVE  SlotInv'
<1> USE DEF SlotInv
<1>0. conn[c] \in ConnType
  BY DEF TypeOK
<1>1. CASE Finish(c)
  BY <1>1, ReturnStep DEF Finish, HandlerStages
<1>2. CASE CopyOut(c)
  <2> DEFINE n == NextOut(conn[c])
             r == [conn[c] EXCEPT !.got = Append(@, n), !.used = n,
                                  !.read = IF n > @ THEN n ELSE @]
  <2>1. n \in Nat
    BY <1>0 DEF NextOut, ConnType
  <2>2. conn' = [conn EXCEPT ![c] = r]
    BY <1>2 DEF CopyOut
  <2> HIDE DEF n
  <2> DEFINE g == Append(conn[c].got, n)
             d == IF n > conn[c].read THEN n ELSE conn[c].read
  <2>a. g \in Seq(Nat) /\ d \in Nat
    BY <1>0, <2>1 DEF ConnType
  <2>b. r = [conn[c] EXCEPT !.got = g, !.used = n, !.read = d]
    OBVIOUS
  <2> HIDE DEF g, d
  <2>3. r \in ConnType /\ r.stage = conn[c].stage
    BY <1>0, <2>1, <2>a, <2>b DEF ConnType
  <2> HIDE DEF r
  <2>4. conn' \in [Conns -> ConnType] /\ SlotsAreCounted'
    BY <1>2, <2>2, <2>3, ConnStep DEF CopyOut
  <2> QED BY <1>2, <2>4 DEF CopyOut, TypeOK
<1>3. CASE EndOut(c)
  <2> DEFINE r == [conn[c] EXCEPT !.copies = @ \ {"out"}, !.stalled = @ \ {"out"}]
  <2>1. r \in ConnType /\ r.stage = conn[c].stage
    BY <1>0 DEF ConnType
  <2>2. conn' = [conn EXCEPT ![c] = r]
    BY <1>3 DEF EndOut
  <2>3. conn' \in [Conns -> ConnType] /\ SlotsAreCounted'
    BY <1>3, <2>1, <2>2, ConnStep DEF EndOut
  <2> QED BY <1>3, <2>3 DEF EndOut, TypeOK
<1>4. CASE CopyIn(c)
  <2> DEFINE r == [conn[c] EXCEPT !.answer = FALSE]
  <2>1. r \in ConnType /\ r.stage = conn[c].stage
    BY <1>0 DEF ConnType
  <2>2. conn' = [conn EXCEPT ![c] = r]
    BY <1>4 DEF CopyIn
  <2>3. conn' \in [Conns -> ConnType] /\ SlotsAreCounted'
    BY <1>4, <2>1, <2>2, ConnStep DEF CopyIn
  <2> QED BY <1>4, <2>3 DEF CopyIn, TypeOK
<1>5. CASE EndIn(c)
  <2> DEFINE r == [conn[c] EXCEPT !.copies = @ \ {"in"}, !.stalled = @ \ {"in"},
                                  !.answer = FALSE,
                                  !.shut = IF Raw(c) THEN "write" ELSE "all"]
  <2>1. r \in ConnType /\ r.stage = conn[c].stage
    BY <1>0 DEF ConnType
  <2>2. conn' = [conn EXCEPT ![c] = r] /\ UNCHANGED <<lst, sem>>
    BY <1>5 DEF EndIn
  <2> HIDE DEF r
  <2>3. conn' \in [Conns -> ConnType] /\ SlotsAreCounted'
    BY <2>1, <2>2, ConnStep
  <2> QED BY <1>5, <2>3 DEF EndIn, TypeOK
<1>12. ASSUME NEW copy \in {"out", "in"},
              conn' = [conn EXCEPT ![c].stalled = @ \cup {copy}],
              UNCHANGED <<lst, sem, seen, log, probe>>
       PROVE  SlotInv'
  <2> DEFINE r == [conn[c] EXCEPT !.stalled = @ \cup {copy}]
  <2>1. r \in ConnType /\ r.stage = conn[c].stage
    BY <1>0 DEF ConnType
  <2>2. conn' = [conn EXCEPT ![c] = r]
    BY <1>12
  <2>3. conn' \in [Conns -> ConnType] /\ SlotsAreCounted'
    BY <1>12, <2>1, <2>2, ConnStep
  <2> QED BY <1>12, <2>3 DEF TypeOK
<1>13. CASE StallOut(c) \/ StallIn(c)
  BY <1>12, <1>13 DEF StallOut, StallIn
<1>6. CASE Connect(c)
  <2> DEFINE r == [conn[c] EXCEPT !.stage = "backlog", !.client = "open"]
  <2>1. r \in ConnType /\ r.stage = "backlog"
    BY <1>0 DEF ConnType, Stages
  <2>2. conn' = [conn EXCEPT ![c] = r]
    BY <1>6 DEF Connect
  <2>3. conn' \in [Conns -> ConnType] /\ SlotsAreCounted'
    BY <1>6, <2>1, <2>2, ConnStep DEF Connect, HandlerStages
  <2> QED BY <1>6, <2>3 DEF Connect, TypeOK
<1>7. CASE ClientSend(c)
  <2> DEFINE n == conn[c].sent + 1
             r == [conn[c] EXCEPT !.sent = n]
  <2>a. n \in Nat
    BY <1>0 DEF ConnType
  <2> HIDE DEF n
  <2>1. r \in ConnType /\ r.stage = conn[c].stage
    BY <1>0, <2>a DEF ConnType
  <2>2. conn' = [conn EXCEPT ![c] = r]
    BY <1>7 DEF ClientSend, n
  <2>3. conn' \in [Conns -> ConnType] /\ SlotsAreCounted'
    BY <1>7, <2>1, <2>2, ConnStep DEF ClientSend
  <2> QED BY <1>7, <2>3 DEF ClientSend, TypeOK
<1>8. ASSUME NEW how \in {"fin", "reset"}, ClientEnd(c, how)
      PROVE  SlotInv'
  <2> DEFINE r == [conn[c] EXCEPT !.client = how]
  <2>1. r \in ConnType /\ r.stage = conn[c].stage
    BY <1>0 DEF ConnType
  <2>2. conn' = [conn EXCEPT ![c] = r]
    BY <1>8 DEF ClientEnd
  <2>3. conn' \in [Conns -> ConnType] /\ SlotsAreCounted'
    BY <1>8, <2>1, <2>2, ConnStep DEF ClientEnd
  <2> QED BY <1>8, <2>3 DEF ClientEnd, TypeOK
<1>9. CASE UpAnswer(c)
  <2> DEFINE r == [conn[c] EXCEPT !.answer = TRUE]
  <2>1. r \in ConnType /\ r.stage = conn[c].stage
    BY <1>0 DEF ConnType
  <2>2. conn' = [conn EXCEPT ![c] = r]
    BY <1>9 DEF UpAnswer
  <2>3. conn' \in [Conns -> ConnType] /\ SlotsAreCounted'
    BY <1>9, <2>1, <2>2, ConnStep DEF UpAnswer
  <2> QED BY <1>9, <2>3 DEF UpAnswer, TypeOK
<1>10. ASSUME NEW how \in {"fin", "reset"}, UpEnd(c, how)
       PROVE  SlotInv'
  <2> DEFINE r == [conn[c] EXCEPT !.up = how]
  <2>1. r \in ConnType /\ r.stage = conn[c].stage
    BY <1>0 DEF ConnType
  <2>2. conn' = [conn EXCEPT ![c] = r]
    BY <1>10 DEF UpEnd
  <2>3. conn' \in [Conns -> ConnType] /\ SlotsAreCounted'
    BY <1>10, <2>1, <2>2, ConnStep DEF UpEnd
  <2> QED BY <1>10, <2>3 DEF UpEnd, TypeOK
<1>11. CASE ProbeDial(c)
  <2> DEFINE r == [conn[c] EXCEPT !.stage = "backlog", !.client = "fin"]
  <2>1. r \in ConnType /\ r.stage = "backlog"
    BY <1>0 DEF ConnType, Stages
  <2>2. conn' = [conn EXCEPT ![c] = r]
    BY <1>11 DEF ProbeDial
  <2>3. conn' \in [Conns -> ConnType] /\ SlotsAreCounted'
    BY <1>11, <2>1, <2>2, ConnStep DEF ProbeDial, HandlerStages
  <2>4. probe' \in [on : BOOLEAN, found : SUBSET Probed, nr : 0 .. MaxProbes]
    BY <1>11 DEF ProbeDial, TypeOK
  <2> QED BY <1>11, <2>3, <2>4 DEF ProbeDial, TypeOK
<1> QED BY <1>1, <1>2, <1>3, <1>4, <1>5, <1>6, <1>7, <1>8, <1>9, <1>10, <1>11,
        <1>12, <1>13 DEF Splice, Client, Upstream

(* The slots are counted exactly in every reachable state.                 *)
LEMMA SlotInvariance == Spec => []SlotInv
<1>1. Init => SlotInv
  <2> SUFFICES ASSUME Init PROVE SlotInv
    OBVIOUS
  <2>1. TypeOK
    BY DEF Init, TypeOK, NewConn, ConnType, Stages, HandlerStages, NoProbe
  <2>2. Accepting = {} /\ Handled = {}
    BY DEF Init, Accepting, Handled, NewConn, HandlerStages
  <2> QED BY <2>1, <2>2, FS_EmptySet DEF Init, SlotInv, SlotsAreCounted
<1>2. SlotInv /\ [Next]_vars => SlotInv'
  <2> SUFFICES ASSUME SlotInv, [Next]_vars PROVE SlotInv'
    OBVIOUS
  <2>1. CASE ProbeStart
    <3>1. Accepting' = Accepting /\ Handled' = Handled
      BY <2>1 DEF Accepting, Handled, ProbeStart
    <3>2. probe' \in [on : BOOLEAN, found : SUBSET Probed, nr : 0 .. MaxProbes]
      BY <2>1 DEF ProbeStart, SlotInv, TypeOK
    <3> QED BY <2>1, <3>1, <3>2 DEF ProbeStart, SlotInv, TypeOK, SlotsAreCounted
  <2>2. CASE UNCHANGED vars
    <3>1. Accepting' = Accepting /\ Handled' = Handled
      BY <2>2 DEF Accepting, Handled, vars
    <3> QED BY <2>2, <3>1 DEF vars, SlotInv, TypeOK, SlotsAreCounted
  <2> QED BY <2>1, <2>2, LoopSlots, HandlerSlots, PeerSlots DEF Next
<1> QED BY <1>1, <1>2, PTL DEF Spec

(* Type correctness, and the slots taken are exactly those of the loops in *)
(* Accept and of the handlers that have not returned (accept.go).          *)
THEOREM SlotsCounted == Spec => [](TypeOK /\ SlotsAreCounted)
BY SlotInvariance, PTL DEF SlotInv

(* Never more handlers than slots, over all listeners.                     *)
THEOREM HandlersBounded == Spec => []BoundedHandlers
<1>1. SlotInv => BoundedHandlers
  BY FiniteCounts DEF SlotInv, TypeOK, SlotsAreCounted, BoundedHandlers
<1> QED BY <1>1, SlotInvariance, PTL
-----------------------------------------------------------------------------
(* The log: an entry is made once, by the handler that then writes its     *)
(* line, and the line is there or about to be written.                     *)
LogInv ==
    /\ \A d \in Dests : log[d] > 0 => d \in seen
    /\ \A c \in Conns : conn[c].stage = "log" =>
           DestOf[c] \in seen /\ log[DestOf[c]] = 0
    /\ \A c, k \in Conns :
           (conn[c].stage = "log" /\ conn[k].stage = "log"
            /\ DestOf[c] = DestOf[k]) => c = k
    /\ LoggedOnce
    /\ \A d \in seen : \/ log[d] = 1
                       \/ \E k \in Conns : conn[k].stage = "log" /\ DestOf[k] = d
    /\ \A c \in Conns : (conn[c].stage = "splice" /\ ~Raw(c)) => DestOf[c] \in seen

(* A step that touches neither the log nor a handler that is at it.        *)
LEMMA StageStep ==
    ASSUME LogInv, UNCHANGED <<seen, log>>,
           \A k \in Conns : (conn'[k].stage = "log") <=> (conn[k].stage = "log"),
           \A k \in Conns : conn'[k].stage = "splice" =>
                                conn[k].stage = "splice" \/ Raw(k)
    PROVE  LogInv'
BY DEF LogInv, LoggedOnce, Raw, KindOf

(* handle returns: its connection is over, the others are as they were.    *)
LEMMA ReturnStage ==
    ASSUME conn \in [Conns -> ConnType], NEW c \in Conns, NEW b, Return(c, b)
    PROVE  conn'[c].stage = "over" /\ \A k \in Conns \ {c} : conn'[k] = conn[k]
<1>1. conn[c] \in ConnType
  OBVIOUS
<1> QED BY <1>1 DEF Return, ConnType

(* The steps of the handlers and of everybody else.                        *)
LEMMA LogStep ==
    ASSUME TypeOK, LogInv, [Next]_vars
    PROVE  LogInv'
<1>0. /\ conn \in [Conns -> ConnType] /\ log \in [Dests -> Nat]
      /\ seen \in SUBSET Dests
  BY DEF TypeOK
<1>1. CASE UNCHANGED vars
  BY <1>1, StageStep DEF vars
<1>2. CASE ProbeStart
  BY <1>2, StageStep DEF ProbeStart
<1>3. ASSUME NEW l \in Listeners, Loop(l)
      PROVE  LogInv'
  <2>1. CASE Acquire(l) \/ AcceptFails(l) \/ Finalize(l) \/ ProbeFails(l)
    BY <2>1, StageStep DEF Acquire, AcceptFails, Finalize, ProbeFails
  <2>2. ASSUME NEW c \in Conns, Accept(l, c)
        PROVE  LogInv'
    BY <1>0, <2>2, StageStep DEF Accept
  <2> QED BY <1>3, <2>1, <2>2 DEF Loop
<1>4. ASSUME NEW c \in Conns, Splice(c) \/ Client(c) \/ Upstream(c) \/ ProbeDial(c)
      PROVE  LogInv'
  <2>0. conn[c] \in ConnType
    BY <1>0
  <2>1. /\ UNCHANGED <<seen, log>>
        /\ \A k \in Conns \ {c} : conn'[k] = conn[k]
        /\ \/ conn[c].stage # "log" /\ conn'[c].stage \in {"over", "backlog"}
           \/ conn'[c].stage = conn[c].stage
    <3>1. CASE Finish(c)
      BY <1>0, <3>1, ReturnStage DEF Finish
    <3>2. CASE Connect(c)
      BY <1>0, <2>0, <3>2 DEF Connect, ConnType
    <3>3. CASE ProbeDial(c)
      BY <1>0, <2>0, <3>3 DEF ProbeDial, ConnType
    <3>4. CASE CopyOut(c)
      BY <1>0, <2>0, <3>4 DEF CopyOut, ConnType
    <3>5. CASE EndOut(c)
      BY <1>0, <2>0, <3>5 DEF EndOut, ConnType
    <3>6. CASE CopyIn(c)
      BY <1>0, <2>0, <3>6 DEF CopyIn, ConnType
    <3>7. CASE EndIn(c)
      BY <1>0, <2>0, <3>7 DEF EndIn, ConnType
    <3>11. CASE StallOut(c) \/ StallIn(c)
      BY <1>0, <2>0, <3>11 DEF StallOut, StallIn, ConnType
    <3>8. CASE ClientSend(c)
      BY <1>0, <2>0, <3>8 DEF ClientSend, ConnType
    <3>9. CASE UpAnswer(c)
      BY <1>0, <2>0, <3>9 DEF UpAnswer, ConnType
    <3>10. ASSUME NEW how, ClientEnd(c, how) \/ UpEnd(c, how)
           PROVE  /\ UNCHANGED <<seen, log>>
                  /\ \A k \in Conns \ {c} : conn'[k] = conn[k]
                  /\ conn'[c].stage = conn[c].stage
      BY <1>0, <2>0, <3>10 DEF ClientEnd, UpEnd, ConnType
    <3> QED BY <1>4, <3>1, <3>2, <3>3, <3>4, <3>5, <3>6, <3>7, <3>8, <3>9, <3>10,
            <3>11 DEF Splice, Client, Upstream
  <2> QED BY <2>1, StageStep
<1>5. ASSUME NEW c \in Conns, Handler(c)
      PROVE  LogInv'
  <2>0. conn[c] \in ConnType
    BY <1>0
  <2>1. CASE ReadHead(c)
    BY <1>0, <2>1, StageStep DEF ReadHead
  <2>2. CASE RejectHead(c) \/ Refuse(c) \/ Panic(c)
    BY <1>0, <2>2, ReturnStage, StageStep DEF RejectHead, Refuse, Panic
  <2>3. CASE Dial(c)
    BY <1>0, <2>3, StageStep DEF Dial, StartSplice, Raw, KindOf
  <2>4. CASE Reply(c)
    <3>1. CASE Return(c, TRUE)
      BY <1>0, <2>4, <3>1, ReturnStage, StageStep DEF Reply
    <3>2. CASE conn' = [conn EXCEPT ![c].stage = "note"]
      BY <1>0, <2>4, <3>2, StageStep DEF Reply
    <3> QED BY <2>4, <3>1, <3>2 DEF Reply
  <2>5. CASE Note(c)
    <3>1. CASE DestOf[c] \in seen
      <4>1. seen' = seen /\ log' = log
        BY <2>5, <3>1 DEF Note
      <4>2. conn' = [conn EXCEPT ![c] = StartSplice(@)] /\ conn[c].stage = "note"
        BY <2>5, <3>1 DEF Note
      <4>3. conn'[c].stage = "splice"
        BY <1>0, <2>0, <4>2 DEF StartSplice, ConnType
      <4> QED BY <1>0, <3>1, <4>1, <4>2, <4>3 DEF LogInv, LoggedOnce, Raw, KindOf
    <3>2. CASE DestOf[c] \notin seen
      <4>1. seen' = seen \cup {DestOf[c]} /\ log' = log /\ log[DestOf[c]] = 0
        BY <1>0, <2>5, <3>2 DEF Note, LogInv
      <4>2. conn' = [conn EXCEPT ![c].stage = "log"] /\ conn[c].stage = "note"
        BY <2>5, <3>2 DEF Note
      <4>3. \A k \in Conns : conn[k].stage = "log" => DestOf[k] # DestOf[c]
        BY <3>2 DEF LogInv
      <4>4. conn'[c].stage = "log" /\ \A k \in Conns \ {c} : conn'[k] = conn[k]
        BY <1>0, <2>0, <4>2 DEF ConnType
      <4> QED BY <1>0, <4>1, <4>3, <4>4 DEF LogInv, LoggedOnce, Raw, KindOf
    <3> QED BY <3>1, <3>2
  <2>6. CASE WriteLog(c)
    <3>1. /\ log' = [log EXCEPT ![DestOf[c]] = 1] /\ seen' = seen
          /\ conn[c].stage = "log" /\ DestOf[c] \in seen
      <4>1. conn[c].stage = "log" /\ log[DestOf[c]] = 0 /\ DestOf[c] \in seen
        BY <2>6 DEF WriteLog, LogInv
      <4>2. log' = [log EXCEPT ![DestOf[c]] = log[DestOf[c]] + 1] /\ seen' = seen
        BY <2>6 DEF WriteLog
      <4> QED BY <4>1, <4>2
    <3>2. conn'[c].stage = "splice" /\ \A k \in Conns \ {c} : conn'[k] = conn[k]
      BY <1>0, <2>0, <2>6 DEF WriteLog, StartSplice, ConnType
    <3>3. \A k \in Conns \ {c} : conn[k].stage = "log" => DestOf[k] # DestOf[c]
      BY <3>1 DEF LogInv
    <3> QED BY <1>0, <3>1, <3>2, <3>3 DEF LogInv, LoggedOnce, Raw, KindOf
  <2> QED BY <1>5, <2>1, <2>2, <2>3, <2>4, <2>5, <2>6 DEF Handler
<1> QED BY <1>1, <1>2, <1>3, <1>4, <1>5 DEF Next

(* The log's invariant holds in every reachable state.                     *)
LEMMA LogInvariance == Spec => []LogInv
<1>1. Init => LogInv
  BY DEF Init, NewConn, LogInv, LoggedOnce
<1>2. TypeOK /\ LogInv /\ [Next]_vars => LogInv'
  BY LogStep
<1> QED BY <1>1, <1>2, SlotsCounted, PTL DEF Spec

(* A destination is logged at most once, however many handlers come to it  *)
(* together (egressLogger.note).                                           *)
THEOREM DestinationLoggedOnce == Spec => []LoggedOnce
BY LogInvariance, PTL DEF LogInv

(* What is spliced is in the log, or its line is about to be written by    *)
(* the handler that came to the destination first.                         *)
THEOREM SplicesLogged == Spec => []SplicedIsLogged
<1>1. LogInv => SplicedIsLogged
  BY DEF LogInv, SplicedIsLogged
<1> QED BY <1>1, LogInvariance, PTL
-----------------------------------------------------------------------------
(* The stream: what was taken out of the reader is what the upstream got,  *)
(* after CONNECT's own line.  A copy from the client has ended because all *)
(* the client sent has been passed on, or something broke off; the client  *)
(* is closed whole only when the other copy has ended, and a forwarded one *)
(* not even then.                                                          *)
StreamOk(c, r) ==
    /\ r.used <= r.read /\ r.read <= r.sent
    /\ r.stage # "splice" => r.copies = {}
    /\ r.stage = "away" => r.client = "none"
    /\ r.stage \in {"away", "backlog", "head", "egress"} => r.up = "none"
    /\ r.stage \in {"away", "backlog", "head"} =>
           r.read = 0 /\ r.used = 0 /\ r.got = <<>>
    /\ r.stage \in {"egress", "reply", "note", "log"} =>
           r.used = First(c) - 1 /\ r.got = <<>>
    /\ r.stage = "splice" => r.used = Len(r.got) + First(c) - 1
    /\ r.stage \notin {"splice", "over"} => r.shut = "open"
    /\ r.stage = "splice" =>
        /\ "in" \in r.copies => r.shut = "open"
        /\ Raw(c) => r.shut # "all"
        /\ "out" \notin r.copies =>
              \/ r.shut = "all" \/ "reset" \in {r.up, r.client}
              \/ r.client = "fin" /\ r.used = r.sent
    /\ \A i \in 1 .. Len(r.got) : r.got[i] = First(c) + i - 1

StreamInv == \A c \in Conns : StreamOk(c, conn[c])

(* A step of one connection.                                               *)
LEMMA StreamStep ==
    ASSUME conn \in [Conns -> ConnType], StreamInv, NEW c \in Conns, NEW r,
           conn' = [conn EXCEPT ![c] = r], StreamOk(c, r)
    PROVE  StreamInv'
<1>1. StreamOk(c, conn[c])'
  <2>1. conn'[c] = r
    OBVIOUS
  <2> QED BY ONLY StreamOk(c, r), <2>1 DEF StreamOk, First, KindOf, Raw
<1>2. ASSUME NEW k \in Conns, k # c PROVE StreamOk(k, conn[k])'
  <2>1. conn'[k] = conn[k] /\ StreamOk(k, conn[k])
    BY <1>2 DEF StreamInv
  <2> QED BY ONLY <2>1 DEF StreamOk, First, KindOf, Raw
<1> QED BY <1>1, <1>2 DEF StreamInv

(* handle returns.                                                         *)
LEMMA StreamReturn ==
    ASSUME conn \in [Conns -> ConnType], StreamInv, NEW c \in Conns,
           NEW b \in BOOLEAN, conn[c].copies = {}, Return(c, b)
    PROVE  StreamInv'
<1> DEFINE r == [conn[c] EXCEPT !.stage = "over",
                              !.shut = IF b THEN "all" ELSE @]
<1>1. conn[c] \in ConnType /\ StreamOk(c, conn[c])
  BY DEF StreamInv
<1>2. conn' = [conn EXCEPT ![c] = r]
  BY DEF Return
<1>3. StreamOk(c, r)
  BY <1>1 DEF StreamOk, ConnType
<1> QED BY <1>2, <1>3, StreamStep

(* A handler's steps before the splice, and the first of the splice.       *)
LEMMA StreamHandler ==
    ASSUME conn \in [Conns -> ConnType], StreamInv, NEW c \in Conns, Handler(c)
    PROVE  StreamInv'
<1>0. conn[c] \in ConnType /\ StreamOk(c, conn[c])
  BY DEF StreamInv
<1>1. CASE ReadHead(c)
  <2>1. PICK n \in 1 .. conn[c].sent :
          conn' = [conn EXCEPT ![c].stage = "egress", ![c].read = n,
                               ![c].used = IF KindOf(c) = "connect" THEN 1 ELSE 0]
    BY <1>1 DEF ReadHead
  <2> DEFINE r == [conn[c] EXCEPT !.stage = "egress", !.read = n,
                               !.used = IF KindOf(c) = "connect" THEN 1 ELSE 0]
  <2>2. conn' = [conn EXCEPT ![c] = r]
    BY <2>1
  <2>3. n \in Nat /\ n >= 1
    BY <1>0, <2>1 DEF ConnType
  <2>4. StreamOk(c, r)
    BY <1>0, <1>1, <2>3 DEF StreamOk, ReadHead, First, ConnType
  <2> QED BY <2>2, <2>4, StreamStep
<1>2. CASE RejectHead(c) \/ Refuse(c) \/ Panic(c)
  <2>1. conn[c].copies = {}
    BY <1>0, <1>2 DEF StreamOk, RejectHead, Refuse, Panic
  <2> QED BY <1>2, <2>1, StreamReturn DEF RejectHead, Refuse, Panic
<1>3. CASE Dial(c)
  <2> DEFINE r == [conn[c] EXCEPT !.up = "open"]
             q == CASE KindOf(c) = "connect" -> [r EXCEPT !.stage = "reply"]
                    [] KindOf(c) = "transparent" -> [r EXCEPT !.stage = "note"]
                    [] OTHER -> StartSplice(r)
  <2>1. conn' = [conn EXCEPT ![c] = q]
    BY <1>3 DEF Dial
  <2>2. StreamOk(c, q)
    BY <1>0, <1>3 DEF Dial, StreamOk, StartSplice, First, ConnType
  <2> QED BY <2>1, <2>2, StreamStep
<1>4. CASE Reply(c)
  <2>1. CASE Return(c, TRUE)
    BY <1>0, <1>4, <2>1, StreamReturn DEF Reply, StreamOk
  <2>2. CASE conn' = [conn EXCEPT ![c].stage = "note"]
    <3> DEFINE r == [conn[c] EXCEPT !.stage = "note"]
    <3>1. StreamOk(c, r)
      BY <1>0, <1>4 DEF Reply, StreamOk, ConnType
    <3> QED BY <2>2, <3>1, StreamStep
  <2> QED BY <1>4, <2>1, <2>2 DEF Reply
<1>5. CASE Note(c) \/ WriteLog(c)
  <2>1. conn[c].stage \in {"note", "log"}
    BY <1>5 DEF Note, WriteLog
  <2>2. StreamOk(c, StartSplice(conn[c]))
    BY <1>0, <2>1 DEF StreamOk, StartSplice, First, ConnType
  <2>3. StreamOk(c, [conn[c] EXCEPT !.stage = "log"])
    BY <1>0, <2>1 DEF StreamOk, ConnType
  <2>4. \/ conn' = [conn EXCEPT ![c] = StartSplice(conn[c])]
        \/ conn' = [conn EXCEPT ![c] = [conn[c] EXCEPT !.stage = "log"]]
    BY <1>5 DEF Note, WriteLog
  <2> QED BY <2>2, <2>3, <2>4, StreamStep
<1> QED BY <1>1, <1>2, <1>3, <1>4, <1>5 DEF Handler

(* The copies: the next byte out is the one after those the upstream has.  *)
LEMMA StreamSplice ==
    ASSUME conn \in [Conns -> ConnType], StreamInv, NEW c \in Conns, Splice(c)
    PROVE  StreamInv'
<1>0. conn[c] \in ConnType /\ StreamOk(c, conn[c])
  BY DEF StreamInv
<1>1. CASE CopyOut(c)
  <2> DEFINE n == NextOut(conn[c])
             g == Append(conn[c].got, n)
             d == IF n > conn[c].read THEN n ELSE conn[c].read
             r == [conn[c] EXCEPT !.got = g, !.used = n, !.read = d]
  <2>1. conn' = [conn EXCEPT ![c] = r]
    BY <1>1 DEF CopyOut
  <2>2. n = conn[c].used + 1
    BY <1>0 DEF NextOut, StreamOk, ConnType
  <2>3. conn[c].stage = "splice" /\ n = Len(conn[c].got) + First(c)
    BY <1>0, <1>1, <2>2 DEF CopyOut, StreamOk, ConnType, First
  <2>4. n \in Nat /\ conn[c].got \in Seq(Nat) /\ conn[c].read \in Nat
    BY <1>0, <2>2 DEF ConnType
  <2> HIDE DEF n
  <2>5. Len(g) = Len(conn[c].got) + 1
    BY <2>4
  <2>a. Len(conn[c].got) \in Nat /\ First(c) \in Nat
    BY <2>4 DEF First
  <2>6. \A i \in 1 .. Len(g) : g[i] = First(c) + i - 1
    <3> TAKE i \in 1 .. Len(g)
    <3>1. CASE i = Len(g)
      <4>1. g[i] = n
        BY <2>4, <2>5, <3>1
      <4> QED BY <2>3, <2>5, <2>a, <3>1, <4>1
    <3>2. CASE i \in 1 .. Len(conn[c].got)
      <4>1. g[i] = conn[c].got[i]
        BY <2>4, <3>2
      <4> QED BY <1>0, <3>2, <4>1 DEF StreamOk
    <3> QED BY <2>4, <2>5, <3>1, <3>2
  <2>7. n <= d /\ n = Len(g) + First(c) - 1
    <3>1. n <= d
      BY <2>4
    <3> QED BY <2>3, <2>5, <2>a, <3>1
  <2>b. d <= conn[c].sent /\ "out" \in conn[c].copies
    BY <1>0, <1>1, <2>2 DEF CopyOut, Readable, Drained, StreamOk, ConnType
  <2> HIDE DEF g, d
  <2>8. StreamOk(c, r)
    BY <1>0, <2>3, <2>6, <2>7, <2>b DEF StreamOk, ConnType
  <2> QED BY <2>1, <2>8, StreamStep
<1>2. CASE EndOut(c)
  <2> DEFINE r == [conn[c] EXCEPT !.copies = @ \ {"out"}, !.stalled = @ \ {"out"}]
  <2>1. \/ conn[c].shut = "all" \/ "reset" \in {conn[c].up, conn[c].client}
        \/ conn[c].client = "fin" /\ conn[c].used = conn[c].sent
    BY <1>2 DEF EndOut, Drained
  <2>2. StreamOk(c, r)
    BY <1>0, <2>1 DEF StreamOk, ConnType
  <2> QED BY <1>2, <2>2, StreamStep DEF EndOut
<1>3. CASE CopyIn(c)
  <2> DEFINE r == [conn[c] EXCEPT !.answer = FALSE]
  <2>1. StreamOk(c, r)
    BY <1>0 DEF StreamOk, ConnType
  <2> QED BY <1>3, <2>1, StreamStep DEF CopyIn
<1>4. CASE EndIn(c)
  <2> DEFINE r == [conn[c] EXCEPT !.copies = @ \ {"in"}, !.stalled = @ \ {"in"},
                                  !.answer = FALSE,
                                  !.shut = IF Raw(c) THEN "write" ELSE "all"]
  <2>1. conn[c].shut = "open" /\ conn[c].stage = "splice"
    BY <1>0, <1>4 DEF EndIn, StreamOk, ConnType
  <2>a. r.shut = IF Raw(c) THEN "write" ELSE "all"
    BY <1>0 DEF ConnType
  <2>b. /\ r.copies = conn[c].copies \ {"in"} /\ r.stage = "splice"
        /\ r.used = conn[c].used /\ r.read = conn[c].read /\ r.sent = conn[c].sent
        /\ r.got = conn[c].got /\ r.up = conn[c].up /\ r.client = conn[c].client
    BY <1>0, <2>1 DEF ConnType
  <2> HIDE DEF r
  <2>2. StreamOk(c, r)
    BY <1>0, <2>1, <2>a, <2>b DEF StreamOk, Raw
  <2> QED BY <1>4, <2>2, StreamStep DEF EndIn, r
<1>6. CASE StallOut(c) \/ StallIn(c)
  <2> DEFINE r(copy) == [conn[c] EXCEPT !.stalled = @ \cup {copy}]
  <2>1. StreamOk(c, r("out")) /\ StreamOk(c, r("in"))
    BY <1>0 DEF StreamOk, ConnType
  <2>2. conn' = [conn EXCEPT ![c] = r("out")] \/ conn' = [conn EXCEPT ![c] = r("in")]
    BY <1>6 DEF StallOut, StallIn
  <2> QED BY <2>1, <2>2, StreamStep
<1>5. CASE Finish(c)
  BY <1>5, StreamReturn DEF Finish
<1> QED BY <1>1, <1>2, <1>3, <1>4, <1>5, <1>6 DEF Splice

(* The peers.                                                              *)
LEMMA StreamPeers ==
    ASSUME conn \in [Conns -> ConnType], StreamInv, NEW c \in Conns,
           Client(c) \/ Upstream(c) \/ ProbeDial(c)
    PROVE  StreamInv'
<1>0. conn[c] \in ConnType /\ StreamOk(c, conn[c])
  BY DEF StreamInv
<1>1. ASSUME NEW how, Connect(c) \/ ProbeDial(c)
      PROVE  StreamInv'
  <2> DEFINE r(e) == [conn[c] EXCEPT !.stage = "backlog", !.client = e]
  <2>1. StreamOk(c, r("open")) /\ StreamOk(c, r("fin"))
    BY <1>0, <1>1 DEF StreamOk, ConnType, Connect, ProbeDial
  <2>2. conn' = [conn EXCEPT ![c] = r("open")] \/ conn' = [conn EXCEPT ![c] = r("fin")]
    BY <1>1 DEF Connect, ProbeDial
  <2> QED BY <2>1, <2>2, StreamStep
<1>2. CASE ClientSend(c)
  <2> DEFINE r == [conn[c] EXCEPT !.sent = @ + 1]
  <2>1. StreamOk(c, r)
    BY <1>0, <1>2 DEF ClientSend, StreamOk, ConnType
  <2> QED BY <1>2, <2>1, StreamStep DEF ClientSend
<1>3. ASSUME NEW how, ClientEnd(c, how)
      PROVE  StreamInv'
  <2> DEFINE r == [conn[c] EXCEPT !.client = how]
  <2>1. StreamOk(c, r)
    BY <1>0, <1>3 DEF ClientEnd, StreamOk, ConnType
  <2> QED BY <1>3, <2>1, StreamStep DEF ClientEnd
<1>4. CASE UpAnswer(c)
  <2> DEFINE r == [conn[c] EXCEPT !.answer = TRUE]
  <2>1. StreamOk(c, r)
    BY <1>0 DEF StreamOk, ConnType
  <2> QED BY <1>4, <2>1, StreamStep DEF UpAnswer
<1>5. ASSUME NEW how, UpEnd(c, how)
      PROVE  StreamInv'
  <2> DEFINE r == [conn[c] EXCEPT !.up = how]
  <2>1. StreamOk(c, r)
    BY <1>0, <1>5 DEF UpEnd, StreamOk, ConnType
  <2> QED BY <1>5, <2>1, StreamStep DEF UpEnd
<1> QED BY <1>1, <1>2, <1>3, <1>4, <1>5 DEF Client, Upstream

(* A step of no connection.                                                *)
LEMMA StreamSame ==
    ASSUME conn \in [Conns -> ConnType], StreamInv, conn' = conn
    PROVE  StreamInv'
<1>1. ASSUME NEW c \in Conns
      PROVE  StreamInv'
  <2>1. conn' = [conn EXCEPT ![c] = conn[c]]
    OBVIOUS
  <2>2. StreamOk(c, conn[c])
    BY DEF StreamInv
  <2> QED BY <2>1, <2>2, StreamStep
<1>2. CASE Conns = {}
  BY <1>2 DEF StreamInv
<1> QED BY <1>1, <1>2

(* The loops: a handler begins with nothing read.                          *)
LEMMA StreamLoop ==
    ASSUME conn \in [Conns -> ConnType], StreamInv, NEW l \in Listeners, Loop(l)
    PROVE  StreamInv'
<1>1. CASE Acquire(l) \/ AcceptFails(l) \/ Finalize(l) \/ ProbeFails(l)
  <2>1. conn' = conn
    BY <1>1 DEF Acquire, AcceptFails, Finalize, ProbeFails
  <2> QED BY <2>1, StreamSame
<1>2. ASSUME NEW c \in Conns, Accept(l, c)
      PROVE  StreamInv'
  <2> DEFINE r == [conn[c] EXCEPT !.stage = IF Raw(c) THEN "egress" ELSE "head"]
  <2>1. conn[c] \in ConnType /\ StreamOk(c, conn[c])
    BY DEF StreamInv
  <2>2. StreamOk(c, r)
    BY <1>2, <2>1 DEF Accept, StreamOk, ConnType, First, Raw
  <2> QED BY <1>2, <2>2, StreamStep DEF Accept
<1> QED BY <1>1, <1>2 DEF Loop

LEMMA StreamInvariance == Spec => [](TypeOK /\ StreamInv)
<1>1. Init => StreamInv
  BY DEF Init, NewConn, StreamInv, StreamOk, First
<1>2. TypeOK /\ StreamInv /\ [Next]_vars => StreamInv'
  <2> SUFFICES ASSUME TypeOK, StreamInv, [Next]_vars PROVE StreamInv'
    OBVIOUS
  <2>1. conn \in [Conns -> ConnType]
    BY DEF TypeOK
  <2>2. CASE ProbeStart \/ UNCHANGED vars
    <3>1. conn' = conn
      BY <2>2 DEF ProbeStart, vars
    <3> QED BY <2>1, <3>1, StreamSame
  <2> QED BY <2>1, <2>2, StreamLoop, StreamHandler, StreamSplice, StreamPeers
          DEF Next
<1> QED BY <1>1, <1>2, SlotsCounted, PTL DEF Spec

(* The upstream gets the client's stream in order, no byte twice and none  *)
(* left out, for streams and buffers of any length (transparent.go,        *)
(* connect.go, splice.go).                                                 *)
THEOREM StreamExact == Spec => []StreamIsExact
<1>1. StreamInv => StreamIsExact
  BY DEF StreamInv, StreamOk, StreamIsExact
<1> QED BY <1>1, StreamInvariance, PTL

(* What a client sent before its half-close has been passed on when the    *)
(* copy ends, unless one of the other ends broke it off (splice.go).       *)
THEOREM HalfClosedIsWhole == Spec => []HalfClosedStreamIsWhole
<1>1. TypeOK /\ StreamInv => HalfClosedStreamIsWhole
  <2> SUFFICES ASSUME TypeOK, StreamInv, NEW c \in Conns,
                      conn[c].stage = "splice", "out" \notin conn[c].copies,
                      conn[c].client = "fin", conn[c].shut # "all",
                      conn[c].up # "reset"
               PROVE  Len(conn[c].got) = conn[c].sent + 1 - First(c)
    BY DEF HalfClosedStreamIsWhole
  <2>1. conn[c] \in ConnType /\ StreamOk(c, conn[c])
    BY DEF TypeOK, StreamInv
  <2>2. conn[c].used = conn[c].sent
    BY <2>1 DEF StreamOk
  <2>3. conn[c].used = Len(conn[c].got) + First(c) - 1
    BY <2>1 DEF StreamOk
  <2>4. Len(conn[c].got) \in Nat /\ First(c) \in Nat
    BY <2>1 DEF ConnType, First
  <2> QED BY <2>2, <2>3, <2>4
<1> QED BY <1>1, StreamInvariance, PTL

(* An upstream that ends its stream does not close a forwarded client      *)
(* (forward.go hands splice the connection itself).                        *)
THEOREM ForwardedGoesOn == Spec => []ClientStreamGoesOn
<1>1. StreamInv => ClientStreamGoesOn
  BY DEF StreamInv, StreamOk, ClientStreamGoesOn, Raw
<1> QED BY <1>1, StreamInvariance, PTL
-----------------------------------------------------------------------------
(* The streams are pipes.                                                  *)

(* A pipe's fields.                                                        *)
LEMMA PipeFields ==
    ASSUME NEW r
    PROVE  /\ PipeOf(r).sent = r.sent /\ PipeOf(r).got = r.got
           /\ PipeOf(r).ended = (r.client = "fin")
           /\ PipeOf(r).broken = Broken(r) /\ PipeOf(r).over = Over(r)
           /\ Broken(r) \in BOOLEAN /\ Over(r) \in BOOLEAN
BY DEF PipeOf, Broken, Over

(* Pipes with the same fields are the same.                                *)
PipeType == [sent : Nat, ended : BOOLEAN, got : Seq(Nat),
             broken : BOOLEAN, over : BOOLEAN]

LEMMA PipeTyped ==
    ASSUME NEW r, r.sent \in Nat, r.got \in Seq(Nat)
    PROVE  PipeOf(r) \in PipeType
BY DEF PipeOf, Broken, Over, PipeType

LEMMA SameFields ==
    ASSUME NEW a \in PipeType, NEW b \in PipeType,
           a.sent = b.sent, a.ended = b.ended, a.got = b.got,
           a.broken = b.broken, a.over = b.over
    PROVE  a = b
BY SMTT(30) DEF PipeType

LEMMA Written ==
    ASSUME NEW a \in PipeType, NEW b \in PipeType,
           b.sent = a.sent + 1, b.ended = a.ended, b.got = a.got,
           b.broken = a.broken, b.over = a.over
    PROVE  b = [a EXCEPT !.sent = @ + 1]
BY SameFields DEF PipeType

LEMMA Ended ==
    ASSUME NEW a \in PipeType, NEW b \in PipeType,
           b.sent = a.sent, b.ended = TRUE, b.got = a.got,
           b.broken = a.broken, b.over = a.over
    PROVE  b = [a EXCEPT !.ended = TRUE]
BY SameFields DEF PipeType

LEMMA Delivered ==
    ASSUME NEW a \in PipeType, NEW b \in PipeType, NEW n \in Nat,
           b.sent = a.sent, b.ended = a.ended, b.got = Append(a.got, n),
           b.broken = a.broken, b.over = a.over
    PROVE  b = [a EXCEPT !.got = Append(@, n)]
BY SameFields DEF PipeType

LEMMA Broke ==
    ASSUME NEW a \in PipeType, NEW b \in PipeType,
           b.sent = a.sent, b.ended = a.ended, b.got = a.got,
           b.broken = TRUE, b.over = a.over
    PROVE  b = [a EXCEPT !.broken = TRUE]
BY SameFields DEF PipeType

LEMMA CameToEnd ==
    ASSUME NEW a \in PipeType, NEW b \in PipeType, NEW w \in BOOLEAN,
           b.sent = a.sent, b.ended = a.ended, b.got = a.got,
           b.broken = w, b.over = TRUE
    PROVE  b = [a EXCEPT !.over = TRUE, !.broken = w]
BY SameFields DEF PipeType

(* A step of the pipe of c, from a to b.                                   *)
PipeStep(c, a, b) ==
    \/ b = a
    \/ ~a.ended /\ b = [a EXCEPT !.sent = @ + 1]
    \/ b = [a EXCEPT !.ended = TRUE]
    \/ /\ ~a.over /\ First(c) - 1 + Len(a.got) < a.sent
       /\ b = [a EXCEPT !.got = Append(@, First(c) - 1 + Len(@) + 1)]
    \/ b = [a EXCEPT !.broken = TRUE]
    \/ \E w \in {a.broken, TRUE} :
          /\ w \/ (a.ended /\ First(c) - 1 + Len(a.got) = a.sent)
          /\ b = [a EXCEPT !.over = TRUE, !.broken = w]

(* A step of one connection is a step of its pipe.                         *)
LEMMA OnePipe ==
    ASSUME conn \in [Conns -> ConnType], NEW c \in Conns, NEW r,
           conn' = [conn EXCEPT ![c] = r], PipeStep(c, PipeOf(conn[c]), PipeOf(r))
    PROVE  [Piped!Next]_Streams
<1> DEFINE a == PipeOf(conn[c])
           b == PipeOf(r)
<1>1. Streams[c] = a /\ Heads[c] = First(c) - 1
  BY DEF Streams, Heads
<1>2. Streams' = [Streams EXCEPT ![c] = b]
  <2>1. \A k \in Conns : conn'[k] = IF k = c THEN r ELSE conn[k]
    OBVIOUS
  <2>2. Streams' = [k \in Conns |-> PipeOf(conn'[k])]
    BY DEF Streams
  <2>3. \A k \in Conns : PipeOf(conn'[k]) = IF k = c THEN b ELSE PipeOf(conn[k])
    BY <2>1
  <2> HIDE DEF b
  <2>4. Streams' = [k \in Conns |-> IF k = c THEN b ELSE PipeOf(conn[k])]
    BY <2>2, <2>3
  <2> QED BY <2>4 DEF Streams
<1>3. PipeStep(c, a, b)
  OBVIOUS
<1> HIDE DEF a, b
<1>4. CASE b = a
  <2>1. Streams' = Streams
    BY <1>1, <1>2, <1>4 DEF Streams
  <2> QED BY <2>1
<1>5. CASE ~a.ended /\ b = [a EXCEPT !.sent = @ + 1]
  <2>1. Piped!Send(c)
    BY <1>1, <1>2, <1>5 DEF Piped!Send
  <2> QED BY <2>1 DEF Piped!Next
<1>6. CASE b = [a EXCEPT !.ended = TRUE]
  <2>1. Piped!SenderEnds(c)
    BY <1>1, <1>2, <1>6 DEF Piped!SenderEnds
  <2> QED BY <2>1 DEF Piped!Next
<1>7. CASE /\ ~a.over /\ First(c) - 1 + Len(a.got) < a.sent
           /\ b = [a EXCEPT !.got = Append(@, First(c) - 1 + Len(@) + 1)]
  <2>1. Piped!Deliver(c)
    BY <1>1, <1>2, <1>7 DEF Piped!Deliver
  <2> QED BY <2>1 DEF Piped!Next
<1>8. CASE b = [a EXCEPT !.broken = TRUE]
  <2>1. Piped!Break(c)
    BY <1>1, <1>2, <1>8 DEF Piped!Break
  <2> QED BY <2>1 DEF Piped!Next
<1>9. ASSUME NEW w \in {a.broken, TRUE},
             w \/ (a.ended /\ First(c) - 1 + Len(a.got) = a.sent),
             b = [a EXCEPT !.over = TRUE, !.broken = w]
      PROVE  [Piped!Next]_Streams
  <2>1. Piped!End(c)
    BY <1>1, <1>2, <1>9 DEF Piped!End, Piped!Whole
  <2> QED BY <2>1 DEF Piped!Next
<1> QED BY <1>3, <1>4, <1>5, <1>6, <1>7, <1>8, <1>9 DEF PipeStep

(* handle returns: its pipe ends, or breaks after its end.                 *)
LEMMA PipeReturn ==
    ASSUME conn \in [Conns -> ConnType], NEW c \in Conns,
           NEW b \in BOOLEAN, Return(c, b)
    PROVE  [Piped!Next]_Streams
<1> DEFINE r == [conn[c] EXCEPT !.stage = "over",
                              !.shut = IF b THEN "all" ELSE @]
<1>1. conn' = [conn EXCEPT ![c] = r]
  BY DEF Return
<1>2. /\ r.sent = conn[c].sent /\ r.got = conn[c].got
      /\ r.client = conn[c].client /\ r.stage = "over"
  BY DEF ConnType
<1> HIDE DEF r
<1>3. Broken(r) = TRUE /\ Over(r) = TRUE
  BY <1>2 DEF Broken, Over
<1>4. PipeOf(r) = [PipeOf(conn[c]) EXCEPT !.over = TRUE, !.broken = TRUE]
  <2>1. conn[c].sent \in Nat /\ conn[c].got \in Seq(Nat)
    BY DEF ConnType
  <2>2. PipeOf(r) \in PipeType /\ PipeOf(conn[c]) \in PipeType
    BY <1>2, <2>1, PipeTyped
  <2>3. /\ PipeOf(r).sent = PipeOf(conn[c]).sent
        /\ PipeOf(r).ended = PipeOf(conn[c]).ended
        /\ PipeOf(r).got = PipeOf(conn[c]).got
        /\ PipeOf(r).broken = TRUE /\ PipeOf(r).over = TRUE
    BY <1>2, <1>3, PipeFields
  <2> QED BY <2>2, <2>3, CameToEnd
<1>5. PipeStep(c, PipeOf(conn[c]), PipeOf(r))
  BY <1>4 DEF PipeStep
<1> QED BY <1>1, <1>5, OnePipe DEF r

(* The handlers: nothing passes before the splice.                         *)
LEMMA PipeHandler ==
    ASSUME conn \in [Conns -> ConnType], StreamInv, NEW c \in Conns, Handler(c)
    PROVE  [Piped!Next]_Streams
<1>0. conn[c] \in ConnType /\ StreamOk(c, conn[c])
  BY DEF StreamInv
<1>1. CASE ReadHead(c)
  <2>1. PICK n \in 1 .. conn[c].sent :
          conn' = [conn EXCEPT ![c].stage = "egress", ![c].read = n,
                               ![c].used = IF KindOf(c) = "connect" THEN 1 ELSE 0]
    BY <1>1 DEF ReadHead
  <2> DEFINE r == [conn[c] EXCEPT !.stage = "egress", !.read = n,
                               !.used = IF KindOf(c) = "connect" THEN 1 ELSE 0]
  <2>2. conn' = [conn EXCEPT ![c] = r]
    BY <2>1
  <2>3. PipeOf(r) = PipeOf(conn[c])
    BY <1>0, <1>1 DEF PipeOf, Broken, Over, ReadHead, ConnType
  <2> QED BY <2>2, <2>3, OnePipe DEF PipeStep
<1>2. CASE RejectHead(c) \/ Refuse(c) \/ Panic(c)
  BY <1>2, PipeReturn DEF RejectHead, Refuse, Panic
<1>3. CASE Dial(c)
  <2> DEFINE r == [conn[c] EXCEPT !.up = "open"]
             q == CASE KindOf(c) = "connect" -> [r EXCEPT !.stage = "reply"]
                    [] KindOf(c) = "transparent" -> [r EXCEPT !.stage = "note"]
                    [] OTHER -> StartSplice(r)
  <2>1. conn' = [conn EXCEPT ![c] = q]
    BY <1>3 DEF Dial
  <2>2. PipeOf(q) = PipeOf(r)
    BY <1>0, <1>3 DEF PipeOf, Broken, Over, Dial, StreamOk, StartSplice, ConnType
  <2>3. PipeOf(r) = PipeOf(conn[c])
    BY <1>0, <1>3 DEF PipeOf, Broken, Over, Dial, StreamOk, ConnType
  <2> QED BY <2>1, <2>2, <2>3, OnePipe DEF PipeStep
<1>4. CASE Reply(c)
  <2>1. CASE Return(c, TRUE)
    BY <2>1, PipeReturn
  <2>2. CASE conn' = [conn EXCEPT ![c].stage = "note"]
    <3> DEFINE r == [conn[c] EXCEPT !.stage = "note"]
    <3>1. PipeOf(r) = PipeOf(conn[c])
      BY <1>0, <1>4 DEF Reply, PipeOf, Broken, Over, ConnType
    <3> QED BY <2>2, <3>1, OnePipe DEF PipeStep
  <2> QED BY <1>4, <2>1, <2>2 DEF Reply
<1>5. CASE Note(c) \/ WriteLog(c)
  <2>1. conn[c].stage \in {"note", "log"}
    BY <1>5 DEF Note, WriteLog
  <2>2. PipeOf(StartSplice(conn[c])) = PipeOf(conn[c])
    BY <1>0, <2>1 DEF PipeOf, Broken, Over, StartSplice, ConnType
  <2>3. PipeOf([conn[c] EXCEPT !.stage = "log"]) = PipeOf(conn[c])
    BY <1>0, <2>1 DEF PipeOf, Broken, Over, ConnType
  <2>4. \/ conn' = [conn EXCEPT ![c] = StartSplice(conn[c])]
        \/ conn' = [conn EXCEPT ![c] = [conn[c] EXCEPT !.stage = "log"]]
    BY <1>5 DEF Note, WriteLog
  <2> QED BY <2>2, <2>3, <2>4, OnePipe DEF PipeStep
<1> QED BY <1>1, <1>2, <1>3, <1>4, <1>5 DEF Handler

(* Of a step that passes nothing on, and ends nothing.                     *)
LEMMA SamePipe ==
    ASSUME NEW q, NEW r, q.sent \in Nat, q.got \in Seq(Nat),
           r.sent = q.sent, r.got = q.got, Over(r) = Over(q),
           \/ r.client = q.client
           \/ r.client # "fin" /\ q.client # "fin",
           Broken(r) = Broken(q) \/ Broken(r) = TRUE
    PROVE  PipeOf(r) = PipeOf(q) \/ PipeOf(r) = [PipeOf(q) EXCEPT !.broken = TRUE]
<1>1. (r.client = "fin") = (q.client = "fin")
  OBVIOUS
<1>2. PipeOf(q) \in PipeType /\ PipeOf(r) \in PipeType
  BY PipeTyped
<1>3. /\ PipeOf(r).sent = PipeOf(q).sent /\ PipeOf(r).ended = PipeOf(q).ended
      /\ PipeOf(r).got = PipeOf(q).got /\ PipeOf(r).over = PipeOf(q).over
      /\ PipeOf(r).broken = PipeOf(q).broken \/ PipeOf(r).broken = TRUE
  BY <1>1, PipeFields
<1> QED BY <1>2, <1>3, SameFields, Broke

(* The copies: the only steps that deliver, and those that end the stream. *)
LEMMA PipeSplice ==
    ASSUME conn \in [Conns -> ConnType], StreamInv, NEW c \in Conns, Splice(c)
    PROVE  [Piped!Next]_Streams
<1>0. conn[c] \in ConnType /\ StreamOk(c, conn[c])
  BY DEF StreamInv
<1>a. Len(conn[c].got) \in Nat /\ First(c) \in Nat
  BY <1>0 DEF ConnType, First
<1>1. CASE CopyOut(c)
  <2> DEFINE n == NextOut(conn[c])
             r == [conn[c] EXCEPT !.got = Append(@, n), !.used = n,
                                  !.read = IF n > @ THEN n ELSE @]
  <2>1. conn' = [conn EXCEPT ![c] = r]
    BY <1>1 DEF CopyOut
  <2>2. n = conn[c].used + 1 /\ conn[c].used \in Nat
    BY <1>0 DEF NextOut, StreamOk, ConnType
  <2>3. conn[c].stage = "splice" /\ "out" \in conn[c].copies
    BY <1>0, <1>1 DEF CopyOut, StreamOk
  <2>4. conn[c].used = Len(conn[c].got) + First(c) - 1
    BY <1>0, <2>3 DEF StreamOk
  <2>5. n = First(c) - 1 + Len(conn[c].got) + 1
    BY <1>a, <2>2, <2>4
  <2>6. First(c) - 1 + Len(conn[c].got) < conn[c].sent
    <3>1. conn[c].used < conn[c].sent
      BY <1>0, <1>1 DEF CopyOut, Readable, Drained, StreamOk, ConnType
    <3> QED BY <1>a, <2>4, <3>1
  <2> HIDE DEF n
  <2>7. PipeOf(r) = [PipeOf(conn[c]) EXCEPT !.got = Append(@, n)]
    <3>1. /\ r.sent = conn[c].sent /\ r.client = conn[c].client /\ r.up = conn[c].up
          /\ r.stage = conn[c].stage /\ r.shut = conn[c].shut
          /\ r.copies = conn[c].copies /\ r.got = Append(conn[c].got, n)
      BY <1>0 DEF ConnType
    <3> HIDE DEF r
    <3>2. Broken(r) = Broken(conn[c]) /\ Over(r) = Over(conn[c])
      BY <3>1 DEF Broken, Over
    <3>3. n \in Nat /\ conn[c].sent \in Nat /\ conn[c].got \in Seq(Nat)
      BY <1>0, <2>2 DEF ConnType
    <3>4. r.got \in Seq(Nat)
      BY <3>1, <3>3
    <3>5. PipeOf(r) \in PipeType /\ PipeOf(conn[c]) \in PipeType
      BY <3>1, <3>3, <3>4, PipeTyped
    <3>6. /\ PipeOf(r).sent = PipeOf(conn[c]).sent
          /\ PipeOf(r).ended = PipeOf(conn[c]).ended
          /\ PipeOf(r).got = Append(PipeOf(conn[c]).got, n)
          /\ PipeOf(r).broken = PipeOf(conn[c]).broken
          /\ PipeOf(r).over = PipeOf(conn[c]).over
      BY <3>1, <3>2, PipeFields, SMTT(30)
    <3> QED BY <3>3, <3>5, <3>6, Delivered
  <2>8. ~PipeOf(conn[c]).over /\ PipeOf(conn[c]).got = conn[c].got
        /\ PipeOf(conn[c]).sent = conn[c].sent
    <3>1. ~Over(conn[c])
      BY <2>3 DEF Over
    <3> QED BY <3>1, PipeFields
  <2>9. PipeOf(r) = [PipeOf(conn[c]) EXCEPT !.got = Append(@, First(c) - 1 + Len(@) + 1)]
    BY <2>5, <2>7, <2>8
  <2> HIDE DEF r
  <2>10. PipeStep(c, PipeOf(conn[c]), PipeOf(r))
    BY <2>6, <2>8, <2>9 DEF PipeStep
  <2> QED BY <2>1, <2>10, OnePipe
<1>2. CASE EndOut(c)
  <2> DEFINE r == [conn[c] EXCEPT !.copies = @ \ {"out"}, !.stalled = @ \ {"out"}]
             a == PipeOf(conn[c])
  <2>1. conn' = [conn EXCEPT ![c] = r] /\ conn[c].stage = "splice"
    BY <1>0, <1>2 DEF EndOut, StreamOk
  <2>2. \/ conn[c].shut = "all" \/ "reset" \in {conn[c].up, conn[c].client}
        \/ conn[c].client = "fin" /\ conn[c].used = conn[c].sent
    BY <1>2 DEF EndOut, Drained
  <2>3. a.broken \/ (a.ended /\ First(c) - 1 + Len(a.got) = a.sent)
    <3>1. conn[c].used = First(c) - 1 + Len(conn[c].got)
      BY <1>0, <1>a, <2>1 DEF StreamOk
    <3>2. Broken(conn[c]) \/ (conn[c].client = "fin" /\ conn[c].used = conn[c].sent)
      BY <2>2 DEF Broken
    <3> QED BY <3>1, <3>2, PipeFields
  <2>4. PipeOf(r) = [a EXCEPT !.over = TRUE, !.broken = a.broken]
    <3>1. /\ r.sent = conn[c].sent /\ r.client = conn[c].client /\ r.up = conn[c].up
          /\ r.stage = "splice" /\ r.shut = conn[c].shut
          /\ "out" \notin r.copies /\ r.got = conn[c].got
      BY <1>0, <2>1 DEF ConnType
    <3> HIDE DEF r
    <3>2. Broken(r) = Broken(conn[c]) /\ Over(r) = TRUE
      BY <2>1, <3>1 DEF Broken, Over
    <3>3. conn[c].sent \in Nat /\ conn[c].got \in Seq(Nat)
      BY <1>0 DEF ConnType
    <3>4. PipeOf(r) \in PipeType /\ a \in PipeType
      BY <3>1, <3>3, PipeTyped
    <3>5. /\ PipeOf(r).sent = a.sent /\ PipeOf(r).ended = a.ended
          /\ PipeOf(r).got = a.got /\ PipeOf(r).broken = a.broken
          /\ PipeOf(r).over = TRUE /\ a.broken \in BOOLEAN
      BY <3>1, <3>2, PipeFields
    <3> HIDE DEF a
    <3> QED BY <3>4, <3>5, CameToEnd
  <2> HIDE DEF a, r
  <2>5. PipeStep(c, a, PipeOf(r))
    BY <2>3, <2>4 DEF PipeStep
  <2> QED BY <2>1, <2>5, OnePipe DEF a
<1>3. CASE CopyIn(c)
  <2> DEFINE r == [conn[c] EXCEPT !.answer = FALSE]
  <2>1. PipeOf(r) = PipeOf(conn[c])
    BY <1>0 DEF PipeOf, Broken, Over, ConnType
  <2> QED BY <1>3, <2>1, OnePipe DEF CopyIn, PipeStep
<1>4. CASE EndIn(c)
  <2> DEFINE r == [conn[c] EXCEPT !.copies = @ \ {"in"}, !.stalled = @ \ {"in"},
                                  !.answer = FALSE,
                                  !.shut = IF Raw(c) THEN "write" ELSE "all"]
             a == PipeOf(conn[c])
  <2>1. conn[c].shut = "open" /\ conn[c].stage = "splice"
    BY <1>0, <1>4 DEF EndIn, StreamOk, ConnType
  <2>2. /\ r.sent = conn[c].sent /\ r.client = conn[c].client /\ r.up = conn[c].up
        /\ r.stage = conn[c].stage /\ r.shut \in {"write", "all"}
        /\ ("out" \in r.copies) <=> ("out" \in conn[c].copies)
        /\ r.got = conn[c].got
    BY <1>0 DEF ConnType
  <2>3. PipeOf(r) = a \/ PipeOf(r) = [a EXCEPT !.broken = TRUE]
    <3> HIDE DEF r
    <3>1. Broken(r) = Broken(conn[c]) \/ Broken(r) = TRUE
      BY <2>1, <2>2 DEF Broken
    <3>2. Over(r) = Over(conn[c])
      BY <2>2 DEF Over
    <3>3. conn[c].sent \in Nat /\ conn[c].got \in Seq(Nat)
      BY <1>0 DEF ConnType
    <3> QED BY <2>2, <3>1, <3>2, <3>3, SamePipe
  <2> HIDE DEF a, r
  <2>4. PipeStep(c, a, PipeOf(r))
    BY <2>3 DEF PipeStep
  <2>5. conn' = [conn EXCEPT ![c] = r]
    BY <1>4 DEF EndIn, r
  <2> QED BY <2>4, <2>5, OnePipe DEF a
<1>6. CASE StallOut(c) \/ StallIn(c)
  <2> DEFINE r(copy) == [conn[c] EXCEPT !.stalled = @ \cup {copy}]
  <2>1. PipeOf(r("out")) = PipeOf(conn[c]) /\ PipeOf(r("in")) = PipeOf(conn[c])
    BY <1>0 DEF PipeOf, Broken, Over, ConnType
  <2>2. conn' = [conn EXCEPT ![c] = r("out")] \/ conn' = [conn EXCEPT ![c] = r("in")]
    BY <1>6 DEF StallOut, StallIn
  <2> QED BY <2>1, <2>2, OnePipe DEF PipeStep
<1>5. CASE Finish(c)
  BY <1>5, PipeReturn DEF Finish
<1> QED BY <1>1, <1>2, <1>3, <1>4, <1>5, <1>6 DEF Splice

(* The peers write, end and break.                                         *)
LEMMA PipePeers ==
    ASSUME conn \in [Conns -> ConnType], StreamInv, NEW c \in Conns,
           Client(c) \/ Upstream(c) \/ ProbeDial(c)
    PROVE  [Piped!Next]_Streams
<1>0. conn[c] \in ConnType /\ StreamOk(c, conn[c])
  BY DEF StreamInv
<1>t. conn[c].sent \in Nat /\ conn[c].got \in Seq(Nat)
  BY <1>0 DEF ConnType
<1>a. ASSUME NEW r, conn' = [conn EXCEPT ![c] = r],
             r.sent = conn[c].sent, r.got = conn[c].got, Over(r) = Over(conn[c]),
             r.client = conn[c].client \/ (r.client # "fin" /\ conn[c].client # "fin"),
             Broken(r) = Broken(conn[c]) \/ Broken(r) = TRUE
      PROVE  [Piped!Next]_Streams
  <2>1. PipeOf(r) = PipeOf(conn[c]) \/ PipeOf(r) = [PipeOf(conn[c]) EXCEPT !.broken = TRUE]
    BY <1>t, <1>a, SamePipe
  <2> QED BY <1>a, <2>1, OnePipe DEF PipeStep
<1>b. ASSUME NEW r, conn' = [conn EXCEPT ![c] = r], r.client = "fin",
             r.sent = conn[c].sent, r.got = conn[c].got, Over(r) = Over(conn[c]),
             Broken(r) = Broken(conn[c])
      PROVE  [Piped!Next]_Streams
  <2>1. PipeOf(r) = [PipeOf(conn[c]) EXCEPT !.ended = TRUE]
    <3>1. PipeOf(r) \in PipeType /\ PipeOf(conn[c]) \in PipeType
      BY <1>t, <1>b, PipeTyped
    <3>2. /\ PipeOf(r).sent = PipeOf(conn[c]).sent
          /\ PipeOf(r).got = PipeOf(conn[c]).got
      BY <1>b, PipeFields
    <3>3. PipeOf(r).ended = TRUE
      BY <1>b, PipeFields
    <3>4. PipeOf(r).broken = PipeOf(conn[c]).broken
      BY <1>b, PipeFields
    <3>5. PipeOf(r).over = PipeOf(conn[c]).over
      BY <1>b, PipeFields
    <3> QED BY <3>1, <3>2, <3>3, <3>4, <3>5, Ended
  <2> QED BY <1>b, <2>1, OnePipe DEF PipeStep
<1>1. CASE Connect(c) \/ ProbeDial(c)
  <2> DEFINE r(e) == [conn[c] EXCEPT !.stage = "backlog", !.client = e]
  <2>1. conn' = [conn EXCEPT ![c] = r("open")] \/ conn' = [conn EXCEPT ![c] = r("fin")]
    BY <1>1 DEF Connect, ProbeDial
  <2>2. /\ conn[c].stage = "away" /\ conn[c].client = "none" /\ conn[c].up = "none"
        /\ conn[c].shut = "open"
    BY <1>0, <1>1 DEF StreamOk, Connect, ProbeDial
  <2>3. ASSUME NEW e \in {"open", "fin"}
        PROVE  /\ r(e).client = e /\ r(e).stage = "backlog"
               /\ r(e).sent = conn[c].sent /\ r(e).got = conn[c].got
               /\ r(e).up = conn[c].up /\ r(e).shut = conn[c].shut
    BY <1>0 DEF ConnType
  <2> HIDE DEF r
  <2>4. \A e \in {"open", "fin"} : Over(r(e)) = Over(conn[c]) /\ Broken(r(e)) = Broken(conn[c])
    BY <2>2, <2>3 DEF Over, Broken
  <2> QED BY <1>a, <1>b, <2>1, <2>2, <2>3, <2>4
<1>2. CASE ClientSend(c)
  <2> DEFINE r == [conn[c] EXCEPT !.sent = @ + 1]
  <2>1. /\ r.sent = conn[c].sent + 1 /\ r.client = conn[c].client /\ r.up = conn[c].up
        /\ r.stage = conn[c].stage /\ r.shut = conn[c].shut
        /\ r.copies = conn[c].copies /\ r.got = conn[c].got
    BY <1>0 DEF ConnType
  <2>2. conn' = [conn EXCEPT ![c] = r] /\ conn[c].client = "open"
    BY <1>2 DEF ClientSend
  <2> HIDE DEF r
  <2>3. Over(r) = Over(conn[c]) /\ Broken(r) = Broken(conn[c])
    BY <2>1 DEF Over, Broken
  <2>4. PipeOf(r) = [PipeOf(conn[c]) EXCEPT !.sent = @ + 1]
    <3>1. PipeOf(r) \in PipeType /\ PipeOf(conn[c]) \in PipeType
      BY <1>t, <2>1, PipeTyped
    <3> QED BY <2>1, <2>3, <3>1, Written, PipeFields
  <2>5. ~PipeOf(conn[c]).ended
    BY <2>2, PipeFields
  <2> QED BY <2>2, <2>4, <2>5, OnePipe DEF PipeStep
<1>3. ASSUME NEW how \in {"fin", "reset"}, ClientEnd(c, how)
      PROVE  [Piped!Next]_Streams
  <2> DEFINE r == [conn[c] EXCEPT !.client = how]
  <2>1. /\ r.sent = conn[c].sent /\ r.client = how /\ r.up = conn[c].up
        /\ r.stage = conn[c].stage /\ r.shut = conn[c].shut
        /\ r.copies = conn[c].copies /\ r.got = conn[c].got
    BY <1>0 DEF ConnType
  <2>2. conn' = [conn EXCEPT ![c] = r] /\ conn[c].client = "open"
    BY <1>3 DEF ClientEnd
  <2> HIDE DEF r
  <2>3. Over(r) = Over(conn[c])
    BY <2>1 DEF Over
  <2>4. how = "fin" => Broken(r) = Broken(conn[c])
    BY <2>1, <2>2 DEF Broken
  <2>5. how = "reset" => Broken(r) = TRUE
    BY <2>1 DEF Broken
  <2> QED BY <1>a, <1>b, <2>1, <2>2, <2>3, <2>4, <2>5
<1>4. CASE UpAnswer(c)
  <2> DEFINE r == [conn[c] EXCEPT !.answer = TRUE]
  <2>1. PipeOf(r) = PipeOf(conn[c])
    BY <1>0 DEF PipeOf, Broken, Over, ConnType
  <2> QED BY <1>4, <2>1, OnePipe DEF UpAnswer, PipeStep
<1>5. ASSUME NEW how \in {"fin", "reset"}, UpEnd(c, how)
      PROVE  [Piped!Next]_Streams
  <2> DEFINE r == [conn[c] EXCEPT !.up = how]
  <2>1. /\ r.sent = conn[c].sent /\ r.client = conn[c].client /\ r.up = how
        /\ r.stage = conn[c].stage /\ r.shut = conn[c].shut
        /\ r.copies = conn[c].copies /\ r.got = conn[c].got
    BY <1>0 DEF ConnType
  <2>2. conn' = [conn EXCEPT ![c] = r] /\ conn[c].up = "open"
    BY <1>5 DEF UpEnd
  <2> HIDE DEF r
  <2>3. Over(r) = Over(conn[c])
    BY <2>1 DEF Over
  <2>4. Broken(r) = Broken(conn[c]) \/ Broken(r) = TRUE
    BY <2>1, <2>2 DEF Broken
  <2> QED BY <1>a, <2>1, <2>2, <2>3, <2>4
<1> QED BY <1>1, <1>2, <1>3, <1>4, <1>5 DEF Client, Upstream

(* The loops hand over connections, and no byte.                           *)
LEMMA PipeLoop ==
    ASSUME conn \in [Conns -> ConnType], StreamInv, NEW l \in Listeners, Loop(l)
    PROVE  [Piped!Next]_Streams
<1>1. CASE Acquire(l) \/ AcceptFails(l) \/ Finalize(l) \/ ProbeFails(l)
  <2>1. conn' = conn
    BY <1>1 DEF Acquire, AcceptFails, Finalize, ProbeFails
  <2> QED BY <2>1 DEF Streams
<1>2. ASSUME NEW c \in Conns, Accept(l, c)
      PROVE  [Piped!Next]_Streams
  <2> DEFINE r == [conn[c] EXCEPT !.stage = IF Raw(c) THEN "egress" ELSE "head"]
  <2>1. conn[c] \in ConnType
    OBVIOUS
  <2>2. PipeOf(r) = PipeOf(conn[c])
    BY <1>2, <2>1 DEF Accept, PipeOf, Broken, Over, ConnType
  <2> QED BY <1>2, <2>2, OnePipe DEF Accept, PipeStep
<1> QED BY <1>1, <1>2 DEF Loop

(* For any number of connections, streams of any length, and whatever the  *)
(* peers do, each stream towards an upstream is a pipe (splice.go).        *)
THEOREM Pipes == Spec => StreamsArePipes
<1>1. Init => Piped!Init
  <2> SUFFICES ASSUME Init PROVE Piped!Init
    OBVIOUS
  <2>1. \A c \in Conns : PipeOf(conn[c]) = Piped!New
    BY DEF Init, NewConn, PipeOf, Broken, Over, Piped!New
  <2> QED BY <2>1 DEF Piped!Init, Streams
<1>2. TypeOK /\ StreamInv /\ [Next]_vars => [Piped!Next]_Streams
  <2> SUFFICES ASSUME TypeOK, StreamInv, [Next]_vars PROVE [Piped!Next]_Streams
    OBVIOUS
  <2>1. conn \in [Conns -> ConnType]
    BY DEF TypeOK
  <2>2. CASE ProbeStart \/ UNCHANGED vars
    <3>1. conn' = conn
      BY <2>2 DEF ProbeStart, vars
    <3> QED BY <3>1 DEF Streams
  <2> QED BY <2>1, <2>2, PipeLoop, PipeHandler, PipeSplice, PipePeers DEF Next
<1> QED BY <1>1, <1>2, StreamInvariance, PTL DEF Spec, StreamsArePipes, Piped!Spec
-----------------------------------------------------------------------------
(* The types.                                                              *)
THEOREM TypeCorrect == Spec => []TypeOK
BY SlotsCounted, PTL
=============================================================================
