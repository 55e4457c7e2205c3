-------------------------- MODULE ProxyConnections --------------------------
(***************************************************************************)
(* The connections of the egress proxy: the accept loops of its TCP       *)
(* listeners, which share one pool of slots (accept.go, guard.go), the     *)
(* handlers of the transparent, CONNECT and forward listeners up to the    *)
(* splice (transparent.go, connect.go, forward.go, splice.go), the log of  *)
(* allowed destinations (egresslog.go) and the health probe                *)
(* (healthcheck.go).  What Policy.Egress decides is a choice here and the  *)
(* subject of EgressPolicy.                                                *)
(*                                                                         *)
(* A connection's client stream is 1, 2, ...: byte 1 stands for the head   *)
(* (ClientHello, request, CONNECT line) and the rest for what follows.     *)
(* Of the answer stream only "some of it is waiting" is kept.  The egress  *)
(* log is enabled.                                                         *)
(***************************************************************************)
EXTENDS Naturals, FiniteSets, SequencesExt

CONSTANTS
    Listeners,    \* the TCP listeners of main.go
    Kind,         \* [Listeners -> {"transparent", "connect", "forward"}]
    Conns,        \* the connections the agent, or the health probe, may open
    ListenerOf,   \* [Conns -> Listeners]
    Dests,        \* the (host, port) pairs the clients ask for
    DestOf,       \* [Conns -> Dests]
    MaxConns,     \* the number of slots: 512 in accept.go
    MaxBytes,     \* bound: the length of a client stream
    MaxProbes     \* bound: the number of health probes

ASSUME ConnsAssumption ==
    /\ IsFiniteSet(Listeners) /\ IsFiniteSet(Conns)
    /\ Kind \in [Listeners -> {"transparent", "connect", "forward"}]
    /\ ListenerOf \in [Conns -> Listeners]
    /\ DestOf \in [Conns -> Dests]
    /\ MaxConns \in Nat \ {0} /\ MaxBytes \in Nat /\ MaxProbes \in Nat

VARIABLES
    lst,     \* what each accept loop is at; "dead": it returned, its socket
             \* is still open; "shut": the socket was finalized, too
    sem,     \* len(lim.sem): the slots taken
    conn,    \* the connections, with both ends as the proxy can see them
    seen,    \* egressLogger.seen
    log,     \* how often each destination was logged as allowed
    probe    \* the health probe under way

vars == <<lst, sem, conn, seen, log, probe>>

HandlerStages == {"head", "egress", "reply", "note", "log", "splice"}

NewConn == [stage |-> "away",       \* where the connection or its handler is
            client |-> "none",      \* what the client has done with its end
            sent |-> 0,             \* bytes the client has sent
            read |-> 0,             \* bytes the proxy has taken off the socket
            used |-> 0,             \* bytes taken out of the bufio.Reader
            got |-> <<>>,           \* bytes written to the upstream
            up |-> "none",          \* what the upstream has done with its end
            answer |-> FALSE,       \* bytes from the upstream are waiting
            stalled |-> {},         \* the copies whose Write will not return
            copies |-> {},          \* the copying goroutines still running
            shut |-> "open"]        \* what the proxy has closed of the client

Probed == {l \in Listeners : Kind[l] # "forward"}
NoProbe == [found |-> {}, on |-> FALSE, nr |-> 0]

Init ==
    /\ lst = [l \in Listeners |-> "acquire"]
    /\ sem = 0
    /\ conn = [c \in Conns |-> NewConn]
    /\ seen = {}
    /\ log = [d \in Dests |-> 0]
    /\ probe = NoProbe

KindOf(c) == Kind[ListenerOf[c]]

\* mutant: every client is wrapped in a prefixConn
MutantRaw(c) == FALSE
Raw(c) == KindOf(c) = "forward"     \* spliced without a prefixConn
-----------------------------------------------------------------------------
(* acceptLoopLimited: a slot first, then a connection.                     *)

Acquire(l) ==
    /\ lst[l] = "acquire"
    /\ sem < MaxConns
    /\ lst' = [lst EXCEPT ![l] = "accept"]
    /\ sem' = sem + 1
    /\ UNCHANGED <<conn, seen, log, probe>>

Accept(l, c) ==
    /\ lst[l] = "accept"
    /\ ListenerOf[c] = l
    /\ conn[c].stage = "backlog"
    /\ lst' = [lst EXCEPT ![l] = "acquire"]
    /\ conn' = [conn EXCEPT ![c].stage = IF Raw(c) THEN "egress" ELSE "head"]
    /\ UNCHANGED <<sem, seen, log, probe>>

\* Any error of Accept ends the loop; nothing starts it again.
AcceptFails(l) ==
    /\ lst[l] = "accept"
    /\ lst' = [lst EXCEPT ![l] = "dead"]
    /\ sem' = sem - 1
    /\ UNCHANGED <<conn, seen, log, probe>>

\* The loop was the last to hold the listener: its socket goes when the
\* runtime finalizes it.
Finalize(l) ==
    /\ lst[l] = "dead"
    /\ lst' = [lst EXCEPT ![l] = "shut"]
    /\ UNCHANGED <<sem, conn, seen, log, probe>>
-----------------------------------------------------------------------------
(* The handlers.                                                           *)

\* handle returns: the deferred release gives the slot back.
Return(c, closing) ==
    /\ conn' = [conn EXCEPT ![c].stage = "over",
                            ![c].shut = IF closing THEN "all" ELSE @]
    /\ sem' = sem - 1

\* peekHost and http.ReadRequest read the head, and whatever came with it,
\* into the bufio.Reader; only ReadRequest takes the head out of it.
ReadHead(c) ==
    /\ conn[c].stage = "head"
    /\ conn[c].client # "reset"
    /\ \E n \in 1 .. conn[c].sent :
           conn' = [conn EXCEPT ![c].stage = "egress", ![c].read = n,
                                ![c].used = IF KindOf(c) = "connect" THEN 1
                                                                     ELSE 0]
    /\ UNCHANGED <<lst, sem, seen, log, probe>>

\* No hostname in it, another method, a target without a port, or the
\* stream ended or broke before the head was whole.
RejectHead(c) ==
    /\ conn[c].stage = "head"
    /\ conn[c].sent > 0 \/ conn[c].client # "open"
    /\ Return(c, TRUE)
    /\ UNCHANGED <<lst, seen, log, probe>>

\* mutant: a refused handler keeps its slot
MutantRefuse(c) ==
    /\ conn[c].stage = "egress"
    /\ conn' = [conn EXCEPT ![c].stage = "over", ![c].shut = "all"]
    /\ UNCHANGED <<lst, sem, seen, log, probe>>

\* Policy.Egress refuses, or cannot resolve or dial.
Refuse(c) ==
    /\ conn[c].stage = "egress"
    /\ Return(c, TRUE)
    /\ UNCHANGED <<lst, seen, log, probe>>

StartSplice(r) == [r EXCEPT !.stage = "splice", !.copies = {"out", "in"}]

Dial(c) ==
    /\ conn[c].stage = "egress"
    /\ LET r == [conn[c] EXCEPT !.up = "open"] IN
       conn' = [conn EXCEPT ![c] =
                  CASE KindOf(c) = "connect" -> [r EXCEPT !.stage = "reply"]
                    [] KindOf(c) = "transparent" -> [r EXCEPT !.stage = "note"]
                    [] OTHER -> StartSplice(r)]
    /\ UNCHANGED <<lst, sem, seen, log, probe>>

\* "200 Connection Established"; a failed write closes both ends.
Reply(c) ==
    /\ conn[c].stage = "reply"
    /\ \/ /\ conn[c].client # "reset"
          /\ conn' = [conn EXCEPT ![c].stage = "note"]
          /\ UNCHANGED sem
       \/ /\ conn[c].client # "open"
          /\ Return(c, TRUE)
    /\ UNCHANGED <<lst, seen, log, probe>>

\* mutant: the entry is made after the unlock, with the line
MutantNote(c) ==
    /\ conn[c].stage = "note"
    /\ conn' = [conn EXCEPT ![c] = IF log[DestOf[c]] > 0
                                   THEN StartSplice(@)
                                   ELSE [@ EXCEPT !.stage = "log"]]
    /\ UNCHANGED <<lst, sem, seen, log, probe>>

\* egressLog.note: look and insert under the mutex, ...
Note(c) ==
    /\ conn[c].stage = "note"
    /\ seen' = seen \cup {DestOf[c]}
    /\ conn' = [conn EXCEPT ![c] = IF DestOf[c] \in seen
                                   THEN StartSplice(@)
                                   ELSE [@ EXCEPT !.stage = "log"]]
    /\ UNCHANGED <<lst, sem, log, probe>>

\* mutant: the line is not written
MutantWriteLog(c) ==
    /\ conn[c].stage = "log"
    /\ conn' = [conn EXCEPT ![c] = StartSplice(@)]
    /\ UNCHANGED <<lst, sem, seen, log, probe>>

\* ... the line of a new destination after the unlock.
WriteLog(c) ==
    /\ conn[c].stage = "log"
    /\ log' = [log EXCEPT ![DestOf[c]] = @ + 1]
    /\ conn' = [conn EXCEPT ![c] = StartSplice(@)]
    /\ UNCHANGED <<lst, sem, seen, probe>>

\* mutant: the release is not deferred
MutantPanic(c) ==
    /\ conn[c].stage \in {"head", "egress"}
    /\ conn' = [conn EXCEPT ![c].stage = "over"]
    /\ UNCHANGED <<lst, sem, seen, log, probe>>

\* A panic while untrusted bytes are worked on: guard recovers it, the
\* deferred release has run, the connections stay as they are.
Panic(c) ==
    /\ conn[c].stage \in {"head", "egress"}
    /\ Return(c, FALSE)
    /\ UNCHANGED <<lst, seen, log, probe>>
-----------------------------------------------------------------------------
(* splice: one copying goroutine each way.                                 *)

\* mutant: the splice reads the socket itself
MutantNextOut(r) == r.read + 1

\* What the reader of the splice returns next: prefixConn reads the
\* bufio.Reader, so what was buffered comes before the socket.
NextOut(r) == IF r.used < r.read THEN r.used + 1 ELSE r.read + 1

\* mutant: the end of the socket's stream ends the copy, buffered or not
MutantDrained(r) == TRUE

Drained(r) == r.used = r.read

\* The next byte is there to be read.
Readable(r) == \/ ~Drained(r)
               \/ r.read < r.sent /\ r.client # "reset" /\ r.shut # "all"

\* io.Copy reads the next byte and writes it, ...
CopyOut(c) ==
    /\ "out" \in conn[c].copies \ conn[c].stalled
    /\ Readable(conn[c])
    /\ conn[c].up # "reset"
    /\ LET n == NextOut(conn[c]) IN
       conn' = [conn EXCEPT ![c].got = Append(@, n), ![c].used = n,
                            ![c].read = IF n > @ THEN n ELSE @]
    /\ UNCHANGED <<lst, sem, seen, log, probe>>

\* mutant: the end of what was buffered is taken for the client's end
MutantEndOut(c) ==
    /\ "out" \in conn[c].copies
    /\ conn[c].read = conn[c].used
    /\ conn' = [conn EXCEPT ![c].copies = @ \ {"out"}]
    /\ UNCHANGED <<lst, sem, seen, log, probe>>

\* ... or has read it, and Write, which has no deadline, waits for room that an
\* upstream which reads no more never makes.  Nothing short of a reset of the
\* upstream ends that: the client's end and its errors are not looked for.
StallOut(c) ==
    /\ "out" \in conn[c].copies
    /\ Readable(conn[c]) /\ conn[c].up # "reset"
    /\ conn' = [conn EXCEPT ![c].stalled = @ \cup {"out"}]
    /\ UNCHANGED <<lst, sem, seen, log, probe>>

\* The client's end, an error reading it, or one writing to the upstream.
EndOut(c) ==
    LET r == conn[c] IN
    /\ "out" \in r.copies
    /\ \/ /\ "out" \notin r.stalled /\ Drained(r)
          /\ \/ r.client = "fin" /\ r.read = r.sent
             \/ r.client = "reset" \/ r.shut = "all"
       \/ ("out" \in r.stalled \/ Readable(r)) /\ r.up = "reset"
    /\ conn' = [conn EXCEPT ![c].copies = @ \ {"out"}, ![c].stalled = @ \ {"out"}]
    /\ UNCHANGED <<lst, sem, seen, log, probe>>

CopyIn(c) ==
    /\ "in" \in conn[c].copies \ conn[c].stalled
    /\ conn[c].answer
    /\ conn[c].client # "reset"
    /\ conn' = [conn EXCEPT ![c].answer = FALSE]
    /\ UNCHANGED <<lst, sem, seen, log, probe>>

\* The same towards a client that reads no more.
StallIn(c) ==
    /\ "in" \in conn[c].copies
    /\ conn[c].answer /\ conn[c].client # "reset"
    /\ conn' = [conn EXCEPT ![c].stalled = @ \cup {"in"}]
    /\ UNCHANGED <<lst, sem, seen, log, probe>>

\* mutant: a broken upstream is waited for
MutantEndIn(c) ==
    /\ "in" \in conn[c].copies
    /\ conn[c].up = "fin" /\ ~conn[c].answer
    /\ conn' = [conn EXCEPT ![c].copies = @ \ {"in"},
                            ![c].shut = IF Raw(c) THEN "write" ELSE "all"]
    /\ UNCHANGED <<lst, sem, seen, log, probe>>

\* The upstream's end, an error reading it, or one writing to the client.
\* A prefixConn has no CloseWrite: it is closed whole.
EndIn(c) ==
    LET r == conn[c] IN
    /\ "in" \in r.copies
    /\ \/ r.up = "fin" /\ ~r.answer
       \/ r.up = "reset" /\ "in" \notin r.stalled
       \/ r.answer /\ r.client = "reset"
    /\ conn' = [conn EXCEPT ![c].copies = @ \ {"in"}, ![c].stalled = @ \ {"in"},
                            ![c].answer = FALSE,
                            ![c].shut = IF Raw(c) THEN "write" ELSE "all"]
    /\ UNCHANGED <<lst, sem, seen, log, probe>>

\* Both copies are done: close both, and handle returns.
Finish(c) ==
    /\ conn[c].stage = "splice"
    /\ conn[c].copies = {}
    /\ Return(c, TRUE)
    /\ UNCHANGED <<lst, seen, log, probe>>
-----------------------------------------------------------------------------
(* The two ends, outside the proxy.                                        *)

Bound(l) == lst[l] # "shut"

Connect(c) ==
    /\ conn[c].stage = "away"
    /\ Bound(ListenerOf[c])
    /\ conn' = [conn EXCEPT ![c].stage = "backlog", ![c].client = "open"]
    /\ UNCHANGED <<lst, sem, seen, log, probe>>

ClientSend(c) ==
    /\ conn[c].client = "open" /\ conn[c].sent < MaxBytes
    /\ conn[c].stage # "over"
    /\ conn' = [conn EXCEPT ![c].sent = @ + 1]
    /\ UNCHANGED <<lst, sem, seen, log, probe>>

ClientEnd(c, how) ==
    /\ conn[c].client = "open"
    /\ conn[c].stage # "over"
    /\ conn' = [conn EXCEPT ![c].client = how]
    /\ UNCHANGED <<lst, sem, seen, log, probe>>

\* Answers that nobody is left to read are of no account.
UpAnswer(c) ==
    /\ conn[c].up = "open" /\ "in" \in conn[c].copies
    /\ conn' = [conn EXCEPT ![c].answer = TRUE]
    /\ UNCHANGED <<lst, sem, seen, log, probe>>

UpEnd(c, how) ==
    /\ conn[c].up = "open" /\ conn[c].stage # "over"
    /\ conn' = [conn EXCEPT ![c].up = how]
    /\ UNCHANGED <<lst, sem, seen, log, probe>>
-----------------------------------------------------------------------------
(* healthProbe: a dial of each of the fixed ports, closed at once.         *)

Healthy == probe.on /\ probe.found = Probed

ProbeStart ==
    /\ ~probe.on \/ Healthy
    /\ probe.nr < MaxProbes
    /\ probe' = [on |-> TRUE, found |-> {}, nr |-> probe.nr + 1]
    /\ UNCHANGED <<lst, sem, conn, seen, log>>

\* The kernel answers the dial as long as the socket is there.
ProbeDial(c) ==
    /\ probe.on
    /\ ListenerOf[c] \in Probed \ probe.found
    /\ conn[c].stage = "away"
    /\ Bound(ListenerOf[c])
    /\ conn' = [conn EXCEPT ![c].stage = "backlog", ![c].client = "fin"]
    /\ probe' = [probe EXCEPT !.found = @ \cup {ListenerOf[c]}]
    /\ UNCHANGED <<lst, sem, seen, log>>

\* The first failure ends the probe.
ProbeFails(l) ==
    /\ probe.on
    /\ l \in Probed \ probe.found
    /\ ~Bound(l)
    /\ probe' = [NoProbe EXCEPT !.nr = probe.nr]
    /\ UNCHANGED <<lst, sem, conn, seen, log>>

-----------------------------------------------------------------------------
Handler(c) ==
    \/ ReadHead(c) \/ RejectHead(c) \/ Refuse(c) \/ Dial(c) \/ Reply(c)
    \/ Note(c) \/ WriteLog(c) \/ Panic(c)
Splice(c) == \/ CopyOut(c) \/ StallOut(c) \/ EndOut(c)
             \/ CopyIn(c) \/ StallIn(c) \/ EndIn(c) \/ Finish(c)
Client(c) == Connect(c) \/ ClientSend(c)
             \/ ClientEnd(c, "fin") \/ ClientEnd(c, "reset")
Upstream(c) == UpAnswer(c) \/ UpEnd(c, "fin") \/ UpEnd(c, "reset")
Loop(l) == \/ Acquire(l) \/ AcceptFails(l) \/ Finalize(l) \/ ProbeFails(l)
           \/ \E c \in Conns : Accept(l, c)

Next ==
    \/ \E l \in Listeners : Loop(l)
    \/ \E c \in Conns : \/ Handler(c) \/ Splice(c) \/ Client(c) \/ Upstream(c)
                        \/ ProbeDial(c)
    \/ ProbeStart

Spec == Init /\ [][Next]_vars

\* The goroutines run, of a connection the handler's and the two copying ones;
\* the channel of the semaphore queues its senders, so
\* a loop that waits for a slot gets one that is given back.  A copy goes on
\* until a write of it stalls, which is up to the peers.
ProxyFairness ==
    /\ \A l \in Listeners : /\ SF_vars(Acquire(l))
                            /\ SF_vars(\E c \in Conns : Accept(l, c))
    /\ \A c \in Conns :
         /\ WF_vars(\/ ReadHead(c) \/ RejectHead(c) \/ Refuse(c) \/ Dial(c)
                    \/ Reply(c) \/ Note(c) \/ WriteLog(c) \/ Finish(c))
         /\ WF_vars(CopyOut(c) \/ EndOut(c)) /\ WF_vars(CopyIn(c) \/ EndIn(c))

\* An assumption about the peers and not about the proxy, which sets no
\* deadline: every stream ends some time.
PeersEnd == \A c \in Conns : /\ WF_vars(ClientEnd(c, "fin"))
                             /\ WF_vars(UpEnd(c, "fin"))

FairSpec == Spec /\ ProxyFairness
FairPeersSpec == FairSpec /\ PeersEnd
-----------------------------------------------------------------------------
Stages == HandlerStages \cup {"away", "backlog", "over"}

ConnType ==
    [stage : Stages, client : {"none", "open", "fin", "reset"},
     sent : Nat, read : Nat, used : Nat, got : Seq(Nat),
     up : {"none", "open", "fin", "reset"}, answer : BOOLEAN,
     copies : SUBSET {"out", "in"}, stalled : SUBSET {"out", "in"},
     shut : {"open", "write", "all"}]

\* The types of the variables.
TypeOK ==
    /\ lst \in [Listeners -> {"acquire", "accept", "dead", "shut"}]
    /\ sem \in 0 .. MaxConns
    /\ conn \in [Conns -> ConnType]
    /\ seen \subseteq Dests
    /\ log \in [Dests -> Nat]
    /\ probe \in [on : BOOLEAN, found : SUBSET Probed,
                 nr : 0 .. MaxProbes]

\* The slots are taken by exactly the loops that are in Accept and the
\* handlers that have not returned, whatever way they return, by a panic
\* too: no slot leaks (the proxy would stop accepting for good) and none is
\* given back twice (the bound would be lost, and a later release block).
Accepting == {l \in Listeners : lst[l] = "accept"}
Handled == {c \in Conns : conn[c].stage \in HandlerStages}
SlotsAreCounted == sem = Cardinality(Accepting) + Cardinality(Handled)

\* Never more than maxConns connections are accepted and not yet returned
\* from, over all listeners.
BoundedHandlers == Cardinality(Handled) <= MaxConns

\* The upstream gets the client's stream in order, no byte of it twice and
\* none left out: the peeked head comes once, through the buffered reader,
\* and CONNECT's own line never.
First(c) == IF KindOf(c) = "connect" THEN 2 ELSE 1
StreamIsExact ==
    \A c \in Conns : \A i \in 1 .. Len(conn[c].got) :
        conn[c].got[i] = First(c) + i - 1

\* A client's half-closed stream reaches the upstream whole before the
\* upstream sees the end of it, unless one of the other ends broke it off.
HalfClosedStreamIsWhole ==
    \A c \in Conns : LET r == conn[c] IN
        (/\ r.stage = "splice" /\ "out" \notin r.copies
         /\ r.client = "fin" /\ r.shut # "all" /\ r.up # "reset")
        => Len(r.got) = r.sent + 1 - First(c)

\* Each allowed destination is logged at most once, however many handlers
\* come to it at the same time, ...
LoggedOnce == \A d \in Dests : log[d] <= 1

\* ... and once a handler of it splices, is in the log or about to be
\* written by the handler that came first.
SplicedIsLogged ==
    \A c \in Conns :
        (conn[c].stage = "splice" /\ ~Raw(c)) =>
            \/ log[DestOf[c]] = 1
            \/ \E k \in Conns : conn[k].stage = "log" /\ DestOf[k] = DestOf[c]

\* Both ends have ended their streams, and a copy is still blocked writing to
\* one that has stopped reading: nothing that could come ends it.
BothEnded(c) == conn[c].stage = "splice" /\ conn[c].client # "open" /\ conn[c].up # "open"
Lost(c) ==
    LET r == conn[c] IN
    /\ BothEnded(c)
    /\ ("out" \in r.stalled /\ r.up # "reset") \/ ("in" \in r.stalled /\ r.client # "reset")

\* A splice whose two ends have both ended their streams comes to its end: no
\* copying goroutine waits for something that cannot come, and the slot is
\* free; unless a copy is blocked for good, writing to a peer that has stopped
\* reading (splice.go:26 sets no deadline).
EndedSplicesReturn ==
    \A c \in Conns : BothEnded(c) ~> (conn[c].stage = "over" \/ Lost(c))

\* If the peers end their streams, a connection does not wait in the
\* backlog for ever while its listener's loop runs: slots come back, and the
\* idle listeners, which hold one each, do not starve the others; unless a
\* slot is lost to a write that is blocked for good.
BacklogIsServed ==
    \A c \in Conns :
        (conn[c].stage = "backlog") ~>
            \/ conn[c].stage # "backlog"
            \/ lst[ListenerOf[c]] \in {"dead", "shut"}
            \/ \E k \in Conns : Lost(k)

\* Where the client's connection is spliced bare, on the forward listener,
\* the end of the upstream's stream closes the write side towards the client
\* only (splice.go:27), and the client's own stream goes on.
ClientStreamGoesOn ==
    \A c \in Conns :
        (/\ KindOf(c) = "forward"
         /\ conn[c].stage = "splice" /\ conn[c].client = "open" /\ conn[c].up = "fin")
        => conn[c].shut # "all"

(* The streams towards the upstreams are the pipes of BytePipes.           *)
Broken(r) == "reset" \in {r.client, r.up} \/ r.shut = "all" \/ r.stage = "over"
Over(r) == r.stage = "over" \/ (r.stage = "splice" /\ "out" \notin r.copies)
PipeOf(r) == [sent |-> r.sent, ended |-> r.client = "fin", got |-> r.got,
              broken |-> Broken(r), over |-> Over(r)]
Heads == [c \in Conns |-> First(c) - 1]
Streams == [c \in Conns |-> PipeOf(conn[c])]
Piped == INSTANCE BytePipes WITH Pipes <- Conns, Skip <- Heads, pipe <- Streams

\* Whatever happens at its ends, a connection's stream only ever grows at the
\* upstream's side, by the next byte the client has sent; once its copy has
\* ended nothing follows, and it ends with all of the stream passed on, or
\* with one of the two ends gone (splice.go, copyHalf).
StreamsArePipes == Piped!Spec

=============================================================================
