------------------------------ MODULE HostPeek ------------------------------
(***************************************************************************)
(* A transparent listener waits for the host name (peekHost of             *)
(* proxy/transparent.go): it looks at a window of the client's stream that *)
(* grows byte by byte until the parser of its port has a verdict.  The     *)
(* bytes arrive at any time, several of them between two looks, and the    *)
(* client may end anywhere.                                                *)
(***************************************************************************)
EXTENDS HostRequests

CONSTANTS
    Streams,      \* what clients send: [port, data, head, asks], where head is
                  \* how much of data the request takes (more than there is
                  \* if it is cut short) and asks the name, <<>> for none
    PeekLimit     \* peekLimit (16 KiB in the code)

ASSUME PeekAssumption ==
    /\ PeekLimit \in Nat \ {0}
    /\ \A s \in Streams : s.data \in Seq(Nat)

\* Clients ask as the protocols say, or their hello is none, or contradicts
\* itself; that any of them may end too early is End.
ASSUME StreamAssumption == \A s \in Streams : IsStream(s)

VARIABLES
    stream,       \* what the client sends, if it goes on
    arrived,      \* how many of its bytes are there
    ended,        \* the client has closed, or its connection broke
    n,            \* the size of the window looked at next
    verdict       \* what peekHost returns; Short while it goes on

vars == <<stream, arrived, ended, n, verdict>>

Init ==
    /\ stream \in Streams
    /\ arrived = 0
    /\ ended = FALSE
    /\ n = 1
    /\ verdict = Short

\* The parser a listener is made with.
Extract(s, d) == IF s.port = 443 THEN ExtractSNI(d) ELSE ExtractHTTPHost(d)
Verdict(s, k) == Extract(s, SubSeq(s.data, 1, k))
-----------------------------------------------------------------------------
Arrive ==
    /\ ~ended
    /\ arrived < Len(stream.data)
    /\ arrived' = arrived + 1
    /\ UNCHANGED <<stream, ended, n, verdict>>

End ==
    /\ ~ended
    /\ ended' = TRUE
    /\ UNCHANGED <<stream, arrived, n, verdict>>

\* mutant: the next window is all that is there
MutantLook ==
    /\ verdict = Short
    /\ n <= arrived
    /\ LET v == Verdict(stream, n) IN
       IF v # Short THEN verdict' = v /\ UNCHANGED n
       ELSE IF n < PeekLimit
       THEN n' = (IF arrived > n /\ arrived <= PeekLimit THEN arrived ELSE n + 1)
            /\ UNCHANGED verdict
       ELSE verdict' = Error("not found within peek limit") /\ UNCHANGED n
    /\ UNCHANGED <<stream, arrived, ended>>

\* mutant: the window grows past the limit, which the reader never holds
MutantLookOn ==
    /\ verdict = Short
    /\ n <= arrived /\ n <= PeekLimit
    /\ IF Verdict(stream, n) # Short THEN verdict' = Verdict(stream, n) /\ UNCHANGED n
       ELSE n' = n + 1 /\ UNCHANGED verdict
    /\ UNCHANGED <<stream, arrived, ended>>

\* One turn of the loop with enough bytes there.
Look ==
    /\ verdict = Short
    /\ n <= arrived
    /\ LET v == Verdict(stream, n) IN
       IF v # Short THEN verdict' = v /\ UNCHANGED n
       ELSE IF n < PeekLimit THEN n' = n + 1 /\ UNCHANGED verdict
       ELSE verdict' = Error("not found within peek limit") /\ UNCHANGED n
    /\ UNCHANGED <<stream, arrived, ended>>

\* The turn that gets fewer bytes than it asked for: a last try on these.
LookLast ==
    /\ verdict = Short
    /\ arrived < n /\ ended
    /\ verdict' = IF Verdict(stream, arrived).out = "host"
                  THEN Verdict(stream, arrived) ELSE Error("end of input")
    /\ UNCHANGED <<stream, arrived, ended, n>>

Next == Arrive \/ End \/ Look \/ LookLast

Spec == Init /\ [][Next]_vars
-----------------------------------------------------------------------------
Decided == verdict # Short

\* The types of the variables.
TypeOK ==
    /\ stream \in Streams
    /\ arrived \in Nat /\ arrived <= Len(stream.data)
    /\ ended \in BOOLEAN
    /\ n \in 1 .. PeekLimit

\* The host a connection is screened and dialled by is the one its client
\* asks for, whole and in none but its own request, wherever the stream was
\* cut while it was looked at; and whoever asks for one is not turned away,
\* but for a request that ended early or is beyond the limit (sni.go).
NameIsAsked ==
    Decided =>
        \/ stream.asks # <<>> /\ verdict = Told(stream.asks)
        \/ /\ verdict.out = "error"
           /\ stream.asks = <<>> \/ arrived < stream.head \/ stream.head > PeekLimit

\* How a stream is cut into pieces has no effect: the verdict is that of the
\* first window that has one, or there is none up to where the stream ended
\* or the limit (transparent.go, peekHost).
Settled == {k \in 1 .. PeekLimit : k <= arrived /\ Verdict(stream, k) # Short}
ArrivalIsIrrelevant ==
    Decided => IF Settled = {} THEN verdict.out = "error"
                               ELSE verdict = Verdict(stream, Min(Settled))

\* The reader waits, in Peek, only for a client whose request is not all
\* there, and never for more than the limit: nobody sits with a whole hello
\* sent and no verdict for want of a byte that need not come.
WaitsOnlyForMore ==
    (~Decided /\ ~ended /\ arrived < n) => arrived < stream.head /\ n <= PeekLimit
=============================================================================
