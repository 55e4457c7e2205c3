------------------------------ MODULE BytePipes ------------------------------
(***************************************************************************)
(* What the proxy promises of the streams from clients to upstreams        *)
(* (splice.go, transparent.go): each is a pipe.  The bytes 1, 2, ... that  *)
(* one end writes come out at the other one by one and in order, without   *)
(* the proxy's own head; and nobody is told that the stream is over before *)
(* all of it is out, unless something broke.                               *)
(***************************************************************************)
EXTENDS Naturals, Sequences

CONSTANTS
    Pipes,
    Skip      \* [Pipes -> Nat], the length of the head that stays here

VARIABLE pipe

New == [sent |-> 0,            \* bytes written
        ended |-> FALSE,       \* the writer has ended its stream
        got |-> <<>>,          \* what has come out
        broken |-> FALSE,      \* an end of the pipe is gone
        over |-> FALSE]        \* nothing more comes out

Init == pipe = [p \in Pipes |-> New]

Whole(p) == pipe[p].ended /\ Skip[p] + Len(pipe[p].got) = pipe[p].sent

Send(p) ==
    /\ ~ pipe[p].ended
    /\ pipe' = [pipe EXCEPT ![p].sent = @ + 1]

SenderEnds(p) == pipe' = [pipe EXCEPT ![p].ended = TRUE]

Deliver(p) ==
    /\ ~ pipe[p].over
    /\ Skip[p] + Len(pipe[p].got) < pipe[p].sent
    /\ pipe' = [pipe EXCEPT ![p].got = Append(@, Skip[p] + Len(@) + 1)]

Break(p) == pipe' = [pipe EXCEPT ![p].broken = TRUE]

\* The pipe may break with the same step.
End(p) ==
    \E b \in {pipe[p].broken, TRUE} :
        /\ b \/ Whole(p)
        /\ pipe' = [pipe EXCEPT ![p].over = TRUE, ![p].broken = b]

Next == \E p \in Pipes : Send(p) \/ SenderEnds(p) \/ Deliver(p) \/ Break(p) \/ End(p)

Spec == Init /\ [][Next]_pipe
=============================================================================
