---------------------------- MODULE HostRequests ----------------------------
(***************************************************************************)
(* What a client asks for, said without a parser: the layout of a TLS      *)
(* ClientHello (RFC 8446, RFC 6066, as in the comment of proxy/sni.go) and *)
(* of the head of an HTTP/1 request.  It is the reference the parsers of   *)
(* HostNames are held against; none of it is code.                         *)
(***************************************************************************)
EXTENDS HostNames

\* s from i to j is s without the blanks at its ends.
Core(s, blanks, i, j) ==
    /\ i \in 1 .. Len(s) + 1 /\ j \in i - 1 .. Len(s)
    /\ \A k \in DOMAIN s : k < i \/ k > j => s[k] \in blanks
    /\ i <= j => s[i] \notin blanks /\ s[j] \notin blanks
-----------------------------------------------------------------------------
(* Lists of entries: a type of w bytes, a length of two, a body.           *)

EntryEnd(e, w, p) == p + w + 2 + Number(e, p + w, 2)
Entry(e, w, p) == Has(e, p, w + 2) /\ EntryEnd(e, w, p) <= Len(e)
Body(e, w, p) == SubSeq(e, p + w + 3, EntryEnd(e, w, p))

\* Where entries start, one after the other, and where the last one ends.
Starts(e, w) ==
    LET start[p \in 0 .. Len(e)] ==
            \/ p = 0
            \/ \E q \in 0 .. p - 1 :
                  Entry(e, w, q) /\ EntryEnd(e, w, q) = p /\ start[q]
    IN {p \in 0 .. Len(e) : start[p]}

\* e is entries and nothing else.
Listed(e, w) == Len(e) \in Starts(e, w)

\* Of the entries that start before p none has type 0.
NoneBy(e, w, p) == \A q \in Starts(e, w) : q < p => Number(e, q, w) # 0

\* The first entry of type 0 starts at p.
FirstIs(e, w, p) ==
    p \in Starts(e, w) /\ p < Len(e) /\ Number(e, p, w) = 0 /\ NoneBy(e, w, p)

\* The first entry that is not all there starts at p, and none before it
\* has type 0.
Overrun(e, w) ==
    \E p \in Starts(e, w) : Has(e, p, w + 2) /\ ~Entry(e, w, p) /\ NoneBy(e, w, p)
-----------------------------------------------------------------------------
(* A ClientHello, alone in its record.                                     *)

\* A vector whose length has w bytes takes d from p to q.
Vector(d, w, p, q) ==
    Has(d, p, w) /\ q = p + w + Number(d, p, w) /\ q <= Len(d)

IsRecord(r) == Len(r) > 5 /\ r[1] = 22 /\ Vector(r, 2, 3, Len(r))

\* session_id, cipher_suites and compression_methods end at p.
Fields(r, p) ==
    \E a, b \in 0 .. Len(r) :
        /\ Vector(r, 1, 11 + RandomLen, a)
        /\ Vector(r, 2, a, b)
        /\ Vector(r, 1, b, p)

NameIs(name, x) ==
    \E i \in 1 .. Len(name) + 1, j \in 0 .. Len(name) :
        Core(name, Spaces, i, j) /\ x = SubSeq(name, i, j)

\* A server_name extension with this body names x, <<>> for nobody.
ServerNames(body, x) ==
    \/ body = <<>> /\ x = <<>>
    \/ /\ Vector(body, 2, 0, Len(body))
       /\ LET list == SubSeq(body, 3, Len(body)) IN
          /\ Listed(list, 1)
          /\ \/ \E p \in 0 .. Len(list) :
                   FirstIs(list, 1, p) /\ NameIs(Body(list, 1, p), x)
             \/ NoneBy(list, 1, Len(list)) /\ x = <<>>

\* A block of extensions asks for x, <<>> for nobody.
BlockAsks(block, x) ==
    /\ Listed(block, 2)
    /\ \/ \E p \in 0 .. Len(block) :
             FirstIs(block, 2, p) /\ ServerNames(Body(block, 2, p), x)
       \/ NoneBy(block, 2, Len(block)) /\ x = <<>>

HelloAsks(r, x) ==
    /\ IsRecord(r) /\ r[6] = 1
    /\ \E p \in 0 .. Len(r) :
          /\ Fields(r, p)
          /\ \/ p = Len(r) /\ x = <<>>
             \/ /\ Vector(r, 2, p, Len(r))
                /\ BlockAsks(SubSeq(r, p + 3, Len(r)), x)

\* A record with a length in it that goes beyond what it is a length in.
Overlong(r) ==
    /\ IsRecord(r) /\ r[6] = 1
    /\ \/ ~ \E p \in 0 .. Len(r) : Fields(r, p)
       \/ \E p \in 0 .. Len(r) :
             /\ Fields(r, p)
             /\ Has(r, p, 2)
             /\ \/ ~Has(r, p + 2, Number(r, p, 2))
                \/ /\ Vector(r, 2, p, Len(r))
                   /\ LET block == SubSeq(r, p + 3, Len(r)) IN
                      \/ Overrun(block, 2)
                      \/ \E q \in 0 .. Len(block) :
                            /\ FirstIs(block, 2, q)
                            /\ Entry(block, 2, q)
                            /\ LET body == Body(block, 2, q) IN
                               /\ Has(body, 0, 2)
                               /\ \/ ~Has(body, 2, Number(body, 0, 2))
                                  \/ /\ Vector(body, 2, 0, Len(body))
                                     /\ Overrun(SubSeq(body, 3, Len(body)), 1)
-----------------------------------------------------------------------------
(* The head of a request: lines up to and with the first empty one.        *)

IsHead(h) ==
    /\ Len(h) > 3 /\ Terminator(h, Len(h) - 3)
    /\ \A i \in 1 .. Len(h) - 4 : ~Terminator(h, i)

\* host, or [host], and a port or none; host has no blanks, and brackets
\* and colons only where they belong
HostAndPort(v, x) ==
    \E k \in 0 .. Len(v) :
        /\ LET host == SubSeq(v, 1, k) IN
           /\ \A i \in 1 .. k : host[i] \notin Spaces
           /\ \/ x = host /\ \A i \in 1 .. k : host[i] \notin Brackets \cup {Colon}
              \/ /\ k > 1 /\ host[1] \in Brackets \ {Closing} /\ host[k] = Closing
                 /\ x = SubSeq(host, 2, k - 1)
                 /\ \A i \in 2 .. k - 1 : host[i] \notin Brackets
        /\ k < Len(v) => /\ v[k + 1] = Colon
                         /\ \A i \in k + 2 .. Len(v) : v[i] \notin Brackets \cup {Colon}

\* A Host line's value.
ValueAsks(v, x) ==
    \E i \in 1 .. Len(v) + 1, j \in 0 .. Len(v) :
        Core(v, Spaces, i, j) /\ HostAndPort(SubSeq(v, i, j), x)

HostLines(h) == {s \in DOMAIN h : LineStart(h, s) /\ h[s] = HostField}

HeadAsks(h, x) ==
    /\ IsHead(h)
    /\ \/ HostLines(h) = {} /\ x = <<>>
       \/ \E s \in HostLines(h), t \in DOMAIN h :
             /\ \A r \in HostLines(h) : s <= r
             /\ s <= t /\ LineEnd(h, t) /\ \A i \in s .. t - 1 : ~LineEnd(h, i)
             /\ ValueAsks(SubSeq(h, s + 1, t - 1), x)
-----------------------------------------------------------------------------
(* A client's stream [port, data, head, asks], head being how much of data *)
(* the request takes, or one more than there is if it is never complete.   *)

HelloStream(s) ==
    \/ /\ s.head \in DOMAIN s.data
       /\ HelloAsks(SubSeq(s.data, 1, s.head), s.asks)
    \/ /\ s.head \in DOMAIN s.data /\ s.asks = <<>>
       /\ s.data[1] # 22 \/ LET r == SubSeq(s.data, 1, s.head) IN
                            IsRecord(r) /\ r[6] # 1
    \/ s.head = Len(s.data) + 1 /\ s.asks = <<>> /\ Overlong(s.data)

RequestStream(s) ==
    /\ s.head \in DOMAIN s.data
    /\ HeadAsks(SubSeq(s.data, 1, s.head), s.asks)

IsStream(s) == IF s.port = 443 THEN HelloStream(s) ELSE RequestStream(s)
=============================================================================
