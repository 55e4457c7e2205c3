----------------------------- MODULE HostNames ------------------------------
(***************************************************************************)
(* How the proxy reads the host name off the first bytes of a connection   *)
(* (proxy/sni.go, proxy/reader.go): extractSNI on a TLS ClientHello,       *)
(* extractHTTPHost on an HTTP/1 request.  The connection is not consumed.  *)
(*                                                                         *)
(* A stream is a sequence of bytes; the "host:" of an HTTP header, in any  *)
(* case, is one symbol beyond them.  The case of names is left out.        *)
(***************************************************************************)
EXTENDS Naturals, Sequences, FiniteSetsExt

CONSTANT RandomLen    \* the bytes of ClientHello.random (32 in the code)

ASSUME RandomAssumption == RandomLen \in Nat

\* What a parser returns: a host, errShortRead, or another error.
Told(name) == [out |-> "host", name |-> name]
Short == [out |-> "short"]
Error(why) == [out |-> "error", why |-> why]
NoSNI == Error("no SNI")

CR == 13
LF == 10
Colon == 58
Closing == 93
Brackets == {91, Closing}
HostField == 256
Spaces == {9, LF, 11, 12, CR, 32}    \* unicode.IsSpace
-----------------------------------------------------------------------------
(* reader.go: a cursor is the number of bytes it has passed; one beyond    *)
(* the end of the data stands for a read that came up short.               *)

MutantHas(d, p, n) == p + n < Len(d)    \* mutant: one byte more than needed

\* reader.has
Has(d, p, n) == p + n <= Len(d)

\* reader.u8, reader.u16: w bytes, big-endian
Number(d, p, w) == IF w = 1 THEN d[p + 1] ELSE d[p + 1] * 256 + d[p + 2]

Beyond(d) == Len(d) + 1

\* reader.skipVec8, reader.skipVec16: past the vector whose length has w bytes
SkipVec(d, p, w) ==
    IF Has(d, p, w) /\ Has(d, p + w, Number(d, p, w))
    THEN p + w + Number(d, p, w)
    ELSE Beyond(d)

\* reader.take
Take(d, p, n) == SubSeq(d, p + 1, p + n)

\* strings.TrimSpace, strings.Trim: without the blanks at both ends
Trim(s, blanks) ==
    LET kept == {i \in DOMAIN s : s[i] \notin blanks} IN
    IF kept = {} THEN <<>> ELSE SubSeq(s, Min(kept), Max(kept))
-----------------------------------------------------------------------------
(* sni.go: extractSNI.                                                     *)

MutantFirstOfType0(e, w) ==    \* mutant: the first entry, of whatever type
    LET scan[p \in 0 .. Len(e)] ==
            IF ~Has(e, p, w + 2) THEN NoSNI
            ELSE LET n == Number(e, p + w, 2) IN
                 IF ~Has(e, p + w + 2, n) THEN Short
                 ELSE Told(Take(e, p + w + 2, n))
    IN scan[0]

\* The two loops, over extensions (type of two bytes) and over the names of
\* a server_name extension (type of one): the body of the first of type 0.
FirstOfType0(e, w) ==
    LET scan[p \in 0 .. Len(e)] ==
            IF ~Has(e, p, w + 2) THEN NoSNI
            ELSE LET n == Number(e, p + w, 2) IN
                 IF ~Has(e, p + w + 2, n) THEN Short
                 ELSE IF Number(e, p, w) = 0 THEN Told(Take(e, p + w + 2, n))
                 ELSE scan[p + w + 2 + n]
    IN scan[0]

\* parseServerName
ServerName(body) ==
    IF ~Has(body, 0, 2) THEN NoSNI
    ELSE IF ~Has(body, 2, Number(body, 0, 2)) THEN Short
    ELSE LET found == FirstOfType0(Take(body, 2, Number(body, 0, 2)), 1) IN
         IF found.out # "host" THEN found
         ELSE IF Trim(found.name, Spaces) = <<>> THEN NoSNI
         ELSE Told(Trim(found.name, Spaces))

\* Past session_id, cipher_suites and compression_methods, which follow the
\* record header (5), the handshake header (4), the version and the random.
PreambleEnd(d) ==
    SkipVec(d, SkipVec(d, SkipVec(d, 5 + 4 + 2 + RandomLen, 1), 2), 1)

\* mutant: a preamble that ends with the data is not taken for complete
MutantExtensions(d, p) ==
    IF ~Has(d, p, 2) THEN Short
    ELSE IF ~Has(d, p + 2, Number(d, p, 2)) THEN Short
    ELSE Told(Take(d, p + 2, Number(d, p, 2)))

\* The block of extensions; an old hello has none.
Extensions(d, p) ==
    IF ~Has(d, p, 2) THEN NoSNI
    ELSE IF ~Has(d, p + 2, Number(d, p, 2)) THEN Short
    ELSE Told(Take(d, p + 2, Number(d, p, 2)))

\* extractSNI: the record must be there as a whole, but nothing keeps the
\* cursor inside it.
ExtractSNI(d) ==
    IF d = <<>> THEN Short
    ELSE IF d[1] # 22 THEN Error("not a handshake record")
    ELSE IF ~(Has(d, 0, 5) /\ Has(d, 5, Number(d, 3, 2)) /\ Has(d, 5, 1)) THEN Short
    ELSE IF d[6] # 1 THEN Error("not a ClientHello")
    ELSE IF PreambleEnd(d) = Beyond(d) THEN Short
    ELSE LET block == Extensions(d, PreambleEnd(d))
             sni == FirstOfType0(block.name, 2)
         IN IF block.out # "host" THEN block
            ELSE IF sni.out # "host" THEN sni
            ELSE ServerName(sni.name)
-----------------------------------------------------------------------------
(* sni.go: extractHTTPHost.                                                *)

LineEnd(d, i) == i \in 1 .. Len(d) - 1 /\ d[i] = CR /\ d[i + 1] = LF
LineStart(d, s) == s = 1 \/ (s > 2 /\ LineEnd(d, s - 2))

\* The empty line after the headers.
Terminator(d, i) == LineEnd(d, i) /\ LineEnd(d, i + 2)
Terminated(d) == \E i \in 1 .. Len(d) : Terminator(d, i)

\* mutant: the last line counts although its end has not been seen
MutantHostLine(d, s, t) ==
    /\ s \in 1 .. Len(d) /\ LineStart(d, s) /\ d[s] = HostField
    /\ ~ \E i \in 1 .. s - 1 : Terminator(d, i)
    /\ LineEnd(d, t) \/ t = Len(d) + 1
    /\ ~ \E i \in s .. t - 1 : LineEnd(d, i)

\* A header line from s on that starts with "host:" and has its end at t.
HostLine(d, s, t) ==
    /\ s \in 1 .. Len(d) /\ LineStart(d, s) /\ d[s] = HostField
    /\ ~ \E i \in 1 .. s - 1 : Terminator(d, i)
    /\ LineEnd(d, t) /\ s <= t
    /\ ~ \E i \in s .. t - 1 : LineEnd(d, i)

\* mutant: the colons of a bracketed address are not looked at
MutantStripPort(v) ==
    LET colons == {i \in DOMAIN v : v[i] = Colon} IN
    IF colons # {} THEN SubSeq(v, 1, Max(colons) - 1) ELSE v

\* Without :port, unless the colon is inside brackets.
StripPort(v) ==
    LET colons == {i \in DOMAIN v : v[i] = Colon}
        last == Max(colons)
    IN IF /\ colons # {}
          /\ \/ \A i \in DOMAIN v : v[i] # Closing
             \/ last > 1 /\ v[last - 1] = Closing
       THEN SubSeq(v, 1, last - 1)
       ELSE v

HostOf(v) == Trim(Trim(StripPort(Trim(v, Spaces)), Brackets), Spaces)

\* extractHTTPHost: the first Host line decides
ExtractHTTPHost(d) ==
    LET lines == {s \in 1 .. Len(d) : \E t \in 1 .. Len(d) : HostLine(d, s, t)}
        s == Min(lines)
        t == CHOOSE t \in 1 .. Len(d) : HostLine(d, s, t)
        host == HostOf(SubSeq(d, s + 1, t - 1))
    IN IF lines # {} THEN IF host = <<>> THEN Error("empty Host") ELSE Told(host)
       ELSE IF Terminated(d) THEN Error("no Host header")
       ELSE Short
=============================================================================
