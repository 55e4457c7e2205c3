----------------------------- MODULE MCHostPeek -----------------------------
(* Instances of HostPeek: clients' hellos and requests, written out.       *)
EXTENDS HostPeekProofs, SequencesExt

Len8(b) == <<Len(b)>> \o b
Len16(b) == <<0, Len(b)>> \o b

\* TLS: extensions by type; the names in a server_name extension by type.
Ext(type, body) == <<0, type>> \o Len16(body)
Names(list) == Len16(FlattenSeq([i \in DOMAIN list |->
                   <<list[i][1]>> \o Len16(list[i][2])]))
Record(type, hs) == <<type, 3, 1>> \o Len16(hs)
Hello(session, block) ==
    LET body == <<3, 3, 7>> \o Len8(session) \o Len16(<<5>>) \o Len8(<<0>>) \o block
    IN <<1, 0>> \o Len16(body)

A == <<97>>
AB == <<97, 98>>
Blank == <<32>>
Key == Ext(51, <<0, 0, 0, 1>>)        \* opaque, and like an empty extension
Sni(list) == Ext(0, Names(list))
\* blocks of extensions and the name each asks for
Blocks == {
    <<<<>>, <<>>>>,                                 \* a hello without a block
    <<Len16(<<>>), <<>>>>,
    <<Len16(Key), <<>>>>,
    <<Len16(Sni(<<<<0, AB>>>>)), AB>>,
    <<Len16(Key \o Sni(<<<<0, AB>>>>)), AB>>,
    <<Len16(Sni(<<<<0, Blank \o A>>>>) \o Key), A>>,
    <<Len16(Sni(<<<<1, A>>, <<0, AB>>>>)), AB>>,    \* a name of another type
    <<Len16(Sni(<<<<0, Blank>>>>)), <<>>>>,
    <<Len16(Sni(<<>>)), <<>>>>,
    <<Len16(Ext(0, <<>>)), <<>>>> }

Tls(d, head, asks) == [port |-> 443, data |-> d, head |-> head, asks |-> asks]
\* what may follow the hello: nothing, or early data like a block with a name
Afters == {<<>>, Len16(Sni(<<<<0, A>>>>))}
Hellos ==
    {LET r == Record(22, Hello(s, b[1])) IN Tls(r \o after, Len(r), b[2]) :
        s \in {<<>>, <<9>>}, b \in Blocks, after \in Afters}
\* records that are no hello, and lengths that promise more than there is
Broken == {Tls(d, Len(d), <<>>) :
    d \in {Record(23, <<1>>), Record(22, <<2, 0, 0, 0>>)}}
Greedy == {LET r == Record(22, Hello(<<>>, b)) IN Tls(r, Len(r) + 1, <<>>) :
    b \in {<<0, 9>>, Len16(<<0, 51, 0, 1>>), Len16(<<0, 0, 0, 3, 0, 5>> \o A)}}

\* HTTP: a Host line's value and the name it asks for
Get == 71
Port == <<Colon, 56>>
Values == {
    <<A, A>>,
    <<Blank \o AB \o Blank, AB>>,
    <<AB \o Port, AB>>,
    <<<<91, Colon, Colon, 97, Closing>>, <<Colon, Colon, 97>>>>,
    <<<<91, Colon, 97, Closing>> \o Port, <<Colon, 97>>>>,
    <<Blank \o Port, <<>>>>,
    <<<<>>, <<>>>> }
Line(text) == text \o <<CR, LF>>
Http(d, asks) == [port |-> 80, data |-> d, head |-> Len(d), asks |-> asks]
\* the field counts at the start of a line only
RequestLine == Line(<<Get, HostField>>)
Requests ==
    {Http(RequestLine \o before \o Line(<<HostField>> \o v[1]) \o after \o Line(<<>>),
          v[2]) :
        before \in {<<>>, Line(<<Get, Colon>>)}, v \in Values,
        after \in {<<>>, Line(<<HostField, 98>>)}}
\* no Host line, but one in the body
Hostless == {LET r == RequestLine \o Line(<<>>) IN
             [Http(r \o Line(<<HostField, 98>>) \o Line(<<>>), <<>>) EXCEPT !.head = Len(r)]}

TheStreams == Hellos \cup Broken \cup Greedy \cup Requests \cup Hostless
=============================================================================
