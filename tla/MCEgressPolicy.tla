--------------------------- MODULE MCEgressPolicy ---------------------------
(* Instances of EgressPolicy.                                              *)
EXTENDS EgressPolicyProofs, TLC

Api == <<"api", "org">>             \* allowed by name
Git == <<"git", "org">>             \* allowed on port 22, its subdomains by wildcard
Sub == <<"cdn", "git", "org">>      \* one of them
Doh == <<"x", "doh", "org">>        \* below a listed resolver; its entry has no valid port

Open == <<93, 184>>
Nas == <<192, 168>>                 \* allowed on port 22
Edge == <<100, 127>>                \* the last of the CGNAT block

TheNames == {Api, Sub, Git, Doh}
Entry(host, port) == [prefix |-> "", host |-> host, port |-> port]
Below(domain, port) == [prefix |-> "*.", host |-> [name |-> domain], port |-> port]
\* the last four open nothing
TheAllow == {Entry([name |-> Api], 0), Below(Git, 0),
             Entry([name |-> Git], 22), Entry([ip |-> Nas], 22),
             Entry([ip |-> Edge], 0), Entry([name |-> Doh], 70000),
             Below(<<"org">>, 22), Entry([bad |-> TRUE], 22)}
TheFiles == {Unreadable} \cup
            [mode : {"", "strict", "permissive", "Permissive"}, ip : {TRUE}]
TheDoH == {<<"doh", "org">>}
TheAddrs == {Open, Nas, Edge}
TheAnswers == {<<>>, <<Open>>, <<Edge, Open>>}
ThePorts == {22, 443}
=============================================================================
