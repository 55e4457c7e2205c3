---------------------------- MODULE EgressPolicy ----------------------------
(***************************************************************************)
(* The decisions of the egress proxy: what its DNS responder answers       *)
(* (dns.go) and where Policy.Egress connects to (policy.go, allowlist.go,  *)
(* doh.go), by the configuration it was started with (config.go) and       *)
(* against a resolver whose answers change at any time.                    *)
(*                                                                         *)
(* A hostname is the sequence of its labels, an address the first two      *)
(* octets of an IPv4 address.  A raw host that normalizeHost rejects is    *)
(* the value "bad"; the others stand for themselves, an address for all    *)
(* its spellings.                                                          *)
(***************************************************************************)
EXTENDS Naturals, SequencesExt

CONSTANTS
    Files,        \* what the configuration file may be: Unreadable, or
                  \* [mode, ip] with ip whether it gives proxy_ip
    Allow,        \* the entries of its allow list: [prefix, host, port] with
                  \* prefix "*." or "", and port 0 if they name none
    DoH,          \* dohProviders
    Names,        \* the hostnames the agent asks for
    Addrs,        \* the addresses it asks for or a resolver answers
    Ports,        \* the ports it asks for
    Answers       \* bound: the resolver's answers, sequences of addresses

Hosts == [name : Names] \cup [ip : Addrs] \cup {[bad |-> TRUE]}
IsIP(h) == DOMAIN h = {"ip"}
IsBad(h) == DOMAIN h = {"bad"}
IsName(h) == DOMAIN h = {"name"}

MaxPort == 65535
Octets == {n \in Nat : n <= 255}

ASSUME PolicyAssumption ==
    /\ Ports \subseteq Nat
    /\ Addrs \subseteq Octets \X Octets
    /\ Answers \subseteq Seq(Addrs)
ASSUME AllowAssumption ==
    \A e \in Allow : e.prefix \in {"", "*."} /\ e.port \in Nat

VARIABLES
    file,     \* the configuration the proxy finds
    mode,     \* the mode it runs in, "refused" when it did not start
    zone,     \* what the resolver answers for each name; <<>> is a failure
    told,     \* the names that were answered with the proxy's address
    req       \* the connection that Policy.Egress decides on

vars == <<file, mode, zone, told, req>>

Idle == [stage |-> "idle"]

Unreadable == [mode |-> "", ip |-> FALSE]

\* mutant: a file without a mode is permissive
MutantLoadConfig(f) ==
    CASE f.ip /\ f.mode = "strict" -> "strict"
      [] f.ip /\ f.mode \in {"", "permissive"} -> "permissive"
      [] OTHER -> "refused"

\* LoadConfig, whose error ends the process (main)
LoadConfig(f) ==
    CASE f.ip /\ f.mode \in {"", "strict"} -> "strict"
      [] f.ip /\ f.mode = "permissive" -> "permissive"
      [] OTHER -> "refused"

Init ==
    /\ file \in Files
    /\ mode = LoadConfig(file)
    /\ zone \in [Names -> Answers]
    /\ told = {}
    /\ req = Idle
-----------------------------------------------------------------------------
(* The allowlist.                                                          *)

\* isHostPort: any other port makes the entry a name nothing matches
IsHostPort(e) == e.prefix = "" /\ 0 < e.port /\ e.port <= MaxPort

\* mutant: the port of an entry is dropped where it is not one
MutantExact == {e.host : e \in {x \in Allow : x.prefix = "" /\ ~IsHostPort(x)}}

\* NewAllowlist: the names, the domains of the wildcards and the pairs
Exact == {e.host : e \in {x \in Allow : x.prefix = "" /\ x.port = 0}}
Wildcards == {e.host : e \in {x \in Allow : x.prefix = "*." /\ x.port = 0}}
HostPorts == {<<e.host, e.port>> : e \in {x \in Allow : IsHostPort(x) /\ ~IsBad(x.host)}}

Subdomain(n, d) == IsStrictSuffix(d, n)

\* mutant: a wildcard stands for its domain, too
MutantNameAllowed(n) ==
    \/ [name |-> n] \in Exact
    \/ \E d \in Wildcards : IsName(d) /\ (n = d.name \/ Subdomain(n, d.name))

\* allowedNameNorm
NameAllowed(n) ==
    \/ [name |-> n] \in Exact
    \/ \E d \in Wildcards : IsName(d) /\ Subdomain(n, d.name)

\* AllowedName
AllowedName(h) == IsName(h) /\ NameAllowed(h.name)

\* AllowedExactHostPort
ExactHostPort(h, p) == <<h, p>> \in HostPorts

\* mutant: addresses are turned away before the pairs are looked at
MutantAllowedHostPort(h, p) ==
    /\ 0 < p /\ p <= MaxPort
    /\ IsName(h)
    /\ ExactHostPort(h, p) \/ (p \in {80, 443} /\ AllowedName(h))

\* AllowedHostPort: an entry of the pair, or a name entry on the web ports
AllowedHostPort(h, p) ==
    /\ 0 < p /\ p <= MaxPort
    /\ ~IsBad(h)
    /\ \/ ExactHostPort(h, p)
       \/ p \in {80, 443} /\ AllowedName(h)

\* isDoHProvider
IsDoH(n) == \E d \in DoH : n = d \/ Subdomain(n, d)
-----------------------------------------------------------------------------
(* The screen of resolved addresses.                                       *)

\* net.IP: IsLoopback, IsLinkLocalUnicast, IsLinkLocalMulticast,
\* IsUnspecified and IsPrivate
StdUnsafe(a) ==
    \/ a[1] = 127 \/ a = <<169, 254>> \/ a = <<224, 0>> \/ a = <<0, 0>>
    \/ a[1] = 10 \/ a = <<192, 168>> \/ (a[1] = 172 /\ a[2] \in 16 .. 31)

MutantCgnat(a) == a[1] = 100 /\ a[2] >= 64 /\ a[2] < 127    \* mutant

Cgnat(a) == a[1] = 100 /\ a[2] >= 64 /\ a[2] <= 127

\* isPrivateIP
IsPrivate(a) == StdUnsafe(a) \/ Cgnat(a)

\* selectEgressIP: the first address of the answer that is not private
Public(ips) == {i \in DOMAIN ips : ~IsPrivate(ips[i])}
Chosen(ips) == ips[CHOOSE i \in Public(ips) : \A j \in Public(ips) : i <= j]
-----------------------------------------------------------------------------
(* dns.go: the responder.                                                  *)

\* mutant: strict mode answers for the hosts of host:port entries, too
MutantPermitDNS(m, h) ==
    IF m = "strict"
    THEN AllowedName(h) \/ \E p \in Ports : ExactHostPort(h, p)
    ELSE IsName(h)

\* PermitDNS
PermitDNS(m, h) == IF m = "strict" THEN AllowedName(h) ELSE IsName(h)

\* The answer to a question of a type.
Reply(m, type, h) ==
    CASE type = "A" /\ PermitDNS(m, h) -> "proxy"
      [] type = "AAAA" /\ PermitDNS(m, h) -> "empty"
      [] type \in {"HTTPS", "SVCB"} -> "refused"
      [] OTHER -> "nxdomain"

ServeDNS(type, h) ==
    /\ mode # "refused"
    /\ told' = IF Reply(mode, type, h) = "proxy" THEN told \cup {h} ELSE told
    /\ UNCHANGED <<file, mode, zone, req>>
-----------------------------------------------------------------------------
(* policy.go: Egress.  A request carries what it was decided on.           *)

Deny(why) == req' = [req EXCEPT !.stage = "denied", !.why = why]

\* splitHostPort; the other listeners ask for their own port
ValidPort(p) == 0 < p /\ p <= MaxPort

Request(h, p) ==
    /\ mode # "refused"
    /\ ValidPort(p)
    /\ req = Idle
    /\ req' = [stage |-> "decide", host |-> h, port |-> p, ips |-> <<>>,
               to |-> <<>>, why |-> "none"]
    /\ UNCHANGED <<file, mode, zone, told>>

MutantAsIs(m, h, p) == AllowedHostPort(h, p)   \* mutant: strict as permissive

\* What is dialled without a look at its address.
AsIs(m, h, p) == IF m = "strict" THEN IsIP(h) \/ ExactHostPort(h, p)
                                 ELSE AllowedHostPort(h, p)

\* mutant: the resolver list is looked at on the web ports only
MutantRefused(m, h, p) ==
    CASE IsBad(h) -> "malformed"
      [] m = "strict" /\ ~AllowedHostPort(h, p) -> "unlisted"
      [] m = "permissive" /\ ~AllowedHostPort(h, p) /\ IsName(h)
         /\ IsDoH(h.name) /\ p \in {80, 443} -> "doh"
      [] OTHER -> "none"

\* mutant: a listed name is listed on every port
MutantUnlisted(m, h, p) ==
    CASE IsBad(h) -> "malformed"
      [] m = "strict" /\ ~(AllowedHostPort(h, p) \/ AllowedName(h)) -> "unlisted"
      [] m = "permissive" /\ ~AllowedHostPort(h, p) /\ IsName(h)
         /\ IsDoH(h.name) -> "doh"
      [] OTHER -> "none"

\* Why Egress denies before it resolves anything.
Refused(m, h, p) ==
    CASE IsBad(h) -> "malformed"
      [] m = "strict" /\ ~AllowedHostPort(h, p) -> "unlisted"
      [] m = "permissive" /\ ~AllowedHostPort(h, p) /\ IsName(h) /\ IsDoH(h.name)
            -> "doh"
      [] OTHER -> "none"

Decide ==
    /\ req.stage = "decide"
    /\ LET why == Refused(mode, req.host, req.port) IN
       IF why # "none" THEN Deny(why)
       ELSE req' = [req EXCEPT !.stage = IF AsIs(mode, req.host, req.port)
                                         THEN "dial" ELSE "lookup"]
    /\ UNCHANGED <<file, mode, zone, told>>

\* lookupIP; an address is its own answer
Lookup ==
    /\ req.stage = "lookup"
    /\ LET ips == IF IsIP(req.host) THEN <<req.host.ip>> ELSE zone[req.host.name] IN
       IF ips = <<>> THEN Deny("resolve")
       ELSE req' = [req EXCEPT !.stage = "screen", !.ips = ips]
    /\ UNCHANGED <<file, mode, zone, told>>

\* mutant: the name is dialled once its addresses have passed
MutantScreen ==
    /\ req.stage = "screen"
    /\ IF Public(req.ips) = {} THEN Deny("private")
       ELSE req' = [req EXCEPT !.stage = "dial"]
    /\ UNCHANGED <<file, mode, zone, told>>

Screen ==
    /\ req.stage = "screen"
    /\ IF Public(req.ips) = {} THEN Deny("private")
       ELSE req' = [req EXCEPT !.stage = "connect", !.to = Chosen(req.ips)]
    /\ UNCHANGED <<file, mode, zone, told>>

\* dial with the chosen address
Connect ==
    /\ req.stage = "connect"
    /\ req' = [req EXCEPT !.stage = "up"]
    /\ UNCHANGED <<file, mode, zone, told>>

\* dialOrDeny: the dialler resolves the host once more
DialAsIs ==
    /\ req.stage = "dial"
    /\ LET ips == IF IsIP(req.host) THEN <<req.host.ip>> ELSE zone[req.host.name] IN
       \/ \E i \in DOMAIN ips :
              req' = [req EXCEPT !.stage = "up", !.to = ips[i]]
       \/ ips = <<>> /\ Deny("dial")
    /\ UNCHANGED <<file, mode, zone, told>>

\* The connection attempt fails.
DialFails ==
    /\ req.stage \in {"connect", "dial"}
    /\ Deny("dial")
    /\ UNCHANGED <<file, mode, zone, told>>

\* Egress returns.
Over ==
    /\ req.stage \in {"up", "denied"}
    /\ req' = Idle
    /\ UNCHANGED <<file, mode, zone, told>>

\* The resolver answers something else from now on.
Rebind(n, answer) ==
    /\ zone' = [zone EXCEPT ![n] = answer]
    /\ UNCHANGED <<file, mode, told, req>>

Types == {"A", "AAAA", "HTTPS", "SVCB", "other"}

Next ==
    \/ \E t \in Types, h \in Hosts : ServeDNS(t, h)
    \/ \E h \in Hosts, p \in Ports : Request(h, p)
    \/ Decide \/ Lookup \/ Screen \/ Connect \/ DialAsIs \/ DialFails \/ Over
    \/ \E n \in Names, a \in Answers : Rebind(n, a)

Spec == Init /\ [][Next]_vars
-----------------------------------------------------------------------------
Stages == {"decide", "lookup", "screen", "connect", "dial", "up", "denied"}
Reasons == {"none", "malformed", "unlisted", "doh", "resolve", "private", "dial"}

\* The types of the variables.
TypeOK ==
    /\ file \in Files
    /\ mode \in {"strict", "permissive", "refused"}
    /\ zone \in [Names -> Answers]
    /\ told \subseteq Hosts
    /\ req = Idle \/ req \in [stage : Stages, host : Hosts, port : Ports,
                              ips : Seq(Addrs), to : Addrs \cup {<<>>},
                              why : Reasons]

Up == req.stage = "up"

\* The blocks policy.go:180 names, as base address and size: an address is
\* in one when it agrees with the base up to a multiple of the size.
Blocks == {<<<<10, 0>>, 256>>, <<<<172, 16>>, 16>>, <<<<192, 168>>, 1>>,
           <<<<127, 0>>, 256>>, <<<<169, 254>>, 1>>, <<<<100, 64>>, 64>>}
Number(a) == a[1] * 256 + a[2]
Lan(a) == \E b \in Blocks : Number(a) \div b[2] = Number(b[1]) \div b[2]

\* What an entry is for (the comment at the head of allowlist.go): a pair; or,
\* on the web ports, a name or the subdomains of one.
Opens(e, h, p) ==
    \/ e.prefix = "" /\ e.host = h /\ e.port = p
    \/ /\ e.port = 0 /\ p \in {80, 443} /\ IsName(h) /\ IsName(e.host)
       /\ IF e.prefix = "*." THEN Subdomain(h.name, e.host.name) ELSE e.host = h
Opened(h, p) == \E e \in Allow : Opens(e, h, p)

\* A connection ends at an address of a local network only by an entry of the
\* list that names it: in strict mode by its host:port entry, in permissive
\* mode by an entry of the name or the pair, whatever a resolver answers and
\* whenever it changes its mind (policy.go).
LanOnlyByException ==
    (Up /\ Lan(req.to)) =>
        \E e \in Allow :
            /\ Opens(e, req.host, req.port)
            /\ mode = "strict" => e.host = req.host /\ e.port = req.port

\* What is dialled after a lookup is an address of that very lookup which
\* passed the screen, not what the name means by then (policy.go).
DialledWasScreened ==
    (req.stage \in {"connect", "up"} /\ ~AsIs(mode, req.host, req.port)) =>
        /\ ~IsPrivate(req.to)
        /\ \E i \in DOMAIN req.ips : req.to = req.ips[i]

\* Only a file that says permissive lets a connection through that no entry is
\* for, and not even that one to a resolver of the DoH list, on any port; what
\* the proxy makes of an entry is no more than what the entry says.
UnlistedIsDenied ==
    (Up /\ ~Opened(req.host, req.port)) =>
        file.mode = "permissive" /\ (IsName(req.host) => ~IsDoH(req.host.name))

\* And no less: what an entry is for is never turned away as unlisted, as
\* malformed or as a listed resolver.
ListedIsServed ==
    (req.stage = "denied" /\ ~IsBad(req.host) /\ Opened(req.host, req.port)) =>
        req.why \notin {"malformed", "unlisted", "doh"}

\* The two halves agree: a name the responder led to the proxy is not turned
\* away there as unlisted or malformed (policy.go, PermitDNS).
ToldIsListed ==
    (req.stage = "denied" /\ req.host \in told /\ req.port \in {80, 443}) =>
        req.why \notin {"malformed", "unlisted"}
=============================================================================
