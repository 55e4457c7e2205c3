------------------------- MODULE EgressPolicyProofs -------------------------
(***************************************************************************)
(* What Policy.Egress guarantees for every allowlist, every resolver and   *)
(* every request.                                                          *)
(***************************************************************************)
EXTENDS EgressPolicy, WellFoundedInduction, TLAPS

(* A non-empty set of naturals has a least element.                        *)
LEMMA LeastExists ==
    ASSUME NEW S \in SUBSET Nat, S # {}
    PROVE  \E i \in S : \A j \in S : i <= j
<1> DEFINE R == OpToRel(<, Nat)
<1>1. IsWellFoundedOn(R, Nat)
  BY NatLessThanWellFounded
<1>2. ASSUME NEW i \in Nat, NEW j \in Nat, j < i
      PROVE  <<j, i>> \in R
  BY <1>2, Zenon DEF OpToRel
<1> HIDE DEF R
<1>3. PICK i \in S : \A j \in S : ~(<<j, i>> \in R)
  BY <1>1, WFMin
<1>4. ASSUME NEW j \in S
      PROVE  i <= j
  <2>1. ~(j < i)
    BY <1>2, <1>3
  <2> QED BY <2>1
<1> QED BY <1>4

(* selectEgressIP returns an address of the answer that is not private.    *)
LEMMA ChosenIsPublic ==
    ASSUME NEW ips \in Seq(Addrs), Public(ips) # {}
    PROVE  /\ ~IsPrivate(Chosen(ips))
           /\ \E i \in DOMAIN ips : Chosen(ips) = ips[i]
           /\ Chosen(ips) \in Addrs
<1>1. Public(ips) \in SUBSET Nat
  BY DEF Public
<1>2. \E i \in Public(ips) : \A j \in Public(ips) : i <= j
  BY <1>1, LeastExists
<1>3. PICK i \in Public(ips) : Chosen(ips) = ips[i]
  BY <1>2 DEF Chosen
<1> QED BY <1>3 DEF Public

(* What division by a block's size says of a number.                       *)
LEMMA DivBounds ==
    ASSUME NEW n \in Nat, NEW q \in Nat
    PROVE  /\ n \div 256 = q => 256 * q <= n /\ n < 256 * q + 256
           /\ n \div 64 = q => 64 * q <= n /\ n < 64 * q + 64
           /\ n \div 16 = q => 16 * q <= n /\ n < 16 * q + 16
           /\ n \div 1 = q => n = q
OBVIOUS

(* isPrivateIP covers every block the code names, at both ends of each.    *)
LEMMA PrivateCoversLan ==
    ASSUME NEW a \in Octets \X Octets, Lan(a)
    PROVE  IsPrivate(a)
<1> DEFINE n == a[1] * 256 + a[2]
<1>1. PICK x \in Nat, y \in Nat : a = <<x, y>> /\ x <= 255 /\ y <= 255
  BY DEF Octets
<1>2. n = 256 * x + y /\ n \in Nat
  BY <1>1
<1> HIDE DEF n
<1>3. PICK b \in Blocks : n \div b[2] = Number(b[1]) \div b[2]
  BY DEF Lan, Number, n
<1>4. CASE b = <<<<10, 0>>, 256>>
  <2>1. n \div 256 = 10
    BY <1>3, <1>4 DEF Number
  <2> QED BY <1>1, <1>2, <2>1, DivBounds DEF IsPrivate, StdUnsafe
<1>5. CASE b = <<<<172, 16>>, 16>>
  <2>1. n \div 16 = 2753
    BY <1>3, <1>5 DEF Number
  <2>2. 44048 <= n /\ n < 44064
    BY <1>2, <2>1, DivBounds
  <2>3. x = 172 /\ y \in 16 .. 31
    BY <1>1, <1>2, <2>2
  <2> QED BY <1>1, <2>3 DEF IsPrivate, StdUnsafe
<1>6. CASE b = <<<<192, 168>>, 1>>
  <2>1. n \div 1 = 49320 \div 1
    BY <1>3, <1>6 DEF Number
  <2>2. n = 49320
    BY <1>2, <2>1, DivBounds
  <2>3. x = 192 /\ y = 168
    BY <1>1, <1>2, <2>2
  <2> QED BY <1>1, <2>3 DEF IsPrivate, StdUnsafe
<1>7. CASE b = <<<<127, 0>>, 256>>
  <2>1. n \div 256 = 127
    BY <1>3, <1>7 DEF Number
  <2> QED BY <1>1, <1>2, <2>1, DivBounds DEF IsPrivate, StdUnsafe
<1>8. CASE b = <<<<169, 254>>, 1>>
  <2>1. n \div 1 = 43518 \div 1
    BY <1>3, <1>8 DEF Number
  <2>2. n = 43518
    BY <1>2, <2>1, DivBounds
  <2>3. x = 169 /\ y = 254
    BY <1>1, <1>2, <2>2
  <2> QED BY <1>1, <2>3 DEF IsPrivate, StdUnsafe
<1>9. CASE b = <<<<100, 64>>, 64>>
  <2>1. n \div 64 = 401
    BY <1>3, <1>9 DEF Number
  <2>2. 25664 <= n /\ n < 25728
    BY <1>2, <2>1, DivBounds
  <2>3. x = 100 /\ y >= 64 /\ y <= 127
    BY <1>1, <1>2, <2>2
  <2> QED BY <1>1, <2>3 DEF IsPrivate, Cgnat
<1> QED BY <1>3, <1>4, <1>5, <1>6, <1>7, <1>8, <1>9 DEF Blocks

(* A host is of one kind.                                                  *)
LEMMA KindsDiffer ==
    ASSUME NEW h \in Hosts
    PROVE  /\ IsIP(h) => ~IsName(h) /\ ~IsBad(h)
           /\ IsName(h) => ~IsBad(h)
           /\ ~IsBad(h) => IsIP(h) \/ IsName(h)
           /\ IsIP(h) => h.ip \in Addrs
           /\ IsName(h) => h.name \in Names
<1>1. {"ip"} # {"name"} /\ {"ip"} # {"bad"} /\ {"name"} # {"bad"}
  OBVIOUS
<1>2. \/ h \in [name : Names] /\ DOMAIN h = {"name"}
      \/ h \in [ip : Addrs] /\ DOMAIN h = {"ip"}
      \/ h = [bad |-> TRUE] /\ DOMAIN h = {"bad"}
  BY DEF Hosts
<1> QED BY <1>1, <1>2 DEF IsIP, IsName, IsBad

\* A host is known by its kind and what it names.
LEMMA NameOfHost ==
    ASSUME NEW h \in Hosts, IsName(h)
    PROVE  h = [name |-> h.name]
<1>1. {"ip"} # {"name"} /\ {"bad"} # {"name"}
  OBVIOUS
<1>2. \/ h \in [name : Names]
      \/ h \in [ip : Addrs] /\ DOMAIN h = {"ip"}
      \/ h = [bad |-> TRUE] /\ DOMAIN h = {"bad"}
  BY DEF Hosts
<1>3. h \in [name : Names]
  BY <1>1, <1>2 DEF IsName
<1> QED BY <1>3

\* What an entry of the list is for a pair, and for a name.
ForPair(e, h, p) == e.prefix = "" /\ e.host = h /\ e.port = p
ForName(e, h) == /\ e.port = 0 /\ IsName(e.host)
                 /\ IF e.prefix = "*." THEN Subdomain(h.name, e.host.name)
                                       ELSE e.host = h

\* What NewAllowlist makes of the entries for a pair is what they are for.
LEMMA ExactIsForPair ==
    ASSUME NEW h \in Hosts, ~IsBad(h), NEW p \in Nat, ValidPort(p)
    PROVE  ExactHostPort(h, p) <=> \E e \in Allow : ForPair(e, h, p)
<1>1. ASSUME ExactHostPort(h, p) PROVE \E e \in Allow : ForPair(e, h, p)
  <2>1. PICK e \in Allow : IsHostPort(e) /\ <<h, p>> = <<e.host, e.port>>
    BY <1>1 DEF ExactHostPort, HostPorts
  <2>2. h = e.host /\ p = e.port /\ e.prefix = ""
    BY <2>1 DEF IsHostPort
  <2> QED BY <2>2, Zenon DEF ForPair
<1>2. ASSUME NEW e \in Allow, ForPair(e, h, p) PROVE ExactHostPort(h, p)
  <2>1. e.host = h /\ e.port = p /\ e.prefix = ""
    BY <1>2, Zenon DEF ForPair
  <2>2. 0 < e.port /\ e.port <= MaxPort
    BY <2>1, Zenon DEF ValidPort
  <2>3. IsHostPort(e) /\ ~IsBad(e.host)
    BY <2>1, <2>2, Zenon DEF IsHostPort
  <2>4. <<e.host, e.port>> \in HostPorts
    BY <2>3 DEF HostPorts
  <2> QED BY <2>1, <2>4, Zenon DEF ExactHostPort
<1> QED BY <1>1, <1>2, Zenon

\* And for a name.
LEMMA AllowedIsForName ==
    ASSUME NEW h \in Hosts, IsName(h)
    PROVE  NameAllowed(h.name) <=> \E e \in Allow : ForName(e, h)
<1>1. h = [name |-> h.name]
  BY NameOfHost
<1>2. ASSUME NameAllowed(h.name) PROVE \E e \in Allow : ForName(e, h)
  <2>1. CASE [name |-> h.name] \in Exact
    <3>1. h \in Exact
      BY <1>1, <2>1, Zenon
    <3>2. PICK e \in Allow : e.prefix = "" /\ e.port = 0 /\ h = e.host
      BY <3>1 DEF Exact
    <3>3. IsName(e.host) /\ e.prefix # "*."
      BY <3>2
    <3> QED BY <3>2, <3>3, Zenon DEF ForName
  <2>2. CASE \E d \in Wildcards : IsName(d) /\ Subdomain(h.name, d.name)
    <3>1. PICK d \in Wildcards : IsName(d) /\ Subdomain(h.name, d.name)
      BY <2>2
    <3>2. PICK e \in Allow : e.prefix = "*." /\ e.port = 0 /\ d = e.host
      BY DEF Wildcards
    <3> QED BY <3>1, <3>2, Zenon DEF ForName
  <2> QED BY <1>2, <2>1, <2>2, Zenon DEF NameAllowed
<1>3. ASSUME NEW e \in Allow, ForName(e, h) PROVE NameAllowed(h.name)
  <2>1. e.port = 0 /\ IsName(e.host)
    BY <1>3, Zenon DEF ForName
  <2>2. CASE e.prefix = "*."
    <3>1. e.host \in Wildcards
      BY <2>1, <2>2 DEF Wildcards
    <3> QED BY <1>3, <2>1, <2>2, <3>1, Zenon DEF ForName, NameAllowed
  <2>3. CASE e.prefix # "*."
    <3>1. e.prefix = "" /\ e.host = h
      BY <1>3, <2>3, AllowAssumption DEF ForName
    <3>2. e.host \in Exact
      BY <2>1, <3>1 DEF Exact
    <3> QED BY <1>1, <3>1, <3>2, Zenon DEF NameAllowed
  <2> QED BY <2>2, <2>3
<1> QED BY <1>2, <1>3, Zenon

\* The list allows just what its entries are for: no entry opens more than it
\* says, and none that says something opens nothing (NewAllowlist).
THEOREM AllowlistIsWhatItSays ==
    ASSUME NEW h \in Hosts, ~IsBad(h), NEW p \in Nat, ValidPort(p)
    PROVE  AllowedHostPort(h, p) <=> Opened(h, p)
<1>1. 0 < p /\ p <= MaxPort
  BY DEF ValidPort
<1>2. Opened(h, p) <=> \/ \E e \in Allow : ForPair(e, h, p)
                       \/ /\ p \in {80, 443} /\ IsName(h)
                          /\ \E e \in Allow : ForName(e, h)
  BY ZenonT(30) DEF Opened, Opens, ForPair, ForName
<1>3. AllowedHostPort(h, p) <=> \/ ExactHostPort(h, p)
                                \/ p \in {80, 443} /\ IsName(h) /\ NameAllowed(h.name)
  BY <1>1, ZenonT(30) DEF AllowedHostPort, AllowedName
<1>4. CASE IsName(h)
  <2>1. NameAllowed(h.name) <=> \E e \in Allow : ForName(e, h)
    BY <1>4, AllowedIsForName
  <2>2. ExactHostPort(h, p) <=> \E e \in Allow : ForPair(e, h, p)
    BY ExactIsForPair
  <2> QED BY <1>2, <1>3, <1>4, <2>1, <2>2, Zenon
<1>5. CASE ~IsName(h)
  BY <1>2, <1>3, <1>5, ExactIsForPair, Zenon
<1> QED BY <1>4, <1>5

(* What the request has been through.                                      *)
Passed(m, r) == ~AsIs(m, r.host, r.port)
             /\ ~IsPrivate(r.to) /\ \E i \in DOMAIN r.ips : r.to = r.ips[i]

ReqInv ==
    req # Idle =>
      /\ ValidPort(req.port)
      /\ req.stage \in {"lookup", "screen", "connect", "dial", "up"} =>
             Refused(mode, req.host, req.port) = "none"
      /\ req.stage \in {"lookup", "screen"} => ~AsIs(mode, req.host, req.port)
      /\ req.stage = "connect" => Passed(mode, req)
      /\ req.stage = "dial" => AsIs(mode, req.host, req.port)
      /\ req.stage = "up" => AsIs(mode, req.host, req.port) \/ Passed(mode, req)
      /\ req.stage = "denied" /\ req.why \in {"malformed", "unlisted", "doh"} =>
             req.why = Refused(mode, req.host, req.port)

ToldInv == \A h \in told : PermitDNS(mode, h)

\* The mode is the file's, and a proxy that did not start decides nothing.
ModeInv == mode = LoadConfig(file) /\ (mode = "refused" => req = Idle)

PInv == TypeOK /\ ReqInv /\ ToldInv /\ ModeInv

(* The invariant is inductive: one step per action.                        *)
LEMMA Inductive ==
    ASSUME PInv, [Next]_vars
    PROVE  PInv'
<1> USE PolicyAssumption DEF PInv
<1> DEFINE R == [stage : Stages, host : Hosts, port : Ports, ips : Seq(Addrs),
                 to : Addrs \cup {<<>>}, why : Reasons]
<1>0. ASSUME UNCHANGED <<mode, told>>
      PROVE  ToldInv'
  BY <1>0 DEF ToldInv, PermitDNS
<1>1. ASSUME UNCHANGED <<file, mode, zone, told>>, req' \in R, ReqInv',
             mode # "refused"
      PROVE  PInv'
  BY <1>0, <1>1 DEF TypeOK, ModeInv
<1>2. ASSUME UNCHANGED <<file, mode, req>>, zone' \in [Names -> Answers],
             told' \in SUBSET Hosts, ToldInv'
      PROVE  PInv'
  BY <1>2 DEF TypeOK, ReqInv, Passed, ModeInv
<1>3. ASSUME NEW t \in Types, NEW h \in Hosts, ServeDNS(t, h)
      PROVE  PInv'
  <2>1. Reply(mode, t, h) = "proxy" => PermitDNS(mode, h)
    BY DEF Reply
  <2>2. ToldInv'
    BY <1>3, <2>1 DEF ServeDNS, ToldInv, PermitDNS
  <2> QED BY <1>2, <1>3, <2>2 DEF ServeDNS, TypeOK
<1>4. ASSUME NEW h \in Hosts, NEW p \in Ports, Request(h, p)
      PROVE  PInv'
  <2>1. req' = [stage |-> "decide", host |-> h, port |-> p, ips |-> <<>>,
                to |-> <<>>, why |-> "none"]
    BY <1>4 DEF Request
  <2>2. req' \in R /\ req'.stage = "decide" /\ ValidPort(req'.port)
    BY <1>4, <2>1 DEF Stages, Reasons, Request
  <2>3. ReqInv'
    BY <2>2 DEF ReqInv
  <2> QED BY <1>1, <1>4, <2>2, <2>3 DEF Request
<1>5. ASSUME req.stage \in Stages
      PROVE  req \in R /\ req # Idle /\ mode # "refused"
  BY <1>5 DEF TypeOK, Idle, Stages, ModeInv
<1>6. ASSUME NEW why \in Reasons, req.stage \in Stages, Deny(why), mode' = mode,
             why \in {"malformed", "unlisted", "doh"} =>
                 why = Refused(mode, req.host, req.port)
      PROVE  req' \in R /\ ReqInv'
  <2>1. req' = [req EXCEPT !.stage = "denied", !.why = why] /\ req \in R
    BY <1>5, <1>6 DEF Deny
  <2>3. ValidPort(req.port)
    BY <1>5, <1>6 DEF ReqInv
  <2>2. /\ req' \in R /\ req'.stage = "denied" /\ req'.why = why
        /\ req'.host = req.host /\ req'.port = req.port
    BY <2>1 DEF Stages
  <2> QED BY <1>6, <2>2, <2>3 DEF ReqInv
<1>7. CASE Decide
  <2> DEFINE why == Refused(mode, req.host, req.port)
  <2>0. req \in R /\ req.stage = "decide" /\ mode' = mode
        /\ mode # "refused" /\ ValidPort(req.port)
    BY <1>5, <1>7 DEF Decide, Stages, ReqInv
  <2>1. CASE why # "none"
    <3>1. why \in Reasons
      BY DEF Refused, Reasons
    <3>2. Deny(why)
      BY <1>7, <2>1 DEF Decide
    <3>3. req' \in R /\ ReqInv'
      BY <1>6, <2>0, <3>1, <3>2 DEF Stages
    <3> QED BY <1>1, <1>7, <2>0, <3>3 DEF Decide
  <2>2. CASE why = "none"
    <3> DEFINE s == IF AsIs(mode, req.host, req.port) THEN "dial" ELSE "lookup"
    <3>1. req' = [req EXCEPT !.stage = s]
      BY <1>7, <2>2 DEF Decide
    <3>2. /\ req' \in R /\ req'.stage = s
          /\ req'.host = req.host /\ req'.port = req.port
      BY <2>0, <3>1 DEF Stages
    <3>3. ReqInv'
      BY <2>0, <2>2, <3>2 DEF ReqInv
    <3> QED BY <1>1, <1>7, <2>0, <3>2, <3>3 DEF Decide
  <2> QED BY <2>1, <2>2
<1>8. CASE Lookup
  <2> DEFINE ips == IF IsIP(req.host) THEN <<req.host.ip>> ELSE zone[req.host.name]
  <2>0. req \in R /\ req.stage = "lookup" /\ req # Idle /\ mode' = mode
        /\ mode # "refused" /\ ValidPort(req.port)
    BY <1>5, <1>8 DEF Lookup, Stages, ReqInv
  <2>1. ips \in Seq(Addrs)
    <3>1. Refused(mode, req.host, req.port) = "none"
      BY <2>0 DEF ReqInv
    <3>2. ~IsBad(req.host)
      BY <3>1 DEF Refused
    <3> QED BY <2>0, <3>2, KindsDiffer DEF TypeOK
  <2>2. CASE ips = <<>>
    <3>1. Deny("resolve")
      BY <1>8, <2>2 DEF Lookup
    <3>2. req' \in R /\ ReqInv'
      BY <1>6, <2>0, <3>1 DEF Stages, Reasons
    <3> QED BY <1>1, <1>8, <2>0, <3>2 DEF Lookup
  <2>3. CASE ips # <<>>
    <3>1. req' = [req EXCEPT !.stage = "screen", !.ips = ips]
      BY <1>8, <2>3 DEF Lookup
    <3> HIDE DEF ips
    <3>2. /\ req' \in R /\ req'.stage = "screen"
          /\ req'.host = req.host /\ req'.port = req.port
      BY <2>0, <2>1, <3>1 DEF Stages
    <3>3. ReqInv'
      BY <2>0, <3>2 DEF ReqInv
    <3> QED BY <1>1, <1>8, <2>0, <3>2, <3>3 DEF Lookup
  <2> QED BY <2>2, <2>3
<1>9. CASE Screen
  <2>0. req \in R /\ req.stage = "screen" /\ req # Idle /\ mode' = mode
        /\ mode # "refused" /\ ValidPort(req.port)
    BY <1>5, <1>9 DEF Screen, Stages, ReqInv
  <2>1. CASE Public(req.ips) = {}
    <3>1. Deny("private")
      BY <1>9, <2>1 DEF Screen
    <3>2. req' \in R /\ ReqInv'
      BY <1>6, <2>0, <3>1 DEF Stages, Reasons
    <3> QED BY <1>1, <1>9, <2>0, <3>2 DEF Screen
  <2>2. CASE Public(req.ips) # {}
    <3>1. req' = [req EXCEPT !.stage = "connect", !.to = Chosen(req.ips)]
      BY <1>9, <2>2 DEF Screen
    <3>2. /\ ~IsPrivate(Chosen(req.ips)) /\ Chosen(req.ips) \in Addrs
          /\ \E i \in DOMAIN req.ips : Chosen(req.ips) = req.ips[i]
      BY <2>0, <2>2, ChosenIsPublic
    <3>3. /\ req' \in R /\ req'.stage = "connect" /\ req'.to = Chosen(req.ips)
          /\ req'.host = req.host /\ req'.port = req.port /\ req'.ips = req.ips
      BY <2>0, <3>1, <3>2 DEF Stages
    <3>4. ReqInv'
      BY <2>0, <3>2, <3>3 DEF ReqInv, Passed
    <3> QED BY <1>1, <1>9, <2>0, <3>3, <3>4 DEF Screen
  <2> QED BY <2>1, <2>2
<1>10. CASE Connect
  <2>0. req \in R /\ req.stage = "connect" /\ req # Idle /\ mode' = mode
        /\ mode # "refused" /\ ValidPort(req.port)
    BY <1>5, <1>10 DEF Connect, Stages, ReqInv
  <2>1. req' = [req EXCEPT !.stage = "up"]
    BY <1>10 DEF Connect
  <2>2. /\ req' \in R /\ req'.stage = "up" /\ req'.to = req.to
        /\ req'.host = req.host /\ req'.port = req.port /\ req'.ips = req.ips
    BY <2>0, <2>1 DEF Stages
  <2>3. ReqInv'
    BY <2>0, <2>2 DEF ReqInv, Passed
  <2> QED BY <1>1, <1>10, <2>0, <2>2, <2>3 DEF Connect
<1>11. CASE DialAsIs
  <2> DEFINE ips == IF IsIP(req.host) THEN <<req.host.ip>> ELSE zone[req.host.name]
  <2>0. req \in R /\ req.stage = "dial" /\ req # Idle /\ mode' = mode
        /\ mode # "refused" /\ ValidPort(req.port)
    BY <1>5, <1>11 DEF DialAsIs, Stages, ReqInv
  <2>1. ips \in Seq(Addrs)
    <3>1. ~IsBad(req.host)
      BY <2>0 DEF ReqInv, Refused
    <3> QED BY <2>0, <3>1, KindsDiffer DEF TypeOK
  <2>2. CASE Deny("dial")
    <3>1. req' \in R /\ ReqInv'
      BY <1>6, <2>0, <2>2 DEF Stages, Reasons
    <3> QED BY <1>1, <1>11, <2>0, <3>1 DEF DialAsIs
  <2>3. ASSUME NEW i \in DOMAIN ips,
               req' = [req EXCEPT !.stage = "up", !.to = ips[i]]
        PROVE  PInv'
    <3>1. ips[i] \in Addrs
      BY <2>1, <2>3
    <3> HIDE DEF ips
    <3>2. /\ req' \in R /\ req'.stage = "up"
          /\ req'.host = req.host /\ req'.port = req.port
      BY <2>0, <2>3, <3>1 DEF Stages
    <3>3. ReqInv'
      BY <2>0, <3>2 DEF ReqInv
    <3> QED BY <1>1, <1>11, <2>0, <3>2, <3>3 DEF DialAsIs
  <2> QED BY <1>11, <2>2, <2>3 DEF DialAsIs
<1>12. CASE DialFails
  <2>0. mode # "refused" /\ ValidPort(req.port)
    BY <1>5, <1>12 DEF DialFails, Stages, ReqInv
  <2>1. req' \in R /\ ReqInv'
    BY <1>6, <1>12, <2>0 DEF DialFails, Stages, Reasons
  <2> QED BY <1>1, <1>12, <2>0, <2>1 DEF DialFails
<1>13. CASE Over
  BY <1>0, <1>13 DEF Over, TypeOK, ReqInv, ModeInv
<1>14. ASSUME NEW n \in Names, NEW a \in Answers, Rebind(n, a)
       PROVE  PInv'
  BY <1>0, <1>2, <1>14 DEF Rebind, TypeOK
<1>15. CASE UNCHANGED vars
  BY <1>0, <1>2, <1>15 DEF vars, TypeOK
<1> QED BY <1>3, <1>4, <1>7, <1>8, <1>9, <1>10, <1>11, <1>12, <1>13, <1>14,
           <1>15 DEF Next

LEMMA PolicyInvariance == Spec => []PInv
<1>1. Init => PInv
  BY DEF Init, PInv, TypeOK, ReqInv, ToldInv, ModeInv, Idle, LoadConfig
<1> QED BY <1>1, Inductive, PTL DEF Spec

LEMMA PortIsNat ==
    ASSUME TypeOK, req # Idle PROVE req.port \in Nat
<1>1. req.port \in Ports
  BY DEF TypeOK
<1> QED BY <1>1, PolicyAssumption

(* The types, for every allowlist and resolver.                            *)
THEOREM TypeCorrect == Spec => []TypeOK
BY PolicyInvariance, PTL DEF PInv

(* No connection ends in a local network without an entry of the list that *)
(* names it, whatever a resolver answers and whenever it changes its mind  *)
(* (Policy.Egress).                                                        *)
THEOREM LanNeedsException == Spec => []LanOnlyByException
<1>1. PInv => LanOnlyByException
  <2> SUFFICES ASSUME PInv, Up, Lan(req.to)
               PROVE  \E e \in Allow :
                          /\ Opens(e, req.host, req.port)
                          /\ mode = "strict" => e.host = req.host /\ e.port = req.port
    BY DEF LanOnlyByException
  <2>1. req # Idle /\ req.host \in Hosts
    BY DEF PInv, TypeOK, Up, Idle, Stages
  <2>a. mode # "refused" /\ ValidPort(req.port)
    BY <2>1 DEF PInv, ModeInv, ReqInv
  <2>b. req.port \in Nat
    BY <2>1, PortIsNat DEF PInv
  <2>2. /\ Refused(mode, req.host, req.port) = "none"
        /\ AsIs(mode, req.host, req.port) \/ Passed(mode, req)
    BY <2>1 DEF PInv, ReqInv, Up
  <2>3. CASE AsIs(mode, req.host, req.port)
    <3>0. ~IsBad(req.host)
      BY <2>2 DEF Refused
    <3>1. CASE mode = "permissive"
      <4>1. AllowedHostPort(req.host, req.port)
        BY <2>3, <3>1 DEF AsIs
      <4>2. Opened(req.host, req.port)
        BY <2>1, <2>a, <2>b, <3>0, <4>1, AllowlistIsWhatItSays
      <4> QED BY <3>1, <4>2 DEF Opened
    <3>2. CASE mode = "strict"
      <4>1. AllowedHostPort(req.host, req.port)
        BY <2>2, <3>2 DEF Refused
      <4>2. IsIP(req.host) => ~AllowedName(req.host)
        BY <2>1, KindsDiffer DEF AllowedName
      <4>3. IsIP(req.host) \/ ExactHostPort(req.host, req.port)
        BY <2>3, <3>2 DEF AsIs
      <4>4. ExactHostPort(req.host, req.port)
        BY <4>1, <4>2, <4>3 DEF AllowedHostPort
      <4>5. PICK e \in Allow : ForPair(e, req.host, req.port)
        BY <2>1, <2>a, <2>b, <3>0, <4>4, ExactIsForPair
      <4> QED BY <4>5, Zenon DEF ForPair, Opens
    <3> QED BY <2>a, <3>1, <3>2 DEF PInv, TypeOK
  <2>4. CASE Passed(mode, req)
    <3>1. PICK i \in DOMAIN req.ips : req.to = req.ips[i]
      BY <2>4 DEF Passed
    <3>2. req.ips \in Seq(Addrs)
      BY <2>1 DEF PInv, TypeOK
    <3>3. req.to \in Octets \X Octets
      BY <3>1, <3>2, PolicyAssumption
    <3> QED BY <2>4, <3>3, PrivateCoversLan DEF Passed
  <2> QED BY <2>2, <2>3, <2>4
<1> QED BY <1>1, PolicyInvariance, PTL

(* What is dialled after a lookup is an address of that lookup which       *)
(* passed the screen (Policy.Egress).                                      *)
THEOREM DialIsScreened == Spec => []DialledWasScreened
<1>1. PInv => DialledWasScreened
  <2> SUFFICES ASSUME PInv, req.stage \in {"connect", "up"}
               PROVE  ~AsIs(mode, req.host, req.port) => Passed(mode, req)
    BY DEF DialledWasScreened, Passed
  <2> QED BY DEF PInv, ReqInv, Idle
<1> QED BY <1>1, PolicyInvariance, PTL

(* Only a file that says permissive lets through what no entry is for, and *)
(* then no listed resolver.                                                *)
THEOREM UnlistedDenied == Spec => []UnlistedIsDenied
<1>1. PInv => UnlistedIsDenied
  <2> SUFFICES ASSUME PInv, Up, ~Opened(req.host, req.port)
               PROVE  /\ file.mode = "permissive"
                      /\ IsName(req.host) => ~IsDoH(req.host.name)
    BY DEF UnlistedIsDenied
  <2>a. req # Idle /\ req.host \in Hosts
    BY DEF PInv, TypeOK, Up, Idle, Stages
  <2>b. req.port \in Nat /\ ValidPort(req.port)
    BY <2>a, PortIsNat DEF PInv, ReqInv
  <2>c. Refused(mode, req.host, req.port) = "none" /\ mode # "refused"
    BY <2>a DEF PInv, ReqInv, ModeInv, Up
  <2>1. /\ Refused(mode, req.host, req.port) = "none" /\ mode # "refused"
        /\ req.host \in Hosts /\ req.port \in Nat /\ ValidPort(req.port)
    BY <2>a, <2>b, <2>c
  <2>2. ~IsBad(req.host)
    BY <2>1 DEF Refused
  <2>3. ~AllowedHostPort(req.host, req.port)
    BY <2>1, <2>2, AllowlistIsWhatItSays
  <2>4. mode = "permissive"
    BY <2>1, <2>3 DEF Refused, PInv, TypeOK
  <2>5. file.mode = "permissive"
    BY <2>4 DEF PInv, ModeInv, LoadConfig
  <2> QED BY <2>1, <2>3, <2>4, <2>5 DEF Refused
<1> QED BY <1>1, PolicyInvariance, PTL

(* What an entry is for is not turned away for want of one.                *)
THEOREM ListedServed == Spec => []ListedIsServed
<1>1. PInv => ListedIsServed
  <2> SUFFICES ASSUME PInv, req.stage = "denied", ~IsBad(req.host),
                      Opened(req.host, req.port),
                      req.why \in {"malformed", "unlisted", "doh"}
               PROVE  FALSE
    BY DEF ListedIsServed
  <2>a. req # Idle /\ req.host \in Hosts
    BY DEF PInv, TypeOK, Idle, Stages
  <2>b. req.port \in Nat /\ ValidPort(req.port)
    BY <2>a, PortIsNat DEF PInv, ReqInv
  <2>1. req.why = Refused(mode, req.host, req.port)
    BY <2>a DEF PInv, ReqInv
  <2>2. AllowedHostPort(req.host, req.port)
    BY <2>a, <2>b, AllowlistIsWhatItSays
  <2> QED BY <2>1, <2>2 DEF Refused
<1> QED BY <1>1, PolicyInvariance, PTL

(* The responder leads nobody to the proxy whom Egress calls unlisted or   *)
(* malformed there (PermitDNS and Egress).                                 *)
THEOREM ToldIsServed == Spec => []ToldIsListed
<1>1. PInv => ToldIsListed
  <2> SUFFICES ASSUME PInv, req.stage = "denied", req.host \in told,
                      req.port \in {80, 443},
                      req.why \in {"malformed", "unlisted"}
               PROVE  FALSE
    BY DEF ToldIsListed
  <2>1. req.why = Refused(mode, req.host, req.port) /\ PermitDNS(mode, req.host)
    BY DEF PInv, ReqInv, ToldInv, Idle
  <2>2. req.host \in Hosts
    BY DEF PInv, TypeOK
  <2>3. IsName(req.host) /\ ~IsBad(req.host)
    BY <2>1, <2>2, KindsDiffer DEF PermitDNS, AllowedName
  <2>4. mode = "strict" => AllowedHostPort(req.host, req.port)
    <3>1. mode = "strict" => AllowedName(req.host)
      BY <2>1 DEF PermitDNS
    <3>2. 0 < req.port /\ req.port <= MaxPort
      BY DEF MaxPort
    <3> QED BY <2>3, <3>1, <3>2 DEF AllowedHostPort
  <2> QED BY <2>1, <2>3, <2>4 DEF Refused, PInv, TypeOK
<1> QED BY <1>1, PolicyInvariance, PTL
=============================================================================
