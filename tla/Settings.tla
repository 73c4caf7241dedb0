------------------------------ MODULE Settings ------------------------------
(***************************************************************************)
(* Settings::parse (src/src/settings.rs): the options a server pushes, one *)
(* per line, become the addresses, the resolvers and the MTU of the        *)
(* tunnel, or the whole list is refused.                                   *)
(*                                                                         *)
(* A line is a record: what names it and the value it carries.  Its text   *)
(* is left out; a line whose value cannot be read is `garbled`.            *)
(***************************************************************************)
EXTENDS Naturals, SequencesExt

Families == {4, 6}
Kinds == {"host", "unspecified", "multicast"}
Addresses == [family : Families, kind : Kinds, id : Nat]

\* Option<Ipv4Addr> and Option<Ipv6Addr> are sets of at most one address.
Settings == [ok : {TRUE}, ipv4 : SUBSET Addresses, ipv6 : SUBSET Addresses,
             dns : Seq(Addresses), mtu : Nat]
Refused == [ok |-> FALSE]

\* A line that says nothing of the tunnel is `other`.
Lines == [name : {"ifconfig", "ifconfig-ipv6"}, address : Addresses]
    \cup [name : {"dns"}, addresses : Seq(Addresses)]
    \cup [name : {"tun-mtu"}, value : Nat]
    \cup [name : {"other", "garbled"}]

\* `dns server N address A...` and `dhcp-option DNS A` carry any addresses.
Unreadable(line) ==
    \/ line.name = "garbled"
    \/ line.name = "ifconfig" /\ line.address.family # 4
    \/ line.name = "ifconfig-ipv6" /\ line.address.family # 6

\* Plausible bug: a pushed MTU replaces the configured one even if it is larger.
ApplyLineRaising(found, line) ==
    CASE line.name = "ifconfig" -> [found EXCEPT !.ipv4 = {line.address}]
      [] line.name = "ifconfig-ipv6" -> [found EXCEPT !.ipv6 = {line.address}]
      [] line.name = "dns" -> [found EXCEPT !.dns = @ \o line.addresses]
      [] line.name = "tun-mtu" -> [found EXCEPT !.mtu = line.value]
      [] OTHER -> found

ApplyLine(found, line) ==
    CASE line.name = "ifconfig" -> [found EXCEPT !.ipv4 = {line.address}]
      [] line.name = "ifconfig-ipv6" -> [found EXCEPT !.ipv6 = {line.address}]
      [] line.name = "dns" -> [found EXCEPT !.dns = @ \o line.addresses]
      [] line.name = "tun-mtu" -> [found EXCEPT !.mtu = Min({@, line.value})]
      [] OTHER -> found

Nothing(configured) ==
    [ok |-> TRUE, ipv4 |-> {}, ipv6 |-> {}, dns |-> <<>>, mtu |-> configured]

ReadLines(options, configured) == FoldLeft(ApplyLine, Nothing(configured), options)

\* The addresses --dns names stand in for those the server pushed.
Resolvers(found, dns_override) ==
    IF dns_override = <<>> THEN found.dns ELSE dns_override

\* Plausible bug: the smallest MTU of IPv6 is not asked for.
AcceptableShort(found) ==
    /\ found.ipv4 \cup found.ipv6 # {}
    /\ found.mtu \in 576 .. 9000
    /\ \A a \in found.ipv4 \cup found.ipv6 \cup ToSet(found.dns) : a.kind = "host"

Acceptable(found) ==
    /\ found.ipv4 \cup found.ipv6 # {}
    /\ found.mtu \in 576 .. 9000
    /\ found.ipv6 # {} => found.mtu >= 1280
    /\ \A a \in found.ipv4 \cup found.ipv6 \cup ToSet(found.dns) : a.kind = "host"

SupportsFamily(found, address) ==
    IF address.family = 4 THEN found.ipv4 # {} ELSE found.ipv6 # {}

\* What is left of s if only the elements at these positions stay.
KeepAt(s, positions) ==
    FoldLeftDomain(LAMBDA kept, i : IF i \in positions THEN Append(kept, s[i]) ELSE kept,
                   <<>>, s)

Reachable(found) ==
    KeepAt(found.dns, { i \in DOMAIN found.dns : SupportsFamily(found, found.dns[i]) })

\* Vec::dedup: of equal neighbours the first stays.
Dedup(s) == KeepAt(s, { i \in DOMAIN s : i = 1 \/ s[i] # s[i - 1] })

Parse(options, configured, dns_override) ==
    IF \E i \in DOMAIN options : Unreadable(options[i]) THEN Refused
    ELSE LET read == ReadLines(options, configured)
             all == [read EXCEPT !.dns = Resolvers(read, dns_override)]
         IN IF Acceptable(all) THEN [all EXCEPT !.dns = Dedup(Reachable(all))] ELSE Refused

-----------------------------------------------------------------------------
(* What parse promises, without its order of work. *)

\* The engine can be built and every resolver be reached: an address is assigned,
\* the MTU is one smoltcp and IPv6 allow, resolvers are of an assigned family.
Usable(found) ==
    /\ found \in Settings
    /\ found.ipv4 \cup found.ipv6 # {}
    /\ found.mtu \in (IF found.ipv6 = {} THEN 576 ELSE 1280) .. 9000
    /\ \A a \in found.ipv4 \cup found.ipv6 \cup ToSet(found.dns) :
         a.kind = "host" /\ SupportsFamily(found, a)
    /\ \A i \in 2 .. Len(found.dns) : found.dns[i - 1] # found.dns[i]

LinesOf(options, name) == { options[i] : i \in { j \in DOMAIN options : options[j].name = name } }

\* The address the last line of that name carries, if there is one.
LastAddress(options, name) ==
    { options[i].address : i \in { j \in DOMAIN options :
        /\ options[j].name = name
        /\ \A k \in j + 1 .. Len(options) : options[k].name # name } }

\* What the list asks for, as sets.
Asked(options, configured, dns_override) ==
    [ipv4 |-> LastAddress(options, "ifconfig"),
     ipv6 |-> LastAddress(options, "ifconfig-ipv6"),
     dns |-> IF dns_override # <<>> THEN ToSet(dns_override)
             ELSE UNION { ToSet(line.addresses) : line \in LinesOf(options, "dns") },
     mtu |-> Min({configured} \cup { line.value : line \in LinesOf(options, "tun-mtu") })]

MayBeUsed(asked) ==
    /\ asked.ipv4 \cup asked.ipv6 # {}
    /\ asked.mtu \in (IF asked.ipv6 = {} THEN 576 ELSE 1280) .. 9000
    /\ \A a \in asked.ipv4 \cup asked.ipv6 \cup asked.dns : a.kind = "host"

\* Parsing succeeds exactly for a readable list that asks for usable settings, and
\* then gives what was asked for, without the resolvers that cannot be reached.
AsAsked(parsed, options, configured, dns_override) ==
    LET asked == Asked(options, configured, dns_override)
        readable == \A i \in DOMAIN options : ~Unreadable(options[i])
    IN  /\ parsed.ok <=> readable /\ MayBeUsed(asked)
        /\ parsed.ok =>
             /\ parsed.ipv4 = asked.ipv4 /\ parsed.ipv6 = asked.ipv6
             /\ parsed.mtu = asked.mtu
             /\ ToSet(parsed.dns) = { a \in asked.dns : SupportsFamily(asked, a) }

ParsedRight(options, configured, dns_override) ==
    LET parsed == Parse(options, configured, dns_override)
    IN  /\ AsAsked(parsed, options, configured, dns_override)
        /\ parsed.ok => Usable(parsed)
=============================================================================
