------------------------------ MODULE Resources ------------------------------
(***************************************************************************)
(* What the gateway publishes, and what the client makes of it: the parts  *)
(* of authenticate (src/auth.go) that read rclist.csp, src/resource.go,    *)
(* buildTunnelConfiguration (src/tunnel_config.go), the outbound filter    *)
(* (src/resource_filter.go) and the choice of the probe's destination      *)
(* (src/data_channel_keepalive.go).                                        *)
(*                                                                         *)
(* The gateway composes its documents element by element; the client then  *)
(* reads them once, and connects.  Domains are numbered in their sorting   *)
(* order and may be spelt otherwise than canonicalResourceDomain spells    *)
(* them; port 0 stands for a datagram that has no port.                    *)
(***************************************************************************)
EXTENDS AddressRange, Sequences, SequencesExt, FiniteSets

CONSTANTS Ids,                 \* resource identifiers
          HostTexts,           \* what a host attribute may name, and a port attribute
          PortTexts,
          RecordTexts,         \* what an entry of <Dns data=...> may say
          ServerTexts,         \* addresses a name server may have
          MaxPort,
          Destinations,        \* values of DataChannelKeepAliveDestination, None: unset
          MaxRcs, MaxHosts, MaxRecords, MaxServers   \* bounds on the documents

(* A host attribute names a range of IPv4 addresses, an address, a domain  *)
(* or nothing that can be read; the client reads no empty domain.          *)
AllHosts == [kind : {"range"}, from : Addresses4, to : Addresses4]
                \cup [kind : {"address"}, address : Addresses]
                \cup [kind : {"domain"}, domain : [name : Nat \ {0}, canonical : BOOLEAN]]
                \cup [kind : {"junk"}]

ASSUME ResourcesAssumption ==
    /\ HostTexts \subseteq AllHosts
    /\ PortTexts \subseteq [start : Nat, end : Nat]
    /\ RecordTexts \subseteq [id : Ids, domain : Nat \ {0}, address : Addresses]
    /\ ServerTexts \subseteq Addresses
    /\ MaxPort \in Nat \ {0}

VARIABLES phase,
          rcs, records, servers,   \* rclist.csp: <Rc>, <Dns data>, <Dns dnsserver>
          confDNS,                 \* conf.csp: iptunDns and iptunDnsBak
          listing,                 \* rclist.csp was read, refused, or not asked for
          resources, hosts, dns,   \* webSession
          routes, probe,           \* tunnelSession
          filtering, filter        \* its filter, unless ResourceFilterDisabled

document == <<rcs, records, servers, confDNS>>
web      == <<listing, resources, hosts, dns>>
tunnel   == <<routes, probe, filtering, filter>>
vars     == <<phase, document, web, tunnel>>

None     == -1
NoDomain == [name |-> 0, canonical |-> TRUE]

Init ==
    /\ phase = "composing"
    /\ rcs = <<>> /\ records = <<>> /\ servers = <<>> /\ confDNS = <<>>
    /\ listing = "none" /\ resources = <<>> /\ hosts = {} /\ dns = <<>>
    /\ routes = <<>> /\ probe = None /\ filtering = FALSE /\ filter = {}

wholePortRange == [start |-> 1, end |-> MaxPort]

(* The elements of s that Keep holds of, in their order. *)
Where(s, Keep(_)) == FlattenSeq([i \in DOMAIN s |-> IF Keep(s[i]) THEN <<s[i]>> ELSE <<>>])

(* The elements of S sorted, where upTo[x] are those that come up to x.    *)
Sorted(S, upTo) == [n \in 1..Cardinality(S) |-> CHOOSE x \in S : Cardinality(upTo[x]) = n]
-----------------------------------------------------------------------------
(* Plausible slips in these files; no action uses them. *)
NamedAsSpelt(record, entry) == entry.domain = [name |-> record.domain, canonical |-> TRUE]
WiderLast(p, q) == p.addr < q.addr \/ (p.addr = q.addr /\ p.bits > q.bits)
ProbesNameServers(serverList, hostTable, list) == serverList
-----------------------------------------------------------------------------
(* The gateway: *)
HostCount == FoldLeft(LAMBDA n, rc : n + Len(rc.hosts), 0, rcs)

AddRc(id) ==
    /\ Len(rcs) < MaxRcs /\ \A i \in DOMAIN rcs : rcs[i].id # id
    /\ rcs' = Append(rcs, [id |-> id, hosts |-> <<>>, ports |-> <<>>])
    /\ UNCHANGED <<records, servers, confDNS>>

AddHost(host) ==
    /\ rcs # <<>> /\ HostCount < MaxHosts
    /\ rcs' = [rcs EXCEPT ![Len(rcs)].hosts = Append(@, host)]
    /\ UNCHANGED <<records, servers, confDNS>>

AddPort(port) ==
    /\ rcs # <<>> /\ Len(rcs[Len(rcs)].ports) < Len(rcs[Len(rcs)].hosts)
    /\ rcs' = [rcs EXCEPT ![Len(rcs)].ports = Append(@, port)]
    /\ UNCHANGED <<records, servers, confDNS>>

AddRecord(record) ==
    /\ Len(records) < MaxRecords
    /\ records' = Append(records, record)
    /\ UNCHANGED <<rcs, servers, confDNS>>

AddServer(address) ==
    /\ Len(servers) + Len(confDNS) < MaxServers
    /\ servers' = Append(servers, address)
    /\ UNCHANGED <<rcs, records, confDNS>>

AddConfDNS(address) ==
    /\ Len(servers) + Len(confDNS) < MaxServers
    /\ confDNS' = Append(confDNS, address)
    /\ UNCHANGED <<rcs, records, servers>>

Compose ==
    /\ phase = "composing"
    /\ \/ \E id \in Ids : AddRc(id)
       \/ \E host \in HostTexts : AddHost(host)
       \/ \E port \in PortTexts : AddPort(port)
       \/ \E record \in RecordTexts : AddRecord(record)
       \/ \E address \in ServerTexts : AddServer(address) \/ AddConfDNS(address)
    /\ UNCHANGED <<phase, web, tunnel>>
-----------------------------------------------------------------------------
(* authenticate: *)
parsePortRange(rc, i) ==
    IF i > Len(rc.ports) \/ rc.ports[i].start = 0 \/ rc.ports[i].end < rc.ports[i].start
    THEN wholePortRange
    ELSE rc.ports[i]

parseResourceHost(host) ==
    CASE host.kind = "range"   -> [domain   |-> NoDomain,
                                   prefixes |-> addressRangePrefixes(host.from, host.to)]
      [] host.kind = "address" -> [domain |-> NoDomain, prefixes |-> <<Single(host.address)>>]
      [] host.kind = "domain"  -> [domain |-> host.domain, prefixes |-> <<>>]
      [] host.kind = "junk"    -> [domain |-> NoDomain, prefixes |-> <<>>]

ParseEntries(rc) ==
    LET entry(i) == LET parsed == parseResourceHost(rc.hosts[i]) IN
                    [domain |-> parsed.domain, prefixes |-> parsed.prefixes,
                     ports |-> parsePortRange(rc, i)]
    IN Where([i \in DOMAIN rc.hosts |-> entry(i)],
             LAMBDA e : e.domain # NoDomain \/ e.prefixes # <<>>)

parseResourceList(rcList) ==
    Where([i \in DOMAIN rcList |-> [id |-> rcList[i].id, entries |-> ParseEntries(rcList[i])]],
          LAMBDA r : r.entries # <<>>)

(* parseDNSHostRecord keeps what names an IPv4 address. *)
parseDNSHostRecords(recordList) ==
    Where(recordList, LAMBDA r : r.address \in Addresses4 \ {Unspecified})

Specified(addresses) == Where(addresses, LAMBDA a : a # Unspecified)

(* What of src is specified and has not been seen, in dst or before. *)
mergeAddresses(dst, src) ==
    LET seen(i) == Range(dst) \cup {src[j] : j \in 1..(i - 1)}
    IN dst \o FlattenSeq([i \in DOMAIN src |->
           IF src[i] = Unspecified \/ src[i] \in seen(i) THEN <<>> ELSE <<src[i]>>])

collectDNSHosts(list) == {[domain |-> r.domain, address |-> r.address] : r \in Range(list)}

HostEntry(record) ==
    [domain   |-> [name |-> record.domain, canonical |-> TRUE],
     prefixes |-> <<Single(record.address)>>,
     ports    |-> wholePortRange]

(* canonicalResourceDomain(entry.Domain) == record.domain *)
NamedBy(record, entry) == entry.domain.name = record.domain

WithAddress(record, entry) ==
    IF Single(record.address) \in Range(entry.prefixes) THEN entry
    ELSE [entry EXCEPT !.prefixes = Append(@, Single(record.address))]

(* One record of applyDNSHosts: it joins the last resource of its number.  *)
ApplyRecord(list, record) ==
    LET same == {i \in DOMAIN list : list[i].id = record.id} IN
    IF same = {} THEN Append(list, [id |-> record.id, entries |-> <<HostEntry(record)>>])
    ELSE LET index   == Max(same)
             entries == list[index].entries
             named   == {j \in DOMAIN entries : NamedBy(record, entries[j])}
         IN [list EXCEPT ![index].entries =
                IF named = {} THEN Append(entries, HostEntry(record))
                ELSE [j \in DOMAIN entries |->
                         IF j \in named THEN WithAddress(record, entries[j]) ELSE entries[j]]]

(* The list after the first n records. *)
ApplyRecords(list, recordList) ==
    LET applied[n \in 0..Len(recordList)] ==
            IF n = 0 THEN list ELSE ApplyRecord(applied[n - 1], recordList[n])
    IN applied

applyDNSHosts(list, recordList) == ApplyRecords(list, recordList)[Len(recordList)]

AuthenticateReadsList ==
    /\ phase = "composing" /\ phase' = "authenticated"
    /\ listing' = "read"
    /\ resources' = applyDNSHosts(parseResourceList(rcs), parseDNSHostRecords(records))
    /\ hosts' = collectDNSHosts(parseDNSHostRecords(records))
    /\ dns' = mergeAddresses(Specified(confDNS), mergeAddresses(<<>>, servers))
    /\ UNCHANGED <<document, tunnel>>

(* The request for rclist.csp fails, or ResourceRoutesDisabled spares it. *)
AuthenticateWithoutList(reason) ==
    /\ phase = "composing" /\ phase' = "authenticated"
    /\ listing' = reason
    /\ dns' = Specified(confDNS)
    /\ UNCHANGED <<document, resources, hosts, tunnel>>
-----------------------------------------------------------------------------
(* connectTunnel: *)
ResourcePrefixes(list) ==
    FlattenSeq([i \in DOMAIN list |->
        FlattenSeq([j \in DOMAIN list[i].entries |-> list[i].entries[j].prefixes])])

(* Hosts come sorted by domain, and their addresses sorted. *)
HostAddresses(table) ==
    LET upTo(h) == {k \in table : \/ k.domain < h.domain
                                  \/ k.domain = h.domain /\ k.address <= h.address}
        sorted  == Sorted(table, [h \in table |-> upTo(h)])
    IN [i \in DOMAIN sorted |-> sorted[i].address]

Singles(addresses) == [i \in DOMAIN addresses |-> Single(addresses[i])]

ServerRoutes(addresses) == Singles(addresses)

Before(p, q) == p.addr < q.addr \/ (p.addr = q.addr /\ p.bits < q.bits)

AddPrefix(merged, p) ==
    IF merged # <<>> /\ Overlaps(Last(merged), p) /\ Last(merged).bits <= p.bits
    THEN merged
    ELSE Append(merged, Masked(p))

(* The places of prefixes in their sorting order; equal prefixes keep theirs. *)
SortedPlaces(prefixes) ==
    LET upTo(i) == {j \in DOMAIN prefixes : \/ Before(prefixes[j], prefixes[i])
                                            \/ prefixes[j] = prefixes[i] /\ j <= i}
    IN Sorted(DOMAIN prefixes, [i \in DOMAIN prefixes |-> upTo(i)])

(* The loop of mergePrefixes over the sorted prefixes, after n of them. *)
MergeSorted(prefixes, places) ==
    LET merged[n \in 0..Len(prefixes)] ==
            IF n = 0 THEN <<>> ELSE AddPrefix(merged[n - 1], prefixes[places[n]])
    IN merged

mergePrefixes(prefixes) == MergeSorted(prefixes, SortedPlaces(prefixes))[Len(prefixes)]

(* The routes of buildTunnelConfiguration; its search domains and the      *)
(* copies it takes are left out.                                           *)
Routes == mergePrefixes(ResourcePrefixes(resources) \o Singles(HostAddresses(hosts))
                            \o ServerRoutes(dns))

EntryRules(entry) == {[prefix |-> p, ports |-> entry.ports] : p \in Range(entry.prefixes)}

newResourceFilter ==
    (UNION {EntryRules(e) : e \in UNION {Range(r.entries) : r \in Range(resources)}})
        \cup {[prefix |-> Single(a), ports |-> wholePortRange] : a \in Range(dns)}

(* datagramDestination reads IPv4 only; port 0 is checked against none. *)
permits(rules, address, port) ==
    /\ address \in Addresses4
    /\ \E rule \in rules :
           /\ address \in Block(rule.prefix)
           /\ port = 0 \/ port \in rule.ports.start..rule.ports.end

reaches(address, filtered) ==
    /\ address \in Addresses4 \ {Unspecified}
    /\ filtered => permits(newResourceFilter, address, 0)

pickProbeDestinations(serverList, hostTable, list) ==
    LET single == Where(ResourcePrefixes(list), IsSingleIP)
    IN serverList \o HostAddresses(hostTable) \o [i \in DOMAIN single |-> single[i].addr]

ProbeDestination(filtered) ==
    LET reached == Where(pickProbeDestinations(dns, hosts, resources),
                         LAMBDA a : reaches(a, filtered))
    IN IF reached = <<>> THEN None ELSE Head(reached)

(* A probe destination that was configured must be reached; another one is *)
(* looked for, and done without.                                           *)
ConnectTunnel(configured, filtered) ==
    /\ phase = "authenticated"
    /\ routes' = Routes
    /\ filtering' = filtered
    /\ filter' = IF filtered THEN newResourceFilter ELSE {}
    /\ probe' = IF configured = None THEN ProbeDestination(filtered)
                ELSE IF reaches(configured, filtered) THEN configured ELSE None
    /\ phase' = IF configured # None /\ probe' = None THEN "failed" ELSE "connected"
    /\ UNCHANGED <<document, web>>

Next ==
    \/ Compose
    \/ AuthenticateReadsList
    \/ \E reason \in {"refused", "disabled"} : AuthenticateWithoutList(reason)
    \/ \E configured \in Destinations, filtered \in BOOLEAN : ConnectTunnel(configured, filtered)

Spec == Init /\ [][Next]_vars
-----------------------------------------------------------------------------
Filtering == phase = "connected" /\ filtering

(* No port, and no port text that can be read, allows every port. *)
Allows(rc, i, port) ==
    \/ port = 0 \/ i \notin DOMAIN rc.ports
    \/ LET text == rc.ports[i] IN
           port \in text.start..text.end \/ text.start = 0 \/ text.start > text.end

Covers(host, address) ==
    \/ host.kind = "address" /\ host.address = address
    \/ host.kind = "range" /\ address \in host.from..host.to

(* A record is about a domain that its resource names by itself. *)
Names(i, j, record) ==
    /\ rcs[i].id = record.id /\ rcs[i].hosts[j].kind = "domain"
    /\ rcs[i].hosts[j].domain.name = record.domain

(* The documents allow a datagram: a host attribute covers its address and *)
(* the port of that host its port; or a record gives the address to a      *)
(* domain, and the resource of the record allows the port for that domain, *)
(* or does not name it; or the address is a name server's.                 *)
Published(address, port) ==
    \/ \E i \in DOMAIN rcs : \E j \in DOMAIN rcs[i].hosts :
           Covers(rcs[i].hosts[j], address) /\ Allows(rcs[i], j, port)
    \/ \E r \in Range(records) :
           /\ r.address = address /\ address # Unspecified
           /\ \/ \A i \in DOMAIN rcs : \A j \in DOMAIN rcs[i].hosts : ~Names(i, j, r)
              \/ \E i \in DOMAIN rcs : \E j \in DOMAIN rcs[i].hosts :
                     Names(i, j, r) /\ Allows(rcs[i], j, port)
    \/ address # Unspecified /\ address \in Range(confDNS) \cup Range(servers)

(* "a datagram it did not publish makes the gateway [...] drop the tunnel": *)
(* the filter lets a datagram through just when the documents allow it,    *)
(* whatever became of records, resources and ports on the way.             *)
FilterIsPublication ==
    Filtering /\ listing = "read" =>
        \A a \in Addresses4, port \in 0..MaxPort :
            permits(filter, a, port) <=> Published(a, port)

(* "the resource list is both the source of the tunnel routes and the      *)
(* outbound filter": the routes attract the IPv4 addresses that the filter *)
(* lets through on some port, and no other.  None is routed twice, though  *)
(* mergePrefixes compares a prefix only with the last one it kept.         *)
RoutesMatchFilter ==
    /\ Filtering => \A a \in Addresses4 :
                        (\E r \in Range(routes) : a \in Block(r)) <=> permits(filter, a, 0)
    /\ \A i, j \in DOMAIN routes : i # j => ~Overlaps(routes[i], routes[j])

(* addressRangePrefixes covers every range and nothing else, without an    *)
(* overlap and with the fewest prefixes, and it ends though its integers   *)
(* wrap, for the range of all addresses and of one too.  The ranges are    *)
(* tried once, before there is a document.                                 *)
RangeIsCovered ==
    phase = "composing" /\ rcs = <<>> /\ records = <<>> /\ servers = <<>> /\ confDNS = <<>> =>
        \A start, end \in Addresses4 : Covered(start, end)

(* An enabled probe (its interval is not 0) stands down only on a tunnel   *)
(* whose routes name no IPv4 address by itself: "the probe stands down if  *)
(* it named none".                                                         *)
ProbeFindsSingleRoute ==
    Filtering /\ probe = None =>
        \A r \in Range(routes) : ~(IsSingleIP(r) /\ r.addr \in Addresses4 \ {Unspecified})

(* auth.go:87 says of a failed rclist.csp that "The resource list only     *)
(* refines the tunnel routes; a gateway that refuses it still carries      *)
(* traffic".                                                               *)
RefusedListCarries ==
    Filtering /\ listing = "refused" => \E a \in Addresses4 : permits(filter, a, 0)

(* options.go:81 says ResourceRoutesDisabled keeps the routes of the list  *)
(* out, "leaving only the assigned address prefix".                        *)
OnlyAssignedPrefixLeft == phase = "connected" /\ listing = "disabled" => routes = <<>>
=============================================================================
