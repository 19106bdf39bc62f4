---------------------------- MODULE MCResources ----------------------------
(* Resources for TLC: two resources, two domains, addresses 0 to 15 and    *)
(* one of IPv6, two ports.  Every kind of host text is there, and a port   *)
(* range that is read as it stands and one that is reversed.               *)
EXTENDS Resources

Hosts == {[kind |-> "address", address |-> 2], [kind |-> "range", from |-> 1, to |-> 3],
          [kind |-> "domain", domain |-> [name |-> 1, canonical |-> FALSE]], [kind |-> "junk"]}
PortRanges == {[start |-> 2, end |-> 2], [start |-> 2, end |-> 1]}
Record(id, domain, address) == [id |-> id, domain |-> domain, address |-> address]
HostRecords == {Record(1, 1, 2), Record(1, 2, 3), Record(2, 1, 3), Record(1, 1, Address6)}
Servers == {Unspecified, 3, Address6}
Configured == {None, 2}
=============================================================================
