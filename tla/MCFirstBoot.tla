---------------------------- MODULE MCFirstBoot ----------------------------
(* Hosts for FirstBoot: every kind of IPv4 table beside no IPv6, and every
   kind of IPv6 table beside no IPv4 and beside a static IPv4. *)
EXTENDS FirstBoot

CONSTANTS Ether1, Ether2

MCAddress == 1..4
MCPorts == {Ether1, Ether2}

\* Addresses 1 and 2 are on the link.
Link == {1, 2}
R(dst, gw, proto, attr) == [dst |-> dst, dev |-> "uplink", gw |-> gw, proto |-> proto,
                            metric |-> 1, attr |-> attr]
OfKernel == R(Link, NoGateway, "kernel", "plain")

Owned(origins) == {[prefix |-> Link, origin |-> o] : o \in origins}

Host(r4, a4, r6, a6) ==
    [routes |-> [f \in Families |-> IF f = "IPv4" THEN r4 ELSE r6],
     addresses |-> [f \in Families |-> IF f = "IPv4" THEN a4 ELSE a6],
     configured |-> [f \in Families |-> FALSE], lease |-> [f \in Families |-> FALSE],
     server |-> TRUE, server6 |-> NoGateway, resolvers |-> TRUE, obstacles |-> {},
     offered |-> IF \E d \in Defaults(r4) : d.proto = "dhcp"
                 THEN (CHOOSE d \in Defaults(r4) : d.proto = "dhcp").gw ELSE 2]

\* A default over a gateway on the link, or behind it with the flag or a host route.
DefaultsOf(proto) ==
    {{R(Address, 1, proto, "plain")}, {R(Address, 3, proto, "onlink")},
     {R(Address, 3, proto, "plain"), R({3}, NoGateway, proto, "plain")}}

Others ==
    {{R(dst, gw, proto, attr)} : dst \in {{2}, {4}, {3, 4}}, gw \in {1, 3},
                                 proto \in {"dhcp", "static"}, attr \in {"plain", "onlink", "mtu"}}
    \cup {{R({4}, 1, "dhcp", "plain"), R({3, 4}, 1, "dhcp", "plain")},
          {R({4}, 1, "dhcp", "plain"), R({3, 4}, 2, "dhcp", "plain")},
          {[R({3, 4}, 1, "dhcp", "plain") EXCEPT !.metric = 2]}}
    \cup {{[R({4}, NoGateway, proto, "plain") EXCEPT !.dev = "other"]} : proto \in {"kernel", "static"}}
    \cup {{[R(Address, gw, "static", "plain") EXCEPT !.dev = dev, !.metric = 2]} :
            gw \in {1, 2}, dev \in {"uplink", "other"}}

Tables4 == {{OfKernel} \cup d \cup other :
              d \in UNION {DefaultsOf(proto) : proto \in {"dhcp", "static"}}, other \in Others \cup {{}}}

Hosts4 ==
    {Host(t, Owned({o}), {}, {}) : t \in Tables4, o \in {"static", "dhcp"}}
    \cup {Host({OfKernel, R(Address, 1, "static", "plain")}, Owned({"static", "dhcp"}), {}, {})}
    \cup {Host({R(Address, 1, "static", "onlink")}, {}, {}, {})}

\* Evidence of DHCP, and the blockers that need no route.
Evidence4 ==
    {[Host(d \cup (IF origins = {} THEN {} ELSE {OfKernel}), Owned(origins), {}, {}) EXCEPT
        !.lease["IPv4"] = lease, !.server = server, !.configured["IPv4"] = configured,
        !.resolvers = resolvers] :
            d \in DefaultsOf("dhcp"), origins \in {{}, {"dhcp"}, {"static"}},
            lease \in BOOLEAN, server \in BOOLEAN, configured \in BOOLEAN, resolvers \in BOOLEAN}

Obstructed ==
    {[Host({OfKernel, R(Address, 1, "dhcp", "plain")}, Owned({"dhcp"}), {}, {}) EXCEPT
        !.obstacles = {o}] : o \in {"policy-routing", "nic-driver", "complex-uplink",
                                    "uplink-type", "uplink-mac", "multi-uplink"}}

Defaults6 ==
    {{}} \cup {{R(Address, gw, proto, "plain")} : gw \in {1, LinkLocal}, proto \in {"ra", "static"}}
    \cup {{R(Address, 3, "static", "onlink")}, {R(Address, NoGateway, "static", "plain")}}
Origins6 == {{}, {"static"}, {"ra"}, {"dhcp"}, {"dynamic"}, {"static", "ra"}}

Hosts6 ==
    {[Host(r4, IF r4 = {} THEN {} ELSE Owned({"static"}),
           d \cup (IF o = {} THEN {} ELSE {OfKernel}), Owned(o)) EXCEPT
        !.configured["IPv6"] = configured, !.server6 = server] :
            server \in {NoGateway, 2, LinkLocal}, r4 \in {{}, {OfKernel, R(Address, 1, "static", "plain")}},
            d \in Defaults6, o \in Origins6, configured \in BOOLEAN}

MCHosts == Hosts4 \cup Evidence4 \cup Obstructed \cup Hosts6
=============================================================================
