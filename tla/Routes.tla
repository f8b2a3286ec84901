------------------------------- MODULE Routes -------------------------------
(***************************************************************************)
(* The routes of the main table as detect.go reads them                    *)
(* (src/internal/network/detect.go): the choice of the default route, the  *)
(* verdict on every other route, and the rule that lets a DHCP route be    *)
(* left out of the plan.  A destination is the set of addresses it covers, *)
(* so one prefix is more specific than another when it is a strict subset. *)
(* attr stands for the attributes that no condition names: type, scope,    *)
(* prefsrc, tos, flags and whatever else iproute2 prints.                  *)
(***************************************************************************)
EXTENDS Naturals, FiniteSets

CONSTANTS Address,     \* the addresses of one family; also the default destination
          NoGateway    \* the route has no gateway: the destination is on the link

IsDefaultRoute(r) == r.dst = Address

\* What `ip route` prints of a route, except dst.
ForwardingKey(r) ==
    [dev |-> r.dev, gw |-> r.gw, proto |-> r.proto, metric |-> r.metric, attr |-> r.attr]

\* The host forwards along the longest prefix, and along the lower metric
\* among routes to the same prefix.
Beats(r, s) ==
    /\ r.dst \subseteq s.dst
    /\ r.dst # s.dst \/ r.metric < s.metric

Covering(routes, a) == {r \in routes : a \in r.dst}

BestRoutes(routes, a) ==
    {r \in Covering(routes, a) : \A s \in Covering(routes, a) : ~Beats(s, r)}

Forwarding(routes, a) == {ForwardingKey(r) : r \in BestRoutes(routes, a)}

\* A kernel table: prefixes are nested or disjoint, and no two routes share
\* destination and metric.
IsTable(routes) ==
    /\ \A r, s \in routes : \/ r.dst \subseteq s.dst
                            \/ s.dst \subseteq r.dst
                            \/ r.dst \cap s.dst = {}
    /\ \A r, s \in routes : r.dst = s.dst /\ r.metric = s.metric => r = s
    /\ \A r \in routes : r.dst \subseteq Address /\ r.metric \in Nat

----------------------------------------------------------------------------
(* selectDefault, inspectRouteSet, isRedundantDHCPRoute *)

Defaults(routes) == {r \in routes : IsDefaultRoute(r)}

\* The default route with the lowest metric.
SelectDefault(routes) ==
    CHOOSE d \in Defaults(routes) : \A e \in Defaults(routes) : d.metric <= e.metric

\* Several defaults are accepted only along one path.
MultipleDefaults(routes) ==
    \E e \in Defaults(routes) :
        \/ e.dev # SelectDefault(routes).dev
        \/ e.gw # SelectDefault(routes).gw

IsGatewayHostRoute(r, d) == d.gw \in Address /\ r.gw = NoGateway /\ r.dst = {d.gw}

\* Mutant: the label is enough, gateway and attributes are not compared.
AnyDHCPRouteIsRedundant(r, d) ==
    ~IsDefaultRoute(r) /\ r.proto = "dhcp" /\ d.proto = "dhcp" /\ r.dev = d.dev

IsRedundantDHCPRoute(r, d) ==
    /\ ~IsDefaultRoute(r) /\ IsDefaultRoute(d)
    /\ r.proto = "dhcp" /\ d.proto = "dhcp"
    /\ d.gw # NoGateway
    /\ ForwardingKey(r) = ForwardingKey(d)

\* Routes that CHR makes itself from its addresses and advertisements.
IsImplied(r, family) == r.proto = "kernel" \/ (family = "IPv6" /\ r.proto = "ra")

\* The issue that inspectRouteSet reports of a route, "none" or "redundant"
\* when the plan needs nothing for it.  hasDefault: the table has a default.
RouteIssue(r, routes, uplink, family, dhcp) ==
    LET hasDefault == Defaults(routes) # {}
        d == SelectDefault(routes)
    IN CASE IsDefaultRoute(r) \/ IsImplied(r, family) -> "none"
         [] r.dev # uplink -> "multi-uplink"
         [] hasDefault /\ IsGatewayHostRoute(r, d) -> "none"
         [] dhcp /\ hasDefault /\ IsRedundantDHCPRoute(r, d) -> "redundant"
         [] OTHER -> "unsupported-route"
=============================================================================
