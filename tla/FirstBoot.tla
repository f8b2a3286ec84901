----------------------------- MODULE FirstBoot -----------------------------
(***************************************************************************)
(* The network from end to end: Network detects and reviews the plan, CHR  *)
(* boots with the script that RouterOSScript wrote for it                  *)
(* (src/internal/network/routeros.go), command by command, on an instance  *)
(* whose power may fail and whose script then starts again.  What RouterOS *)
(* does with a command, and how it forwards, is modelled from how the      *)
(* script relies on it.                                                    *)
(***************************************************************************)
EXTENDS Network, Sequences, SequencesExt

CONSTANTS Ports,         \* Ethernet ports of CHR
          FactoryPort,   \* the port on which a factory CHR runs its DHCP client
          MaxReboots     \* bound: times the script is started again

\* What a host shows of itself: "uplink" names the interface of its default route;
\* the routes of the kernel and of advertisements on it, defaults apart, lead to the
\* prefixes of its addresses; a DHCP server names the router that it named before.
\* An address whose prefix is itself alone has its route in the local table, which
\* is not told apart from the main one here; addresses whose route was suppressed
\* (noprefixroute) and routes advertised beside the prefixes are left out.
RealHost(h) ==
    /\ UplinkOf(h) # "other"
    /\ HasDefault(h, "IPv4") /\ Default(h, "IPv4").proto = "dhcp"
            => h.offered = Default(h, "IPv4").gw
    /\ \A family \in Families :
        LET onLink == {r \in h.routes[family] :
                        IsImplied(r, family) /\ ~IsDefaultRoute(r) /\ r.dev = "uplink"}
        IN /\ IsTable(h.routes[family])
           /\ \A r \in onLink : r.gw = NoGateway
           /\ {r.dst : r \in onLink} = {a.prefix : a \in h.addresses[family]}

ASSUME FirstBootAssumption ==
    /\ IsFiniteSet(Ports) /\ FactoryPort \in Ports /\ MaxReboots \in Nat
    /\ \A h \in Hosts : RealHost(h)

VARIABLES
    matching,   \* the ports that have the MAC of the plan
    chr,        \* the configuration: DHCP clients, static addresses and routes, and
                \* whether router advertisements are accepted; id tells two routes
                \* apart that are otherwise the same
    pc,         \* the next command of the script
    reboots     \* times the script was started again

bootVars == <<matching, chr, pc, reboots>>
vars == <<planVars, bootVars>>

Factory == [clients |-> {[port |-> FactoryPort, family |-> "IPv4"]},
            addresses |-> {}, routes |-> {}, ra |-> FALSE]

----------------------------------------------------------------------------
(* RouterOSScript: the commands for a plan *)

Command(op, family, arg) == [op |-> op, family |-> family, arg |-> arg]

\* Mutant: static addresses stay.
RemovalsOfRoutesOnly(family) ==
    <<Command("removeClients", family, 0), Command("removeMarkedRoutes", family, 0),
      Command("removeStaticDefaults", family, 0)>>

\* Everything an earlier start of the script may have left.
Removals(family) ==
    <<Command("removeClients", family, 0), Command("removeAddresses", family, 0),
      Command("removeMarkedRoutes", family, 0), Command("removeStaticDefaults", family, 0)>>

AddAddresses(family, prefixes) ==
    LET sorted == SetToSeq(prefixes)
    IN [i \in 1..Len(sorted) |-> Command("addAddress", family, sorted[i])]

\* A route of the script, without gateway when it names the uplink; scope and target scope as RouterOS defaults them.
DefaultRoute(gw, targetScope) ==
    [dst |-> Address, gw |-> gw, scope |-> 30, targetScope |-> targetScope, marked |-> TRUE]
OnLinkRoute(gw) ==
    [dst |-> {gw}, gw |-> NoGateway, scope |-> 10, targetScope |-> 10, marked |-> TRUE]
ScriptRoutes == [dst : SUBSET Gateways, gw : Gateways, scope : {10, 30}, targetScope : {10, 11},
                 marked : {TRUE}]

\* The default route, behind a host route to the gateway when it is off-link.
AddDefault(family, gw, onlink) ==
    IF onlink
    THEN <<Command("addRoute", family, OnLinkRoute(gw)),
           Command("addRoute", family, DefaultRoute(gw, 11))>>
    ELSE <<Command("addRoute", family, DefaultRoute(gw, 10))>>

\* A client of either family is added with add-default-route=yes.
IPv4Commands(p) ==
    CASE p.mode = "dhcp" -> <<Command("addClient", "IPv4", 0)>>
      [] p.mode = "static" ->
            AddAddresses("IPv4", p.addresses) \o AddDefault("IPv4", p.gw, p.onlink)
      [] OTHER -> <<>>

IPv6Commands(p) ==
    <<Command("acceptAdvertisements", "IPv6", p.slaac)>>
    \o (IF p.dhcp THEN <<Command("addClient", "IPv6", 0)>> ELSE <<>>)
    \o AddAddresses("IPv6", p.addresses)
    \o (IF p.gw = NoGateway THEN <<>>
        ELSE AddDefault("IPv6", p.gw, p.onlink /\ p.gw # LinkLocal))

Script(p) ==
    <<Command("findUplink", "IPv4", 0)>> \o Removals("IPv4") \o Removals("IPv6")
    \o IPv4Commands(p.IPv4) \o IPv6Commands(p.IPv6)

----------------------------------------------------------------------------
(* What RouterOS does with a command.  The uplink is the matching port. *)

\* Mutant: several matching ports are taken for one.
AnyUplink == matching # {}

UplinkFound == Cardinality(matching) = 1

Uplink == CHOOSE port \in matching : TRUE

OfUplink(x, family) == x.port \in matching /\ x.family = family

\* RouterOS refuses a second client or a second copy of an address on a port.
Refuses(c) ==
    \/ c.op = "findUplink" /\ ~UplinkFound
    \/ c.op = "addClient" /\ [port |-> Uplink, family |-> c.family] \in chr.clients
    \/ /\ c.op = "addAddress"
       /\ [port |-> Uplink, family |-> c.family, prefix |-> c.arg] \in chr.addresses

Executed(c) ==
    CASE c.op = "findUplink" -> chr
      [] c.op = "removeClients" ->
            [chr EXCEPT !.clients = {x \in @ : ~OfUplink(x, c.family)}]
      [] c.op = "removeAddresses" ->
            [chr EXCEPT !.addresses = {x \in @ : ~OfUplink(x, c.family)}]
      [] c.op = "removeMarkedRoutes" ->
            [chr EXCEPT !.routes = {x \in @ : x.family # c.family \/ ~x.route.marked}]
      [] c.op = "removeStaticDefaults" ->
            [chr EXCEPT !.routes = {x \in @ : x.family # c.family \/ x.route.dst # Address}]
      [] c.op = "addClient" ->
            [chr EXCEPT !.clients = @ \cup {[port |-> Uplink, family |-> c.family]}]
      [] c.op = "addAddress" ->
            [chr EXCEPT !.addresses =
                @ \cup {[port |-> Uplink, family |-> c.family, prefix |-> c.arg]}]
      [] c.op = "addRoute" ->
            [chr EXCEPT !.routes =
                @ \cup {[family |-> c.family, route |-> c.arg, id |-> <<reboots, pc>>]}]
      [] c.op = "acceptAdvertisements" -> [chr EXCEPT !.ra = c.arg]

----------------------------------------------------------------------------
(* Actions *)

\* The image with the script is installed; CHR starts with its factory configuration.
BootCHR ==
    /\ phase = "accepted" /\ phase' = "script"
    /\ matching' \in SUBSET Ports
    /\ chr' = Factory /\ pc' = 1
    /\ UNCHANGED <<host, detection, ack, reboots>>

RunCommand ==
    /\ phase = "script"
    /\ LET c == Script(plan)[pc]
       IN IF Refuses(c) THEN phase' = "aborted" /\ UNCHANGED <<chr, pc>>
          ELSE /\ chr' = Executed(c) /\ pc' = pc + 1
               /\ phase' = IF pc = Len(Script(plan)) THEN "applied" ELSE "script"
    /\ UNCHANGED <<host, detection, ack, matching, reboots>>

\* The script is started again, after a loss of power or once it is through.
Reboot ==
    /\ phase \in {"script", "applied"} /\ reboots < MaxReboots
    /\ phase' = "script" /\ pc' = 1 /\ reboots' = reboots + 1
    /\ UNCHANGED <<host, detection, ack, matching, chr>>

Init ==
    /\ PlanInit
    /\ matching = {} /\ chr = Factory /\ pc = 0 /\ reboots = 0

Next ==
    \/ PlanNext /\ UNCHANGED bootVars
    \/ BootCHR \/ RunCommand \/ Reboot

Spec == Init /\ [][Next]_vars

FairSpec == Spec /\ PlanFairness

----------------------------------------------------------------------------
(* How CHR forwards *)

HasClient(family) == [port |-> Uplink, family |-> family] \in chr.clients

\* Prefixes on the link: of static addresses, and of those that the network hands
\* out again as it did to Linux.
Connected(family) ==
    {x.prefix : x \in {x \in chr.addresses : OfUplink(x, family)}}
    \cup (IF HasClient(family) \/ (family = "IPv6" /\ chr.ra) THEN Dynamic(host, family) ELSE {})

StaticRoutes(family) == {x.route : x \in {x \in chr.routes : x.family = family}}

\* A gateway resolves through a connected prefix, scope 10, or through a host route
\* on the uplink whose scope lies below the target scope.
Resolves(r, family) ==
    \/ r.gw \in {NoGateway, LinkLocal}
    \/ IF \E s \in StaticRoutes(family) : s.dst = {r.gw}
       THEN \E s \in StaticRoutes(family) : s.dst = {r.gw} /\ s.gw = NoGateway /\ s.scope < r.targetScope
       ELSE \E p \in Connected(family) : r.gw \in p

\* Destination and gateway of every active route.  A DHCP server names the router
\* "offered"; DHCPv6 names none, so the default route of that client leads to the
\* neighbour that answered; a router that advertised itself to Linux does so to CHR.
ActiveRoutes(family) ==
    {[dst |-> p, gw |-> NoGateway] : p \in Connected(family)}
    \cup {[dst |-> r.dst, gw |-> r.gw] :
            r \in {r \in StaticRoutes(family) : Resolves(r, family)}}
    \cup (IF family = "IPv4" /\ HasClient("IPv4")
          THEN {[dst |-> Address, gw |-> host.offered]} ELSE {})
    \cup (IF family = "IPv6" /\ HasClient("IPv6") /\ host.server6 # NoGateway
          THEN {[dst |-> Address, gw |-> host.server6]} ELSE {})
    \cup (IF family = "IPv6" /\ chr.ra /\ HasDefault(host, "IPv6")
             /\ Default(host, "IPv6").proto = "ra"
          THEN {[dst |-> Address, gw |-> Default(host, "IPv6").gw]} ELSE {})

\* Where a packet for a goes: to a itself or to a gateway.
Hop(a, gw) == IF gw \in {a, NoGateway} THEN a ELSE gw

CHRHops(family, a) ==
    {Hop(a, r.gw) : r \in {r \in ActiveRoutes(family) :
        /\ a \in r.dst
        /\ \A s \in ActiveRoutes(family) :
            a \in s.dst => r.dst \subseteq s.dst}}

LinuxHops(family, a) ==
    {Hop(a, r.gw) : r \in {r \in BestRoutes(host.routes[family], a) : r.dev = "uplink"}}

\* CHR forwards to a as Linux did; what left Linux elsewhere than through the
\* uplink is not CHR's.
Kept(family, a) ==
    LinuxHops(family, a) # {} => CHRHops(family, a) = LinuxHops(family, a)

----------------------------------------------------------------------------
(* Properties *)

ConfigType ==
    [clients : SUBSET [port : Ports, family : Families],
     addresses : SUBSET [port : Ports, family : Families, prefix : SUBSET Address],
     routes : SUBSET [family : Families, route : ScriptRoutes, id : Nat \X Nat],
     ra : BOOLEAN]

\* Types, and: the probe does not run past its deadline, and the script stays
\* within its commands.
TypeOK ==
    /\ host \in HostType
    /\ phase \in {"detect", "probe", "conclude", "reported", "accepted", "refused",
                  "script", "applied", "aborted"}
    /\ clock \in 0..Timeout /\ heard \in Frames /\ offer \in BOOLEAN /\ ack \in BOOLEAN
    /\ matching \subseteq Ports /\ chr \in ConfigType /\ reboots \in 0..MaxReboots
    /\ phase \in {"script", "aborted"} => pc \in 1..Len(Script(plan))

\* detect.go, dhcp_linux.go: a DHCP plan that goes through without an
\* acknowledgement rests on a lease of this uplink or on an answer to the probe's
\* own discover, whatever other frames were on the wire.
DHCPIsConfirmed ==
    phase \in {"accepted", "script", "applied", "aborted"} /\ ~ack /\ plan.IPv4.mode = "dhcp" =>
        host.lease["IPv4"] \/ heard = "ours"

\* Layouts that Detect lets through although the script cannot express them; see
\* UntranslatableIsRejected.
StaticDefaultOverDHCP ==
    /\ plan.IPv4.mode = "dhcp" /\ HasDefault(host, "IPv4")
    /\ Default(host, "IPv4").proto # "dhcp"
DeviceDefault ==
    HasDefault(host, "IPv6") /\ Default(host, "IPv6").gw = NoGateway
\* CHR has a second default route beside that of Linux, by way of the DHCPv6 server.
DefaultBesideDHCPv6 ==
    /\ plan.IPv6.dhcp /\ HasDefault(host, "IPv6")
    /\ host.server6 \notin {NoGateway, Default(host, "IPv6").gw}
\* a is reached by a redundant route that lies within another route.
RedundantWithin(family, a) ==
    /\ family = "IPv4"
    /\ \E r \in Covering(host.routes[family], a), s \in host.routes[family] :
        /\ IsRedundantDHCPRoute(r, Default(host, family))
        /\ ~IsDefaultRoute(s) /\ ~IsRedundantDHCPRoute(s, Default(host, family))
        /\ r.dst \subseteq s.dst

\* detect.go, routeros.go: a plan that was neither blocked nor in need of an
\* acknowledgement makes CHR forward every packet for which Linux used the uplink
\* to the same neighbour, through the first boot and every further one.
ForwardingPreserved ==
    phase = "applied" /\ ~ack =>
        \A a \in Address :
            /\ StaticDefaultOverDHCP \/ RedundantWithin("IPv4", a) \/ Kept("IPv4", a)
            /\ DeviceDefault \/ DefaultBesideDHCPv6 \/ Kept("IPv6", a)

\* routeros.go, README.md:77: however often the script was broken off and started
\* again, it ends with the configuration of the plan: nothing twice, nothing
\* missing, nothing of the factory's client left on the uplink.
ScriptIsIdempotent ==
    /\ phase = "aborted" => ~UplinkFound
    /\ phase = "applied" =>
        LET on(family) == [port |-> Uplink, family |-> family]
        IN /\ {x \in chr.clients : x.port = Uplink}
                = {on("IPv4") : m \in {plan.IPv4.mode} \cap {"dhcp"}}
                  \cup {on("IPv6") : m \in {plan.IPv6.dhcp} \cap {TRUE}}
           /\ {<<x.family, x.prefix>> : x \in {x \in chr.addresses : x.port = Uplink}}
                = {"IPv6"} \X plan.IPv6.addresses
                  \cup {"IPv4"} \X (IF plan.IPv4.mode = "static" THEN plan.IPv4.addresses ELSE {})
           /\ \A x, y \in chr.routes : x.family = y.family /\ x.route = y.route => x = y
           /\ \A family \in Families :
                {r.gw : r \in {r \in StaticRoutes(family) : r.dst = Address}}
                = IF family = "IPv4" /\ plan.IPv4.mode # "static" THEN {}
                  ELSE {plan[family].gw} \ {NoGateway}
           /\ chr.ra = plan.IPv6.slaac

\* Clients and addresses change on no port but the only one with the MAC.
OnlyTheUplinkChanges ==
    LET of(config, port) == <<{x \in config.clients : x.port = port},
                              {x \in config.addresses : x.port = port}>>
    IN \A port \in Ports : of(chr', port) # of(chr, port) => matching = {port}

\* routeros.go: the script touches no client and no address of another port than
\* the one with the MAC of the plan, and nothing when that MAC is missing or not
\* unique, however often it starts.
OtherPortsUntouched == [][phase = "script" => OnlyTheUplinkChanges]_vars

\* dhcp_linux.go: the detection comes to an end at the deadline of the probe, also
\* on a link where frames of others never cease.
DetectionEnds == (phase = "detect") ~> (phase = "reported")

----------------------------------------------------------------------------
(* What the README and a comment say *)

\* README.md:30: a layout that cannot be translated is rejected; detect.go:391: a
\* route is left out only when the default route forwards exactly the same.
UntranslatableIsRejected ==
    phase = "applied" /\ ~ack => \A family \in Families, a \in Address : Kept(family, a)
=============================================================================
