------------------------------ MODULE Network ------------------------------
(***************************************************************************)
(* The network plan: detected on Linux (Detect, ProbeDHCP) and reviewed    *)
(* (ReviewPreflight); src/internal/network and ui.go.  FirstBoot continues *)
(* with what CHR makes of it.                                              *)
(*                                                                         *)
(* IPv4 and IPv6 addresses are both drawn from Address; every operator is  *)
(* told its family.  Interface name, MAC, MTU, DNS servers and peer DNS    *)
(* are left out but for their blockers and warnings.                       *)
(***************************************************************************)
EXTENDS Routes

CONSTANTS Hosts,         \* the hosts considered, see HostType
          LinkLocal,     \* an IPv6 link-local gateway
          Timeout        \* bound: receive time-outs until the deadline of the probe

Families == {"IPv4", "IPv6"}
Gateways == Address \cup {LinkLocal, NoGateway}
Route == [dst : SUBSET Address, dev : {"uplink", "other"}, gw : Gateways,
          proto : {"kernel", "dhcp", "static", "ra"}, metric : 0..9,
          attr : {"plain", "onlink", "mtu"}]

\* routes: the main tables.  addresses: the global addresses of the uplink,
\* with the way they were configured ("dynamic": iproute2 does not say by whom).
\* configured: a configuration file asks for DHCP.  lease: a lease file of the
\* uplink.  server, offered: a DHCP server answers, and the router it names.
\* server6: the neighbour from which a DHCPv6 server answers, NoGateway without one.
\* resolvers: a DNS server was found.  obstacles: blockers of rules, link, driver
\* and other interfaces.
HostType ==
    [routes : [Families -> SUBSET Route],
     addresses : [Families -> SUBSET [prefix : SUBSET Address,
                                      origin : {"static", "dhcp", "ra", "dynamic"}]],
     configured : [Families -> BOOLEAN], lease : [Families -> BOOLEAN],
     server : BOOLEAN, offered : Gateways, server6 : Gateways, resolvers : BOOLEAN,
     obstacles : SUBSET {"policy-routing", "nic-driver", "complex-uplink",
                         "uplink-type", "uplink-mac", "multi-uplink"}]

ASSUME NetworkAssumption ==
    /\ IsFiniteSet(Address) /\ \E a, b \in Address : a # b
    /\ LinkLocal \notin Address /\ NoGateway \notin Address /\ LinkLocal # NoGateway
    /\ Hosts \subseteq HostType /\ Timeout \in Nat

VARIABLES
    host,       \* the Linux host, which does not change
    phase,      \* "detect", "probe", "conclude", "reported", "accepted", "refused";
                \* FirstBoot adds "script", "applied", "aborted"
    plan,       \* model.NetworkPlan
    issues,     \* codes of the blockers and warnings
    clock,      \* receive time-outs since the discover was sent
    heard,      \* the last frame the probe read
    offer,      \* DHCPProbe.Offered
    ack         \* the user typed the acknowledgement of an unverified network

detection == <<plan, issues, clock, heard, offer>>
planVars == <<host, phase, detection, ack>>

----------------------------------------------------------------------------
(* Detect, as far as the probe *)

HasDefault(h, family) == Defaults(h.routes[family]) # {}
Default(h, family) == SelectDefault(h.routes[family])

\* The interface of the default routes; "none" without one.
UplinkOf(h) == IF HasDefault(h, "IPv4") THEN Default(h, "IPv4").dev
               ELSE IF HasDefault(h, "IPv6") THEN Default(h, "IPv6").dev
               ELSE "none"

DefaultIssues(h) ==
    {"multiple-defaults" : f \in {f \in Families : HasDefault(h, f) /\ MultipleDefaults(h.routes[f])}}
    \cup {"multi-wan" : f \in {f \in Families : HasDefault(h, f) /\ Default(h, f).dev # UplinkOf(h)}}

PrefixesOf(h, family, origins) == {a.prefix : a \in {a \in h.addresses[family] : a.origin \in origins}}
Static(h, family) == PrefixesOf(h, family, {"static"})
Dynamic(h, family) == PrefixesOf(h, family, {"dhcp", "ra", "dynamic"})

GatewayOutside(gw, prefixes) == gw \in Address /\ \A p \in prefixes : gw \notin p

\* Mutant: the onlink flag is the only sign of an off-link gateway.
OnLinkFlagOnly(h, family) == HasDefault(h, family) /\ Default(h, family).attr = "onlink"

GatewayOnLink(h, family) ==
    /\ HasDefault(h, family)
    /\ \/ Default(h, family).attr = "onlink"
       \/ GatewayOutside(Default(h, family).gw, Static(h, family) \cup Dynamic(h, family))

Gateway(h, family) == IF HasDefault(h, family) THEN Default(h, family).gw ELSE NoGateway

\* "": both kinds of address, which is a blocker.
IPv4Mode(h) ==
    CASE Dynamic(h, "IPv4") # {} /\ Static(h, "IPv4") # {} -> ""
      [] Dynamic(h, "IPv4") # {} /\ Static(h, "IPv4") = {} -> "dhcp"
      [] Dynamic(h, "IPv4") = {} /\ Static(h, "IPv4") # {} -> "static"
      [] h.configured["IPv4"] /\ h.addresses["IPv4"] = {} -> "dhcp"
      [] OTHER -> "none"

IPv4Plan(h) ==
    [mode |-> IPv4Mode(h),
     addresses |-> IF IPv4Mode(h) = "" THEN {} ELSE Static(h, "IPv4") \cup Dynamic(h, "IPv4"),
     gw |-> Gateway(h, "IPv4"), onlink |-> GatewayOnLink(h, "IPv4"),
     evidence |-> CASE IPv4Mode(h) = "" -> "none"
                    [] IPv4Mode(h) = "dhcp" /\ h.addresses["IPv4"] = {} -> "inferred"
                    [] OTHER -> "verified"]

IPv6Plan(h) ==
    LET announced == \/ PrefixesOf(h, "IPv6", {"ra"}) # {}
                     \/ HasDefault(h, "IPv6") /\ Default(h, "IPv6").proto = "ra"
        leased == \/ PrefixesOf(h, "IPv6", {"dhcp"}) # {}
                  \/ h.configured["IPv6"] \/ h.lease["IPv6"]
        assumed == Dynamic(h, "IPv6") # {} /\ ~announced /\ ~leased
        observed == h.addresses["IPv6"] # {} \/ HasDefault(h, "IPv6")
    IN [slaac |-> announced \/ assumed, dhcp |-> leased,
        addresses |-> Static(h, "IPv6"),
        gw |-> Gateway(h, "IPv6"), onlink |-> GatewayOnLink(h, "IPv6"),
        evidence |-> IF assumed \/ (~observed /\ leased /\ ~h.lease["IPv6"])
                     THEN "inferred" ELSE "verified"]

RouteIssues(h, family, dhcp) ==
    {RouteIssue(r, h.routes[family], UplinkOf(h), family, dhcp) : r \in h.routes[family]}
        \ {"none", "redundant"}

\* Everything Detect reports before it probes.
ObservedIssues(h) ==
    DefaultIssues(h) \cup h.obstacles
    \cup (IF IPv4Mode(h) = "" THEN {"mixed-ipv4"} ELSE {})
    \cup RouteIssues(h, "IPv4", IPv4Mode(h) = "dhcp") \cup RouteIssues(h, "IPv6", FALSE)
    \cup (IF ~h.resolvers /\ IPv4Mode(h) = "static" /\ ~IPv6Plan(h).dhcp THEN {"dns"} ELSE {})

NoPlan == [IPv4 |-> [mode |-> "", addresses |-> {}, gw |-> NoGateway, onlink |-> FALSE,
                     evidence |-> "none"],
           IPv6 |-> [slaac |-> FALSE, dhcp |-> FALSE, addresses |-> {}, gw |-> NoGateway,
                     onlink |-> FALSE, evidence |-> "none"],
           evidence |-> "none"]

\* Routes, addresses, files and resolvers are read; a command that fails, or a
\* host without default route, ends the detection with a blocker.
Observe ==
    /\ phase = "detect"
    /\ \/ /\ UplinkOf(host) # "none"
          /\ plan' = [NoPlan EXCEPT !.IPv4 = IPv4Plan(host), !.IPv6 = IPv6Plan(host)]
          /\ issues' = ObservedIssues(host)
          \* Without a MAC there is no probe.
          /\ phase' = IF "uplink-mac" \in host.obstacles THEN "conclude" ELSE "probe"
       \/ /\ UplinkOf(host) = "none"
          /\ issues' = {"default-route"} /\ phase' = "reported" /\ UNCHANGED plan
       \/ issues' = {"unreadable"} /\ phase' = "reported" /\ UNCHANGED plan
    /\ UNCHANGED <<host, clock, heard, offer, ack>>

----------------------------------------------------------------------------
(* ProbeDHCP: one discover, then frames until the deadline *)

\* Frames the socket can deliver; "nothing" is the receive time-out.
Frames == {"ours", "foreign", "other", "nothing"}

\* Mutant: the transaction is not compared.
AnyOffer(frame) == frame \in {"ours", "foreign"}

\* An offer from a server port with the transaction of this probe.
ParseDHCPOffer(frame) == frame = "ours"

Receive ==
    /\ phase = "probe" /\ clock < Timeout
    /\ \E frame \in Frames :
        /\ frame = "ours" => host.server
        /\ heard' = frame
        /\ clock' = IF frame = "nothing" THEN clock + 1 ELSE clock
        /\ offer' = ParseDHCPOffer(frame)
        /\ phase' = IF ParseDHCPOffer(frame) THEN "conclude" ELSE phase
    /\ UNCHANGED <<host, plan, issues, ack>>

\* Mutant: the time-outs are counted past the deadline.
TickForEver ==
    /\ phase = "probe" /\ clock <= Timeout
    /\ clock' = clock + 1
    /\ UNCHANGED <<host, phase, plan, issues, heard, offer, ack>>

\* Time passes while frames keep coming.
Tick ==
    /\ phase = "probe" /\ clock < Timeout
    /\ clock' = clock + 1
    /\ UNCHANGED <<host, phase, plan, issues, heard, offer, ack>>

\* Mutant: the deadline is looked at only after a receive time-out.
DeadlineAfterSilence ==
    /\ phase = "probe" /\ clock >= Timeout /\ heard = "nothing"
    /\ phase' = "conclude"
    /\ UNCHANGED <<host, detection, ack>>

DeadlinePassed ==
    /\ phase = "probe" /\ clock >= Timeout
    /\ phase' = "conclude"
    /\ UNCHANGED <<host, detection, ack>>

\* The socket cannot be used, or the run is cancelled: no offer, and Detect goes on.
ProbeFails ==
    /\ phase = "probe" /\ clock < Timeout
    /\ phase' = "conclude"
    /\ UNCHANGED <<host, detection, ack>>

----------------------------------------------------------------------------
(* The rest of Detect, and Validate *)

\* The syntax of addresses and the range of the MTU are left out.
Valid(p) ==
    /\ p.IPv4.mode \in {"dhcp", "static", "none"}
    /\ p.IPv4.mode = "static" => p.IPv4.addresses # {} /\ p.IPv4.gw # NoGateway
    /\ p.IPv4.mode = "none" => p.IPv6.slaac \/ p.IPv6.dhcp \/ p.IPv6.addresses # {}

Conclude ==
    /\ phase = "conclude" /\ phase' = "reported"
    /\ LET confirmed == host.lease["IPv4"] \/ offer
           dhcp == plan.IPv4.mode = "dhcp"
           v4 == IF dhcp /\ confirmed THEN "verified" ELSE plan.IPv4.evidence
           found == issues
               \cup (IF dhcp /\ ~confirmed THEN {"dhcp-unverified"} ELSE {})
               \cup (IF plan.IPv4.mode = "none" /\ host.addresses["IPv6"] = {}
                     THEN {"network"} ELSE {})
       IN /\ plan' = [plan EXCEPT
                !.IPv4.evidence = v4,
                !.evidence = IF v4 = "verified" /\ plan.IPv6.evidence = "verified" /\ found = {}
                             THEN "verified" ELSE "inferred"]
          /\ issues' = found \cup (IF Valid(plan) /\ "uplink-mac" \notin issues
                                   THEN {} ELSE {"network-plan"})
    /\ UNCHANGED <<host, clock, heard, offer, ack>>

----------------------------------------------------------------------------
(* ReviewPreflight: the form, the validation and the acknowledgement *)

\* What the user does to the plan in the form.
Edits == {"keep", "noIPv6", "staticIPv4", "DHCP", "noIPv4", "otherGateway"}

Edited(p, edit) ==
    CASE edit = "keep" -> p
      [] edit = "noIPv6" -> [p EXCEPT !.IPv6.slaac = FALSE, !.IPv6.dhcp = FALSE]
      [] edit = "staticIPv4" -> [p EXCEPT !.IPv4.mode = "static"]
      [] edit = "DHCP" -> [p EXCEPT !.IPv4.mode = "dhcp"]
      [] edit = "noIPv4" -> [p EXCEPT !.IPv4.mode = "none"]
      [] edit = "otherGateway" ->
            [p EXCEPT !.IPv4.gw = CHOOSE g \in Address : g # p.IPv4.gw, !.IPv4.onlink = FALSE]

\* The form keeps the static IPv6 addresses only while "static" is selected,
\* and clears the gateway when no IPv6 mode is.
FromForm(p, edit) ==
    LET q == [Edited(p, edit) EXCEPT !.IPv6.addresses = IF edit = "noIPv6" THEN {} ELSE @]
    IN IF q.IPv6.slaac \/ q.IPv6.dhcp \/ q.IPv6.addresses # {} THEN q
       ELSE [q EXCEPT !.IPv6.gw = NoGateway, !.IPv6.onlink = FALSE]

\* reflect.DeepEqual tells the empty list that ParseList returns from the nil of
\* a plan without IPv4 addresses, so such a plan counts as edited.
Changed(p, q) == p # q \/ p.IPv4.addresses = {}

WithEvidence(p, q) ==
    IF Changed(p, q)
    THEN [q EXCEPT !.evidence = "user", !.IPv4.evidence = "user", !.IPv6.evidence = "user"]
    ELSE q

Blocked == issues \ {"dns"} # {}

Review ==
    /\ phase = "reported"
    /\ \/ /\ ~Blocked
          /\ \E edit \in Edits :
              LET q == FromForm(plan, edit)
                  r == WithEvidence(plan, q)
              IN /\ Valid(q)
                 /\ plan' = r /\ phase' = "accepted"
                 /\ ack' = (r.evidence # "verified")
       \* Blocked, cancelled, an invalid plan, or no acknowledgement.
       \/ phase' = "refused" /\ UNCHANGED <<plan, ack>>
    /\ UNCHANGED <<host, issues, clock, heard, offer>>

----------------------------------------------------------------------------
PlanInit ==
    /\ host \in Hosts
    /\ phase = "detect" /\ plan = NoPlan /\ issues = {}
    /\ clock = 0 /\ heard = "nothing" /\ offer = FALSE /\ ack = FALSE

Probe == Receive \/ Tick \/ DeadlinePassed \/ ProbeFails

PlanNext == Observe \/ Probe \/ Conclude \/ Review

\* Detect runs, and the time passes.
PlanFairness ==
    /\ WF_planVars(Observe) /\ WF_planVars(Conclude)
    /\ WF_planVars(Tick) /\ WF_planVars(DeadlinePassed)
=============================================================================
