-------------------------- MODULE FirstBootProofs --------------------------
(***************************************************************************)
(* Theorems about Routes, Network and FirstBoot, for every set of hosts,   *)
(* addresses, ports and restarts: when a redundant DHCP route may be left  *)
(* out, what a DHCP plan rests on, what the script leaves on CHR, and how  *)
(* CHR forwards then.                                                      *)
(***************************************************************************)
EXTENDS FirstBoot, FiniteSetTheorems, SequenceTheorems, WellFoundedInduction, TLAPS

----------------------------------------------------------------------------
(* Routes *)

\* A set of numbers has a least one.
LEMMA SmallestNumber ==
    ASSUME NEW T \in SUBSET Nat, T # {}
    PROVE  \E x \in T : \A y \in T : x <= y
  <1>1. PICK x \in T : \A y \in T : ~(<<y, x>> \in OpToRel(<, Nat))
    BY NatLessThanWellFounded, WFMin
  <1>2. ASSUME NEW y \in T PROVE x <= y
    <2>1. ~(<<y, x>> \in OpToRel(<, Nat))
      BY <1>1
    <2>2. y \in Nat /\ x \in Nat
      OBVIOUS
    <2>3. ~(y < x)
      BY <2>1, <2>2 DEF OpToRel
    <2> QED BY <2>2, <2>3
  <1> QED BY <1>2

\* A set of prefixes has one that contains no other.
LEMMA SmallestPrefix ==
    ASSUME NEW T \in SUBSET (SUBSET Address), T # {}
    PROVE  \E p \in T : \A q \in T : q \subseteq p => q = p
  <1>0. IsFiniteSet(Address)
    BY NetworkAssumption
  <1>1. IsWellFoundedOn(StrictSubsetOrdering(Address), SUBSET Address)
    BY <1>0, FS_StrictSubsetOrderingWellFounded, FS_FiniteSubsetsOfFinite
  <1>2. PICK p \in T : \A q \in T : ~(<<q, p>> \in StrictSubsetOrdering(Address))
    BY <1>1, WFMin
  <1>3. ASSUME NEW q \in T, q \subseteq p PROVE q = p
    BY <1>2, <1>3 DEF StrictSubsetOrdering
  <1> QED BY <1>3

\* A table with a route for an address has a best one.
LEMMA SomeRouteIsBest ==
    ASSUME NEW routes, IsTable(routes),
           NEW a, Covering(routes, a) # {}
    PROVE  BestRoutes(routes, a) # {}
  <1> DEFINE C == Covering(routes, a)
  <1>1. \A r \in C : r \in routes /\ r.dst \subseteq Address /\ r.metric \in Nat
    BY DEF Covering, IsTable
  <1>2. {r.dst : r \in C} \in SUBSET (SUBSET Address) /\ {r.dst : r \in C} # {}
    BY <1>1
  <1>3. PICK p \in {r.dst : r \in C} : \A q \in {r.dst : r \in C} : q \subseteq p => q = p
    BY <1>2, SmallestPrefix
  <1> DEFINE B == {r \in C : r.dst = p}
  <1>4. {r.metric : r \in B} \in SUBSET Nat /\ {r.metric : r \in B} # {}
    BY <1>1, <1>3
  <1>5. PICK m \in {r.metric : r \in B} : \A n \in {r.metric : r \in B} : m <= n
    BY <1>4, SmallestNumber
  <1>6. PICK r \in B : r.metric = m
    BY <1>5
  <1>7. ASSUME NEW s \in C, Beats(s, r) PROVE FALSE
    <2>1. s.dst \subseteq p
      BY <1>6, <1>7 DEF Beats
    <2>2. s.dst = p
      BY <1>3, <2>1
    <2>3. s \in B /\ s.metric < r.metric
      BY <1>6, <1>7, <2>2 DEF Beats
    <2>4. r.metric <= s.metric
      BY <1>5, <1>6, <2>3
    <2>5. r.metric \in Nat /\ s.metric \in Nat
      BY <1>1, <1>6
    <2> QED BY <2>3, <2>4, <2>5
  <1> QED BY <1>6, <1>7 DEF BestRoutes

\* The best route is unique.
LEMMA BestIsUnique ==
    ASSUME NEW routes, IsTable(routes), NEW a,
           NEW r \in BestRoutes(routes, a), NEW s \in BestRoutes(routes, a)
    PROVE  r = s
  <1>1. /\ r \in routes /\ s \in routes /\ a \in r.dst /\ a \in s.dst
     /\ ~Beats(r, s) /\ ~Beats(s, r)
    BY DEF BestRoutes, Covering
  <1>2. r.dst \subseteq s.dst \/ s.dst \subseteq r.dst
    BY <1>1 DEF IsTable
  <1>3. r.dst = s.dst /\ ~(r.metric < s.metric) /\ ~(s.metric < r.metric)
    BY <1>1, <1>2 DEF Beats
  <1>4. r.metric \in Nat /\ s.metric \in Nat
    BY <1>1 DEF IsTable
  <1>5. r.metric = s.metric
    BY <1>3, <1>4
  <1> QED BY <1>1, <1>3, <1>5 DEF IsTable

\* detect.go:391: leaving out redundant DHCP routes changes the forwarding of no
\* address, whatever the table, provided no route that is kept, other than a
\* default, covers one of them.  d is the selected default.
THEOREM RedundantRoutesChangeNothing ==
    ASSUME NEW routes, IsTable(routes),
           NEW d \in Defaults(routes), \A e \in Defaults(routes) : d.metric <= e.metric,
           NEW dropped \in SUBSET routes,
           \A r \in dropped : IsRedundantDHCPRoute(r, d),
           \A r \in dropped, s \in routes \ dropped :
               r.dst \subseteq s.dst => IsDefaultRoute(s),
           NEW a \in Address
    PROVE  Forwarding(routes \ dropped, a) = Forwarding(routes, a)
  <1> DEFINE kept == routes \ dropped
  <1>1. d \in kept /\ a \in d.dst /\ d \in routes
    BY DEF Defaults, IsRedundantDHCPRoute, IsDefaultRoute
  <1>2. IsTable(kept)
    BY DEF IsTable
  <1>3. Covering(routes, a) # {} /\ Covering(kept, a) # {}
    BY <1>1 DEF Covering
  <1>4. PICK b \in BestRoutes(routes, a) : TRUE
    BY <1>3, SomeRouteIsBest
  <1>5. Forwarding(routes, a) = {ForwardingKey(b)}
    BY <1>4, BestIsUnique DEF Forwarding
  <1>6. b \in Covering(routes, a) /\ \A s \in Covering(routes, a) : ~Beats(s, b)
    BY <1>4 DEF BestRoutes
  <1>7. CASE b \notin dropped
    <2>1. b \in BestRoutes(kept, a)
      BY <1>6, <1>7 DEF BestRoutes, Covering
    <2>2. Forwarding(kept, a) = {ForwardingKey(b)}
      BY <1>2, <2>1, BestIsUnique DEF Forwarding
    <2> QED BY <1>5, <2>2
  <1>8. CASE b \in dropped
    <2>1. ForwardingKey(b) = ForwardingKey(d)
      BY <1>8 DEF IsRedundantDHCPRoute
    <2>2. ASSUME NEW s \in Covering(kept, a) PROVE IsDefaultRoute(s)
      <3>1. s \in kept /\ a \in s.dst /\ s \in Covering(routes, a)
        BY DEF Covering
      <3>2. b.dst \subseteq s.dst \/ s.dst \subseteq b.dst
        BY <1>6, <3>1 DEF IsTable, Covering
      <3>3. CASE b.dst \subseteq s.dst
        BY <1>8, <3>1, <3>3
      <3>4. CASE s.dst \subseteq b.dst
        \* A strict subset would beat b; an equal prefix contains b's.
        <4>1. s.dst = b.dst
          BY <1>6, <3>1, <3>4 DEF Beats
        <4> QED BY <1>8, <3>1, <4>1
      <3> QED BY <3>2, <3>3, <3>4
    <2>3. ASSUME NEW s \in Covering(kept, a) PROVE ~Beats(s, d)
      <3>1. s \in Defaults(routes) /\ s.dst = d.dst
        BY <2>2, <2>3 DEF Defaults, Covering, IsDefaultRoute
      <3>2. d.metric <= s.metric
        BY <3>1
      <3>3. d.metric \in Nat /\ s.metric \in Nat
        BY <3>1 DEF Defaults, IsTable
      <3>4. ~(s.metric < d.metric)
        BY <3>2, <3>3
      <3> QED BY <3>1, <3>4 DEF Beats
    <2>4. d \in BestRoutes(kept, a)
      BY <1>1, <2>3 DEF BestRoutes, Covering
    <2>5. Forwarding(kept, a) = {ForwardingKey(d)}
      BY <1>2, <2>4, BestIsUnique DEF Forwarding
    <2> QED BY <1>5, <2>1, <2>5
  <1> QED BY <1>7, <1>8

----------------------------------------------------------------------------
(* The plan: what Detect makes of a host, and what the form makes of it *)

Evidence == {"none", "verified", "inferred", "user"}
PlanType ==
    [IPv4 : [mode : {"dhcp", "static", "none", ""}, addresses : SUBSET (SUBSET Address),
             gw : Gateways, onlink : BOOLEAN, evidence : Evidence],
     IPv6 : [slaac : BOOLEAN, dhcp : BOOLEAN, addresses : SUBSET (SUBSET Address),
             gw : Gateways, onlink : BOOLEAN, evidence : Evidence],
     evidence : Evidence]

\* A host with a default route has one with the lowest metric.
LEMMA SelectDefaultIsDefault ==
    ASSUME NEW h \in HostType, NEW family \in Families, HasDefault(h, family)
    PROVE  /\ Default(h, family) \in Defaults(h.routes[family])
           /\ Default(h, family) \in Route
           /\ \A e \in Defaults(h.routes[family]) : Default(h, family).metric <= e.metric
  <1> DEFINE D == Defaults(h.routes[family])
  <1>1. D # {} /\ D \subseteq Route
    BY DEF HasDefault, HostType, Defaults
  <1>2. {d.metric : d \in D} \in SUBSET Nat /\ {d.metric : d \in D} # {}
    BY <1>1 DEF Route
  <1>3. PICK m \in {d.metric : d \in D} : \A n \in {d.metric : d \in D} : m <= n
    BY <1>2, SmallestNumber
  <1>4. \E d \in D : \A e \in D : d.metric <= e.metric
    BY <1>3
  <1> QED BY <1>1, <1>4 DEF Default, SelectDefault

LEMMA PrefixesAreSets ==
    ASSUME NEW h \in HostType, NEW family \in Families
    PROVE  Static(h, family) \subseteq SUBSET Address /\ Dynamic(h, family) \subseteq SUBSET Address
  BY DEF HostType, Static, Dynamic, PrefixesOf

LEMMA GatewayIsGateway ==
    ASSUME NEW h \in HostType, NEW family \in Families
    PROVE  Gateway(h, family) \in Gateways /\ GatewayOnLink(h, family) \in BOOLEAN
  BY SelectDefaultIsDefault DEF Gateway, GatewayOnLink, Route, Gateways

\* Detect: what is observed of a host makes a plan.
LEMMA ObservedPlan ==
    ASSUME NEW h \in HostType
    PROVE  [NoPlan EXCEPT !.IPv4 = IPv4Plan(h), !.IPv6 = IPv6Plan(h)] \in PlanType
  <1>1. /\ IPv4Plan(h).addresses \subseteq SUBSET Address
        /\ IPv6Plan(h).addresses \subseteq SUBSET Address
    BY PrefixesAreSets DEF IPv4Plan, IPv6Plan, Families
  <1>2. /\ IPv4Plan(h).gw \in Gateways /\ IPv4Plan(h).onlink \in BOOLEAN
        /\ IPv6Plan(h).gw \in Gateways /\ IPv6Plan(h).onlink \in BOOLEAN
    BY GatewayIsGateway DEF IPv4Plan, IPv6Plan, Families
  <1>3. /\ IPv4Mode(h) \in {"dhcp", "static", "none", ""}
        /\ IPv4Plan(h).evidence \in Evidence
    BY DEF IPv4Plan, IPv4Mode, Evidence
  <1>4. /\ IPv6Plan(h).slaac \in BOOLEAN /\ IPv6Plan(h).dhcp \in BOOLEAN
        /\ IPv6Plan(h).evidence \in Evidence
    BY DEF IPv6Plan, Evidence, HostType, Families
  <1>5. IPv4Plan(h) \in [mode : {"dhcp", "static", "none", ""}, addresses : SUBSET (SUBSET Address),
                         gw : Gateways, onlink : BOOLEAN, evidence : Evidence]
    BY <1>1, <1>2, <1>3 DEF IPv4Plan
  <1>6. IPv6Plan(h) \in [slaac : BOOLEAN, dhcp : BOOLEAN, addresses : SUBSET (SUBSET Address),
                         gw : Gateways, onlink : BOOLEAN, evidence : Evidence]
    BY <1>1, <1>2, <1>4 DEF IPv6Plan
  <1> QED BY <1>5, <1>6 DEF NoPlan, PlanType, Evidence

LEMMA NoPlanIsPlan == NoPlan \in PlanType
  BY DEF NoPlan, PlanType, Evidence, Gateways

\* The form makes a plan of a plan, whatever the user edits.
LEMMA FormMakesPlan ==
    ASSUME NEW p \in PlanType, NEW edit \in Edits
    PROVE  FromForm(p, edit) \in PlanType /\ WithEvidence(p, FromForm(p, edit)) \in PlanType
  <1>1. (CHOOSE g \in Address : g # p.IPv4.gw) \in Gateways
    BY NetworkAssumption DEF Gateways
  <1>2. Edited(p, edit) \in PlanType
    BY <1>1 DEF Edited, PlanType, Edits
  <1>3. FromForm(p, edit) \in PlanType
    BY <1>2, ZenonT(60) DEF FromForm, PlanType, Gateways
  <1>4. ASSUME NEW q \in PlanType PROVE WithEvidence(p, q) \in PlanType
    <2>1. ASSUME NEW e \in Evidence
          PROVE  [q EXCEPT !.evidence = e, !.IPv4.evidence = e, !.IPv6.evidence = e] \in PlanType
      BY DEF PlanType
    <2> QED BY <2>1 DEF WithEvidence, Evidence
  <1> QED BY <1>3, <1>4

----------------------------------------------------------------------------
(* Detection and review *)

BeforeReport == {"detect", "probe", "conclude"}
OnCHR == {"script", "applied", "aborted"}

\* host, plan, clock and the rest keep their types; an offer is an answer to the
\* probe's own discover.
NetworkInv ==
    /\ host \in HostType /\ plan \in PlanType
    /\ phase \in BeforeReport \cup {"reported", "accepted", "refused"} \cup OnCHR
    /\ clock \in 0..Timeout /\ heard \in Frames /\ offer \in BOOLEAN /\ ack \in BOOLEAN
    /\ offer => heard = "ours"

\* A verified plan is one whose DHCP is confirmed, and stays so through the review.
EvidenceInv ==
    /\ phase \in BeforeReport => plan.evidence = "none"
    /\ phase = "reported" /\ plan.evidence = "verified" /\ plan.IPv4.mode = "dhcp"
            => host.lease["IPv4"] \/ offer
    /\ phase = "accepted" => Valid(plan)
    /\ DHCPIsConfirmed

\* Conclude: a verified DHCP plan has a lease or an offer behind it.
LEMMA ConcludedPlan ==
    ASSUME NetworkInv, Conclude
    PROVE  /\ plan' \in PlanType
           /\ plan'.evidence = "verified" /\ plan'.IPv4.mode = "dhcp" => host.lease["IPv4"] \/ offer
  <1> DEFINE confirmed == host.lease["IPv4"] \/ offer
             dhcp == plan.IPv4.mode = "dhcp"
             v4 == IF dhcp /\ confirmed THEN "verified" ELSE plan.IPv4.evidence
             found == issues
               \cup (IF dhcp /\ ~confirmed THEN {"dhcp-unverified"} ELSE {})
               \cup (IF plan.IPv4.mode = "none" /\ host.addresses["IPv6"] = {}
                     THEN {"network"} ELSE {})
             e == IF v4 = "verified" /\ plan.IPv6.evidence = "verified" /\ found = {}
                  THEN "verified" ELSE "inferred"
  <1>1. plan' = [plan EXCEPT !.IPv4.evidence = v4, !.evidence = e]
    BY DEF Conclude
  <1>2. v4 \in Evidence /\ e \in Evidence /\ plan \in PlanType
    BY DEF NetworkInv, PlanType, Evidence
  <1>3. plan' \in PlanType /\ plan'.evidence = e /\ plan'.IPv4.mode = plan.IPv4.mode
    <2> HIDE DEF v4, e
    <2> QED BY <1>1, <1>2 DEF PlanType
  <1>4. ASSUME e = "verified", dhcp PROVE confirmed
    <2>1. found = {}
      BY <1>4
    <2> QED BY <1>4, <2>1
  <1> QED BY <1>3, <1>4

\* Review: what goes through without acknowledgement is the plan that was reported.
LEMMA ReviewedPlan ==
    ASSUME NetworkInv, EvidenceInv, Review
    PROVE  /\ plan' \in PlanType /\ phase' \in {"accepted", "refused"} /\ ack' \in BOOLEAN
           /\ phase' = "accepted" => Valid(plan)'
           /\ phase' = "accepted" /\ ~ack' => /\ plan' = plan /\ plan.evidence = "verified"
                                          /\ plan.IPv4.addresses # {}
  <1>1. CASE phase' = "refused" /\ UNCHANGED <<plan, ack>>
    BY <1>1 DEF NetworkInv
  <1>2. CASE \E edit \in Edits :
                LET q == FromForm(plan, edit)
                    r == WithEvidence(plan, q)
                IN  Valid(q) /\ plan' = r /\ phase' = "accepted" /\ ack' = (r.evidence # "verified")
    <2>1. PICK edit \in Edits :
             /\ Valid(FromForm(plan, edit)) /\ plan' = WithEvidence(plan, FromForm(plan, edit))
             /\ phase' = "accepted" /\ ack' = (plan'.evidence # "verified")
      BY <1>2
    <2>2. PICK q \in PlanType : Valid(q) /\ plan' = WithEvidence(plan, q) /\ q = FromForm(plan, edit)
      BY <2>1, FormMakesPlan DEF NetworkInv
    <2>3. plan' \in PlanType
      BY <2>1, FormMakesPlan DEF NetworkInv
    <2>4. /\ plan'.IPv4.mode = q.IPv4.mode /\ plan'.IPv4.addresses = q.IPv4.addresses
          /\ plan'.IPv4.gw = q.IPv4.gw /\ plan'.IPv6.slaac = q.IPv6.slaac
          /\ plan'.IPv6.dhcp = q.IPv6.dhcp /\ plan'.IPv6.addresses = q.IPv6.addresses
      BY <2>2 DEF WithEvidence, PlanType
    <2>5. Valid(plan)'
      BY <2>2, <2>4 DEF Valid
    <2>6. ASSUME ~ack' PROVE plan' = plan /\ plan.evidence = "verified" /\ plan.IPv4.addresses # {}
      <3>1. plan'.evidence = "verified"
        BY <2>1, <2>6
      <3>2. ~Changed(plan, q)
        BY <2>2, <3>1 DEF WithEvidence, PlanType
      <3> QED BY <2>2, <3>1, <3>2 DEF WithEvidence, Changed
    <2>7. ack' \in BOOLEAN
      BY <2>1
    <2> QED BY <2>1, <2>3, <2>5, <2>6, <2>7
  <1> QED BY <1>1, <1>2 DEF Review

\* Detection and review keep their part of the invariant.
LEMMA PlanSteps ==
    ASSUME NetworkInv, EvidenceInv, PlanNext
    PROVE  /\ NetworkInv' /\ EvidenceInv'
           /\ phase \in BeforeReport \cup {"reported"} /\ phase' \notin OnCHR
  <1>1. CASE Observe
    <2>1. plan' \in PlanType
      BY <1>1, ObservedPlan DEF Observe, NetworkInv
    <2>2. plan'.evidence = "none" \/ (plan' = plan /\ phase' = "reported")
      <3>1. ASSUME NEW v4, NEW v6
            PROVE  [NoPlan EXCEPT !.IPv4 = v4, !.IPv6 = v6].evidence = "none"
        BY DEF NoPlan
      <3> QED BY <1>1, <3>1 DEF Observe
    <2>3. plan'.evidence = "none"
      BY <1>1, <2>2 DEF Observe, EvidenceInv, BeforeReport
    <2> QED BY <1>1, <2>1, <2>3 DEF Observe, NetworkInv, EvidenceInv, BeforeReport, OnCHR, DHCPIsConfirmed
  <1>2. CASE Receive
    <2>1. UNCHANGED <<host, plan, issues, ack>> /\ heard' \in Frames /\ (offer' => heard' = "ours")
      BY <1>2 DEF Receive, ParseDHCPOffer
    <2>2. offer' \in BOOLEAN /\ clock' \in 0..Timeout /\ phase = "probe" /\ phase' \in {"probe", "conclude"}
      BY <1>2, NetworkAssumption DEF Receive, ParseDHCPOffer, NetworkInv
    <2> QED BY <2>1, <2>2 DEF NetworkInv, EvidenceInv, BeforeReport, OnCHR, DHCPIsConfirmed
  <1>3. CASE Tick \/ DeadlinePassed \/ ProbeFails
    <2>1. UNCHANGED <<host, plan, issues, heard, offer, ack>>
      BY <1>3 DEF Tick, DeadlinePassed, ProbeFails, detection
    <2>2. clock' \in 0..Timeout /\ phase = "probe" /\ phase' \in {"probe", "conclude"}
      BY <1>3, NetworkAssumption DEF Tick, DeadlinePassed, ProbeFails, detection, NetworkInv
    <2> QED BY <2>1, <2>2 DEF NetworkInv, EvidenceInv, BeforeReport, OnCHR, DHCPIsConfirmed
  <1>4. CASE Conclude
    <2>1. phase = "conclude" /\ phase' = "reported" /\ UNCHANGED <<host, clock, heard, offer, ack>>
      BY <1>4 DEF Conclude
    <2> QED BY <1>4, <2>1, ConcludedPlan DEF NetworkInv, EvidenceInv, BeforeReport, OnCHR, DHCPIsConfirmed
  <1>5. CASE Review
    <2>1. phase = "reported" /\ UNCHANGED <<host, issues, clock, heard, offer>>
      BY <1>5 DEF Review
    <2> QED BY <1>5, <2>1, ReviewedPlan DEF NetworkInv, EvidenceInv, BeforeReport, OnCHR, DHCPIsConfirmed
  <1> QED BY <1>1, <1>2, <1>3, <1>4, <1>5 DEF PlanNext, Probe

----------------------------------------------------------------------------
(* The commands of a script *)

Args == {0} \cup BOOLEAN \cup (SUBSET Address) \cup ScriptRoutes
Ops == {"findUplink", "removeClients", "removeAddresses", "removeMarkedRoutes",
        "removeStaticDefaults", "addClient", "addAddress", "addRoute",
        "acceptAdvertisements"}
Commands == [op : Ops, family : Families, arg : Args]

\* The commands of L are for one family, use the operations ops, and each occurs
\* once.  They add the clients C (0, or none), the prefixes P and the routes T, and
\* set the acceptance of advertisements to an element of R.
Adds(L, family, ops, C, P, R, T) ==
    /\ L \in Seq(Commands)
    /\ \A i \in 1..Len(L) :
          /\ L[i].family = family /\ L[i].op \in ops
          /\ L[i].op = "addClient" => L[i].arg \in C
          /\ L[i].op = "addAddress" => L[i].arg \in P
          /\ L[i].op = "acceptAdvertisements" => L[i].arg \in R
          /\ L[i].op = "addRoute" => L[i].arg \in ScriptRoutes /\ L[i].arg \in T
    /\ \A i, j \in 1..Len(L) : L[i] = L[j] => i = j
    /\ \A c \in C : \E i \in 1..Len(L) : L[i] = Command("addClient", family, c)
    /\ \A q \in P : \E i \in 1..Len(L) : L[i] = Command("addAddress", family, q)
    /\ \A b \in R : \E i \in 1..Len(L) : L[i] = Command("acceptAdvertisements", family, b)
    /\ \A t \in T : \E i \in 1..Len(L) : L[i] = Command("addRoute", family, t)

LEMMA CommandsType ==
    ASSUME NEW family \in Families
    PROVE  /\ Command("addClient", family, 0) \in Commands
           /\ \A b \in BOOLEAN : Command("acceptAdvertisements", family, b) \in Commands
           /\ \A q \in SUBSET Address : Command("addAddress", family, q) \in Commands
           /\ \A r \in ScriptRoutes : Command("addRoute", family, r) \in Commands
  <1>1. \A r : r \in ScriptRoutes => r \in Args
    BY Zenon DEF Args
  <1>2. 0 \in Args
    BY DEF Args
  <1>3. BOOLEAN \subseteq Args
    BY Zenon DEF Args
  <1>4. SUBSET Address \subseteq Args
    BY Zenon DEF Args
  <1>5. \A op \in Ops, arg \in Args : Command(op, family, arg) \in Commands
    BY DEF Command, Commands
  <1>6. {"addClient", "acceptAdvertisements", "addAddress", "addRoute"} \subseteq Ops
    BY DEF Ops
  <1> QED BY <1>1, <1>2, <1>3, <1>4, <1>5, <1>6, Zenon

LEMMA CommandFields ==
    ASSUME NEW op, NEW family, NEW arg, NEW c, c = Command(op, family, arg)
    PROVE  c.op = op /\ c.family = family /\ c.arg = arg
  BY DEF Command

\* A sequence that lists a finite set, each element once.
LEMMA ListedOnce ==
    ASSUME NEW P, IsFiniteSet(P)
    PROVE  /\ SetToSeq(P) \in Seq(P)
           /\ \A i, j \in 1..Len(SetToSeq(P)) : SetToSeq(P)[i] = SetToSeq(P)[j] => i = j
           /\ \A q \in P : \E i \in 1..Len(SetToSeq(P)) : SetToSeq(P)[i] = q
  <1> DEFINE n == Cardinality(P)
  <1>1. n \in Nat /\ \E f : f \in Bijection(1..n, P)
    BY FS_CardinalityType DEF ExistsBijection
  <1>2. \E f \in [1..n -> P] : IsInjective(f)
    BY <1>1 DEF Bijection, Injection, IsInjective
  <1> DEFINE f == SetToSeq(P)
  <1>3. f \in [1..n -> P] /\ IsInjective(f)
    BY <1>2 DEF SetToSeq
  <1> HIDE DEF f
  <1>4. f \in Seq(P) /\ Len(f) = n
    BY <1>1, <1>3
  <1>5. \A i, j \in 1..n : f[i] = f[j] => i = j
    BY <1>3 DEF IsInjective
  <1>6. \A q \in P : \E i \in 1..n : f[i] = q
    <2> DEFINE R == {f[i] : i \in 1..n}
    <2>1. R \subseteq P
      BY <1>3
    <2>2. f \in Bijection(1..n, R)
      BY <1>3, <1>5 DEF Bijection, Injection, Surjection, IsInjective
    <2>3. Cardinality(R) = n
      <3>1. IsFiniteSet(1..n) /\ Cardinality(1..n) = n
        BY <1>1, FS_Interval
      <3> QED BY <2>2, <3>1, FS_Bijection DEF ExistsBijection
    <2>4. R = P
      BY <2>1, <2>3, FS_Subset
    <2> QED BY <2>4
  <1> QED BY <1>4, <1>5, <1>6 DEF f

LEMMA PrefixesAreFinite ==
    ASSUME NEW P \in SUBSET (SUBSET Address)
    PROVE  IsFiniteSet(P)
  <1>1. IsFiniteSet(Address)
    BY NetworkAssumption
  <1>2. IsFiniteSet(SUBSET Address)
    BY <1>1, FS_SUBSET
  <1> QED BY <1>2, FS_Subset

\* Commands for the addresses of a set: one for each.
LEMMA ListOfAddresses ==
    ASSUME NEW family \in Families, NEW P, NEW s \in Seq(P),
           \A i, j \in 1..Len(s) : s[i] = s[j] => i = j,
           \A q \in P : \E i \in 1..Len(s) : s[i] = q,
           \A q \in P : Command("addAddress", family, q) \in Commands,
           NEW L, L = [i \in 1..Len(s) |-> Command("addAddress", family, s[i])]
    PROVE  Adds(L, family, {"addAddress"}, {}, P, {}, {})
  <1>1. Len(s) \in Nat /\ \A i \in 1..Len(s) : s[i] \in P
    OBVIOUS
  <1>2. L \in [1..Len(s) -> Commands]
    BY <1>1
  <1>3. L \in Seq(Commands) /\ Len(L) = Len(s)
    BY <1>1, <1>2
  <1>4. \A i \in 1..Len(L) : L[i] = Command("addAddress", family, s[i])
    BY <1>3
  <1>5. \A i \in 1..Len(L) : L[i].op = "addAddress" /\ L[i].family = family /\ L[i].arg = s[i]
    BY <1>4 DEF Command
  <1>6. \A i, j \in 1..Len(L) : L[i] = L[j] => i = j
    <2> SUFFICES ASSUME NEW i \in 1..Len(L), NEW j \in 1..Len(L), L[i] = L[j] PROVE i = j
      OBVIOUS
    <2>1. i \in 1..Len(s) /\ j \in 1..Len(s)
      BY <1>3
    <2>2. L[i].arg = s[i] /\ L[j].arg = s[j]
      BY <1>5
    <2>3. s[i] = s[j]
      BY <2>2
    <2> QED BY <2>1, <2>3
  <1> QED BY <1>1, <1>3, <1>4, <1>5, <1>6 DEF Adds

\* AddAddresses.
LEMMA AddAddressesAdds ==
    ASSUME NEW family \in Families, NEW P \in SUBSET (SUBSET Address)
    PROVE  Adds(AddAddresses(family, P), family, {"addAddress"}, {}, P, {}, {})
  <1>1. PICK s \in Seq(P) : /\ \A i, j \in 1..Len(s) : s[i] = s[j] => i = j
                            /\ \A q \in P : \E i \in 1..Len(s) : s[i] = q
                            /\ s = SetToSeq(P)
    BY ListedOnce, PrefixesAreFinite
  <1>2. AddAddresses(family, P) = [i \in 1..Len(s) |-> Command("addAddress", family, s[i])]
    BY <1>1 DEF AddAddresses
  <1>3. \A q \in P : Command("addAddress", family, q) \in Commands
    BY CommandsType
  <1> QED BY <1>1, <1>2, <1>3, ListOfAddresses

\* The routes of a default route.
DefaultRoutes(gw, onlink) ==
    IF onlink THEN {OnLinkRoute(gw), DefaultRoute(gw, 11)} ELSE {DefaultRoute(gw, 10)}

LEMMA DefaultRoutesAreScriptRoutes ==
    ASSUME NEW gw \in Gateways
    PROVE  /\ DefaultRoute(gw, 10) \in ScriptRoutes /\ DefaultRoute(gw, 11) \in ScriptRoutes
           /\ OnLinkRoute(gw) \in ScriptRoutes
           /\ OnLinkRoute(gw).dst = {gw} /\ {gw} # Address
           /\ \A t \in {10, 11} : DefaultRoute(gw, t).dst = Address /\ DefaultRoute(gw, t).gw = gw
  <1>1. {gw} # Address
    BY NetworkAssumption
  <1> QED BY <1>1 DEF DefaultRoute, OnLinkRoute, ScriptRoutes, Gateways

\* One or two commands that add routes.
LEMMA RoutesAdd ==
    ASSUME NEW family \in Families, NEW L, NEW A \in Commands, NEW C \in Commands,
           A.op = "addRoute", A.family = family, A.arg \in ScriptRoutes,
           C.op = "addRoute", C.family = family, C.arg \in ScriptRoutes, C.arg # A.arg,
           A = Command("addRoute", family, A.arg), C = Command("addRoute", family, C.arg)
    PROVE  /\ L = <<A>> => Adds(L, family, {"addRoute"}, {}, {}, {}, {A.arg})
           /\ L = <<C, A>> => Adds(L, family, {"addRoute"}, {}, {}, {}, {C.arg, A.arg})
  <1>1. ASSUME L = <<A>> PROVE Adds(L, family, {"addRoute"}, {}, {}, {}, {A.arg})
    <2>1. L \in Seq(Commands) /\ Len(L) = 1 /\ L[1] = A
      BY <1>1
    <2> QED BY <2>1 DEF Adds
  <1>2. ASSUME L = <<C, A>> PROVE Adds(L, family, {"addRoute"}, {}, {}, {}, {C.arg, A.arg})
    <2>1. L \in Seq(Commands) /\ Len(L) = 2 /\ L[1] = C /\ L[2] = A
      BY <1>2
    <2>2. A # C
      OBVIOUS
    <2>3. 1 \in 1..Len(L) /\ 2 \in 1..Len(L)
      BY <2>1
    <2> QED BY <2>1, <2>2, <2>3 DEF Adds
  <1> QED BY <1>1, <1>2

\* AddDefault.
LEMMA AddDefaultAdds ==
    ASSUME NEW family \in Families, NEW gw \in Gateways, NEW onlink \in BOOLEAN
    PROVE  Adds(AddDefault(family, gw, onlink), family, {"addRoute"}, {}, {}, {},
                DefaultRoutes(gw, onlink))
  <1>1. /\ DefaultRoute(gw, 10) \in ScriptRoutes /\ DefaultRoute(gw, 11) \in ScriptRoutes
        /\ OnLinkRoute(gw) \in ScriptRoutes
    BY DEF DefaultRoute, OnLinkRoute, ScriptRoutes, Gateways
  <1>2. OnLinkRoute(gw) # DefaultRoute(gw, 11) /\ OnLinkRoute(gw) # DefaultRoute(gw, 10)
    BY DefaultRoutesAreScriptRoutes
  <1>4. PICK route \in ScriptRoutes :
           route = IF onlink THEN DefaultRoute(gw, 11) ELSE DefaultRoute(gw, 10)
    BY <1>1
  <1>5. PICK A \in Commands : A = Command("addRoute", family, route)
    BY CommandsType
  <1>6. PICK C \in Commands : C = Command("addRoute", family, OnLinkRoute(gw))
    BY <1>1, CommandsType
  <1>7. A.op = "addRoute" /\ A.family = family /\ A.arg = route
    BY <1>5, CommandFields
  <1>8. C.op = "addRoute" /\ C.family = family /\ C.arg = OnLinkRoute(gw)
    BY <1>6, CommandFields
  <1>9. PICK L : L = AddDefault(family, gw, onlink)
    OBVIOUS
  <1>10. /\ L = <<A>> => Adds(L, family, {"addRoute"}, {}, {}, {}, {route})
         /\ L = <<C, A>> => Adds(L, family, {"addRoute"}, {}, {}, {}, {OnLinkRoute(gw), route})
    BY <1>1, <1>2, <1>4, <1>5, <1>6, <1>7, <1>8, RoutesAdd
  <1>11. L = IF onlink THEN <<C, A>> ELSE <<A>>
    BY <1>4, <1>5, <1>6, <1>9 DEF AddDefault
  <1>12. DefaultRoutes(gw, onlink) = IF onlink THEN {OnLinkRoute(gw), route} ELSE {route}
    BY <1>4 DEF DefaultRoutes
  <1> QED BY <1>9, <1>10, <1>11, <1>12

LEMMA NothingAdds ==
    ASSUME NEW family
    PROVE  Adds(<<>>, family, {}, {}, {}, {}, {})
  <1>1. <<>> \in Seq(Commands) /\ Len(<<>>) = 0
    OBVIOUS
  <1>2. \A i \in 1..Len(<<>>) : FALSE
    BY <1>1
  <1> QED BY <1>1, <1>2 DEF Adds

LEMMA ClientAdds ==
    ASSUME NEW family \in Families
    PROVE  Adds(<<Command("addClient", family, 0)>>, family, {"addClient"}, {0}, {}, {}, {})
  <1>1. PICK A \in Commands : A = Command("addClient", family, 0)
    BY CommandsType
  <1>2. A.op = "addClient" /\ A.family = family /\ A.arg = 0
    BY <1>1, CommandFields
  <1>3. <<A>> \in Seq(Commands) /\ Len(<<A>>) = 1 /\ <<A>>[1] = A
    OBVIOUS
  <1>4. Adds(<<A>>, family, {"addClient"}, {0}, {}, {}, {})
    BY <1>1, <1>2, <1>3 DEF Adds
  <1> QED BY <1>1, <1>4

LEMMA AcceptAdds ==
    ASSUME NEW family \in Families, NEW b, Command("acceptAdvertisements", family, b) \in Commands
    PROVE  Adds(<<Command("acceptAdvertisements", family, b)>>, family, {"acceptAdvertisements"},
                {}, {}, {b}, {})
  <1>1. PICK A \in Commands : A = Command("acceptAdvertisements", family, b)
    OBVIOUS
  <1>2. A.op = "acceptAdvertisements" /\ A.family = family /\ A.arg = b
    BY <1>1, CommandFields
  <1>3. <<A>> \in Seq(Commands) /\ Len(<<A>>) = 1 /\ <<A>>[1] = A
    OBVIOUS
  <1>4. Adds(<<A>>, family, {"acceptAdvertisements"}, {}, {}, {b}, {})
    BY <1>1, <1>2, <1>3 DEF Adds
  <1> QED BY <1>1, <1>4

\* Lists with different operations add together what each adds.
LEMMA JoinAdds ==
    ASSUME NEW family, NEW L, NEW ops1, NEW C1, NEW P1, NEW R1, NEW T1,
           NEW M, NEW ops2, NEW C2, NEW P2, NEW R2, NEW T2,
           Adds(L, family, ops1, C1, P1, R1, T1), Adds(M, family, ops2, C2, P2, R2, T2),
           \A op \in ops1 : op \notin ops2
    PROVE  Adds(L \o M, family, ops1 \cup ops2, C1 \cup C2, P1 \cup P2, R1 \cup R2, T1 \cup T2)
  <1> DEFINE N == L \o M
  <1>1. /\ L \in Seq(Commands) /\ M \in Seq(Commands)
        /\ Len(L) \in Nat /\ Len(M) \in Nat
    BY DEF Adds
  <1>2. N \in Seq(Commands) /\ Len(N) = Len(L) + Len(M)
    BY <1>1
  <1>3. /\ \A i \in 1..Len(L) : i \in 1..Len(N) /\ N[i] = L[i]
        /\ \A i \in 1..Len(M) : Len(L) + i \in 1..Len(N) /\ N[Len(L) + i] = M[i]
    BY <1>1
  <1>4. ASSUME NEW i \in 1..Len(N)
        PROVE  \/ i \in 1..Len(L) /\ N[i] = L[i]
               \/ i - Len(L) \in 1..Len(M) /\ N[i] = M[i - Len(L)]
    BY <1>1
  <1> HIDE DEF N
  <1>5a. /\ \A i, j \in 1..Len(L) : L[i] = L[j] => i = j
         /\ \A i, j \in 1..Len(M) : M[i] = M[j] => i = j
    BY DEF Adds
  <1>5. ASSUME NEW i \in 1..Len(N), NEW j \in 1..Len(N), N[i] = N[j]
        PROVE  i = j
    <2>1. CASE i \in 1..Len(L) /\ N[i] = L[i]
      <3>1. N[i].op \in ops1
        BY <2>1 DEF Adds
      <3>2. ~(j - Len(L) \in 1..Len(M) /\ N[j] = M[j - Len(L)])
        BY <1>5, <3>1 DEF Adds
      <3>3. j \in 1..Len(L) /\ N[j] = L[j]
        BY <1>4, <3>2
      <3> QED BY <1>5, <1>5a, <2>1, <3>3
    <2>2. CASE i - Len(L) \in 1..Len(M) /\ N[i] = M[i - Len(L)]
      <3>1. N[i].op \in ops2
        BY <2>2 DEF Adds
      <3>2. ~(j \in 1..Len(L) /\ N[j] = L[j])
        BY <1>5, <3>1 DEF Adds
      <3>3. j - Len(L) \in 1..Len(M) /\ N[j] = M[j - Len(L)]
        BY <1>4, <3>2
      <3>4. i - Len(L) = j - Len(L)
        BY <1>5, <1>5a, <2>2, <3>3
      <3> QED BY <1>1, <1>2, <3>4
    <2> QED BY <1>4, <2>1, <2>2
  <1>6. ASSUME NEW i \in 1..Len(N)
        PROVE  /\ N[i].family = family /\ N[i].op \in ops1 \cup ops2
               /\ N[i].op = "addClient" => N[i].arg \in C1 \cup C2
               /\ N[i].op = "addAddress" => N[i].arg \in P1 \cup P2
               /\ N[i].op = "acceptAdvertisements" => N[i].arg \in R1 \cup R2
               /\ N[i].op = "addRoute" => N[i].arg \in ScriptRoutes /\ N[i].arg \in T1 \cup T2
    BY <1>4, SMTT(30) DEF Adds
  <1>7. ASSUME NEW c \in C1 \cup C2
        PROVE  \E i \in 1..Len(N) : N[i] = Command("addClient", family, c)
    <2>1. \/ \E i \in 1..Len(L) : L[i] = Command("addClient", family, c)
          \/ \E i \in 1..Len(M) : M[i] = Command("addClient", family, c)
      BY DEF Adds
    <2> QED BY <1>3, <2>1
  <1>8. ASSUME NEW q \in P1 \cup P2
        PROVE  \E i \in 1..Len(N) : N[i] = Command("addAddress", family, q)
    <2>1. \/ \E i \in 1..Len(L) : L[i] = Command("addAddress", family, q)
          \/ \E i \in 1..Len(M) : M[i] = Command("addAddress", family, q)
      BY DEF Adds
    <2> QED BY <1>3, <2>1
  <1>9. ASSUME NEW b \in R1 \cup R2
        PROVE  \E i \in 1..Len(N) : N[i] = Command("acceptAdvertisements", family, b)
    <2>1. \/ \E i \in 1..Len(L) : L[i] = Command("acceptAdvertisements", family, b)
          \/ \E i \in 1..Len(M) : M[i] = Command("acceptAdvertisements", family, b)
      BY DEF Adds
    <2> QED BY <1>3, <2>1
  <1>10. ASSUME NEW t \in T1 \cup T2
         PROVE  \E i \in 1..Len(N) : N[i] = Command("addRoute", family, t)
    <2>1. \/ \E i \in 1..Len(L) : L[i] = Command("addRoute", family, t)
          \/ \E i \in 1..Len(M) : M[i] = Command("addRoute", family, t)
      BY DEF Adds
    <2> QED BY <1>3, <2>1
  <1> QED BY <1>2, <1>5, <1>6, <1>7, <1>8, <1>9, <1>10 DEF Adds, N

AddOps == {"addClient", "addAddress", "addRoute", "acceptAdvertisements"}

\* What a plan asks for.
ClientsOf(p, family) ==
    IF IF family = "IPv4" THEN p.IPv4.mode = "dhcp" ELSE p.IPv6.dhcp THEN {0} ELSE {}
AddressesOf(p, family) ==
    IF family = "IPv6" THEN p.IPv6.addresses
    ELSE IF p.IPv4.mode = "static" THEN p.IPv4.addresses ELSE {}
AcceptanceOf(p, family) == IF family = "IPv6" THEN {p.IPv6.slaac} ELSE {}
RoutesOf(p, family) ==
    IF family = "IPv6"
    THEN IF p.IPv6.gw = NoGateway THEN {}
         ELSE DefaultRoutes(p.IPv6.gw, p.IPv6.onlink /\ p.IPv6.gw # LinkLocal)
    ELSE IF p.IPv4.mode = "static" THEN DefaultRoutes(p.IPv4.gw, p.IPv4.onlink) ELSE {}

\* L adds what p asks for in one family.
AddsPlan(L, family, p) ==
    Adds(L, family, AddOps, ClientsOf(p, family), AddressesOf(p, family),
         AcceptanceOf(p, family), RoutesOf(p, family))

\* Equal sets may stand for one another in Adds.
LEMMA SameAdds ==
    ASSUME NEW L, NEW family, NEW ops, NEW C, NEW P, NEW R, NEW T,
           Adds(L, family, ops, C, P, R, T),
           NEW ops2, \A op \in ops : op \in ops2, NEW C2, C = C2, NEW P2, P = P2,
           NEW R2, R = R2, NEW T2, T = T2
    PROVE  Adds(L, family, ops2, C2, P2, R2, T2)
  BY DEF Adds

\* IPv4Commands.
LEMMA IPv4Adds ==
    ASSUME NEW p \in PlanType, Valid(p)
    PROVE  AddsPlan(IPv4Commands(p.IPv4), "IPv4", p)
  <1> DEFINE L == IPv4Commands(p.IPv4)
  <1>0. "IPv4" \in Families /\ "IPv4" # "IPv6"
    BY DEF Families
  <1>1. CASE p.IPv4.mode = "dhcp"
    <2>1. L = <<Command("addClient", "IPv4", 0)>>
      BY <1>1 DEF IPv4Commands
    <2>2. Adds(L, "IPv4", {"addClient"}, {0}, {}, {}, {})
      BY <1>0, <2>1, ClientAdds
    <2>3. /\ ClientsOf(p, "IPv4") = {0} /\ AddressesOf(p, "IPv4") = {}
          /\ AcceptanceOf(p, "IPv4") = {} /\ RoutesOf(p, "IPv4") = {}
      BY <1>0, <1>1 DEF ClientsOf, AddressesOf, AcceptanceOf, RoutesOf
    <2> HIDE DEF L
    <2> QED BY <2>2, <2>3, SameAdds DEF AddsPlan, AddOps, L
  <1>2. CASE p.IPv4.mode = "static"
    <2> DEFINE A == AddAddresses("IPv4", p.IPv4.addresses)
               D == AddDefault("IPv4", p.IPv4.gw, p.IPv4.onlink)
    <2>1. L = A \o D
      BY <1>2 DEF IPv4Commands
    <2>2. Adds(A, "IPv4", {"addAddress"}, {}, p.IPv4.addresses, {}, {})
      BY <1>0, AddAddressesAdds DEF PlanType
    <2>3. Adds(D, "IPv4", {"addRoute"}, {}, {}, {}, DefaultRoutes(p.IPv4.gw, p.IPv4.onlink))
      BY <1>0, AddDefaultAdds DEF PlanType
    <2> HIDE DEF A, D
    <2>4. Adds(A \o D, "IPv4", {"addAddress"} \cup {"addRoute"}, {} \cup {}, p.IPv4.addresses \cup {},
               {} \cup {}, {} \cup DefaultRoutes(p.IPv4.gw, p.IPv4.onlink))
      BY <2>2, <2>3, JoinAdds
    <2>5. /\ ClientsOf(p, "IPv4") = {} \cup {}
          /\ AddressesOf(p, "IPv4") = p.IPv4.addresses \cup {}
          /\ AcceptanceOf(p, "IPv4") = {} \cup {}
          /\ RoutesOf(p, "IPv4") = {} \cup DefaultRoutes(p.IPv4.gw, p.IPv4.onlink)
      BY <1>0, <1>2 DEF ClientsOf, AddressesOf, AcceptanceOf, RoutesOf
    <2>6. \A op \in {"addAddress"} \cup {"addRoute"} : op \in AddOps
      BY DEF AddOps
    <2>7. Adds(A \o D, "IPv4", AddOps, ClientsOf(p, "IPv4"), AddressesOf(p, "IPv4"),
               AcceptanceOf(p, "IPv4"), RoutesOf(p, "IPv4"))
      BY <2>4, <2>5, <2>6, SameAdds
    <2> QED BY <2>1, <2>7 DEF AddsPlan
  <1>3. CASE p.IPv4.mode = "none"
    <2>1. L = <<>>
      BY <1>3 DEF IPv4Commands
    <2>2. Adds(L, "IPv4", {}, {}, {}, {}, {})
      BY <2>1, NothingAdds
    <2>3. /\ ClientsOf(p, "IPv4") = {} /\ AddressesOf(p, "IPv4") = {}
          /\ AcceptanceOf(p, "IPv4") = {} /\ RoutesOf(p, "IPv4") = {}
      BY <1>0, <1>3 DEF ClientsOf, AddressesOf, AcceptanceOf, RoutesOf
    <2> HIDE DEF L
    <2> QED BY <2>2, <2>3, SameAdds DEF AddsPlan, L
  <1> QED BY <1>1, <1>2, <1>3 DEF Valid

\* IPv6Commands.
LEMMA IPv6Adds ==
    ASSUME NEW p \in PlanType
    PROVE  AddsPlan(IPv6Commands(p.IPv6), "IPv6", p)
  <1> DEFINE L == IPv6Commands(p.IPv6)
             B == <<Command("acceptAdvertisements", "IPv6", p.IPv6.slaac)>>
             C == IF p.IPv6.dhcp THEN <<Command("addClient", "IPv6", 0)>> ELSE <<>>
             A == AddAddresses("IPv6", p.IPv6.addresses)
             D == IF p.IPv6.gw = NoGateway THEN <<>>
                  ELSE AddDefault("IPv6", p.IPv6.gw, p.IPv6.onlink /\ p.IPv6.gw # LinkLocal)
  <1>0. "IPv6" \in Families /\ "IPv6" # "IPv4"
    BY DEF Families
  <1>1. L = B \o C \o A \o D
    BY DEF IPv6Commands
  <1>2. Adds(B, "IPv6", {"acceptAdvertisements"}, {}, {}, {p.IPv6.slaac}, {})
    <2>1. p.IPv6.slaac \in BOOLEAN
      BY DEF PlanType
    <2>2. Command("acceptAdvertisements", "IPv6", p.IPv6.slaac) \in Commands
      BY <1>0, <2>1, CommandsType, Zenon
    <2> QED BY <1>0, <2>2, AcceptAdds, Zenon
  <1>3. Adds(C, "IPv6", {"addClient"}, ClientsOf(p, "IPv6"), {}, {}, {})
    <2>1. CASE p.IPv6.dhcp
      <3>1. ClientsOf(p, "IPv6") = {0} /\ C = <<Command("addClient", "IPv6", 0)>>
        BY <1>0, <2>1 DEF ClientsOf
      <3> QED BY <1>0, <3>1, ClientAdds
    <2>2. CASE ~p.IPv6.dhcp
      <3>1. ClientsOf(p, "IPv6") = {} /\ C = <<>>
        BY <1>0, <2>2 DEF ClientsOf
      <3>2. Adds(<<>>, "IPv6", {}, {}, {}, {}, {})
        BY NothingAdds
      <3> HIDE DEF C
      <3> QED BY <3>1, <3>2, SameAdds
    <2> QED BY <2>1, <2>2
  <1>4. Adds(A, "IPv6", {"addAddress"}, {}, p.IPv6.addresses, {}, {})
    BY <1>0, AddAddressesAdds DEF PlanType
  <1>5. Adds(D, "IPv6", {"addRoute"}, {}, {}, {}, RoutesOf(p, "IPv6"))
    <2>1. CASE p.IPv6.gw = NoGateway
      <3>1. {} = RoutesOf(p, "IPv6") /\ D = <<>>
        BY <2>1 DEF RoutesOf
      <3>2. Adds(<<>>, "IPv6", {}, {}, {}, {}, {})
        BY NothingAdds
      <3> HIDE DEF D
      <3> QED BY <3>1, <3>2, SameAdds, ZenonT(60)
    <2>2. CASE p.IPv6.gw # NoGateway
      <3>1. PICK onlink \in BOOLEAN : onlink = (p.IPv6.onlink /\ p.IPv6.gw # LinkLocal)
        BY Zenon
      <3>2. D = AddDefault("IPv6", p.IPv6.gw, onlink)
        BY <2>2, <3>1
      <3>3. RoutesOf(p, "IPv6") = DefaultRoutes(p.IPv6.gw, onlink)
        BY <2>2, <3>1 DEF RoutesOf
      <3>4. p.IPv6.gw \in Gateways
        BY DEF PlanType
      <3> HIDE DEF D
      <3> QED BY <1>0, <3>2, <3>3, <3>4, AddDefaultAdds
    <2> QED BY <2>1, <2>2
  <1> HIDE DEF A, B, C, D, L
  <1> DEFINE routes == RoutesOf(p, "IPv6")
             ra == {p.IPv6.slaac}
  <1>6. Adds(B \o C, "IPv6", {"acceptAdvertisements"} \cup {"addClient"}, {} \cup ClientsOf(p, "IPv6"),
             {} \cup {}, ra \cup {}, {} \cup {})
    BY <1>2, <1>3, JoinAdds
  <1>7. Adds(B \o C, "IPv6", {"acceptAdvertisements", "addClient"}, ClientsOf(p, "IPv6"), {}, ra, {})
    BY <1>6, SameAdds
  <1>8. Adds(B \o C \o A, "IPv6", {"acceptAdvertisements", "addClient"} \cup {"addAddress"},
             ClientsOf(p, "IPv6") \cup {}, {} \cup p.IPv6.addresses, ra \cup {}, {} \cup {})
    BY <1>4, <1>7, JoinAdds
  <1>9. Adds(B \o C \o A, "IPv6", {"acceptAdvertisements", "addClient", "addAddress"},
             ClientsOf(p, "IPv6"), p.IPv6.addresses, ra, {})
    BY <1>8, SameAdds
  <1>10. Adds(B \o C \o A \o D, "IPv6", {"acceptAdvertisements", "addClient", "addAddress"} \cup {"addRoute"},
             ClientsOf(p, "IPv6") \cup {}, p.IPv6.addresses \cup {}, ra \cup {}, {} \cup routes)
    BY <1>5, <1>9, JoinAdds
  <1>11. /\ AddressesOf(p, "IPv6") = p.IPv6.addresses
         /\ AcceptanceOf(p, "IPv6") = ra
    BY <1>0 DEF AddressesOf, AcceptanceOf
  <1>12. Adds(L, "IPv6", AddOps, ClientsOf(p, "IPv6"), p.IPv6.addresses, ra, routes)
    BY <1>1, <1>10, SameAdds DEF AddOps
  <1> QED BY <1>11, <1>12 DEF AddsPlan, L

\* A script starts with the search for the uplink and the removals, and goes on
\* with what the plan asks for, each command once.
Shape(S, p) ==
    /\ S \in Seq(Commands) /\ Len(S) \in Nat /\ Len(S) >= 9
    /\ S[1] = Command("findUplink", "IPv4", 0)
    /\ S[2] = Command("removeClients", "IPv4", 0) /\ S[6] = Command("removeClients", "IPv6", 0)
    /\ S[3] = Command("removeAddresses", "IPv4", 0) /\ S[7] = Command("removeAddresses", "IPv6", 0)
    /\ S[4] = Command("removeMarkedRoutes", "IPv4", 0)
    /\ S[8] = Command("removeMarkedRoutes", "IPv6", 0)
    /\ S[5] = Command("removeStaticDefaults", "IPv4", 0)
    /\ S[9] = Command("removeStaticDefaults", "IPv6", 0)
    /\ \A i \in 10..Len(S) :
          /\ S[i].op \in AddOps /\ S[i].family \in Families
          /\ S[i].op = "addClient" => S[i].arg \in ClientsOf(p, S[i].family)
          /\ S[i].op = "addAddress" => S[i].arg \in AddressesOf(p, S[i].family)
          /\ S[i].op = "acceptAdvertisements" => S[i].arg \in AcceptanceOf(p, S[i].family)
          /\ S[i].op = "addRoute" => S[i].arg \in ScriptRoutes /\ S[i].arg \in RoutesOf(p, S[i].family)
    /\ \A i, j \in 10..Len(S) : S[i] = S[j] => i = j
    /\ \A f \in Families :
          /\ \A c \in ClientsOf(p, f) : \E i \in 10..Len(S) : S[i] = Command("addClient", f, c)
          /\ \A q \in AddressesOf(p, f) : \E i \in 10..Len(S) : S[i] = Command("addAddress", f, q)
          /\ \A b \in AcceptanceOf(p, f) :
                \E i \in 10..Len(S) : S[i] = Command("acceptAdvertisements", f, b)
          /\ \A t \in RoutesOf(p, f) : \E i \in 10..Len(S) : S[i] = Command("addRoute", f, t)

\* Three lists one after the other, and their items.
Joined(H, V, W) == H \o V \o W

\* Where the commands of three joined lists come to stand.
LEMMA ThreeLists ==
    ASSUME NEW H \in Seq(Commands), NEW V \in Seq(Commands), NEW W \in Seq(Commands), Len(H) = 9,
           NEW S, S = Joined(H, V, W)
    PROVE  /\ S \in Seq(Commands) /\ Len(S) = 9 + Len(V) + Len(W)
           /\ \A i \in 1..Len(S) : S[i] = IF i <= 9 THEN H[i] ELSE IF i <= 9 + Len(V) THEN V[i - 9]
                                           ELSE W[i - (9 + Len(V))]
  <1>1. PICK X : X = H \o V
    OBVIOUS
  <1>2. X \in Seq(Commands)
    BY <1>1, ConcatProperties
  <1>3. Len(X) = Len(H) + Len(V)
    BY <1>1, ConcatProperties
  <1>4. Len(X) = 9 + Len(V) /\ Len(V) \in Nat /\ Len(W) \in Nat
    BY <1>3
  <1>5. \A i \in 1..Len(X) : X[i] = IF i <= Len(H) THEN H[i] ELSE V[i - Len(H)]
    BY <1>1, <1>3, ConcatProperties
  <1>6. \A i \in 1..Len(X) : X[i] = IF i <= 9 THEN H[i] ELSE V[i - 9]
    BY <1>5
  <1>7. S = X \o W
    BY <1>1 DEF Joined
  <1>8. S \in Seq(Commands)
    BY <1>2, <1>7, ConcatProperties
  <1>9. Len(S) = Len(X) + Len(W)
    BY <1>2, <1>7, ConcatProperties
  <1>10. \A i \in 1..Len(S) : S[i] = IF i <= Len(X) THEN X[i] ELSE W[i - Len(X)]
    BY <1>2, <1>7, <1>9, ConcatProperties
  <1> QED BY <1>4, <1>6, <1>8, <1>9, <1>10

\* The nine commands that every script starts with.
Start(H) ==
    /\ H \in Seq(Commands) /\ Len(H) = 9 /\ H[1] = Command("findUplink", "IPv4", 0)
    /\ H[2] = Command("removeClients", "IPv4", 0) /\ H[6] = Command("removeClients", "IPv6", 0)
    /\ H[3] = Command("removeAddresses", "IPv4", 0) /\ H[7] = Command("removeAddresses", "IPv6", 0)
    /\ H[4] = Command("removeMarkedRoutes", "IPv4", 0)
    /\ H[8] = Command("removeMarkedRoutes", "IPv6", 0)
    /\ H[5] = Command("removeStaticDefaults", "IPv4", 0)
    /\ H[9] = Command("removeStaticDefaults", "IPv6", 0)

\* The shape of a script that joins the removals and two lists of additions.
LEMMA ShapeOfLists ==
    ASSUME NEW p, NEW H, Start(H), NEW V, AddsPlan(V, "IPv4", p),
           NEW W, AddsPlan(W, "IPv6", p), NEW S, S = Joined(H, V, W)
    PROVE  Shape(S, p)
  <1>2. /\ Len(H) = 9 /\ H[1] = Command("findUplink", "IPv4", 0)
        /\ H[2] = Command("removeClients", "IPv4", 0) /\ H[6] = Command("removeClients", "IPv6", 0)
        /\ H[3] = Command("removeAddresses", "IPv4", 0) /\ H[7] = Command("removeAddresses", "IPv6", 0)
        /\ H[4] = Command("removeMarkedRoutes", "IPv4", 0)
        /\ H[8] = Command("removeMarkedRoutes", "IPv6", 0)
        /\ H[5] = Command("removeStaticDefaults", "IPv4", 0)
        /\ H[9] = Command("removeStaticDefaults", "IPv6", 0)
    BY DEF Start
  <1>4. H \in Seq(Commands)
    BY DEF Start
  <1>5. AddsPlan(V, "IPv4", p) /\ AddsPlan(W, "IPv6", p)
    OBVIOUS
  <1>6. V \in Seq(Commands) /\ W \in Seq(Commands) /\ Len(V) \in Nat /\ Len(W) \in Nat
    BY <1>5 DEF AddsPlan, Adds
  <1>6a. V \in Seq(Commands) /\ W \in Seq(Commands) /\ Len(H) = 9 /\ S = Joined(H, V, W)
    BY <1>2, <1>6
  <1>7. S \in Seq(Commands) /\ Len(S) = 9 + Len(V) + Len(W)
    BY <1>4, <1>6a, ThreeLists
  <1>8. \A i \in 1..Len(S) : S[i] = IF i <= 9 THEN H[i] ELSE IF i <= 9 + Len(V) THEN V[i - 9]
                                    ELSE W[i - (9 + Len(V))]
    BY <1>4, <1>6a, ThreeLists
  <1>9. /\ \A i \in 1..Len(V) : 9 + i \in 10..Len(S) /\ S[9 + i] = V[i]
        /\ \A i \in 1..Len(W) : 9 + Len(V) + i \in 10..Len(S) /\ S[9 + Len(V) + i] = W[i]
    <2>1. ASSUME NEW i \in 1..Len(V)
          PROVE  9 + i \in 10..Len(S) /\ S[9 + i] = V[i]
      BY <1>6, <1>7, <1>8
    <2>2. ASSUME NEW i \in 1..Len(W)
          PROVE  9 + Len(V) + i \in 10..Len(S) /\ S[9 + Len(V) + i] = W[i]
      <3>1. /\ 9 + Len(V) + i \in 10..Len(S) /\ 9 + Len(V) + i \in 1..Len(S)
            /\ ~(9 + Len(V) + i <= 9 + Len(V)) /\ ~(9 + Len(V) + i <= 9)
            /\ (9 + Len(V) + i) - (9 + Len(V)) = i
        BY <1>6, <1>7
      <3> QED BY <1>8, <3>1
    <2> QED BY <2>1, <2>2
  <1>10. ASSUME NEW i \in 10..Len(S)
         PROVE  \/ i - 9 \in 1..Len(V) /\ S[i] = V[i - 9]
                \/ i - (9 + Len(V)) \in 1..Len(W) /\ S[i] = W[i - (9 + Len(V))]
    BY <1>6, <1>7, <1>8
  <1>11. /\ \A i \in 1..Len(V) : V[i].family = "IPv4"
         /\ \A i \in 1..Len(W) : W[i].family = "IPv6"
         /\ \A i, j \in 1..Len(V) : V[i] = V[j] => i = j
         /\ \A i, j \in 1..Len(W) : W[i] = W[j] => i = j
    BY <1>5 DEF AddsPlan, Adds
  <1>12. ASSUME NEW i \in 10..Len(S), NEW j \in 10..Len(S), S[i] = S[j]
         PROVE  i = j
    <2>1. CASE i - 9 \in 1..Len(V) /\ S[i] = V[i - 9]
      <3>1. j - 9 \in 1..Len(V) /\ S[j] = V[j - 9]
        <4>1. S[j].family = "IPv4"
          BY <1>11, <1>12, <2>1
        <4> QED BY <1>10, <1>11, <4>1
      <3>2. i - 9 = j - 9
        BY <1>11, <1>12, <2>1, <3>1
      <3> QED BY <3>2, <1>7
    <2>2. CASE i - (9 + Len(V)) \in 1..Len(W) /\ S[i] = W[i - (9 + Len(V))]
      <3>1. j - (9 + Len(V)) \in 1..Len(W) /\ S[j] = W[j - (9 + Len(V))]
        <4>1. S[j].family = "IPv6"
          BY <1>11, <1>12, <2>2
        <4> QED BY <1>10, <1>11, <4>1
      <3>2. i - (9 + Len(V)) = j - (9 + Len(V))
        BY <1>11, <1>12, <2>2, <3>1
      <3> QED BY <3>2, <1>6, <1>7
    <2> QED BY <1>10, <2>1, <2>2
  <1>13. ASSUME NEW i \in 10..Len(S)
         PROVE  /\ S[i].op \in AddOps /\ S[i].family \in Families
                /\ S[i].op = "addClient" => S[i].arg \in ClientsOf(p, S[i].family)
                /\ S[i].op = "addAddress" => S[i].arg \in AddressesOf(p, S[i].family)
                /\ S[i].op = "acceptAdvertisements" => S[i].arg \in AcceptanceOf(p, S[i].family)
                /\ S[i].op = "addRoute"
                        => S[i].arg \in ScriptRoutes /\ S[i].arg \in RoutesOf(p, S[i].family)
    <2>1. CASE i - 9 \in 1..Len(V) /\ S[i] = V[i - 9]
      BY <1>5, <2>1 DEF AddsPlan, Adds, Families
    <2>2. CASE i - (9 + Len(V)) \in 1..Len(W) /\ S[i] = W[i - (9 + Len(V))]
      BY <1>5, <2>2 DEF AddsPlan, Adds, Families
    <2> QED BY <1>10, <2>1, <2>2
  <1>14. ASSUME NEW f \in Families
         PROVE  \E L : AddsPlan(L, f, p) /\ \A i \in 1..Len(L) :
                          L[i].family = f /\ \E j \in 10..Len(S) : S[j] = L[i]
    <2>1. f = "IPv4" \/ f = "IPv6"
      BY DEF Families
    <2>2. CASE f = "IPv4"
      <3>1. \A i \in 1..Len(V) : V[i].family = f /\ \E j \in 10..Len(S) : S[j] = V[i]
        BY <1>9, <1>11, <2>2
      <3> QED BY <1>5, <2>2, <3>1
    <2>3. CASE f = "IPv6"
      <3>1. \A i \in 1..Len(W) : W[i].family = f /\ \E j \in 10..Len(S) : S[j] = W[i]
        BY <1>9, <1>11, <2>3
      <3> QED BY <1>5, <2>3, <3>1
    <2> QED BY <2>1, <2>2, <2>3
  <1>15. ASSUME NEW f \in Families
         PROVE  /\ \A c \in ClientsOf(p, f) : \E i \in 10..Len(S) : S[i] = Command("addClient", f, c)
                /\ \A q \in AddressesOf(p, f) :
                      \E i \in 10..Len(S) : S[i] = Command("addAddress", f, q)
                /\ \A b \in AcceptanceOf(p, f) :
                      \E i \in 10..Len(S) : S[i] = Command("acceptAdvertisements", f, b)
                /\ \A t \in RoutesOf(p, f) : \E i \in 10..Len(S) : S[i] = Command("addRoute", f, t)
    <2>1. PICK L : AddsPlan(L, f, p) /\ \A i \in 1..Len(L) :
                          L[i].family = f /\ \E j \in 10..Len(S) : S[j] = L[i]
      BY <1>14
    <2>2. /\ \A c \in ClientsOf(p, f) : \E i \in 1..Len(L) : L[i] = Command("addClient", f, c)
          /\ \A q \in AddressesOf(p, f) : \E i \in 1..Len(L) : L[i] = Command("addAddress", f, q)
          /\ \A b \in AcceptanceOf(p, f) :
                \E i \in 1..Len(L) : L[i] = Command("acceptAdvertisements", f, b)
          /\ \A t \in RoutesOf(p, f) : \E i \in 1..Len(L) : L[i] = Command("addRoute", f, t)
      BY <2>1, Zenon DEF AddsPlan, Adds
    <2>3. \A c : (\E i \in 1..Len(L) : L[i] = c) => \E i \in 10..Len(S) : S[i] = c
      BY <2>1, Zenon
    <2>4. \A t \in RoutesOf(p, f) : \E i \in 10..Len(S) : S[i] = Command("addRoute", f, t)
      BY <2>2, <2>3, Zenon
    <2>5. \A c \in ClientsOf(p, f) : \E i \in 10..Len(S) : S[i] = Command("addClient", f, c)
      BY <2>2, <2>3, Zenon
    <2>6. \A q \in AddressesOf(p, f) : \E i \in 10..Len(S) : S[i] = Command("addAddress", f, q)
      BY <2>2, <2>3, Zenon
    <2>7. \A b \in AcceptanceOf(p, f) :
             \E i \in 10..Len(S) : S[i] = Command("acceptAdvertisements", f, b)
      BY <2>2, <2>3, Zenon
    <2> QED BY <2>4, <2>5, <2>6, <2>7
  <1> QED
    BY <1>2, <1>6, <1>7, <1>8, <1>12, <1>13, <1>15 DEF Shape

\* RouterOSScript: the script of every valid plan has the shape.
LEMMA ScriptShape ==
    ASSUME NEW p \in PlanType, Valid(p)
    PROVE  Shape(Script(p), p)
  <1>1. PICK H : H = <<Command("findUplink", "IPv4", 0)>> \o Removals("IPv4") \o Removals("IPv6")
    OBVIOUS
  <1>2. PICK V : V = IPv4Commands(p.IPv4)
    OBVIOUS
  <1>3. PICK W : W = IPv6Commands(p.IPv6)
    OBVIOUS
  <1>4. Script(p) = Joined(H, V, W)
    BY <1>1, <1>2, <1>3 DEF Script, Joined
  <1>5. AddsPlan(V, "IPv4", p) /\ AddsPlan(W, "IPv6", p)
    BY <1>2, <1>3, IPv4Adds, IPv6Adds
  <1>6. \A op \in Ops, family \in Families : Command(op, family, 0) \in Commands
    <2>1. 0 \in Args
      BY DEF Args
    <2> QED BY <2>1 DEF Command, Commands
  <1>7. H \in Seq(Commands)
    <2>1. <<Command("findUplink", "IPv4", 0)>> \in Seq(Commands)
      BY <1>6 DEF Ops, Families
    <2>2. Removals("IPv4") \in Seq(Commands) /\ Removals("IPv6") \in Seq(Commands)
      BY <1>6 DEF Ops, Families, Removals
    <2> QED BY <1>1, <2>1, <2>2
  <1>8. Start(H)
    BY <1>1, <1>7 DEF Start, Removals
  <1> QED BY <1>4, <1>5, <1>8, ShapeOfLists

----------------------------------------------------------------------------
(* The script, command by command *)

\* What is on CHR's uplink u once the first n commands of S have run in start r:
\* from the removals on, exactly what S has added since.
ClientsAfter(S, n, c, u, f) ==
    (\E k \in 1..n : S[k] = Command("removeClients", f, 0)) =>
        ([port |-> u, family |-> f] \in c.clients
            <=> \E i \in 10..n : S[i] = Command("addClient", f, 0))
AddressesAfter(S, n, c, u, f) ==
    (\E k \in 1..n : S[k] = Command("removeAddresses", f, 0)) =>
        \A q \in SUBSET Address :
            [port |-> u, family |-> f, prefix |-> q] \in c.addresses
                <=> \E i \in 10..n : S[i] = Command("addAddress", f, q)
RoutesAfter(S, n, c, r, f) ==
    (\E k \in 1..n : S[k] = Command("removeMarkedRoutes", f, 0)) =>
        \A x : x \in c.routes /\ x.family = f
            <=> \E i \in 10..n :
                  /\ S[i].op = "addRoute" /\ S[i].family = f
                  /\ x = [family |-> f, route |-> S[i].arg, id |-> <<r, i>>]
AcceptanceAfter(S, n, c, f) ==
    \A b \in BOOLEAN :
        (\E i \in 10..n : S[i] = Command("acceptAdvertisements", f, b)) => c.ra = b

After(S, n, c, u, r) ==
    \A f \in Families :
        /\ ClientsAfter(S, n, c, u, f) /\ AddressesAfter(S, n, c, u, f)
        /\ RoutesAfter(S, n, c, r, f) /\ AcceptanceAfter(S, n, c, f)

RemoveOps == {"removeClients", "removeAddresses", "removeMarkedRoutes", "removeStaticDefaults"}

\* The search for the uplink comes first, removals before additions, and every
\* command is complete.
LEMMA CommandsInOrder ==
    ASSUME NEW p \in PlanType, NEW S, Shape(S, p), NEW n \in 1..Len(S)
    PROVE  /\ S[n] = Command(S[n].op, S[n].family, S[n].arg) /\ S[n].family \in Families
           /\ S[n].op = "findUplink" <=> n = 1
           /\ S[n].op \in RemoveOps => n < 10 /\ S[n].arg = 0
           /\ S[n].op \in AddOps => n >= 10
           /\ S[n].op = "findUplink" \/ S[n].op \in RemoveOps \/ S[n].op \in AddOps
           /\ S[n].op = "addClient" => S[n].arg = 0
           /\ S[n].op = "addAddress" => S[n].arg \in SUBSET Address
           /\ S[n].op = "addRoute" => S[n].arg \in ScriptRoutes
           /\ S[n].op = "acceptAdvertisements" => S[n].arg \in BOOLEAN
  <1>1. S[n] \in Commands /\ n \in Nat /\ Len(S) \in Nat
    BY DEF Shape
  <1>2. S[n] = Command(S[n].op, S[n].family, S[n].arg) /\ S[n].family \in Families
    BY <1>1 DEF Commands, Command
  <1>3. \A op, family, arg : /\ Command(op, family, arg).op = op /\ Command(op, family, arg).family = family
                             /\ Command(op, family, arg).arg = arg
    BY DEF Command
  <1>4. CASE n \in 1..9
    <2>1. n = 1 \/ n = 2 \/ n = 3 \/ n = 4 \/ n = 5 \/ n = 6 \/ n = 7 \/ n = 8 \/ n = 9
      BY <1>4
    <2>2. S[n].arg = 0 /\ IF n = 1 THEN S[n].op = "findUplink" ELSE S[n].op \in RemoveOps
      BY <1>3, <2>1 DEF Shape, RemoveOps
    <2> QED BY <1>2, <1>4, <2>2 DEF RemoveOps, AddOps
  <1>5. CASE n \in 10..Len(S)
    <2>1. /\ S[n].op \in AddOps
          /\ S[n].op = "addClient" => S[n].arg \in ClientsOf(p, S[n].family)
          /\ S[n].op = "addAddress" => S[n].arg \in AddressesOf(p, S[n].family)
          /\ S[n].op = "acceptAdvertisements" => S[n].arg \in AcceptanceOf(p, S[n].family)
          /\ S[n].op = "addRoute" => S[n].arg \in ScriptRoutes
      BY <1>5 DEF Shape
    <2>2. \A x \in ClientsOf(p, S[n].family) : x = 0
      BY DEF ClientsOf
    <2>3. \A x \in AddressesOf(p, S[n].family) : x \in SUBSET Address
      BY DEF AddressesOf, PlanType
    <2>4. \A x \in AcceptanceOf(p, S[n].family) : x \in BOOLEAN
      BY DEF AcceptanceOf, PlanType
    <2>5. S[n].op \notin RemoveOps /\ S[n].op # "findUplink"
      BY <2>1 DEF AddOps, RemoveOps
    <2> QED BY <1>1, <1>2, <1>5, <2>1, <2>2, <2>3, <2>4, <2>5
  <1> QED BY <1>1, <1>4, <1>5

LEMMA FieldsOfCommands ==
    \A op, family, arg : /\ Command(op, family, arg).op = op /\ Command(op, family, arg).family = family
                         /\ Command(op, family, arg).arg = arg
  BY DEF Command

LEMMA OneMore ==
    ASSUME NEW n \in Nat \ {0}
    PROVE  /\ \A k \in 1..n : k = n \/ k \in 1..(n - 1)
           /\ \A k \in 10..n : k = n \/ k \in 10..(n - 1)
           /\ \A k \in 1..(n - 1) : k \in 1..n
           /\ \A k \in 10..(n - 1) : k \in 10..n
  OBVIOUS

\* One command more, and its effect on the clients.
LEMMA ClientsStep ==
    ASSUME NEW p \in PlanType, NEW S, Shape(S, p), NEW n \in 1..Len(S), chr \in ConfigType,
           NEW u, matching = {u}, Uplink = u, NEW f \in Families,
           ClientsAfter(S, n - 1, chr, u, f)
    PROVE  ClientsAfter(S, n, Executed(S[n]), u, f)
  <1>1. n \in Nat /\ Len(S) \in Nat
    BY DEF Shape
  <1>2. \A op, family, arg : /\ Command(op, family, arg).op = op /\ Command(op, family, arg).family = family
                             /\ Command(op, family, arg).arg = arg
    BY FieldsOfCommands
  <1>3. \A k \in 1..n : k = n \/ k \in 1..(n - 1)
    BY <1>1, OneMore
  <1>4. \A k \in 10..n : k = n \/ k \in 10..(n - 1)
    BY <1>1, OneMore
  <1>5. \A k \in 10..(n - 1) : k \in 10..n
    BY <1>1, OneMore
  <1>6. SUFFICES ASSUME \E k \in 1..n : S[k] = Command("removeClients", f, 0)
                 PROVE  [port |-> u, family |-> f] \in Executed(S[n]).clients
                           <=> \E i \in 10..n : S[i] = Command("addClient", f, 0)
    BY DEF ClientsAfter
  <1>7. CASE S[n].op = "removeClients"
    <2>1. n < 10 /\ S[n] = Command("removeClients", S[n].family, 0)
      BY <1>7, CommandsInOrder DEF RemoveOps
    <2>2. ~\E i \in 10..n : S[i] = Command("addClient", f, 0)
      BY <1>1, <2>1
    <2>3. Executed(S[n]).clients = {x \in chr.clients : ~OfUplink(x, S[n].family)}
      BY <1>7 DEF Executed, ConfigType
    <2>4. CASE S[n].family = f
      BY <2>2, <2>3, <2>4 DEF OfUplink
    <2>5. CASE S[n].family # f
      <3>1. \E k \in 1..(n - 1) : S[k] = Command("removeClients", f, 0)
        BY <1>2, <1>3, <1>6, <2>5
      <3>2. [port |-> u, family |-> f] \notin chr.clients
        BY <1>1, <2>1, <3>1 DEF ClientsAfter
      <3> QED BY <2>2, <2>3, <3>2
    <2> QED BY <2>4, <2>5
  <1>8. CASE S[n].op = "addClient"
    <2>1. n >= 10 /\ S[n] = Command("addClient", S[n].family, 0)
      BY <1>8, CommandsInOrder DEF AddOps
    <2>2. \E k \in 1..(n - 1) : S[k] = Command("removeClients", f, 0)
      BY <1>2, <1>3, <1>6, <1>8
    <2>3. Executed(S[n]).clients = chr.clients \cup {[port |-> u, family |-> S[n].family]}
      BY <1>8 DEF Executed, ConfigType
    <2>4. CASE S[n].family = f
      <3>1. n \in 10..n
        BY <1>1, <2>1
      <3> QED BY <2>1, <2>3, <2>4, <3>1
    <2>5. CASE S[n].family # f
      <3>1. [port |-> u, family |-> f] # [port |-> u, family |-> S[n].family]
        BY <2>5
      <3>2. S[n] # Command("addClient", f, 0)
        BY <1>2, <2>5
      <3> QED BY <1>4, <1>5, <2>2, <2>3, <3>1, <3>2 DEF ClientsAfter
    <2> QED BY <2>4, <2>5
  <1>9. CASE S[n].op # "removeClients" /\ S[n].op # "addClient"
    <2>1. \E k \in 1..(n - 1) : S[k] = Command("removeClients", f, 0)
      BY <1>2, <1>3, <1>6, <1>9
    <2>2. Executed(S[n]).clients = chr.clients
      <3>1. S[n].op \in {"findUplink"} \cup RemoveOps \cup AddOps
        BY CommandsInOrder
      <3> QED BY <1>9, <3>1 DEF Executed, ConfigType, RemoveOps, AddOps
    <2>3. S[n] # Command("addClient", f, 0)
      BY <1>2, <1>9
    <2> QED BY <1>4, <1>5, <2>1, <2>2, <2>3 DEF ClientsAfter
  <1> QED BY <1>7, <1>8, <1>9

\* The same for the addresses.
LEMMA AddressesStep ==
    ASSUME NEW p \in PlanType, NEW S, Shape(S, p), NEW n \in 1..Len(S), chr \in ConfigType,
           NEW u, matching = {u}, Uplink = u, NEW f \in Families,
           AddressesAfter(S, n - 1, chr, u, f)
    PROVE  AddressesAfter(S, n, Executed(S[n]), u, f)
  <1>1. n \in Nat /\ Len(S) \in Nat
    BY DEF Shape
  <1>2. \A op, family, arg : /\ Command(op, family, arg).op = op /\ Command(op, family, arg).family = family
                             /\ Command(op, family, arg).arg = arg
    BY FieldsOfCommands
  <1>3. \A k \in 1..n : k = n \/ k \in 1..(n - 1)
    BY <1>1, OneMore
  <1>4. \A k \in 10..n : k = n \/ k \in 10..(n - 1)
    BY <1>1, OneMore
  <1>5. \A k \in 10..(n - 1) : k \in 10..n
    BY <1>1, OneMore
  <1>6. SUFFICES ASSUME \E k \in 1..n : S[k] = Command("removeAddresses", f, 0),
                        NEW q \in SUBSET Address
                 PROVE  [port |-> u, family |-> f, prefix |-> q] \in Executed(S[n]).addresses
                           <=> \E i \in 10..n : S[i] = Command("addAddress", f, q)
    BY DEF AddressesAfter
  <1>7. CASE S[n].op = "removeAddresses"
    <2>1. n < 10 /\ S[n] = Command("removeAddresses", S[n].family, 0)
      BY <1>7, CommandsInOrder DEF RemoveOps
    <2>2. ~\E i \in 10..n : S[i] = Command("addAddress", f, q)
      BY <1>1, <2>1
    <2>3. Executed(S[n]).addresses = {x \in chr.addresses : ~OfUplink(x, S[n].family)}
      BY <1>7 DEF Executed, ConfigType
    <2>4. CASE S[n].family = f
      BY <2>2, <2>3, <2>4 DEF OfUplink
    <2>5. CASE S[n].family # f
      <3>1. \E k \in 1..(n - 1) : S[k] = Command("removeAddresses", f, 0)
        BY <1>2, <1>3, <1>6, <2>5
      <3>2. [port |-> u, family |-> f, prefix |-> q] \notin chr.addresses
        BY <1>1, <2>1, <3>1 DEF AddressesAfter
      <3> QED BY <2>2, <2>3, <3>2
    <2> QED BY <2>4, <2>5
  <1>8. CASE S[n].op = "addAddress"
    <2>1. n >= 10 /\ S[n] = Command("addAddress", S[n].family, S[n].arg)
      BY <1>8, CommandsInOrder DEF AddOps
    <2>2. \E k \in 1..(n - 1) : S[k] = Command("removeAddresses", f, 0)
      BY <1>2, <1>3, <1>6, <1>8
    <2>3. Executed(S[n]).addresses
            = chr.addresses \cup {[port |-> u, family |-> S[n].family, prefix |-> S[n].arg]}
      BY <1>8 DEF Executed, ConfigType
    <2>4. CASE S[n].family = f /\ S[n].arg = q
      <3>1. n \in 10..n
        BY <1>1, <2>1
      <3> QED BY <2>1, <2>3, <2>4, <3>1
    <2>5. CASE S[n].family # f \/ S[n].arg # q
      <3>1. [port |-> u, family |-> f, prefix |-> q] # [port |-> u, family |-> S[n].family, prefix |-> S[n].arg]
        BY <2>5
      <3>2. S[n] # Command("addAddress", f, q)
        BY <1>2, <2>5
      <3> QED BY <1>4, <1>5, <2>2, <2>3, <3>1, <3>2 DEF AddressesAfter
    <2> QED BY <2>4, <2>5
  <1>9. CASE S[n].op # "removeAddresses" /\ S[n].op # "addAddress"
    <2>1. \E k \in 1..(n - 1) : S[k] = Command("removeAddresses", f, 0)
      BY <1>2, <1>3, <1>6, <1>9
    <2>2. Executed(S[n]).addresses = chr.addresses
      <3>1. S[n].op \in {"findUplink"} \cup RemoveOps \cup AddOps
        BY CommandsInOrder
      <3> QED BY <1>9, <3>1 DEF Executed, ConfigType, RemoveOps, AddOps
    <2>3. S[n] # Command("addAddress", f, q)
      BY <1>2, <1>9
    <2> QED BY <1>4, <1>5, <2>1, <2>2, <2>3 DEF AddressesAfter
  <1> QED BY <1>7, <1>8, <1>9

\* The same for the static routes.
LEMMA RoutesStep ==
    ASSUME NEW p \in PlanType, NEW S, Shape(S, p), chr \in ConfigType,
           pc \in 1..Len(S), NEW f \in Families, RoutesAfter(S, pc - 1, chr, reboots, f)
    PROVE  RoutesAfter(S, pc, Executed(S[pc]), reboots, f)
  <1>1. pc \in Nat /\ Len(S) \in Nat
    BY DEF Shape
  <1>2. \A op, family, arg : /\ Command(op, family, arg).op = op /\ Command(op, family, arg).family = family
                             /\ Command(op, family, arg).arg = arg
    BY FieldsOfCommands
  <1>3. \A k \in 1..pc : k = pc \/ k \in 1..(pc - 1)
    BY <1>1, OneMore
  <1>4. \A k \in 10..pc : k = pc \/ k \in 10..(pc - 1)
    BY <1>1, OneMore
  <1>5. \A k \in 10..(pc - 1) : k \in 10..pc
    BY <1>1, OneMore
  <1> DEFINE Added(x, i) == /\ S[i].op = "addRoute" /\ S[i].family = f
                            /\ x = [family |-> f, route |-> S[i].arg, id |-> <<reboots, i>>]
  <1>6. SUFFICES ASSUME \E k \in 1..pc : S[k] = Command("removeMarkedRoutes", f, 0), NEW x
                 PROVE  x \in Executed(S[pc]).routes /\ x.family = f <=> \E i \in 10..pc : Added(x, i)
    BY DEF RoutesAfter
  <1>7. (\E k \in 1..(pc - 1) : S[k] = Command("removeMarkedRoutes", f, 0)) =>
           (x \in chr.routes /\ x.family = f <=> \E i \in 10..(pc - 1) : Added(x, i))
    BY DEF RoutesAfter
  <1>8. CASE S[pc].op \in {"removeMarkedRoutes", "removeStaticDefaults"}
    <2>1. pc < 10
      BY <1>8, CommandsInOrder DEF RemoveOps
    <2>2. ~(\E i \in 10..pc : Added(x, i)) /\ ~(\E i \in 10..(pc - 1) : Added(x, i))
      BY <1>1, <2>1
    <2>3. Executed(S[pc]).routes \subseteq chr.routes
      BY <1>8 DEF Executed, ConfigType
    <2>4. CASE \E k \in 1..(pc - 1) : S[k] = Command("removeMarkedRoutes", f, 0)
      BY <1>7, <2>2, <2>3, <2>4
    <2>5. CASE S[pc] = Command("removeMarkedRoutes", f, 0)
      <3>1. S[pc].op = "removeMarkedRoutes" /\ S[pc].family = f
        BY <1>2, <2>5
      <3>2. Executed(S[pc]).routes = {y \in chr.routes : y.family # f \/ ~y.route.marked}
        BY <3>1 DEF Executed, ConfigType
      <3>3. \A y \in chr.routes : y.route.marked
        BY DEF ConfigType, ScriptRoutes
      <3> QED BY <2>2, <3>2, <3>3
    <2> QED BY <1>3, <1>6, <2>4, <2>5
  <1>9. \/ S[pc].op \in {"removeMarkedRoutes", "removeStaticDefaults"}
        \/ \E k \in 1..(pc - 1) : S[k] = Command("removeMarkedRoutes", f, 0)
    BY <1>2, <1>3, <1>6
  <1>10. CASE S[pc].op = "addRoute"
    <2>1. pc >= 10
      BY <1>10, CommandsInOrder DEF AddOps
    <2> DEFINE y == [family |-> S[pc].family, route |-> S[pc].arg, id |-> <<reboots, pc>>]
    <2>2. Executed(S[pc]).routes = chr.routes \cup {y}
      BY <1>10 DEF Executed, ConfigType
    <2>3. y.family = S[pc].family
      OBVIOUS
    <2>4. Added(x, pc) <=> x = y /\ y.family = f
      BY <1>10
    <2>5. pc \in 10..pc
      BY <1>1, <2>1
    <2>6. x \in chr.routes /\ x.family = f <=> \E i \in 10..(pc - 1) : Added(x, i)
      BY <1>7, <1>9, <1>10
    <2> HIDE DEF y, Added
    <2> QED BY <1>4, <1>5, <2>2, <2>4, <2>5, <2>6
  <1>11. CASE S[pc].op \notin {"removeMarkedRoutes", "removeStaticDefaults", "addRoute"}
    <2>1. Executed(S[pc]).routes = chr.routes
      <3>1. S[pc].op \in {"findUplink"} \cup RemoveOps \cup AddOps
        BY CommandsInOrder
      <3> QED BY <1>11, <3>1 DEF Executed, ConfigType, RemoveOps, AddOps
    <2>2. ~Added(x, pc)
      BY <1>11
    <2>3. x \in chr.routes /\ x.family = f <=> \E i \in 10..(pc - 1) : Added(x, i)
      BY <1>7, <1>9, <1>11
    <2> HIDE DEF Added
    <2> QED BY <1>4, <1>5, <2>1, <2>2, <2>3
  <1> QED BY <1>8, <1>10, <1>11

\* The same for router advertisements.
LEMMA AcceptanceStep ==
    ASSUME NEW p \in PlanType, NEW S, Shape(S, p), NEW n \in 1..Len(S), chr \in ConfigType,
           NEW f \in Families, AcceptanceAfter(S, n - 1, chr, f)
    PROVE  AcceptanceAfter(S, n, Executed(S[n]), f)
  <1>1. n \in Nat /\ Len(S) \in Nat
    BY DEF Shape
  <1>2. \A op, family, arg : /\ Command(op, family, arg).op = op /\ Command(op, family, arg).family = family
                             /\ Command(op, family, arg).arg = arg
    BY FieldsOfCommands
  <1>4. \A k \in 10..n : k = n \/ k \in 10..(n - 1)
    BY <1>1, OneMore
  <1>6. SUFFICES ASSUME NEW b \in BOOLEAN, NEW i \in 10..n, S[i] = Command("acceptAdvertisements", f, b)
                 PROVE  Executed(S[n]).ra = b
    BY DEF AcceptanceAfter
  <1>7. CASE S[n].op = "acceptAdvertisements"
    <2>1. Executed(S[n]).ra = S[n].arg /\ n \in 10..Len(S)
      BY <1>1, <1>7, CommandsInOrder DEF Executed, ConfigType, AddOps
    <2>2. \A k \in 10..Len(S) : S[k].op = "acceptAdvertisements"
              => S[k].family = "IPv6" /\ S[k].arg = p.IPv6.slaac
      BY DEF Shape, AcceptanceOf
    <2>3. i \in 10..Len(S)
      BY <1>1
    <2>4. S[i].op = "acceptAdvertisements" /\ S[i].arg = b
      BY <1>2, <1>6
    <2> QED BY <1>7, <2>1, <2>2, <2>3, <2>4
  <1>8. CASE S[n].op # "acceptAdvertisements"
    <2>1. Executed(S[n]).ra = chr.ra
      <3>1. S[n].op \in {"findUplink"} \cup RemoveOps \cup AddOps
        BY CommandsInOrder
      <3> QED BY <1>8, <3>1 DEF Executed, ConfigType, RemoveOps, AddOps
    <2>2. i \in 10..(n - 1)
      BY <1>2, <1>4, <1>6, <1>8
    <2> QED BY <1>6, <2>1, <2>2 DEF AcceptanceAfter
  <1> QED BY <1>7, <1>8

----------------------------------------------------------------------------
(* The invariant of the script *)

ScriptInv ==
    /\ matching \subseteq Ports /\ chr \in ConfigType /\ reboots \in 0..MaxReboots
    /\ phase \in OnCHR => Valid(plan)
    /\ phase \in {"script", "aborted"} => pc \in 1..Len(Script(plan))
    /\ phase = "applied" => pc = Len(Script(plan)) + 1
    /\ phase = "aborted" => ~UplinkFound
    /\ phase \in {"script", "applied"} /\ pc > 1 =>
          UplinkFound /\ After(Script(plan), pc - 1, chr, Uplink, reboots)

Inv == NetworkInv /\ EvidenceInv /\ ScriptInv

\* A MAC that was found is found on one port.
LEMMA UplinkIsAPort ==
    ASSUME matching \subseteq Ports, UplinkFound
    PROVE  \E u \in Ports : matching = {u} /\ Uplink = u
  <1>1. IsFiniteSet(matching)
    BY FirstBootAssumption, FS_Subset
  <1>2. PICK u : matching = {u}
    BY <1>1, FS_Singleton DEF UplinkFound
  <1>3. \A x \in matching : x = u
    BY <1>2
  <1>4. Uplink = u
    BY <1>2, <1>3 DEF Uplink
  <1> QED BY <1>2, <1>4

LEMMA NothingAfterTheStart ==
    ASSUME NEW S, NEW c, NEW u, NEW r
    PROVE  After(S, 0, c, u, r)
  <1>1. \A k : k \notin 1..0 /\ k \notin 10..0
    OBVIOUS
  <1> QED BY <1>1 DEF After, ClientsAfter, AddressesAfter, RoutesAfter, AcceptanceAfter

\* One command more, on everything.
LEMMA AfterStep ==
    ASSUME NEW p \in PlanType, NEW S, Shape(S, p), chr \in ConfigType, pc \in 1..Len(S),
           NEW u, matching = {u}, Uplink = u, After(S, pc - 1, chr, u, reboots)
    PROVE  After(S, pc, Executed(S[pc]), u, reboots)
  <1>1. SUFFICES ASSUME NEW f \in Families
                 PROVE  /\ ClientsAfter(S, pc, Executed(S[pc]), u, f)
                        /\ AddressesAfter(S, pc, Executed(S[pc]), u, f)
                        /\ RoutesAfter(S, pc, Executed(S[pc]), reboots, f)
                        /\ AcceptanceAfter(S, pc, Executed(S[pc]), f)
    BY DEF After
  <1>2. /\ ClientsAfter(S, pc - 1, chr, u, f) /\ AddressesAfter(S, pc - 1, chr, u, f)
        /\ RoutesAfter(S, pc - 1, chr, reboots, f) /\ AcceptanceAfter(S, pc - 1, chr, f)
    BY DEF After
  <1>3. ClientsAfter(S, pc, Executed(S[pc]), u, f)
    BY <1>2, ClientsStep
  <1>4. AddressesAfter(S, pc, Executed(S[pc]), u, f)
    BY <1>2, AddressesStep
  <1>5. RoutesAfter(S, pc, Executed(S[pc]), reboots, f)
    BY <1>2, RoutesStep
  <1>6. AcceptanceAfter(S, pc, Executed(S[pc]), f)
    BY <1>2, AcceptanceStep
  <1> QED BY <1>3, <1>4, <1>5, <1>6

\* Every removal lies before the first addition.
LEMMA RemovalsAreDone ==
    ASSUME NEW p, NEW S, Shape(S, p), NEW n \in Nat, n >= 9, NEW f \in Families
    PROVE  /\ \E k \in 1..n : S[k] = Command("removeClients", f, 0)
           /\ \E k \in 1..n : S[k] = Command("removeAddresses", f, 0)
           /\ \E k \in 1..n : S[k] = Command("removeMarkedRoutes", f, 0)
  <1>1. f = "IPv4" \/ f = "IPv6"
    BY DEF Families
  <1>2. \A k \in 2..8 : k \in 1..n
    OBVIOUS
  <1>3. {2, 3, 4, 6, 7, 8} \subseteq 1..n
    BY <1>2
  <1>4. \E k \in 1..n : S[k] = Command("removeClients", f, 0)
    BY <1>1, <1>3 DEF Shape
  <1>5. \E k \in 1..n : S[k] = Command("removeAddresses", f, 0)
    BY <1>1, <1>3 DEF Shape
  <1>6. \E k \in 1..n : S[k] = Command("removeMarkedRoutes", f, 0)
    BY <1>1, <1>3 DEF Shape
  <1> QED BY <1>4, <1>5, <1>6

\* RouterOS refuses nothing once the uplink is found: what the script adds, it has
\* removed before, and it adds nothing twice.
LEMMA NothingIsRefused ==
    ASSUME NEW p \in PlanType, NEW S, Shape(S, p), pc \in 1..Len(S), UplinkFound,
           After(S, pc - 1, chr, Uplink, reboots)
    PROVE  ~Refuses(S[pc])
  <1>1. pc \in Nat /\ Len(S) \in Nat
    BY DEF Shape
  <1>2. S[pc].op # "findUplink" \/ UplinkFound
    OBVIOUS
  <1>3. S[pc] = Command(S[pc].op, S[pc].family, S[pc].arg) /\ S[pc].family \in Families
    BY CommandsInOrder
  <1>4. \A i \in 10..(pc - 1) : S[i] # S[pc]
    <2>1. \A i, j \in 10..Len(S) : S[i] = S[j] => i = j
      BY DEF Shape
    <2> QED BY <1>1, <2>1
  <1>5. ASSUME S[pc].op = "addClient", [port |-> Uplink, family |-> S[pc].family] \in chr.clients
        PROVE  FALSE
    <2>1. pc - 1 \in Nat /\ pc - 1 >= 9 /\ S[pc].arg = 0
      BY <1>1, <1>5, CommandsInOrder DEF AddOps
    <2>2. ClientsAfter(S, pc - 1, chr, Uplink, S[pc].family)
      BY <1>3 DEF After
    <2>3. \E k \in 1..(pc - 1) : S[k] = Command("removeClients", S[pc].family, 0)
      <3>1. PICK n \in Nat : n = pc - 1 /\ n >= 9
        BY <2>1
      <3>2. PICK f \in Families : f = S[pc].family
        BY <1>3
      <3>3. \E k \in 1..n : S[k] = Command("removeClients", f, 0)
        BY <3>1, RemovalsAreDone
      <3> QED BY <3>1, <3>2, <3>3
    <2>4. \E i \in 10..(pc - 1) : S[i] = Command("addClient", S[pc].family, 0)
      BY <1>5, <2>2, <2>3 DEF ClientsAfter
    <2> QED BY <1>3, <1>4, <1>5, <2>1, <2>4
  <1>6. ASSUME S[pc].op = "addAddress",
               [port |-> Uplink, family |-> S[pc].family, prefix |-> S[pc].arg] \in chr.addresses
        PROVE  FALSE
    <2>1. pc - 1 \in Nat /\ pc - 1 >= 9 /\ S[pc].arg \in SUBSET Address
      BY <1>1, <1>6, CommandsInOrder DEF AddOps
    <2>2. AddressesAfter(S, pc - 1, chr, Uplink, S[pc].family)
      BY <1>3 DEF After
    <2>3. \E k \in 1..(pc - 1) : S[k] = Command("removeAddresses", S[pc].family, 0)
      <3>1. PICK n \in Nat : n = pc - 1 /\ n >= 9
        BY <2>1
      <3>2. PICK f \in Families : f = S[pc].family
        BY <1>3
      <3>3. \E k \in 1..n : S[k] = Command("removeAddresses", f, 0)
        BY <3>1, RemovalsAreDone
      <3> QED BY <3>1, <3>2, <3>3
    <2>4. \E i \in 10..(pc - 1) : S[i] = Command("addAddress", S[pc].family, S[pc].arg)
      BY <1>6, <2>1, <2>2, <2>3 DEF AddressesAfter
    <2> QED BY <1>3, <1>4, <1>6, <2>4
  <1> QED BY <1>2, <1>5, <1>6 DEF Refuses

LEMMA ExecutedIsConfig ==
    ASSUME NEW p \in PlanType, NEW S, Shape(S, p), chr \in ConfigType, pc \in 1..Len(S),
           reboots \in Nat, NEW u \in Ports, Uplink = u
    PROVE  Executed(S[pc]) \in ConfigType
  <1>1. pc \in Nat
    BY DEF Shape
  <1>2. S[pc].family \in Families
    BY CommandsInOrder
  <1>3. CASE S[pc].op \in {"findUplink"} \cup RemoveOps
    BY <1>3 DEF Executed, ConfigType, RemoveOps
  <1>4. CASE S[pc].op = "addClient"
    BY <1>2, <1>4 DEF Executed, ConfigType
  <1>5. CASE S[pc].op = "addAddress"
    <2>1. S[pc].arg \in SUBSET Address
      BY <1>5, CommandsInOrder
    <2> QED BY <1>2, <1>5, <2>1 DEF Executed, ConfigType
  <1>6. CASE S[pc].op = "addRoute"
    <2>1. S[pc].arg \in ScriptRoutes
      BY <1>6, CommandsInOrder
    <2>2. [family |-> S[pc].family, route |-> S[pc].arg, id |-> <<reboots, pc>>]
             \in [family : Families, route : ScriptRoutes, id : Nat \X Nat]
      BY <1>1, <1>2, <2>1
    <2> QED BY <1>6, <2>2 DEF Executed, ConfigType
  <1>7. CASE S[pc].op = "acceptAdvertisements"
    <2>1. S[pc].arg \in BOOLEAN
      BY <1>7, CommandsInOrder
    <2> QED BY <1>7, <2>1 DEF Executed, ConfigType
  <1>8. S[pc].op \in {"findUplink"} \cup RemoveOps \cup AddOps
    BY CommandsInOrder
  <1> QED BY <1>3, <1>4, <1>5, <1>6, <1>7, <1>8 DEF AddOps

LEMMA InvInit == Init => Inv
  <1> SUFFICES ASSUME Init PROVE Inv
    OBVIOUS
  <1>1. NetworkInv
    <2>1. host \in HostType /\ plan \in PlanType
      BY NetworkAssumption, NoPlanIsPlan DEF Init, PlanInit
    <2>2. phase \in BeforeReport /\ clock \in 0..Timeout
      BY NetworkAssumption DEF Init, PlanInit, BeforeReport
    <2>3. heard \in Frames /\ offer = FALSE /\ ack = FALSE
      BY DEF Init, PlanInit, Frames
    <2> QED BY <2>1, <2>2, <2>3 DEF NetworkInv
  <1>2. EvidenceInv
    BY DEF Init, PlanInit, EvidenceInv, BeforeReport, DHCPIsConfirmed, NoPlan
  <1>3. Factory \in ConfigType
    BY FirstBootAssumption DEF Factory, ConfigType, Families
  <1>4. ScriptInv
    BY <1>3, FirstBootAssumption DEF Init, PlanInit, ScriptInv, OnCHR
  <1> QED BY <1>1, <1>2, <1>4 DEF Inv

LEMMA PlanNextInv ==
    ASSUME Inv, PlanNext, UNCHANGED bootVars
    PROVE  Inv'
  <1>1. /\ NetworkInv' /\ EvidenceInv' /\ phase' \notin OnCHR
    BY PlanSteps DEF Inv
  <1>2. ScriptInv'
    BY <1>1 DEF Inv, ScriptInv, bootVars, OnCHR
  <1> QED BY <1>1, <1>2 DEF Inv

LEMMA BootCHRInv ==
    ASSUME Inv, BootCHR
    PROVE  Inv'
  <1>1. /\ phase = "accepted" /\ phase' = "script" /\ matching' \subseteq Ports
        /\ chr' = Factory /\ pc' = 1 /\ reboots' = reboots
        /\ host' = host /\ ack' = ack /\ plan' = plan /\ issues' = issues
        /\ clock' = clock /\ heard' = heard /\ offer' = offer
    BY DEF BootCHR, detection
  <1>2. NetworkInv'
    BY <1>1 DEF Inv, NetworkInv, OnCHR
  <1>3. Valid(plan) /\ EvidenceInv'
    BY <1>1 DEF Inv, EvidenceInv, DHCPIsConfirmed, BeforeReport, Valid
  <1>4. Factory \in ConfigType
    BY FirstBootAssumption DEF Factory, ConfigType, Families
  <1>5. Shape(Script(plan), plan)
    BY <1>3, ScriptShape DEF Inv, NetworkInv
  <1>6. Script(plan)' = Script(plan) /\ Valid(plan)'
    BY <1>1, <1>3
  <1>7. 1 \in 1..Len(Script(plan))
    BY <1>5 DEF Shape
  <1>8. ScriptInv'
    BY <1>1, <1>4, <1>6, <1>7 DEF Inv, ScriptInv, OnCHR
  <1> QED BY <1>2, <1>3, <1>8 DEF Inv

\* A command, refused or executed, keeps the invariant.
LEMMA RunCommandInv ==
    ASSUME Inv, RunCommand
    PROVE  Inv'
  <1>0. PICK S : S = Script(plan)
    OBVIOUS
  <1>1. /\ phase = "script" /\ phase' \in OnCHR /\ matching' = matching /\ reboots' = reboots
        /\ host' = host /\ ack' = ack /\ plan' = plan /\ issues' = issues
        /\ clock' = clock /\ heard' = heard /\ offer' = offer
    BY DEF RunCommand, detection, OnCHR
  <1>2. NetworkInv'
    BY <1>1 DEF Inv, NetworkInv
  <1>3. EvidenceInv'
    BY <1>1 DEF Inv, EvidenceInv, DHCPIsConfirmed, BeforeReport, OnCHR
  <1>4. Valid(plan) /\ plan \in PlanType
    BY <1>1 DEF Inv, ScriptInv, NetworkInv, OnCHR
  <1>5. Shape(S, plan)
    BY <1>0, <1>4, ScriptShape
  <1>6. Script(plan)' = S /\ Valid(plan)' /\ (UplinkFound' <=> UplinkFound) /\ Uplink' = Uplink
    BY <1>0, <1>1, <1>4 DEF UplinkFound, Uplink
  <1>7. pc \in 1..Len(S) /\ Len(S) \in Nat /\ pc \in Nat
    BY <1>0, <1>1, <1>5 DEF Inv, ScriptInv, Shape
  <1>8. chr \in ConfigType /\ matching \subseteq Ports /\ reboots \in 0..MaxReboots /\ reboots \in Nat
    BY FirstBootAssumption DEF Inv, ScriptInv
  <1>9. pc > 1 => UplinkFound /\ After(S, pc - 1, chr, Uplink, reboots)
    BY <1>0, <1>1 DEF Inv, ScriptInv
  <1>10. CASE Refuses(S[pc])
    <2>1. phase' = "aborted" /\ chr' = chr /\ pc' = pc
      BY <1>0, <1>10 DEF RunCommand
    <2>2. ~UplinkFound
      BY <1>4, <1>5, <1>7, <1>9, <1>10, NothingIsRefused, CommandsInOrder, NothingAfterTheStart
    <2>3. ScriptInv'
      BY <1>1, <1>6, <1>7, <1>8, <2>1, <2>2 DEF ScriptInv, OnCHR
    <2> QED BY <1>2, <1>3, <2>3 DEF Inv
  <1>11. CASE ~Refuses(S[pc])
    <2>1. /\ chr' = Executed(S[pc]) /\ pc' = pc + 1
          /\ phase' = IF pc = Len(S) THEN "applied" ELSE "script"
      BY <1>0, <1>11 DEF RunCommand
    <2>2. UplinkFound
      <3>1. CASE pc = 1
        <4>1. S[pc].op = "findUplink"
          BY <1>4, <1>5, <1>7, <3>1, CommandsInOrder
        <4> QED BY <1>11, <4>1 DEF Refuses
      <3> QED BY <1>7, <1>9, <3>1
    <2>3. PICK u \in Ports : matching = {u} /\ Uplink = u
      BY <1>8, <2>2, UplinkIsAPort
    <2>4. After(S, pc - 1, chr, u, reboots)
      <3>1. CASE pc = 1
        BY <3>1, NothingAfterTheStart
      <3> QED BY <1>7, <1>9, <2>3, <3>1
    <2>5. After(S, pc, Executed(S[pc]), u, reboots)
      BY <1>4, <1>5, <1>7, <1>8, <2>3, <2>4, AfterStep
    <2>6. Executed(S[pc]) \in ConfigType
      BY <1>4, <1>5, <1>7, <1>8, <2>3, ExecutedIsConfig
    <2>7. /\ phase' \in {"script", "applied"}
          /\ phase' = "script" => pc' \in 1..Len(S)
          /\ phase' = "applied" => pc' = Len(S) + 1
      BY <1>7, <2>1
    <2>8. pc' - 1 = pc
      BY <1>7, <2>1
    <2>9. After(S, pc' - 1, chr', u, reboots')
      BY <1>1, <2>1, <2>5, <2>8
    <2>10. ScriptInv'
      BY <1>1, <1>6, <1>8, <2>1, <2>2, <2>3, <2>6, <2>7, <2>9 DEF ScriptInv
    <2> QED BY <1>2, <1>3, <2>10 DEF Inv
  <1> QED BY <1>10, <1>11

\* The invariant does not depend on what earlier starts of the script left.
LEMMA RebootInv ==
    ASSUME Inv, Reboot
    PROVE  Inv'
  <1>1. /\ phase \in {"script", "applied"} /\ phase' = "script" /\ matching' = matching
        /\ chr' = chr /\ pc' = 1 /\ reboots' = reboots + 1 /\ reboots < MaxReboots
        /\ host' = host /\ ack' = ack /\ plan' = plan /\ issues' = issues
        /\ clock' = clock /\ heard' = heard /\ offer' = offer
    BY DEF Reboot, detection
  <1>2. NetworkInv'
    BY <1>1 DEF Inv, NetworkInv, OnCHR
  <1>3. EvidenceInv'
    BY <1>1 DEF Inv, EvidenceInv, DHCPIsConfirmed, BeforeReport
  <1>4. Valid(plan) /\ plan \in PlanType
    BY <1>1 DEF Inv, ScriptInv, NetworkInv, OnCHR
  <1>5. Shape(Script(plan), plan)
    BY <1>4, ScriptShape
  <1>6. Script(plan)' = Script(plan) /\ Valid(plan)'
    BY <1>1, <1>4
  <1>7. 1 \in 1..Len(Script(plan)) /\ reboots' \in 0..MaxReboots
    BY <1>1, <1>5, FirstBootAssumption DEF Shape, Inv, ScriptInv
  <1>8. ScriptInv'
    BY <1>1, <1>6, <1>7 DEF Inv, ScriptInv, OnCHR
  <1> QED BY <1>2, <1>3, <1>8 DEF Inv

\* The inductive step, action by action.
LEMMA InvNext == Inv /\ [Next]_vars => Inv'
  <1> SUFFICES ASSUME Inv, [Next]_vars PROVE Inv'
    OBVIOUS
  <1>1. CASE PlanNext /\ UNCHANGED bootVars
    BY <1>1, PlanNextInv
  <1>2. CASE BootCHR
    BY <1>2, BootCHRInv
  <1>3. CASE RunCommand
    BY <1>3, RunCommandInv
  <1>4. CASE Reboot
    BY <1>4, RebootInv
  <1>5. CASE UNCHANGED vars
    <2>1. /\ UNCHANGED <<host, phase, plan, issues, clock, heard, offer, ack, matching, chr, pc, reboots>>
      BY <1>5 DEF vars, planVars, bootVars, detection
    <2>2. Valid(plan)' = Valid(plan) /\ Script(plan)' = Script(plan) /\ Uplink' = Uplink
      BY <2>1, Zenon DEF Uplink
    <2>3. NetworkInv' /\ EvidenceInv'
      BY <2>1, <2>2 DEF Inv, NetworkInv, EvidenceInv, DHCPIsConfirmed, Valid
    <2>4. ScriptInv'
      BY <2>1, <2>2 DEF Inv, ScriptInv, UplinkFound
    <2> QED BY <2>3, <2>4 DEF Inv
  <1> QED BY <1>1, <1>2, <1>3, <1>4, <1>5 DEF Next

LEMMA InvHolds == Spec => []Inv
  <1> QED BY InvInit, InvNext, PTL DEF Spec

----------------------------------------------------------------------------
(* What the script leaves *)

\* What is on the uplink u once the whole script has run.
Final(S, p, n, c, u, r) ==
    \A f \in Families :
        /\ [port |-> u, family |-> f] \in c.clients <=> ClientsOf(p, f) # {}
        /\ \A q \in SUBSET Address :
              [port |-> u, family |-> f, prefix |-> q] \in c.addresses <=> q \in AddressesOf(p, f)
        /\ \A x : x \in c.routes /\ x.family = f
              <=> \E i \in 10..n :
                    /\ S[i].op = "addRoute" /\ S[i].family = f
                    /\ x = [family |-> f, route |-> S[i].arg, id |-> <<r, i>>]
        /\ \A b \in AcceptanceOf(p, f) : c.ra = b

\* After the last command nothing is left but what the plan asks for.
LEMMA ScriptIsDone ==
    ASSUME NEW p \in PlanType, NEW S, Shape(S, p), NEW n \in Nat, n = Len(S), chr \in ConfigType,
           NEW u, NEW r, After(S, n, chr, u, r)
    PROVE  Final(S, p, n, chr, u, r)
  <1>1. n >= 9
    BY DEF Shape
  <1>a. SUFFICES ASSUME NEW f \in Families
        PROVE  /\ [port |-> u, family |-> f] \in chr.clients <=> ClientsOf(p, f) # {}
               /\ \A q \in SUBSET Address :
                     [port |-> u, family |-> f, prefix |-> q] \in chr.addresses
                         <=> q \in AddressesOf(p, f)
               /\ \A x : x \in chr.routes /\ x.family = f
                     <=> \E i \in 10..n :
                           /\ S[i].op = "addRoute" /\ S[i].family = f
                           /\ x = [family |-> f, route |-> S[i].arg, id |-> <<r, i>>]
               /\ \A b \in AcceptanceOf(p, f) : chr.ra = b
    BY Zenon DEF Final
  <1>2. /\ ClientsAfter(S, n, chr, u, f) /\ AddressesAfter(S, n, chr, u, f)
        /\ RoutesAfter(S, n, chr, r, f) /\ AcceptanceAfter(S, n, chr, f)
    BY DEF After
  <1>3. /\ \E k \in 1..n : S[k] = Command("removeClients", f, 0)
        /\ \E k \in 1..n : S[k] = Command("removeAddresses", f, 0)
        /\ \E k \in 1..n : S[k] = Command("removeMarkedRoutes", f, 0)
    <2>1. \E k \in 1..n : S[k] = Command("removeClients", f, 0)
      BY <1>1, RemovalsAreDone
    <2>2. \E k \in 1..n : S[k] = Command("removeAddresses", f, 0)
      BY <1>1, RemovalsAreDone
    <2>3. \E k \in 1..n : S[k] = Command("removeMarkedRoutes", f, 0)
      BY <1>1, RemovalsAreDone
    <2> QED BY <2>1, <2>2, <2>3
  <1>4. \A op, family, arg : /\ Command(op, family, arg).op = op /\ Command(op, family, arg).family = family
                             /\ Command(op, family, arg).arg = arg
    BY FieldsOfCommands
  <1>5. /\ \A c \in ClientsOf(p, f) : \E i \in 10..n : S[i] = Command("addClient", f, c)
        /\ \A q \in AddressesOf(p, f) : \E i \in 10..n : S[i] = Command("addAddress", f, q)
        /\ \A b \in AcceptanceOf(p, f) :
              \E i \in 10..n : S[i] = Command("acceptAdvertisements", f, b)
    BY Zenon DEF Shape
  <1>6. \A i \in 10..n : /\ S[i].op = "addClient" => S[i].arg \in ClientsOf(p, S[i].family)
                         /\ S[i].op = "addAddress" => S[i].arg \in AddressesOf(p, S[i].family)
    BY Zenon DEF Shape
  <1>7. [port |-> u, family |-> f] \in chr.clients <=> ClientsOf(p, f) # {}
    <2>1. [port |-> u, family |-> f] \in chr.clients
             <=> \E i \in 10..n : S[i] = Command("addClient", f, 0)
      BY <1>2, <1>3 DEF ClientsAfter
    <2>2. (\E i \in 10..n : S[i] = Command("addClient", f, 0)) => ClientsOf(p, f) # {}
      BY <1>4, <1>6
    <2>3. ClientsOf(p, f) # {} => 0 \in ClientsOf(p, f)
      BY DEF ClientsOf
    <2> QED BY <1>5, <2>1, <2>2, <2>3
  <1>8. ASSUME NEW q \in SUBSET Address
        PROVE  [port |-> u, family |-> f, prefix |-> q] \in chr.addresses <=> q \in AddressesOf(p, f)
    <2>1. [port |-> u, family |-> f, prefix |-> q] \in chr.addresses
             <=> \E i \in 10..n : S[i] = Command("addAddress", f, q)
      BY <1>2, <1>3 DEF AddressesAfter
    <2>2. (\E i \in 10..n : S[i] = Command("addAddress", f, q)) => q \in AddressesOf(p, f)
      BY <1>4, <1>6
    <2> QED BY <1>5, <2>1, <2>2
  <1>9. \A x : x \in chr.routes /\ x.family = f
                 <=> \E i \in 10..n :
                       /\ S[i].op = "addRoute" /\ S[i].family = f
                       /\ x = [family |-> f, route |-> S[i].arg, id |-> <<r, i>>]
    BY <1>2, <1>3, Zenon DEF RoutesAfter
  <1>10. \A b \in AcceptanceOf(p, f) : chr.ra = b
    <2>1. \A b \in AcceptanceOf(p, f) : b \in BOOLEAN
      BY DEF AcceptanceOf, PlanType
    <2> QED BY <1>2, <1>5, <2>1 DEF AcceptanceAfter
  <1> QED BY <1>7, <1>8, <1>9, <1>10

\* Two routes with the same content come from one command.
LEMMA RoutesAreDistinct ==
    ASSUME NEW p \in PlanType, NEW S, Shape(S, p), NEW n \in Nat, n = Len(S), chr \in ConfigType,
           NEW u, NEW r, Final(S, p, n, chr, u, r),
           NEW x \in chr.routes, NEW y \in chr.routes, x.family = y.family, x.route = y.route
    PROVE  x = y
  <1>1. PICK f \in Families : f = x.family
    BY DEF ConfigType
  <1>9. \A z : z \in chr.routes /\ z.family = f
             => \E k \in 10..n : /\ S[k].op = "addRoute" /\ S[k].family = f
                                 /\ z = [family |-> f, route |-> S[k].arg, id |-> <<r, k>>]
    BY ZenonT(60) DEF Final
  <1>2. PICK i \in 10..n : /\ S[i].op = "addRoute" /\ S[i].family = f
                           /\ x = [family |-> f, route |-> S[i].arg, id |-> <<r, i>>]
    BY <1>1, <1>9
  <1>3. PICK j \in 10..n : /\ S[j].op = "addRoute" /\ S[j].family = f
                           /\ y = [family |-> f, route |-> S[j].arg, id |-> <<r, j>>]
    BY <1>1, <1>9
  <1>4. S[i].arg = S[j].arg
    BY <1>2, <1>3
  <1>5. i \in 1..Len(S) /\ j \in 1..Len(S)
    OBVIOUS
  <1>6. S[i] = Command(S[i].op, S[i].family, S[i].arg) /\ S[j] = Command(S[j].op, S[j].family, S[j].arg)
    BY <1>5, CommandsInOrder
  <1>7. S[i] = S[j]
    BY <1>2, <1>3, <1>4, <1>6
  <1>8. i = j
    BY <1>7 DEF Shape
  <1> QED BY <1>2, <1>3, <1>4, <1>8

\* The static routes of a family are those of the plan.
LEMMA RoutesAreThePlans ==
    ASSUME NEW p \in PlanType, NEW S, Shape(S, p), NEW n \in Nat, n = Len(S), chr \in ConfigType,
           NEW u, NEW r, Final(S, p, n, chr, u, r), NEW f \in Families
    PROVE  StaticRoutes(f) = RoutesOf(p, f)
  <1>1. ASSUME NEW d \in StaticRoutes(f)
        PROVE  d \in RoutesOf(p, f)
    <2>1. PICK x \in chr.routes : x.family = f /\ d = x.route
      BY DEF StaticRoutes
    <2>5. \A z : z \in chr.routes /\ z.family = f
               => \E k \in 10..n : /\ S[k].op = "addRoute" /\ S[k].family = f
                                   /\ z = [family |-> f, route |-> S[k].arg, id |-> <<r, k>>]
      BY Zenon DEF Final
    <2>2. PICK i \in 10..n : /\ S[i].op = "addRoute" /\ S[i].family = f
                             /\ x = [family |-> f, route |-> S[i].arg, id |-> <<r, i>>]
      BY <2>1, <2>5
    <2>3. d = S[i].arg
      BY <2>1, <2>2
    <2>4. S[i].op = "addRoute" => S[i].arg \in RoutesOf(p, S[i].family)
      BY Zenon DEF Shape
    <2> QED BY <2>2, <2>3, <2>4
  <1>2. ASSUME NEW t \in RoutesOf(p, f)
        PROVE  t \in StaticRoutes(f)
    <2>0. \E i \in 10..n : S[i] = Command("addRoute", f, t)
      BY Zenon DEF Shape
    <2>1. PICK i \in 10..n : S[i].op = "addRoute" /\ S[i].family = f /\ S[i].arg = t
      BY <2>0, FieldsOfCommands
    <2>2. PICK x : x = [family |-> f, route |-> S[i].arg, id |-> <<r, i>>]
      OBVIOUS
    <2>3. x \in chr.routes /\ x.family = f
      BY <2>1, <2>2, Zenon DEF Final
    <2>4. x.route \in StaticRoutes(f) /\ x.route = S[i].arg
      BY <2>2, <2>3 DEF StaticRoutes
    <2> QED BY <2>1, <2>4
  <1> QED BY <1>1, <1>2

\* What the end of the script says of CHR, by the plan alone.
LEMMA AppliedScript ==
    ASSUME Inv, phase = "applied"
    PROVE  /\ plan \in PlanType /\ Valid(plan) /\ chr \in ConfigType
           /\ Uplink \in Ports /\ matching = {Uplink}
           /\ \A f \in Families :
                 /\ StaticRoutes(f) = RoutesOf(plan, f)
                 /\ HasClient(f) <=> ClientsOf(plan, f) # {}
                 /\ \A q \in SUBSET Address :
                       [port |-> Uplink, family |-> f, prefix |-> q] \in chr.addresses
                           <=> q \in AddressesOf(plan, f)
           /\ \A x, y \in chr.routes : x.family = y.family /\ x.route = y.route => x = y
           /\ chr.ra = plan.IPv6.slaac
  <1>1. PICK S : S = Script(plan)
    OBVIOUS
  <1>2. Valid(plan) /\ plan \in PlanType /\ chr \in ConfigType /\ matching \subseteq Ports
    BY DEF Inv, ScriptInv, NetworkInv, OnCHR
  <1>3. Shape(S, plan)
    BY <1>1, <1>2, ScriptShape
  <1>4. PICK n \in Nat : n = Len(S)
    BY <1>3 DEF Shape
  <1>5. UplinkFound /\ After(S, n, chr, Uplink, reboots)
    <2>1. pc = Len(S) + 1 /\ pc - 1 = n /\ pc > 1
      BY <1>1, <1>3, <1>4 DEF Inv, ScriptInv, Shape
    <2> QED BY <1>1, <2>1 DEF Inv, ScriptInv
  <1>6. PICK u \in Ports : matching = {u} /\ Uplink = u
    BY <1>2, <1>5, UplinkIsAPort
  <1>7. Final(S, plan, n, chr, u, reboots)
    BY <1>2, <1>3, <1>4, <1>5, <1>6, ScriptIsDone
  <1>8. ASSUME NEW f \in Families
        PROVE  /\ StaticRoutes(f) = RoutesOf(plan, f)
               /\ HasClient(f) <=> ClientsOf(plan, f) # {}
               /\ \A q \in SUBSET Address :
                     [port |-> Uplink, family |-> f, prefix |-> q] \in chr.addresses
                         <=> q \in AddressesOf(plan, f)
    <2>1. StaticRoutes(f) = RoutesOf(plan, f)
      BY <1>2, <1>3, <1>4, <1>7, RoutesAreThePlans, Zenon
    <2>2. [port |-> u, family |-> f] \in chr.clients <=> ClientsOf(plan, f) # {}
      BY <1>7, Zenon DEF Final
    <2>3. HasClient(f) <=> ClientsOf(plan, f) # {}
      BY <1>6, <2>2 DEF HasClient
    <2>4. \A q \in SUBSET Address :
             [port |-> u, family |-> f, prefix |-> q] \in chr.addresses
                 <=> q \in AddressesOf(plan, f)
      BY <1>7, Zenon DEF Final
    <2> QED BY <1>6, <2>1, <2>3, <2>4
  <1>9. \A x, y \in chr.routes : x.family = y.family /\ x.route = y.route => x = y
    BY <1>2, <1>3, <1>4, <1>7, RoutesAreDistinct, Zenon
  <1>10. chr.ra = plan.IPv6.slaac
    <2>1. \A b \in AcceptanceOf(plan, "IPv6") : chr.ra = b
      BY <1>7, Zenon DEF Final, Families
    <2> QED BY <2>1 DEF AcceptanceOf
  <1> QED BY <1>2, <1>6, <1>8, <1>9, <1>10

\* What ScriptIsIdempotent asks, at the end of the script and where it is aborted.
LEMMA IdempotentFromInv ==
    ASSUME Inv
    PROVE  ScriptIsIdempotent
  <1>1. phase = "aborted" => ~UplinkFound
    BY DEF Inv, ScriptInv
  <1>2. SUFFICES ASSUME phase = "applied"
        PROVE  LET on(family) == [port |-> Uplink, family |-> family]
               IN /\ {x \in chr.clients : x.port = Uplink}
                       = {on("IPv4") : m \in {plan.IPv4.mode} \cap {"dhcp"}}
                         \cup {on("IPv6") : m \in {plan.IPv6.dhcp} \cap {TRUE}}
                  /\ {<<x.family, x.prefix>> : x \in {x \in chr.addresses : x.port = Uplink}}
                       = {"IPv6"} \X plan.IPv6.addresses
                         \cup {"IPv4"} \X (IF plan.IPv4.mode = "static" THEN plan.IPv4.addresses ELSE {})
                  /\ \A x, y \in chr.routes : x.family = y.family /\ x.route = y.route => x = y
                  /\ \A family \in Families :
                       {r.gw : r \in {r \in StaticRoutes(family) : r.dst = Address}}
                       = IF family = "IPv4" /\ plan.IPv4.mode # "static" THEN {}
                         ELSE {plan[family].gw} \ {NoGateway}
                  /\ chr.ra = plan.IPv6.slaac
    BY <1>1 DEF ScriptIsIdempotent
  <1>3. PICK u : u = Uplink
    OBVIOUS
  <1>4. Valid(plan) /\ plan \in PlanType /\ chr \in ConfigType
    BY <1>2, AppliedScript
  <1>5. \A f \in Families :
          /\ StaticRoutes(f) = RoutesOf(plan, f)
          /\ [port |-> u, family |-> f] \in chr.clients <=> ClientsOf(plan, f) # {}
          /\ \A q \in SUBSET Address :
                [port |-> u, family |-> f, prefix |-> q] \in chr.addresses
                    <=> q \in AddressesOf(plan, f)
    BY <1>2, <1>3, AppliedScript DEF HasClient
  <1>6. "IPv4" \in Families /\ "IPv6" \in Families /\ \A f \in Families : f = "IPv4" \/ f = "IPv6"
    BY DEF Families
  <1>7. {x \in chr.clients : x.port = u}
            = {[port |-> u, family |-> "IPv4"] : m \in {plan.IPv4.mode} \cap {"dhcp"}}
              \cup {[port |-> u, family |-> "IPv6"] : m \in {plan.IPv6.dhcp} \cap {TRUE}}
    <2>1. /\ [port |-> u, family |-> "IPv4"] \in chr.clients <=> ClientsOf(plan, "IPv4") # {}
          /\ [port |-> u, family |-> "IPv6"] \in chr.clients <=> ClientsOf(plan, "IPv6") # {}
      BY <1>5, <1>6, Zenon
    <2>2. /\ ClientsOf(plan, "IPv4") # {} <=> plan.IPv4.mode = "dhcp"
          /\ ClientsOf(plan, "IPv6") # {} <=> plan.IPv6.dhcp
      BY DEF ClientsOf
    <2>3. plan.IPv6.dhcp \in BOOLEAN
      BY <1>4 DEF PlanType
    <2>4. \A x \in chr.clients : x.port = u =>
             x = [port |-> u, family |-> "IPv4"] \/ x = [port |-> u, family |-> "IPv6"]
      BY <1>4, <1>6 DEF ConfigType
    <2>5. /\ [port |-> u, family |-> "IPv4"].port = u /\ [port |-> u, family |-> "IPv6"].port = u
      OBVIOUS
    <2> QED BY <2>1, <2>2, <2>3, <2>4, <2>5
  <1>8. {<<x.family, x.prefix>> : x \in {x \in chr.addresses : x.port = u}}
            = {"IPv6"} \X plan.IPv6.addresses
              \cup {"IPv4"} \X (IF plan.IPv4.mode = "static" THEN plan.IPv4.addresses ELSE {})
    <2>1. \A f \in Families, q \in SUBSET Address :
             [port |-> u, family |-> f, prefix |-> q] \in chr.addresses <=> q \in AddressesOf(plan, f)
      BY <1>5, Zenon
    <2>2. /\ AddressesOf(plan, "IPv6") = plan.IPv6.addresses
          /\ AddressesOf(plan, "IPv4")
                = IF plan.IPv4.mode = "static" THEN plan.IPv4.addresses ELSE {}
      BY DEF AddressesOf
    <2>3. \A f \in Families : AddressesOf(plan, f) \subseteq SUBSET Address
      BY <1>4, <1>6 DEF AddressesOf, PlanType
    <2>4. ASSUME NEW x \in chr.addresses, x.port = u
          PROVE  /\ x.family \in Families /\ x.prefix \in AddressesOf(plan, x.family)
      <3>1. x = [port |-> u, family |-> x.family, prefix |-> x.prefix]
            /\ x.family \in Families /\ x.prefix \in SUBSET Address
        BY <1>4, <2>4 DEF ConfigType
      <3> QED BY <2>1, <3>1
    <2>5. ASSUME NEW f \in Families, NEW q \in AddressesOf(plan, f)
          PROVE  \E x \in chr.addresses : x.port = u /\ x.family = f /\ x.prefix = q
      <3>1. [port |-> u, family |-> f, prefix |-> q] \in chr.addresses
        BY <2>1, <2>3
      <3> QED BY <3>1
    <2>6. \A t : t \in {<<x.family, x.prefix>> : x \in {x \in chr.addresses : x.port = u}}
                <=> \E f \in Families : \E q \in AddressesOf(plan, f) : t = <<f, q>>
      BY <2>4, <2>5
    <2>7. \A t : t \in {"IPv6"} \X AddressesOf(plan, "IPv6") \cup {"IPv4"} \X AddressesOf(plan, "IPv4")
                <=> \E f \in Families : \E q \in AddressesOf(plan, f) : t = <<f, q>>
      BY <1>6
    <2>8. {<<x.family, x.prefix>> : x \in {x \in chr.addresses : x.port = u}}
             = {"IPv6"} \X AddressesOf(plan, "IPv6") \cup {"IPv4"} \X AddressesOf(plan, "IPv4")
      BY <2>6, <2>7, Zenon
    <2> QED BY <2>2, <2>8
  <1>9. \A x, y \in chr.routes : x.family = y.family /\ x.route = y.route => x = y
    BY <1>2, AppliedScript
  <1>10. ASSUME NEW f \in Families
         PROVE  {r.gw : r \in {r \in StaticRoutes(f) : r.dst = Address}}
                 = IF f = "IPv4" /\ plan.IPv4.mode # "static" THEN {} ELSE {plan[f].gw} \ {NoGateway}
    <2>1. StaticRoutes(f) = RoutesOf(plan, f)
      BY <1>5
    <2>2. \A gw \in Gateways, onlink \in BOOLEAN :
             {r.gw : r \in {r \in DefaultRoutes(gw, onlink) : r.dst = Address}} = {gw}
      BY DefaultRoutesAreScriptRoutes DEF DefaultRoutes
    <2>3. plan.IPv4.gw \in Gateways /\ plan.IPv4.onlink \in BOOLEAN /\ plan.IPv6.gw \in Gateways
          /\ (plan.IPv4.mode = "static" => plan.IPv4.gw # NoGateway)
      BY <1>4 DEF PlanType, Valid
    <2>4. {r.gw : r \in {r \in RoutesOf(plan, "IPv4") : r.dst = Address}}
            = IF plan.IPv4.mode = "static" THEN {plan.IPv4.gw} \ {NoGateway} ELSE {}
      <3>1. plan.IPv4.mode = "static" => RoutesOf(plan, "IPv4") = DefaultRoutes(plan.IPv4.gw, plan.IPv4.onlink)
        BY DEF RoutesOf
      <3>2. plan.IPv4.mode # "static" => RoutesOf(plan, "IPv4") = {}
        BY DEF RoutesOf
      <3> QED BY <2>2, <2>3, <3>1, <3>2, ZenonT(60)
    <2>5. {r.gw : r \in {r \in RoutesOf(plan, "IPv6") : r.dst = Address}} = {plan.IPv6.gw} \ {NoGateway}
      <3>1. PICK onlink \in BOOLEAN : onlink = (plan.IPv6.onlink /\ plan.IPv6.gw # LinkLocal)
        BY Zenon
      <3>2. plan.IPv6.gw # NoGateway => RoutesOf(plan, "IPv6") = DefaultRoutes(plan.IPv6.gw, onlink)
        BY <3>1 DEF RoutesOf
      <3>3. plan.IPv6.gw = NoGateway => RoutesOf(plan, "IPv6") = {}
        BY DEF RoutesOf
      <3> QED BY <2>2, <2>3, <3>2, <3>3, ZenonT(60)
    <2> QED BY <1>6, <2>1, <2>4, <2>5
  <1>11. chr.ra = plan.IPv6.slaac
    BY <1>2, AppliedScript
  <1> QED BY <1>3, <1>7, <1>8, <1>9, <1>10, <1>11

----------------------------------------------------------------------------
(* How CHR and Linux forward *)

\* The look-up of CHR among the active routes A.
Lookup(A, a) ==
    {Hop(a, r.gw) : r \in {r \in A : a \in r.dst /\ \A s \in A : a \in s.dst => r.dst \subseteq s.dst}}

\* The routes A lead to the prefixes C on the link, for the rest to g, and perhaps
\* to g itself on the link.
Leads(A, C, g) ==
    /\ \A r \in A : \/ r.dst = Address /\ r.gw = g
                    \/ r.gw = NoGateway /\ (r.dst \in C \/ r.dst = {g})
    /\ \A p \in C : [dst |-> p, gw |-> NoGateway] \in A
    /\ \A p \in C : p \subseteq Address /\ p # Address
    /\ \A p, q \in C : p \subseteq q \/ q \subseteq p \/ p \cap q = {}

\* Where some route covers an address, one has the longest prefix.
LEMMA LongestPrefix ==
    ASSUME NEW A, NEW C, NEW g, Leads(A, C, g), NEW a \in Address, \E r \in A : a \in r.dst
    PROVE  \E r \in A : a \in r.dst /\ \A s \in A : a \in s.dst => r.dst \subseteq s.dst
  <1> DEFINE T == {r.dst : r \in {r \in A : a \in r.dst}}
  <1>1. ASSUME NEW r \in A, a \in r.dst
        PROVE  r.dst = Address \/ (r.dst \in C /\ r.dst \subseteq Address) \/ r.dst = {a}
    BY <1>1 DEF Leads
  <1>2. T \in SUBSET (SUBSET Address) /\ T # {}
    BY <1>1
  <1>3. PICK p \in T : \A q \in T : q \subseteq p => q = p
    BY <1>2, SmallestPrefix
  <1>4. PICK r \in A : a \in r.dst /\ r.dst = p
    OBVIOUS
  <1>5. ASSUME NEW s \in A, a \in s.dst PROVE p \subseteq s.dst
    <2>1. s.dst \in T
      BY <1>5
    <2>2. p \subseteq s.dst \/ s.dst \subseteq p
      BY <1>1, <1>4, <1>5 DEF Leads
    <2> QED BY <1>3, <2>1, <2>2
  <1> QED BY <1>4, <1>5

\* A packet to a neighbour goes to the neighbour.
LEMMA OnTheLink ==
    ASSUME NEW A, NEW C, NEW g, Leads(A, C, g), NEW a \in Address, NEW p \in C, a \in p
    PROVE  Lookup(A, a) = {a}
  <1>1. PICK c : c = [dst |-> p, gw |-> NoGateway]
    OBVIOUS
  <1>2. c \in A /\ a \in c.dst /\ c.dst # Address /\ c.dst \subseteq Address
    BY <1>1 DEF Leads
  <1>3. PICK r \in A : a \in r.dst /\ \A s \in A : a \in s.dst => r.dst \subseteq s.dst
    BY <1>2, LongestPrefix
  <1>4. ASSUME NEW s \in A, a \in s.dst, \A t \in A : a \in t.dst => s.dst \subseteq t.dst
        PROVE  Hop(a, s.gw) = a
    <2>1. s.dst # Address
      BY <1>2, <1>4
    <2>2. s.gw = NoGateway
      BY <2>1 DEF Leads
    <2> QED BY <2>2 DEF Hop
  <1> QED BY <1>3, <1>4 DEF Lookup

\* A packet to an address on no prefix of the link goes to the gateway.
LEMMA BehindTheGateway ==
    ASSUME NEW A, NEW C, NEW g, Leads(A, C, g), NEW a \in Address,
           [dst |-> Address, gw |-> g] \in A, \A p \in C : a \notin p
    PROVE  Lookup(A, a) = {Hop(a, g)}
  <1>1. PICK d : d = [dst |-> Address, gw |-> g]
    OBVIOUS
  <1>2. d \in A /\ a \in d.dst
    BY <1>1
  <1>3. PICK r \in A : a \in r.dst /\ \A s \in A : a \in s.dst => r.dst \subseteq s.dst
    BY <1>2, LongestPrefix
  <1>4. ASSUME NEW s \in A, a \in s.dst PROVE Hop(a, s.gw) = Hop(a, g)
    <2>1. s.gw = g \/ (s.gw = NoGateway /\ a = g)
      BY <1>4 DEF Leads
    <2> QED BY <2>1 DEF Hop
  <1> QED BY <1>3, <1>4 DEF Lookup

\* A packet to the gateway goes to the gateway, on a prefix of the link or not.
LEMMA ToTheGateway ==
    ASSUME NEW A, NEW C, NEW g \in Address, Leads(A, C, g), [dst |-> Address, gw |-> g] \in A
    PROVE  Lookup(A, g) = {g}
  <1>1. PICK d : d = [dst |-> Address, gw |-> g]
    OBVIOUS
  <1>2. d \in A /\ g \in d.dst
    BY <1>1
  <1>3. PICK r \in A : g \in r.dst /\ \A s \in A : g \in s.dst => r.dst \subseteq s.dst
    BY <1>2, LongestPrefix
  <1>4. ASSUME NEW s \in A PROVE Hop(g, s.gw) = g
    BY DEF Leads, Hop
  <1> QED BY <1>3, <1>4 DEF Lookup

\* Linux uses the one best route, and CHR answers for it when it leaves through
\* the uplink.
LEMMA KeptByTheBest ==
    ASSUME NEW f \in Families, NEW a, IsTable(host.routes[f]),
           \A b \in BestRoutes(host.routes[f], a) :
               b.dev = "uplink" => Lookup(ActiveRoutes(f), a) = {Hop(a, b.gw)}
    PROVE  Kept(f, a)
  <1>1. SUFFICES ASSUME LinuxHops(f, a) # {} PROVE CHRHops(f, a) = LinuxHops(f, a)
    BY DEF Kept
  <1>2. PICK b \in BestRoutes(host.routes[f], a) : b.dev = "uplink"
    BY <1>1 DEF LinuxHops
  <1>3. \A c \in BestRoutes(host.routes[f], a) : c = b
    BY BestIsUnique
  <1>4. LinuxHops(f, a) = {Hop(a, b.gw)}
    BY <1>2, <1>3 DEF LinuxHops
  <1>5. CHRHops(f, a) = Lookup(ActiveRoutes(f), a)
    BY DEF CHRHops, Lookup
  <1> QED BY <1>2, <1>4, <1>5

Translatable(h) ==
    /\ h \in HostType /\ RealHost(h)
    /\ UplinkOf(h) # "none" /\ ObservedIssues(h) = {}

\* Every route of a host without issue is a default along the one path, a route to
\* a prefix of the link, a host route to the gateway, or a redundant DHCP route.
LEMMA RouteKinds ==
    ASSUME NEW h, Translatable(h), NEW f \in Families, NEW r \in h.routes[f], r.dev = "uplink"
    PROVE  \/ IsDefaultRoute(r) /\ HasDefault(h, f) /\ r.gw = Default(h, f).gw
           \/ ~IsDefaultRoute(r) /\ IsImplied(r, f)
           \/ HasDefault(h, f) /\ IsGatewayHostRoute(r, Default(h, f))
           \/ f = "IPv4" /\ HasDefault(h, f) /\ IsRedundantDHCPRoute(r, Default(h, f))
  <1>1. /\ DefaultIssues(h) = {}
        /\ RouteIssues(h, "IPv4", IPv4Mode(h) = "dhcp") = {} /\ RouteIssues(h, "IPv6", FALSE) = {}
    BY DEF Translatable, ObservedIssues
  <1>2. CASE IsDefaultRoute(r)
    <2>1. HasDefault(h, f) /\ r \in Defaults(h.routes[f])
      BY <1>2 DEF HasDefault, Defaults
    <2>2. ~MultipleDefaults(h.routes[f])
      BY <1>1, <2>1 DEF DefaultIssues
    <2> QED BY <1>2, <2>1, <2>2 DEF MultipleDefaults, Default
  <1>3. CASE ~IsDefaultRoute(r) /\ ~IsImplied(r, f)
    <2>1. PICK dhcp \in BOOLEAN : dhcp = (f = "IPv4" /\ IPv4Mode(h) = "dhcp")
      BY Zenon
    <2>2. RouteIssues(h, f, dhcp) = {}
      <3>1. f = "IPv4" => (dhcp = (IPv4Mode(h) = "dhcp"))
        BY <2>1
      <3>2. f # "IPv4" => dhcp = FALSE
        BY <2>1
      <3> QED BY <1>1, <3>1, <3>2 DEF Families
    <2>3. RouteIssue(r, h.routes[f], UplinkOf(h), f, dhcp) \in {"none", "redundant"}
      BY <2>2 DEF RouteIssues
    <2>4. Defaults(h.routes[f]) # {} <=> HasDefault(h, f)
      BY DEF HasDefault
    <2>5. \/ HasDefault(h, f) /\ IsGatewayHostRoute(r, Default(h, f))
          \/ dhcp /\ HasDefault(h, f) /\ IsRedundantDHCPRoute(r, Default(h, f))
      BY <1>3, <2>3, <2>4 DEF RouteIssue, Default
    <2> QED BY <2>1, <2>5
  <1> QED BY <1>2, <1>3

LinkPrefixes(h, f) == {a.prefix : a \in h.addresses[f]}

\* The routes of the kernel and of advertisements are those to the prefixes.
LEMMA RoutesOfPrefixes ==
    ASSUME NEW h, Translatable(h), NEW f \in Families
    PROVE  /\ IsTable(h.routes[f])
           /\ \A r \in h.routes[f] : IsImplied(r, f) /\ ~IsDefaultRoute(r) /\ r.dev = "uplink"
                => r.gw = NoGateway /\ r.dst \in LinkPrefixes(h, f)
           /\ \A p \in LinkPrefixes(h, f) : \E r \in h.routes[f] :
                IsImplied(r, f) /\ ~IsDefaultRoute(r) /\ r.dev = "uplink" /\ r.dst = p
           /\ \A p \in LinkPrefixes(h, f) : p \subseteq Address /\ p # Address
           /\ \A p, q \in LinkPrefixes(h, f) : p \subseteq q \/ q \subseteq p \/ p \cap q = {}
  <1> DEFINE onLink == {r \in h.routes[f] : IsImplied(r, f) /\ ~IsDefaultRoute(r) /\ r.dev = "uplink"}
  <1>1. /\ IsTable(h.routes[f]) /\ \A r \in onLink : r.gw = NoGateway
        /\ {r.dst : r \in onLink} = LinkPrefixes(h, f)
    BY DEF Translatable, RealHost, LinkPrefixes
  <1>2. \A p \in LinkPrefixes(h, f) : \E r \in onLink : r.dst = p
    BY <1>1
  <1>3. \A r \in onLink : r.dst \in LinkPrefixes(h, f)
    BY <1>1
  <1>4. \A p \in LinkPrefixes(h, f) : p \subseteq Address /\ p # Address
    BY <1>1, <1>2 DEF IsTable, IsDefaultRoute
  <1>5. \A p, q \in LinkPrefixes(h, f) : p \subseteq q \/ q \subseteq p \/ p \cap q = {}
    BY <1>1, <1>2 DEF IsTable
  <1> QED BY <1>1, <1>2, <1>3, <1>4, <1>5

\* CHR forwards as Linux did where its routes lead to the prefixes of the link and
\* to the gateway of the default route, if there is one.
LEMMA KeptWhereItLeads ==
    ASSUME NEW f \in Families, Translatable(host), NEW g, NEW a \in Address,
           Leads(ActiveRoutes(f), LinkPrefixes(host, f), g),
           HasDefault(host, f) =>
               g = Default(host, f).gw /\ [dst |-> Address, gw |-> g] \in ActiveRoutes(f),
           f = "IPv4" => ~RedundantWithin("IPv4", a)
    PROVE  Kept(f, a)
  <1>1. SUFFICES ASSUME NEW b \in BestRoutes(host.routes[f], a), b.dev = "uplink"
                 PROVE  Lookup(ActiveRoutes(f), a) = {Hop(a, b.gw)}
    BY RoutesOfPrefixes, KeptByTheBest
  <1>2. b \in host.routes[f] /\ a \in b.dst /\ \A s \in Covering(host.routes[f], a) : ~Beats(s, b)
    BY DEF BestRoutes, Covering
  <1>3. ASSUME NEW p \in LinkPrefixes(host, f), a \in p
        PROVE  \E r \in host.routes[f] : /\ IsImplied(r, f) /\ ~IsDefaultRoute(r) /\ r.dst = p
                                         /\ ~(p \subseteq b.dst /\ p # b.dst)
    <2>1. PICK r \in host.routes[f] : IsImplied(r, f) /\ ~IsDefaultRoute(r) /\ r.dst = p
      BY RoutesOfPrefixes
    <2>2. r \in Covering(host.routes[f], a)
      BY <1>3, <2>1 DEF Covering
    <2> QED BY <1>2, <2>1, <2>2 DEF Beats
  <1>4. CASE IsDefaultRoute(b) /\ HasDefault(host, f) /\ b.gw = Default(host, f).gw
    <2>1. \A p \in LinkPrefixes(host, f) : a \notin p
      BY <1>3, <1>4, RoutesOfPrefixes DEF IsDefaultRoute
    <2> QED BY <1>4, <2>1, BehindTheGateway
  <1>5. CASE ~IsDefaultRoute(b) /\ IsImplied(b, f)
    <2>1. b.gw = NoGateway /\ b.dst \in LinkPrefixes(host, f)
      BY <1>1, <1>2, <1>5, RoutesOfPrefixes
    <2>2. Lookup(ActiveRoutes(f), a) = {a}
      BY <1>2, <2>1, OnTheLink
    <2> QED BY <2>1, <2>2 DEF Hop
  <1>6. CASE HasDefault(host, f) /\ IsGatewayHostRoute(b, Default(host, f))
    <2>1. a = g /\ b.gw = NoGateway
      BY <1>2, <1>6 DEF IsGatewayHostRoute
    <2>2. Lookup(ActiveRoutes(f), g) = {g}
      BY <1>6, <2>1, ToTheGateway
    <2> QED BY <2>1, <2>2 DEF Hop
  <1>7. CASE f = "IPv4" /\ HasDefault(host, f) /\ IsRedundantDHCPRoute(b, Default(host, f))
    <2>1. b.gw = g
      BY <1>7 DEF IsRedundantDHCPRoute, ForwardingKey
    <2>2. ASSUME NEW p \in LinkPrefixes(host, f), a \in p PROVE FALSE
      <3>1. PICK r \in host.routes[f] : /\ IsImplied(r, f) /\ ~IsDefaultRoute(r) /\ r.dst = p
                                        /\ ~(p \subseteq b.dst /\ p # b.dst)
        BY <1>3, <2>2
      <3>2. ~IsRedundantDHCPRoute(r, Default(host, f))
        BY <1>7, <3>1 DEF IsImplied, IsRedundantDHCPRoute
      <3>3. p \subseteq b.dst \/ b.dst \subseteq p
        BY <1>2, <2>2, <3>1, RoutesOfPrefixes DEF IsTable
      <3>4. b.dst \subseteq r.dst
        BY <3>1, <3>3
      <3>5. b \in Covering(host.routes["IPv4"], a)
        BY <1>2, <1>7 DEF Covering
      <3> QED BY <1>7, <3>1, <3>2, <3>4, <3>5 DEF RedundantWithin
    <2> QED BY <1>7, <2>1, <2>2, BehindTheGateway
  <1> QED BY <1>1, <1>2, <1>4, <1>5, <1>6, <1>7, RouteKinds

----------------------------------------------------------------------------
(* What an unacknowledged plan says of its host *)

AsObserved(h, p) ==
    /\ p.IPv4.mode = IPv4Mode(h) /\ p.IPv4.addresses = IPv4Plan(h).addresses
    /\ p.IPv4.gw = Gateway(h, "IPv4") /\ (p.IPv4.onlink <=> GatewayOnLink(h, "IPv4"))
    /\ p.IPv6 = IPv6Plan(h)

Agreed(h, p) ==
    /\ UplinkOf(h) # "none" /\ ObservedIssues(h) = {} /\ AsObserved(h, p)
    /\ p.IPv6.evidence = "verified"

\* The plan is the one observed until the form changes it, and a plan that is
\* accepted without acknowledgement was not changed and met no issue.
AgreedInv ==
    /\ host \in Hosts
    /\ phase \in {"probe", "conclude"} =>
          UplinkOf(host) # "none" /\ issues = ObservedIssues(host) /\ AsObserved(host, plan)
    /\ phase = "reported" /\ plan.evidence = "verified" => Agreed(host, plan)
    /\ phase \in {"accepted"} \cup OnCHR /\ ~ack
          => Agreed(host, plan) /\ plan.IPv4.addresses # {}

LEMMA ObservedAgrees ==
    ASSUME NEW h, NEW p, p = [NoPlan EXCEPT !.IPv4 = IPv4Plan(h), !.IPv6 = IPv6Plan(h)]
    PROVE  AsObserved(h, p)
  <1>1. ASSUME NEW v4, NEW v6, p = [NoPlan EXCEPT !.IPv4 = v4, !.IPv6 = v6]
        PROVE  p.IPv4 = v4 /\ p.IPv6 = v6
    BY <1>1 DEF NoPlan
  <1>2. p.IPv4 = IPv4Plan(h) /\ p.IPv6 = IPv6Plan(h)
    BY <1>1
  <1>3. /\ IPv4Plan(h).mode = IPv4Mode(h) /\ IPv4Plan(h).gw = Gateway(h, "IPv4")
        /\ (IPv4Plan(h).onlink <=> GatewayOnLink(h, "IPv4"))
    BY Zenon DEF IPv4Plan
  <1> QED BY <1>2, <1>3 DEF AsObserved

\* Conclude: a verified plan met no issue.
LEMMA ConcludeAgrees ==
    ASSUME NetworkInv, AgreedInv, Conclude, plan'.evidence = "verified"
    PROVE  Agreed(host, plan')
  <1> DEFINE confirmed == host.lease["IPv4"] \/ offer
             dhcp == plan.IPv4.mode = "dhcp"
             v4 == IF dhcp /\ confirmed THEN "verified" ELSE plan.IPv4.evidence
             found == issues
               \cup (IF dhcp /\ ~confirmed THEN {"dhcp-unverified"} ELSE {})
               \cup (IF plan.IPv4.mode = "none" /\ host.addresses["IPv6"] = {}
                     THEN {"network"} ELSE {})
             e == IF v4 = "verified" /\ plan.IPv6.evidence = "verified" /\ found = {}
                  THEN "verified" ELSE "inferred"
  <1>1. plan' = [plan EXCEPT !.IPv4.evidence = v4, !.evidence = e] /\ phase = "conclude"
    BY DEF Conclude
  <1>2. plan \in PlanType
    BY DEF NetworkInv
  <1>3. /\ plan'.evidence = e /\ plan'.IPv4.mode = plan.IPv4.mode
        /\ plan'.IPv4.addresses = plan.IPv4.addresses /\ plan'.IPv4.gw = plan.IPv4.gw
        /\ plan'.IPv4.onlink = plan.IPv4.onlink /\ plan'.IPv6 = plan.IPv6
    <2> HIDE DEF v4, e
    <2> QED BY <1>1, <1>2 DEF PlanType
  <1>4. plan.IPv6.evidence = "verified" /\ found = {}
    BY <1>3
  <1>5. issues = {}
    BY <1>4
  <1> QED BY <1>1, <1>3, <1>4, <1>5 DEF AgreedInv, AsObserved, Agreed

LEMMA AgreedInit == Init => AgreedInv
  BY DEF Init, PlanInit, AgreedInv, OnCHR

LEMMA AgreedNext == Inv /\ AgreedInv /\ [Next]_vars => AgreedInv'
  <1>1. SUFFICES ASSUME Inv, AgreedInv, [Next]_vars PROVE AgreedInv'
    OBVIOUS
  <1>2. NetworkInv /\ EvidenceInv
    BY <1>1 DEF Inv
  <1>3. CASE Observe
    <2>1. host' = host /\ phase' \notin {"accepted"} \cup OnCHR
      BY <1>3 DEF Observe, OnCHR
    <2>2. CASE UplinkOf(host) # "none" /\ issues' = ObservedIssues(host) /\ phase' \in {"probe", "conclude"}
               /\ plan' = [NoPlan EXCEPT !.IPv4 = IPv4Plan(host), !.IPv6 = IPv6Plan(host)]
      BY <1>1, <2>1, <2>2, ObservedAgrees DEF AgreedInv
    <2>3. CASE phase' = "reported" /\ plan' = plan
      <3>1. plan'.evidence = "none"
        BY <1>2, <1>3, <2>3 DEF EvidenceInv, Observe, BeforeReport
      <3> QED BY <1>1, <2>1, <2>3, <3>1 DEF AgreedInv
    <2> QED BY <1>3, <2>2, <2>3 DEF Observe
  <1>4. CASE Probe
    <2>1. /\ host' = host /\ plan' = plan /\ issues' = issues
          /\ phase = "probe" /\ phase' \in {"probe", "conclude"}
      BY <1>4 DEF Probe, Receive, Tick, DeadlinePassed, ProbeFails, detection
    <2> QED BY <1>1, <2>1 DEF AgreedInv, OnCHR
  <1>5. CASE Conclude
    <2>1. host' = host /\ phase' = "reported"
      BY <1>5 DEF Conclude
    <2>2. plan'.evidence = "verified" => Agreed(host, plan')
      BY <1>1, <1>2, <1>5, ConcludeAgrees
    <2> QED BY <1>1, <2>1, <2>2 DEF AgreedInv, OnCHR
  <1>6. CASE Review
    <2>1. host' = host /\ phase = "reported" /\ phase' \in {"accepted", "refused"}
      BY <1>6 DEF Review
    <2>2. phase' = "accepted" /\ ~ack' => /\ plan' = plan /\ plan.evidence = "verified"
                                          /\ plan.IPv4.addresses # {}
      BY <1>2, <1>6, ReviewedPlan
    <2> QED BY <1>1, <2>1, <2>2 DEF AgreedInv, OnCHR
  <1>7. CASE BootCHR \/ RunCommand \/ Reboot \/ UNCHANGED vars
    <2>1. /\ host' = host /\ plan' = plan /\ issues' = issues /\ ack' = ack
          /\ \/ phase' = phase
             \/ phase \in {"accepted"} \cup OnCHR /\ phase' \in OnCHR
      BY <1>7 DEF BootCHR, RunCommand, Reboot, vars, planVars, detection, OnCHR
    <2> QED BY <1>1, <2>1 DEF AgreedInv, OnCHR
  <1> QED BY <1>1, <1>3, <1>4, <1>5, <1>6, <1>7 DEF Next, PlanNext

----------------------------------------------------------------------------
(* The routes of CHR *)

\* The prefixes on the link are those of Linux, whichever part of them the plan
\* has and whichever the network hands out.
LEMMA SameLink ==
    ASSUME Inv, phase = "applied", Agreed(host, plan), plan.IPv4.addresses # {},
           NEW f \in Families
    PROVE  Connected(f) = LinkPrefixes(host, f)
  <1>1. host \in HostType
    BY DEF Inv, NetworkInv
  <1>2. Static(host, f) \cup Dynamic(host, f) = LinkPrefixes(host, f)
    BY <1>1 DEF HostType, Static, Dynamic, PrefixesOf, LinkPrefixes
  <1>3. /\ plan \in PlanType /\ Valid(plan) /\ chr \in ConfigType /\ matching = {Uplink}
        /\ HasClient(f) <=> ClientsOf(plan, f) # {}
        /\ \A q \in SUBSET Address :
              [port |-> Uplink, family |-> f, prefix |-> q] \in chr.addresses
                  <=> q \in AddressesOf(plan, f)
        /\ chr.ra = plan.IPv6.slaac
    BY AppliedScript
  <1>4. AddressesOf(plan, f) \subseteq SUBSET Address
    BY <1>3 DEF AddressesOf, PlanType
  <1>5. {x.prefix : x \in {x \in chr.addresses : OfUplink(x, f)}} = AddressesOf(plan, f)
    <2>1. ASSUME NEW x \in chr.addresses, OfUplink(x, f) PROVE x.prefix \in AddressesOf(plan, f)
      <3>1. x = [port |-> Uplink, family |-> f, prefix |-> x.prefix] /\ x.prefix \in SUBSET Address
        BY <1>3, <2>1 DEF OfUplink, ConfigType
      <3> QED BY <1>3, <2>1, <3>1
    <2>2. ASSUME NEW q \in AddressesOf(plan, f)
          PROVE  \E x \in chr.addresses : OfUplink(x, f) /\ x.prefix = q
      <3>1. PICK x : x = [port |-> Uplink, family |-> f, prefix |-> q]
        OBVIOUS
      <3>2. x \in chr.addresses
        BY <1>3, <1>4, <2>2, <3>1
      <3> QED BY <1>3, <3>1, <3>2 DEF OfUplink
    <2> QED BY <2>1, <2>2
  <1>6. Connected(f) = AddressesOf(plan, f)
           \cup (IF ClientsOf(plan, f) # {} \/ (f = "IPv6" /\ plan.IPv6.slaac)
                 THEN Dynamic(host, f) ELSE {})
    BY <1>3, <1>5 DEF Connected
  <1>7. CASE f = "IPv4"
    <2>1. /\ IPv4Mode(host) # "" /\ plan.IPv4.mode = IPv4Mode(host)
          /\ plan.IPv4.addresses = Static(host, f) \cup Dynamic(host, f)
      <3>1. plan.IPv4.mode = IPv4Mode(host) /\ plan.IPv4.addresses = IPv4Plan(host).addresses
        BY DEF Agreed, AsObserved
      <3>2. IPv4Mode(host) # ""
        BY <1>3, <3>1 DEF Valid
      <3> QED BY <1>7, <3>1, <3>2 DEF IPv4Plan
    <2>2. \/ IPv4Mode(host) = "static" /\ Dynamic(host, f) = {}
          \/ IPv4Mode(host) = "dhcp" /\ Static(host, f) = {}
      <3>0. Dynamic(host, "IPv4") # {} \/ Static(host, "IPv4") # {}
        BY <1>7, <2>1
      <3>1. host.addresses["IPv4"] # {}
        BY <3>0 DEF Dynamic, Static, PrefixesOf
      <3>2. CASE Dynamic(host, "IPv4") # {} /\ Static(host, "IPv4") # {}
        <4>1. IPv4Mode(host) = ""
          BY <3>1, <3>2 DEF IPv4Mode
        <4> QED BY <2>1, <4>1
      <3>3. CASE Dynamic(host, "IPv4") # {} /\ Static(host, "IPv4") = {}
        <4>1. IPv4Mode(host) = "dhcp"
          BY <3>3 DEF IPv4Mode
        <4> QED BY <1>7, <3>3, <4>1
      <3>4. CASE Dynamic(host, "IPv4") = {} /\ Static(host, "IPv4") # {}
        <4>1. IPv4Mode(host) = "static"
          BY <3>1, <3>4 DEF IPv4Mode
        <4> QED BY <1>7, <3>4, <4>1
      <3> QED BY <3>0, <3>2, <3>3, <3>4
    <2>3. CASE IPv4Mode(host) = "static" /\ Dynamic(host, f) = {}
      BY <1>2, <1>6, <1>7, <2>1, <2>3 DEF AddressesOf
    <2>4. CASE IPv4Mode(host) = "dhcp" /\ Static(host, f) = {}
      <3>1. AddressesOf(plan, f) = {} /\ ClientsOf(plan, f) # {}
        BY <1>7, <2>1, <2>4 DEF AddressesOf, ClientsOf
      <3> QED BY <1>2, <1>6, <2>4, <3>1
    <2> QED BY <2>2, <2>3, <2>4
  <1>8. CASE f = "IPv6"
    <2>1. plan.IPv6 = IPv6Plan(host) /\ plan.IPv6.evidence = "verified"
      BY DEF Agreed, AsObserved
    <2>2. AddressesOf(plan, f) = Static(host, f)
      BY <1>8, <2>1 DEF AddressesOf, IPv6Plan
    <2>3. ASSUME Dynamic(host, f) # {} PROVE plan.IPv6.slaac \/ plan.IPv6.dhcp
      <3>1. IPv6Plan(host).slaac \/ IPv6Plan(host).dhcp
        BY <1>8, <2>3, Zenon DEF IPv6Plan
      <3> QED BY <2>1, <3>1
    <2>4. plan.IPv6.dhcp => ClientsOf(plan, f) # {}
      BY <1>8 DEF ClientsOf
    <2> QED BY <1>2, <1>6, <1>8, <2>2, <2>3, <2>4
  <1> QED BY <1>7, <1>8 DEF Families

\* The active routes of CHR beside those to the prefixes: those of the script whose
\* gateway resolves, and those that a server or a router announces.
Served(f) == {[dst |-> r.dst, gw |-> r.gw] : r \in {r \in StaticRoutes(f) : Resolves(r, f)}}
Learnt(f) ==
    (IF f = "IPv4" /\ HasClient("IPv4") THEN {[dst |-> Address, gw |-> host.offered]} ELSE {})
    \cup (IF f = "IPv6" /\ HasClient("IPv6") /\ host.server6 # NoGateway
          THEN {[dst |-> Address, gw |-> host.server6]} ELSE {})
    \cup (IF f = "IPv6" /\ chr.ra /\ HasDefault(host, "IPv6") /\ Default(host, "IPv6").proto = "ra"
          THEN {[dst |-> Address, gw |-> Default(host, "IPv6").gw]} ELSE {})

\* The default route to g, or the host route to g itself.
Towards(g, r) == (r.dst = Address /\ r.gw = g) \/ (r.dst = {g} /\ r.gw = NoGateway)

\* CHR has the prefixes of the link; where all else leads to g, its routes do.
LEMMA ActiveRoutesLead ==
    ASSUME NEW f \in Families, Translatable(host), Connected(f) = LinkPrefixes(host, f), NEW g,
           \A r \in Served(f) \cup Learnt(f) : Towards(g, r)
    PROVE  Leads(ActiveRoutes(f), LinkPrefixes(host, f), g)
  <1>1. ActiveRoutes(f) =
           {[dst |-> p, gw |-> NoGateway] : p \in Connected(f)} \cup (Served(f) \cup Learnt(f))
    BY DEF ActiveRoutes, Served, Learnt
  <1>2. ASSUME NEW r \in ActiveRoutes(f)
        PROVE  \/ r.dst = Address /\ r.gw = g
               \/ r.gw = NoGateway /\ (r.dst \in LinkPrefixes(host, f) \/ r.dst = {g})
    <2>1. CASE r \in Served(f) \cup Learnt(f)
      BY <2>1 DEF Towards
    <2>2. CASE r \in {[dst |-> p, gw |-> NoGateway] : p \in Connected(f)}
      BY <2>2
    <2> QED BY <1>1, <2>1, <2>2
  <1>3. \A p \in LinkPrefixes(host, f) : [dst |-> p, gw |-> NoGateway] \in ActiveRoutes(f)
    BY <1>1
  <1> QED BY <1>2, <1>3, RoutesOfPrefixes DEF Leads

\* The default route of the script serves: directly, or over the host route.
LEMMA ScriptServes ==
    ASSUME NEW f \in Families, NEW g \in Gateways, g # NoGateway, NEW onlink \in BOOLEAN,
           StaticRoutes(f) = DefaultRoutes(g, onlink),
           onlink \/ g = LinkLocal \/ \E p \in Connected(f) : g \in p
    PROVE  /\ \A r \in Served(f) : Towards(g, r)
           /\ [dst |-> Address, gw |-> g] \in Served(f)
  <1>1. Address # {g}
    BY NetworkAssumption
  <1>2. /\ DefaultRoute(g, 10).dst = Address /\ DefaultRoute(g, 10).gw = g
        /\ DefaultRoute(g, 11).dst = Address /\ DefaultRoute(g, 11).gw = g
        /\ DefaultRoute(g, 11).targetScope = 11
        /\ OnLinkRoute(g).dst = {g} /\ OnLinkRoute(g).gw = NoGateway /\ OnLinkRoute(g).scope = 10
    BY DEF DefaultRoute, OnLinkRoute
  <1>3. \A r \in StaticRoutes(f) : Towards(g, r)
    BY <1>2 DEF DefaultRoutes, Towards
  <1>4. \A r \in Served(f) : Towards(g, r)
    BY <1>3 DEF Served, Towards
  <1>5. \E r \in StaticRoutes(f) : r.dst = Address /\ r.gw = g /\ Resolves(r, f)
    <2>1. CASE onlink
      <3>1. OnLinkRoute(g) \in StaticRoutes(f) /\ DefaultRoute(g, 11) \in StaticRoutes(f)
        BY <2>1 DEF DefaultRoutes
      <3>2. OnLinkRoute(g).scope < DefaultRoute(g, 11).targetScope
        BY <1>2
      <3>3. Resolves(DefaultRoute(g, 11), f)
        BY <1>2, <3>1, <3>2 DEF Resolves
      <3> QED BY <1>2, <3>1, <3>3
    <2>2. CASE ~onlink
      <3>1. StaticRoutes(f) = {DefaultRoute(g, 10)}
        BY <2>2 DEF DefaultRoutes
      <3>2. ~ \E s \in StaticRoutes(f) : s.dst = {g}
        BY <1>1, <1>2, <3>1
      <3>3. Resolves(DefaultRoute(g, 10), f)
        BY <1>2, <2>2, <3>2 DEF Resolves
      <3> QED BY <1>2, <3>1, <3>3
    <2> QED BY <2>1, <2>2
  <1> QED BY <1>4, <1>5 DEF Served

\* A gateway that the plan does not call off-link lies in a prefix of the link.
LEMMA GatewayIsReached ==
    ASSUME NEW f \in Families, host \in HostType, Connected(f) = LinkPrefixes(host, f),
           HasDefault(host, f), Default(host, f).gw # NoGateway
    PROVE  \/ GatewayOnLink(host, f) \/ Default(host, f).gw = LinkLocal
           \/ \E p \in Connected(f) : Default(host, f).gw \in p
  <1>1. Static(host, f) \cup Dynamic(host, f) = LinkPrefixes(host, f)
    BY DEF HostType, Static, Dynamic, PrefixesOf, LinkPrefixes
  <1>2. Default(host, f).gw \in Address \cup {LinkLocal}
    BY SelectDefaultIsDefault DEF Route, Gateways
  <1> QED BY <1>1, <1>2 DEF GatewayOnLink, GatewayOutside

LEMMA AgreedIsTranslatable ==
    ASSUME Inv, AgreedInv, Agreed(host, plan)
    PROVE  Translatable(host)
  BY FirstBootAssumption DEF Inv, NetworkInv, AgreedInv, Agreed, Translatable

\* IPv4: a static plan over the default route of the script, a DHCP plan over the
\* router that the server names.
LEMMA KeptIPv4 ==
    ASSUME Inv, AgreedInv, phase = "applied", ~ack, NEW a \in Address,
           ~StaticDefaultOverDHCP, ~RedundantWithin("IPv4", a)
    PROVE  Kept("IPv4", a)
  <1> DEFINE f == "IPv4"
  <1>1. f \in Families /\ Agreed(host, plan) /\ plan.IPv4.addresses # {} /\ host \in HostType
    BY DEF Families, AgreedInv, OnCHR, Inv, NetworkInv
  <1>2. Translatable(host) /\ Connected(f) = LinkPrefixes(host, f)
    BY <1>1, AgreedIsTranslatable, SameLink
  <1>3. /\ plan \in PlanType /\ Valid(plan)
        /\ StaticRoutes(f) = RoutesOf(plan, f) /\ (HasClient(f) <=> ClientsOf(plan, f) # {})
    BY <1>1, AppliedScript
  <1>4. Learnt(f) = IF HasClient(f) THEN {[dst |-> Address, gw |-> host.offered]} ELSE {}
    BY DEF Learnt
  <1>5. /\ plan.IPv4.gw = Gateway(host, f) /\ (plan.IPv4.onlink <=> GatewayOnLink(host, f))
        /\ plan.IPv4.mode = IPv4Mode(host)
    BY <1>1 DEF Agreed, AsObserved
  <1>6. CASE plan.IPv4.mode = "static"
    <2>1. HasDefault(host, f) /\ plan.IPv4.gw = Default(host, f).gw /\ plan.IPv4.gw # NoGateway
      BY <1>3, <1>5, <1>6 DEF Valid, Gateway
    <2>2. Learnt(f) = {}
      BY <1>3, <1>4, <1>6 DEF ClientsOf
    <2>3. PICK g, onlink : g = plan.IPv4.gw /\ onlink = plan.IPv4.onlink
      OBVIOUS
    <2>4. g \in Gateways /\ onlink \in BOOLEAN /\ StaticRoutes(f) = DefaultRoutes(g, onlink)
      BY <1>3, <1>6, <2>3 DEF RoutesOf, PlanType
    <2>5. onlink \/ g = LinkLocal \/ \E p \in Connected(f) : g \in p
      BY <1>1, <1>2, <1>5, <2>1, <2>3, GatewayIsReached
    <2>6. /\ \A r \in Served(f) : Towards(g, r)
          /\ [dst |-> Address, gw |-> g] \in Served(f)
      BY <1>1, <2>1, <2>3, <2>4, <2>5, ScriptServes
    <2>7. Leads(ActiveRoutes(f), LinkPrefixes(host, f), g)
      BY <1>1, <1>2, <2>2, <2>6, ActiveRoutesLead
    <2>8. [dst |-> Address, gw |-> g] \in ActiveRoutes(f)
      BY <2>6 DEF ActiveRoutes, Served
    <2> QED BY <1>1, <1>2, <2>1, <2>3, <2>7, <2>8, KeptWhereItLeads
  <1>7. CASE plan.IPv4.mode = "dhcp"
    <2>1. Served(f) = {}
      BY <1>3, <1>7 DEF RoutesOf, Served
    <2>2. Learnt(f) = {[dst |-> Address, gw |-> host.offered]}
      BY <1>3, <1>4, <1>7 DEF ClientsOf
    <2>3. PICK g : g = host.offered
      OBVIOUS
    <2>4. \A r \in Served(f) \cup Learnt(f) : Towards(g, r)
      BY <2>1, <2>2, <2>3 DEF Towards
    <2>5. Leads(ActiveRoutes(f), LinkPrefixes(host, f), g)
      BY <1>1, <1>2, <2>4, ActiveRoutesLead
    <2>6. [dst |-> Address, gw |-> g] \in ActiveRoutes(f)
      BY <2>2, <2>3 DEF ActiveRoutes, Learnt
    <2>7. HasDefault(host, f) => g = Default(host, f).gw
      BY <1>2, <1>7, <2>3 DEF StaticDefaultOverDHCP, Translatable, RealHost
    <2> QED BY <1>1, <1>2, <2>5, <2>6, <2>7, KeptWhereItLeads
  <1>8. plan.IPv4.mode # "none"
    <2>1. ASSUME plan.IPv4.mode = "none" PROVE FALSE
      <3>1. Static(host, "IPv4") \cup Dynamic(host, "IPv4") # {}
        BY <1>1, <1>5, <2>1 DEF Agreed, AsObserved, IPv4Plan
      <3>2. host.addresses["IPv4"] # {}
        BY <3>1 DEF Static, Dynamic, PrefixesOf
      <3>3. Dynamic(host, "IPv4") # {} \/ Static(host, "IPv4") # {}
        BY <3>1
      <3>4. IPv4Mode(host) \in {"", "dhcp", "static"}
        BY <3>2, <3>3 DEF IPv4Mode
      <3> QED BY <1>5, <2>1, <3>4
    <2> QED BY <2>1
  <1> QED BY <1>3, <1>6, <1>7, <1>8 DEF Valid

\* IPv6: over the default route of the script or of an advertisement, which that of the
\* DHCPv6 client does not contradict, or without any default of Linux.
LEMMA KeptIPv6 ==
    ASSUME Inv, AgreedInv, phase = "applied", ~ack, NEW a \in Address, ~DeviceDefault,
           ~DefaultBesideDHCPv6
    PROVE  Kept("IPv6", a)
  <1> DEFINE f == "IPv6"
  <1>1. f \in Families /\ Agreed(host, plan) /\ plan.IPv4.addresses # {} /\ host \in HostType
    BY DEF Families, AgreedInv, OnCHR, Inv, NetworkInv
  <1>2. Translatable(host) /\ Connected(f) = LinkPrefixes(host, f)
    BY <1>1, AgreedIsTranslatable, SameLink
  <1>3. /\ plan \in PlanType /\ StaticRoutes(f) = RoutesOf(plan, f)
        /\ HasClient(f) => plan.IPv6.dhcp
    BY <1>1, AppliedScript DEF ClientsOf
  <1>4. PICK g, onlink : g = plan.IPv6.gw /\ onlink = plan.IPv6.onlink
    OBVIOUS
  <1>5. g \in Gateways /\ onlink \in BOOLEAN
    BY <1>3, <1>4 DEF PlanType
  <1>6. g = Gateway(host, f) /\ (onlink <=> GatewayOnLink(host, f))
    <2>1. plan.IPv6 = IPv6Plan(host)
      BY <1>1 DEF Agreed, AsObserved
    <2>2. IPv6Plan(host).gw = Gateway(host, f) /\ (IPv6Plan(host).onlink <=> GatewayOnLink(host, f))
      BY Zenon DEF IPv6Plan
    <2> QED BY <1>4, <2>1, <2>2
  <1>7. CASE g = NoGateway
    <2>1. ~HasDefault(host, f)
      BY <1>6, <1>7 DEF Gateway, DeviceDefault
    <2>2. /\ Served(f) = {}
          /\ \A r \in Learnt(f) : r = [dst |-> Address, gw |-> host.server6]
      BY <1>3, <1>4, <1>7, <2>1 DEF RoutesOf, Served, Learnt
    <2>3. \A r \in Served(f) \cup Learnt(f) : Towards(host.server6, r)
      BY <2>2 DEF Towards
    <2>4. PICK s : s = host.server6
      OBVIOUS
    <2>5. Leads(ActiveRoutes(f), LinkPrefixes(host, f), s)
      BY <1>1, <1>2, <2>3, <2>4, ActiveRoutesLead
    <2> QED BY <1>1, <1>2, <2>1, <2>5, KeptWhereItLeads
  <1>8. CASE g # NoGateway
    <2>1. HasDefault(host, f) /\ g = Default(host, f).gw
      BY <1>6, <1>8 DEF Gateway
    <2>2. PICK host_route \in BOOLEAN : host_route = (onlink /\ g # LinkLocal)
      BY Zenon
    <2>3. StaticRoutes(f) = DefaultRoutes(g, host_route)
      BY <1>3, <1>4, <1>8, <2>2 DEF RoutesOf
    <2>4. host_route \/ g = LinkLocal \/ \E p \in Connected(f) : g \in p
      BY <1>1, <1>2, <1>6, <1>8, <2>1, <2>2, GatewayIsReached
    <2>5. /\ \A r \in Served(f) : Towards(g, r)
          /\ [dst |-> Address, gw |-> g] \in Served(f)
      BY <1>1, <1>5, <1>8, <2>3, <2>4, ScriptServes
    <2>6. \A r \in Learnt(f) : Towards(g, r)
      <3>1. HasClient(f) /\ host.server6 # NoGateway => host.server6 = g
        BY <1>3, <2>1 DEF DefaultBesideDHCPv6
      <3>2. \A r \in Learnt(f) : r = [dst |-> Address, gw |-> g]
        BY <2>1, <3>1 DEF Learnt
      <3> QED BY <3>2 DEF Towards
    <2>7. Leads(ActiveRoutes(f), LinkPrefixes(host, f), g)
      BY <1>1, <1>2, <2>5, <2>6, ActiveRoutesLead
    <2>8. [dst |-> Address, gw |-> g] \in ActiveRoutes(f)
      BY <2>5 DEF ActiveRoutes, Served
    <2> QED BY <1>1, <1>2, <2>1, <2>7, <2>8, KeptWhereItLeads
  <1> QED BY <1>7, <1>8

----------------------------------------------------------------------------
(* Theorems of the specification *)

\* Types of the whole system, and: the probe does not run past its deadline, the
\* script stays within its commands (ProbeDHCP, RouterOSScript).
THEOREM FirstBootTypes == Spec => []TypeOK
  <1>1. Inv => TypeOK
    <2> SUFFICES ASSUME Inv PROVE TypeOK
      OBVIOUS
    <2>1. phase \in {"detect", "probe", "conclude", "reported", "accepted", "refused",
                     "script", "applied", "aborted"}
      BY DEF Inv, NetworkInv, BeforeReport, OnCHR
    <2> QED BY <2>1 DEF Inv, NetworkInv, ScriptInv, TypeOK
  <1> QED BY <1>1, InvHolds, PTL

\* detect.go, dhcp_linux.go: whatever frames the probe reads, a DHCP plan that goes
\* through without an acknowledgement rests on a lease or on an answer to the
\* probe's own discover.
THEOREM DHCPIsConfirmedHolds == Spec => []DHCPIsConfirmed
  <1>1. Inv => DHCPIsConfirmed
    BY DEF Inv, EvidenceInv
  <1> QED BY <1>1, InvHolds, PTL

\* routeros.go, README.md:77: however often the script of whatever plan was broken
\* off and started again, it is aborted only when the MAC of the plan is missing or
\* not unique, and it ends with the configuration of the plan.
THEOREM ScriptIsIdempotentHolds == Spec => []ScriptIsIdempotent
  <1> QED BY IdempotentFromInv, InvHolds, PTL

\* routeros.go: no start of the script touches a client or an address of another
\* port than the one with the MAC of the plan.
THEOREM OtherPortsUntouchedHolds == Spec => OtherPortsUntouched
  <1> DEFINE of(config, port) == <<{x \in config.clients : x.port = port},
                                   {x \in config.addresses : x.port = port}>>
  <1>1. ASSUME Inv, [Next]_vars PROVE [phase = "script" => OnlyTheUplinkChanges]_vars
    <2> SUFFICES ASSUME phase = "script", NEW port \in Ports, of(chr', port) # of(chr, port)
                 PROVE  matching = {port}
      BY DEF OnlyTheUplinkChanges
    <2>1. chr' # chr
      OBVIOUS
    <2>2. RunCommand
      BY <1>1, <2>1 DEF Next, vars, bootVars, BootCHR, Reboot
    <2>3. PICK S : S = Script(plan)
      OBVIOUS
    <2>4. Valid(plan) /\ plan \in PlanType /\ chr \in ConfigType /\ matching \subseteq Ports
      BY <1>1 DEF Inv, ScriptInv, NetworkInv, OnCHR
    <2>5. Shape(S, plan)
      BY <2>3, <2>4, ScriptShape
    <2>6. pc \in 1..Len(S) /\ chr' = Executed(S[pc]) /\ ~Refuses(S[pc])
      BY <1>1, <2>1, <2>2, <2>3 DEF Inv, ScriptInv, RunCommand
    <2>7. S[pc].op \in {"findUplink"} \cup RemoveOps \cup AddOps
      BY <2>4, <2>5, <2>6, CommandsInOrder
    <2>8. UplinkFound
      <3>1. CASE pc = 1
        <4>1. S[pc].op = "findUplink"
          BY <2>4, <2>5, <2>6, <3>1, CommandsInOrder
        <4> QED BY <2>6, <4>1 DEF Refuses
      <3>2. CASE pc > 1
        BY <1>1, <3>2 DEF Inv, ScriptInv
      <3> QED BY <2>6, <3>1, <3>2
    <2>9. PICK u \in Ports : matching = {u} /\ Uplink = u
      BY <2>4, <2>8, UplinkIsAPort
    <2>10. SUFFICES ASSUME port # u PROVE FALSE
      BY <2>9
    <2>11. {x \in chr'.clients : x.port = port} = {x \in chr.clients : x.port = port}
      <3>1. CASE S[pc].op = "removeClients"
        <4>1. chr'.clients = {x \in chr.clients : ~OfUplink(x, S[pc].family)}
          BY <2>4, <2>6, <3>1 DEF Executed, ConfigType
        <4> QED BY <2>9, <2>10, <4>1 DEF OfUplink
      <3>2. CASE S[pc].op = "addClient"
        <4>1. chr'.clients = chr.clients \cup {[port |-> u, family |-> S[pc].family]}
          BY <2>4, <2>6, <2>9, <3>2 DEF Executed, ConfigType
        <4> QED BY <2>10, <4>1
      <3>3. CASE S[pc].op \notin {"removeClients", "addClient"}
        <4>1. chr'.clients = chr.clients
          BY <2>4, <2>6, <2>7, <3>3 DEF Executed, ConfigType, RemoveOps, AddOps
        <4> QED BY <4>1
      <3> QED BY <3>1, <3>2, <3>3
    <2>12. {x \in chr'.addresses : x.port = port} = {x \in chr.addresses : x.port = port}
      <3>1. CASE S[pc].op = "removeAddresses"
        <4>1. chr'.addresses = {x \in chr.addresses : ~OfUplink(x, S[pc].family)}
          BY <2>4, <2>6, <3>1 DEF Executed, ConfigType
        <4> QED BY <2>9, <2>10, <4>1 DEF OfUplink
      <3>2. CASE S[pc].op = "addAddress"
        <4>1. chr'.addresses = chr.addresses \cup {[port |-> u, family |-> S[pc].family, prefix |-> S[pc].arg]}
          BY <2>4, <2>6, <2>9, <3>2 DEF Executed, ConfigType
        <4> QED BY <2>10, <4>1
      <3>3. CASE S[pc].op \notin {"removeAddresses", "addAddress"}
        <4>1. chr'.addresses = chr.addresses
          BY <2>4, <2>6, <2>7, <3>3 DEF Executed, ConfigType, RemoveOps, AddOps
        <4> QED BY <4>1
      <3> QED BY <3>1, <3>2, <3>3
    <2> QED BY <2>11, <2>12
  <1> QED BY <1>1, InvHolds, PTL DEF Spec, OtherPortsUntouched

\* detect.go, ui.go, routeros.go: when neither a blocker nor an acknowledgement was
\* needed, CHR forwards every packet for which Linux used the uplink to the neighbour
\* that Linux used, on every start of the script that comes to its end.  The layouts
\* excepted are those that ForwardingPreserved names.
THEOREM ForwardingPreservedHolds == Spec => []ForwardingPreserved
  <1>1. Inv /\ AgreedInv => ForwardingPreserved
    <2>1. SUFFICES ASSUME Inv, AgreedInv, phase = "applied", ~ack, NEW a \in Address
                   PROVE  /\ StaticDefaultOverDHCP \/ RedundantWithin("IPv4", a) \/ Kept("IPv4", a)
                          /\ DeviceDefault \/ DefaultBesideDHCPv6 \/ Kept("IPv6", a)
      BY DEF ForwardingPreserved
    <2>2. StaticDefaultOverDHCP \/ RedundantWithin("IPv4", a) \/ Kept("IPv4", a)
      BY <2>1, KeptIPv4
    <2>3. DeviceDefault \/ DefaultBesideDHCPv6 \/ Kept("IPv6", a)
      BY <2>1, KeptIPv6
    <2> QED BY <2>2, <2>3
  <1> QED BY <1>1, InvHolds, AgreedInit, AgreedNext, PTL DEF Spec
====
