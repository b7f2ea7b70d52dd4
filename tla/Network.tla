------------------------------ MODULE Network -------------------------------
(***************************************************************************)
(* StepNetworkInfo: the net, the subnet and the zone of the source VM, as  *)
(* far as the configuration leaves them open.  The security group is later *)
(* created in the net, and the VM launched in the subnet.  Others may add  *)
(* nets and subnets to the space while the step runs; what they delete is  *)
(* refused later.                                                          *)
(***************************************************************************)
EXTENDS Naturals

CONSTANTS
    Nets, SubnetIds, Zones,
    MaxFree,        \* bound on AvailableIpsCount; one that is absent is 0
    None            \* the empty string

ASSUME NetworkAssumption ==
    /\ MaxFree \in Nat
    /\ None \notin Nets \cup SubnetIds \cup Zones

VARIABLES
    nets, subnets,  \* those of the space
    cfg,            \* the configuration
    pc,
    net, subnet, zone,  \* s.NetID, s.SubnetID, s.AvailabilityZoneName
    listed,         \* the subnets that the query for them answered
    young           \* the subnets made since the net was looked for

world == <<nets, subnets, cfg, young>>
vars == <<world, pc, net, subnet, zone, listed>>

SubnetType == [net : Nets, zone : Zones, free : 0 .. MaxFree]

ConfigType ==
    [net : Nets \cup {None}, subnet : SubnetIds \cup {None},
     zone : Zones \cup {None}, netFilter : BOOLEAN, subnetFilter : BOOLEAN,
     mostFree : BOOLEAN, random : BOOLEAN]

\* The ids the user gives exist.
Init ==
    /\ nets \in SUBSET Nets
    /\ subnets \in UNION {[S -> SubnetType] : S \in SUBSET SubnetIds}
    /\ \A s \in DOMAIN subnets : subnets[s].net \in nets
    /\ cfg \in ConfigType
    /\ cfg.net \in nets \cup {None}
    /\ cfg.subnet \in DOMAIN subnets \cup {None}
    /\ pc = "net"
    /\ net = cfg.net
    /\ subnet = cfg.subnet
    /\ zone = cfg.zone
    /\ listed = {}
    /\ young = {}

GiveUp == pc' = "error" /\ UNCHANGED <<net, subnet, zone>>

(***************************************************************************)
(* The net.                                                                *)
(***************************************************************************)
\* The first of the nets, however many there are.
FindNetAny ==
    /\ pc = "net"
    /\ \/ (net # None \/ ~cfg.netFilter) /\ pc' = "subnet" /\ UNCHANGED net
       \/ net = None /\ cfg.netFilter /\ pc' = "error" /\ UNCHANGED net
       \/ net = None /\ cfg.netFilter /\ net' \in nets /\ pc' = "subnet"
    /\ UNCHANGED <<world, subnet, zone, listed>>

\* The query is for all nets: there must be just one.  An answer that is a
\* refusal is dereferenced for the error message, which panics.
FindNet ==
    /\ pc = "net"
    /\ \/ (net # None \/ ~cfg.netFilter) /\ pc' = "subnet" /\ UNCHANGED net
       \/ /\ net = None /\ cfg.netFilter
          /\ \/ pc' \in {"error", "crash"} /\ UNCHANGED net
             \/ net' \in nets /\ nets = {net'} /\ pc' = "subnet"
    /\ UNCHANGED <<world, subnet, zone, listed>>

(***************************************************************************)
(* The subnet.                                                             *)
(***************************************************************************)
\* The head of the sorted list.
LeastFree(found) ==
    {s \in found : \A t \in found : subnets[s].free <= subnets[t].free}

\* The last of the list sorted by free addresses; the sort is not stable.
MostFree(found) ==
    {s \in found : \A t \in found : subnets[t].free <= subnets[s].free}

\* One is chosen among several only if the user says how.
Choice(found) ==
    {s \in found :
        /\ cfg.mostFree => s \in MostFree(found)
        /\ cfg.mostFree \/ cfg.random \/ found = {s}}

\* The query is for all subnets of the space.
FindSubnet ==
    /\ pc = "subnet"
    /\ \/ /\ subnet # None \/ ~cfg.subnetFilter
          /\ pc' = "read"
          /\ UNCHANGED <<net, subnet, zone, listed>>
       \/ /\ subnet = None /\ cfg.subnetFilter
          /\ listed' = DOMAIN subnets
          /\ \/ GiveUp
             \/ pc' = "read" /\ subnet' \in Choice(listed') /\ UNCHANGED <<net, zone>>
    /\ UNCHANGED world

\* What is not known yet is taken from the subnet; a refused read leaves it
\* empty.
ReadSubnet ==
    /\ pc = "read"
    /\ \/ /\ subnet = None \/ (zone # None /\ net # None)
          /\ pc' = "done"
          /\ UNCHANGED <<net, zone>>
       \/ /\ subnet # None
          /\ zone = None \/ net = None
          /\ \/ pc' \in {"error", "refused"} /\ UNCHANGED <<net, zone>>
             \/ /\ pc' = "done"
                /\ zone' = IF zone = None THEN subnets[subnet].zone ELSE zone
                /\ net' = IF net = None THEN subnets[subnet].net ELSE net
    /\ UNCHANGED <<world, subnet, listed>>

(***************************************************************************)
(* The others who use the space.  What they make after the query for the   *)
(* subnets is not looked at.                                               *)
(***************************************************************************)
NewNet ==
    /\ pc \in {"net", "subnet"}
    /\ \E n \in Nets \ nets : nets' = nets \cup {n}
    /\ UNCHANGED <<subnets, cfg, young, pc, net, subnet, zone, listed>>

NewSubnet ==
    /\ pc \in {"net", "subnet"}
    /\ \E s \in SubnetIds \ DOMAIN subnets, new \in SubnetType :
         /\ new.net \in nets
         /\ subnets' = [t \in DOMAIN subnets \cup {s} |->
                          IF t = s THEN new ELSE subnets[t]]
         /\ young' = IF pc = "net" THEN young ELSE young \cup {s}
    /\ UNCHANGED <<nets, cfg, pc, net, subnet, zone, listed>>

Finished == pc \in {"done", "refused", "error", "crash"} /\ UNCHANGED vars

Next == FindNet \/ FindSubnet \/ ReadSubnet \/ NewNet \/ NewSubnet \/ Finished

Spec == Init /\ [][Next]_vars

(***************************************************************************)
(* Properties.                                                             *)
(***************************************************************************)
Discovered == pc = "done" /\ cfg.subnet = None /\ subnet # None

TypeOK ==
    /\ cfg \in ConfigType
    /\ pc \in {"net", "subnet", "read", "done", "refused", "error", "crash"}
    /\ net \in nets \cup {None}
    /\ subnet \in DOMAIN subnets \cup {None}
    /\ zone \in Zones \cup {None}
    /\ listed \cup young \subseteq DOMAIN subnets

\* Of several subnets found none is taken by guess; with most_free it is one
\* with the most free addresses, even if random is set as well.
SubnetWellChosen ==
    Discovered =>
        /\ subnet \in listed
        /\ cfg.mostFree \/ cfg.random \/ listed = {subnet}
        /\ cfg.mostFree =>
             \A s \in listed : subnets[s].free <= subnets[subnet].free

\* With no net_id, the group and the VM are in one net, that of the subnet,
\* also when net and subnet are both found by filters; unless someone made
\* that subnet between the two queries (step_network_info.go:93 and :127).
GroupInNetOfVm ==
    pc = "done" /\ subnet # None /\ cfg.net = None
      => \/ net = subnets[subnet].net
         \/ cfg.netFilter /\ subnet \in young
=============================================================================
