--------------------------- MODULE NetworkProofs ---------------------------
(***************************************************************************)
(* Proofs about Network: for any nets and subnets, however the filters are *)
(* set, the subnet is chosen as the user said and lies in the net of the   *)
(* security group.                                                         *)
(***************************************************************************)
EXTENDS Network, TLAPS

\* The subnets are those of the nets of the space.
World ==
    /\ nets \subseteq Nets
    /\ subnets \in UNION {[S -> SubnetType] : S \in SUBSET SubnetIds}
    /\ \A s \in DOMAIN subnets : subnets[s].net \in nets

\* A net known before the subnet is read was found as the only one, so the
\* subnets there were lie in it.
NetKnown ==
    /\ pc = "net" => net = cfg.net
    /\ cfg.net = None /\ net # None /\ pc # "done" =>
         /\ cfg.netFilter
         /\ \A s \in DOMAIN subnets \ young : subnets[s].net = net

\* The subnet is the configured one, which was there before the net was
\* looked for, until the query finds another.
SubnetKnown ==
    /\ pc \in {"net", "subnet"} => subnet = cfg.subnet
    /\ cfg.subnet # None => cfg.subnet \in DOMAIN subnets \ young
    /\ cfg.subnet # None => subnet = cfg.subnet
    /\ pc \in {"read", "done"} /\ cfg.subnet = None /\ subnet # None
         => subnet \in Choice(listed)

NetInv == World /\ TypeOK /\ NetKnown /\ SubnetKnown /\ GroupInNetOfVm

\* What is known of a subnet of the space.
LEMMA SubnetTyped ==
  ASSUME World, NEW s \in DOMAIN subnets
  PROVE  /\ s \in SubnetIds
         /\ subnets[s] \in SubnetType
         /\ subnets[s].net \in nets
         /\ subnets[s].zone \in Zones
<1>1. PICK S \in SUBSET SubnetIds : subnets \in [S -> SubnetType]
  BY DEF World
<1> QED
  BY <1>1 DEF World, SubnetType

LEMMA InitNetwork == Init => NetInv
<1> SUFFICES ASSUME Init PROVE NetInv
  OBVIOUS
<1>1. World
  BY DEF Init, World
<1>2. TypeOK
  BY DEF Init, TypeOK, ConfigType
<1>3. NetKnown /\ SubnetKnown /\ GroupInNetOfVm
  BY DEF Init, NetKnown, SubnetKnown, GroupInNetOfVm
<1> QED
  BY <1>1, <1>2, <1>3 DEF NetInv

\* A step of the build leaves the space alone, and what may be chosen of it.
LEMMA SameWorld ==
  ASSUME UNCHANGED world, UNCHANGED listed
  PROVE  World = World' /\ Choice(listed)' = Choice(listed)
BY DEF world, World, Choice, MostFree

LEMMA FindNetKeepsInv == NetInv /\ FindNet => NetInv'
<1> SUFFICES ASSUME NetInv, FindNet PROVE NetInv'
  OBVIOUS
<1>1. UNCHANGED <<world, listed, subnet, zone>>
  BY DEF FindNet
<1>2. NetInv /\ World' /\ pc = "net" /\ pc' # "done" /\ pc' # "read"
  BY <1>1, SameWorld DEF NetInv, FindNet
<1>3. TypeOK'
  BY <1>1, <1>2 DEF NetInv, FindNet, TypeOK, world
<1>4. NetKnown'
  <2> SUFFICES ASSUME cfg.net = None, net' # None
               PROVE  /\ cfg.netFilter
                      /\ \A s \in DOMAIN subnets \ young : subnets[s].net = net'
    BY <1>1, <1>2 DEF NetKnown, world, FindNet
  <2>1. cfg.netFilter /\ nets = {net'}
    BY <1>2 DEF NetInv, NetKnown, FindNet
  <2> QED
    BY <1>2, <2>1 DEF NetInv, World
<1>5. SubnetKnown' /\ GroupInNetOfVm'
  BY <1>1, <1>2 DEF NetInv, FindNet, SubnetKnown, GroupInNetOfVm, world
<1> QED
  BY <1>2, <1>3, <1>4, <1>5 DEF NetInv

LEMMA FindSubnetKeepsInv == NetInv /\ FindSubnet => NetInv'
<1> SUFFICES ASSUME NetInv, FindSubnet PROVE NetInv'
  OBVIOUS
<1>1. UNCHANGED world /\ UNCHANGED <<net, zone>>
  BY DEF FindSubnet, GiveUp
<1>2. NetInv /\ World' /\ pc = "subnet" /\ pc' \in {"error", "read"}
  BY <1>1 DEF NetInv, World, FindSubnet, GiveUp, world
<1>3. CASE subnet' = subnet /\ (pc' = "error" \/ subnet # None \/ ~cfg.subnetFilter)
  <2>1. listed' \subseteq DOMAIN subnets
    BY <1>2 DEF NetInv, TypeOK, FindSubnet
  <2>2. TypeOK' /\ NetKnown'
    BY <1>1, <1>2, <1>3, <2>1 DEF NetInv, TypeOK, NetKnown, world
  <2>3. SubnetKnown' /\ GroupInNetOfVm'
    BY <1>1, <1>2, <1>3 DEF NetInv, SubnetKnown, GroupInNetOfVm, world, FindSubnet
  <2> QED
    BY <1>2, <2>2, <2>3 DEF NetInv
<1>4. CASE /\ subnet = None /\ pc' = "read" /\ listed' = DOMAIN subnets
           /\ subnet' \in Choice(listed')
  <2>1. subnet' \in DOMAIN subnets
    BY <1>4 DEF Choice
  <2>2. TypeOK' /\ NetKnown'
    BY <1>1, <1>2, <1>4, <2>1 DEF NetInv, TypeOK, NetKnown, world
  <2>3. Choice(listed)' = Choice(listed')
    BY <1>1 DEF Choice, MostFree, world
  <2>4. SubnetKnown' /\ GroupInNetOfVm'
    BY <1>1, <1>2, <1>4, <2>3 DEF NetInv, SubnetKnown, GroupInNetOfVm, world
  <2> QED
    BY <1>2, <2>2, <2>4 DEF NetInv
<1> QED
  BY <1>3, <1>4 DEF FindSubnet, GiveUp

\* The net taken from the subnet is its own; one known before is that of all
\* subnets there were.
LEMMA ReadSubnetKeepsInv == NetInv /\ ReadSubnet => NetInv'
<1> SUFFICES ASSUME NetInv, ReadSubnet PROVE NetInv'
  OBVIOUS
<1>1. UNCHANGED world /\ UNCHANGED <<subnet, listed>>
  BY DEF ReadSubnet
<1>2. NetInv /\ World' /\ Choice(listed)' = Choice(listed) /\ pc = "read"
  BY <1>1, SameWorld DEF NetInv, ReadSubnet
<1>3. subnet # None =>
        subnets[subnet].net \in nets /\ subnets[subnet].zone \in Zones
  BY <1>2, SubnetTyped DEF NetInv, TypeOK
<1>4. TypeOK'
  BY <1>1, <1>2, <1>3 DEF NetInv, ReadSubnet, TypeOK, world
<1>5. NetKnown'
  BY <1>1, <1>2 DEF NetInv, ReadSubnet, NetKnown, world
<1>6. SubnetKnown'
  BY <1>1, <1>2 DEF NetInv, ReadSubnet, SubnetKnown, world
<1>7. GroupInNetOfVm'
  <2> SUFFICES ASSUME pc' = "done", subnet # None, cfg.net = None,
                      ~(cfg.netFilter /\ subnet \in young)
               PROVE  net' = subnets[subnet].net
    BY <1>1 DEF GroupInNetOfVm, world
  <2>1. CASE net = None
    BY <2>1 DEF ReadSubnet
  <2>2. CASE net # None
    <3>1. subnet \in DOMAIN subnets \ young /\ net' = net
      BY <2>2, <1>2 DEF NetInv, TypeOK, NetKnown, ReadSubnet
    <3> QED
      BY <2>2, <3>1, <1>2 DEF NetInv, NetKnown
  <2> QED
    BY <2>1, <2>2
<1> QED
  BY <1>2, <1>4, <1>5, <1>6, <1>7 DEF NetInv

\* What others make is neither the subnet chosen nor, once the net was looked
\* for, among those whose net is known.
LEMMA OthersKeepInv == NetInv /\ (NewNet \/ NewSubnet) => NetInv'
<1> SUFFICES ASSUME NetInv, NewNet \/ NewSubnet PROVE NetInv'
  OBVIOUS
<1>1. UNCHANGED <<cfg, pc, net, subnet, zone, listed>> /\ pc \in {"net", "subnet"}
  BY DEF NewNet, NewSubnet
<1>2. /\ nets \subseteq nets' /\ nets' \subseteq Nets
      /\ young' \subseteq DOMAIN subnets'
      /\ DOMAIN subnets \subseteq DOMAIN subnets'
      /\ \A s \in DOMAIN subnets : subnets'[s] = subnets[s] /\ (s \in young' => s \in young)
      /\ pc # "net" => DOMAIN subnets' \ young' \subseteq DOMAIN subnets \ young
  BY DEF NewNet, NewSubnet, NetInv, World, TypeOK
<1>3. World'
  <2>1. CASE NewNet
    BY <2>1, <1>2 DEF NewNet, NetInv, World
  <2>2. CASE NewSubnet
    <3>1. PICK S \in SUBSET SubnetIds : subnets \in [S -> SubnetType]
      BY DEF NetInv, World
    <3>2. PICK s \in SubnetIds \ S, new \in SubnetType :
             /\ new.net \in nets
             /\ subnets' = [t \in S \cup {s} |-> IF t = s THEN new ELSE subnets[t]]
      BY <2>2, <3>1 DEF NewSubnet
    <3>3. subnets' \in [S \cup {s} -> SubnetType] /\ S \cup {s} \in SUBSET SubnetIds
      BY <3>1, <3>2
    <3>4. nets' = nets /\ \A t \in DOMAIN subnets' : subnets'[t].net \in nets
      BY <2>2, <3>1, <3>2 DEF NewSubnet, NetInv, World
    <3> QED
      BY <1>2, <3>3, <3>4 DEF World
  <2> QED
    BY <2>1, <2>2
<1>4. TypeOK'
  BY <1>1, <1>2 DEF NetInv, TypeOK
<1>5. NetKnown'
  BY <1>1, <1>2 DEF NetInv, NetKnown
<1>6. SubnetKnown' /\ GroupInNetOfVm'
  BY <1>1, <1>2 DEF NetInv, SubnetKnown, GroupInNetOfVm
<1> QED
  BY <1>3, <1>4, <1>5, <1>6 DEF NetInv

LEMMA StepNetwork == NetInv /\ [Next]_vars => NetInv'
<1>1. NetInv /\ UNCHANGED vars => NetInv'
  BY SameWorld DEF NetInv, vars, world, TypeOK, NetKnown, SubnetKnown, GroupInNetOfVm
<1> QED
  BY <1>1, FindNetKeepsInv, FindSubnetKeepsInv, ReadSubnetKeepsInv, OthersKeepInv
     DEF Next, Finished

LEMMA NetworkInvariant == Spec => []NetInv
BY InitNetwork, StepNetwork, PTL DEF Spec

\* The ids the step leaves are of the space, or empty.
THEOREM NetworkTypeCorrect == Spec => []TypeOK
<1>1. NetInv => TypeOK
  BY DEF NetInv
<1> QED
  BY <1>1, NetworkInvariant, PTL

\* No subnet is guessed: several are chosen among as the user said, for any
\* number of them and any free addresses.
THEOREM SubnetChosenAsSaid == Spec => []SubnetWellChosen
<1>1. NetInv => SubnetWellChosen
  BY DEF NetInv, SubnetKnown, SubnetWellChosen, Discovered, Choice, MostFree
<1> QED
  BY <1>1, NetworkInvariant, PTL

\* The security group and the VM are in one net, whichever of the two
\* filters found it, but for a subnet made between the two queries.
THEOREM GroupWithVm == Spec => []GroupInNetOfVm
<1>1. NetInv => GroupInNetOfVm
  BY DEF NetInv
<1> QED
  BY <1>1, NetworkInvariant, PTL
=============================================================================
