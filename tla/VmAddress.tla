----------------------------- MODULE VmAddress ------------------------------
(***************************************************************************)
(* From a template to a connection: Prepare, the key pair, the address of  *)
(* the VM as StepRunSourceVm publishes it in the state bag, the password,  *)
(* and SSHHost, which a goroutine of the SDK's StepConnect calls until it  *)
(* answers.  SSHHost re-reads the VM and puts what it read into the bag.   *)
(* It looks at no context: the goroutine may still do so when the build    *)
(* was interrupted and its Cleanups, one of which takes the volumes of the *)
(* VM from that bag, already run.                                          *)
(***************************************************************************)
EXTENDS Config

CONSTANTS
    Templates,
    Records,        \* what the service may come to show of a VM
    MaxPolls        \* polls for the public IP, 30 in the code

Tries == 2          \* const tries of SSHHost

Addresses == {"public_ip", "private_ip", "public_dns", "private_dns"}

Attributes == Addresses \cup {"vpc", "volumes"}

ASSUME AddressAssumption ==
    /\ Templates \subseteq TemplateType
    /\ Records \subseteq SUBSET Attributes
    /\ MaxPolls \in Nat

VARIABLES
    cfg,            \* the configuration
    pc,             \* where the build is
    interrupted,    \* its context is done
    keyPair,        \* the key pair the VM is launched with
    privateKey,     \* s.Comm.SSHPrivateKey
    coming,         \* what the VM's record is going to show
    shown,          \* what it shows
    assigned,       \* the record of the public IP shows its address
    polls,          \* polls made for it
    vm,             \* the VM as StepRunSourceVm has it
    bag,            \* the VM in the state bag, or NoVm
    look,           \* where SSHHost is
    tried,          \* its loop variable j
    host,           \* what it answered
    late,           \* SSHHost wrote to the bag after StepConnect
    listed          \* the volumes StepCleanupVolumes found in the bag

service == <<coming, shown, assigned>>
keys == <<keyPair, privateKey>>
hostVars == <<look, tried, host, late>>
stepVars == <<cfg, keys, polls, vm, listed>>
vars == <<cfg, pc, interrupted, keys, service, polls, vm, bag, hostVars, listed>>

NoVm == {"none"}

\* An address of its own is shown of a VM that was linked one.
Visible(record) ==
    IF Has(cfg, "associate_public_ip_address") THEN record ELSE record \ {"public_ip"}

Init ==
    /\ cfg \in Templates
    /\ pc = "prepare"
    /\ interrupted = FALSE
    /\ keyPair = "none"
    /\ privateKey = "none"
    /\ coming \in {Visible(r) : r \in Records}
    /\ shown = {}
    /\ assigned = FALSE
    /\ polls = 0
    /\ vm = NoVm
    /\ bag = NoVm
    /\ look = "idle"
    /\ tried = 0
    /\ host = "none"
    /\ late = FALSE
    /\ listed = {}

At(label) == pc = label

GoTo(label) == pc' = label /\ UNCHANGED <<interrupted, service, hostVars>>

(***************************************************************************)
(* Prepare, and the steps up to the connection.                            *)
(***************************************************************************)
Prepare ==
    /\ At("prepare")
    /\ cfg' = Prepared(cfg)
    /\ GoTo(IF Accepted(cfg) THEN "keypair" ELSE "rejected")
    /\ UNCHANGED <<keys, polls, vm, bag, listed>>

\* StepKeyPair takes the user's file, or the agent, before it makes a pair.
KeyPair ==
    /\ At("keypair")
    /\ \/ GoTo("unwind") /\ UNCHANGED keys
       \/ /\ GoTo("launch")
          /\ LET users == IF Has(cfg, "ssh_keypair_name") THEN "users" ELSE "none"
             IN  CASE Has(cfg, "ssh_private_key_file") ->
                        keyPair' = users /\ privateKey' = "file"
                   [] Has(cfg, "ssh_agent_auth") /\ ~Has(cfg, "ssh_private_key_file") ->
                        keyPair' = users /\ privateKey' = "none"
                   [] OTHER ->
                        IF Has(cfg, "temporary_key_pair_name")
                          THEN keyPair' = "temporary" /\ privateKey' = "generated"
                          ELSE UNCHANGED keys
    /\ UNCHANGED <<cfg, polls, vm, bag, listed>>

\* The VM is launched, waited for, tagged, and the public IP linked to it.
\* The net it is in is known from the start.
Launch ==
    /\ At("launch")
    /\ \/ pc' = "read" /\ shown' = coming \cap {"vpc"}
       \/ pc' = "unwind" /\ UNCHANGED shown
    /\ UNCHANGED <<stepVars, interrupted, coming, assigned, hostVars, bag>>

ReadVm ==
    /\ At("read")
    /\ \/ GoTo("unwind") /\ UNCHANGED vm
       \/ ~interrupted /\ GoTo("await") /\ vm' = shown
    /\ UNCHANGED <<cfg, keys, polls, bag, listed>>

Awaited ==
    /\ Has(cfg, "associate_public_ip_address")
    /\ "public_ip" \notin vm

\* Polls that are not counted.
AwaitPublicIpForever ==
    /\ At("await")
    /\ Awaited
    /\ IF assigned /\ ~interrupted THEN vm' = vm \cup {"public_ip"} ELSE UNCHANGED vm
    /\ GoTo("await")
    /\ UNCHANGED <<cfg, keys, polls, bag, listed>>

\* The sleep of two seconds looks at nothing.  With the context done, or for
\* another reason, the read fails, which is not looked at either.
AwaitPublicIp ==
    /\ At("await")
    /\ Awaited
    /\ polls < MaxPolls
    /\ polls' = polls + 1
    /\ \/ UNCHANGED vm
       \/ assigned /\ ~interrupted /\ vm' = vm \cup {"public_ip"}
    /\ GoTo("await")
    /\ UNCHANGED <<cfg, keys, bag, listed>>

\* The VM published as it was read.
PublishVmAsRead ==
    /\ At("await")
    /\ ~Awaited \/ polls = MaxPolls
    /\ bag' = IF polls > 0 THEN vm \ {"public_ip"} ELSE vm
    /\ GoTo(IF interrupted THEN "unwind" ELSE "password")
    /\ UNCHANGED stepVars

PublishVm ==
    /\ At("await")
    /\ ~Awaited \/ polls = MaxPolls
    /\ bag' = vm
    /\ GoTo(IF interrupted THEN "unwind" ELSE "password")
    /\ UNCHANGED stepVars

NeedsPassword == cfg.comm = "winrm" /\ ~Has(cfg, "winrm_password")

\* Decrypting the password without a private key makes the process panic.
GetPassword ==
    /\ At("password")
    /\ \/ GoTo("unwind")
       \/ ~NeedsPassword /\ GoTo("connect")
       \/ NeedsPassword /\ GoTo(IF privateKey = "none" THEN "panic" ELSE "connect")
    /\ UNCHANGED <<stepVars, bag>>

\* StepConnect ends with a host it could connect to, at its timeout, or
\* interrupted; the steps after it are not told apart.
Connect ==
    /\ At("connect")
    /\ host # "none" \/ interrupted \/ cfg.comm = "none"
    /\ GoTo("unwind")
    /\ UNCHANGED <<stepVars, bag>>

ConnectTimesOut ==
    /\ At("connect")
    /\ GoTo("unwind")
    /\ UNCHANGED <<stepVars, bag>>

(***************************************************************************)
(* SSHHost.                                                                *)
(***************************************************************************)
HostStep == pc \notin {"over", "panic"} /\ UNCHANGED <<stepVars, interrupted, service>>

\* The interface asked for, or the one to choose.
Asked(record) ==
    IF cfg.interface # "" THEN cfg.interface
    ELSE IF "vpc" \notin record THEN "public_dns"
    ELSE IF "public_ip" \in record THEN "public_ip" ELSE "private_ip"

\* The goroutine calls SSHHost as long as StepConnect runs.
CallHost ==
    /\ HostStep
    /\ At("connect")
    /\ cfg.comm # "none"
    /\ host = "none"
    /\ look = "idle"
    /\ look' = "look"
    /\ tried' = 0
    /\ UNCHANGED <<pc, bag, host, late>>

\* The look at the VM that StepRunSourceVm had.
LookAtPublished ==
    /\ HostStep
    /\ look = "look"
    /\ IF Asked(vm) \in vm
         THEN look' = "idle" /\ host' = Asked(vm)
         ELSE look' = "read" /\ UNCHANGED host
    /\ UNCHANGED <<pc, bag, tried, late>>

Look ==
    /\ HostStep
    /\ look = "look"
    /\ UNCHANGED <<bag, tried, late>>
    /\ IF cfg.interface = "other"
         THEN pc' = "panic" /\ UNCHANGED <<look, host>>
         ELSE /\ UNCHANGED pc
              /\ IF Asked(bag) \in bag
                   THEN look' = "idle" /\ host' = Asked(bag)
                   ELSE look' = "read" /\ UNCHANGED host

HostFails ==
    /\ HostStep
    /\ look = "read"
    /\ look' = "idle"
    /\ UNCHANGED <<pc, bag, tried, host, late>>

\* The answer put into the bag before it is looked at.
RereadUnchecked ==
    /\ HostStep
    /\ look = "read"
    /\ \E answer \in {shown, {}} : bag' = answer
    /\ look' = "sleep"
    /\ late' = (late \/ ~At("connect"))
    /\ UNCHANGED <<pc, tried, host>>

Reread ==
    /\ HostStep
    /\ look = "read"
    /\ bag' = shown
    /\ look' = "sleep"
    /\ late' = (late \/ ~At("connect"))
    /\ UNCHANGED <<pc, tried, host>>

\* What the last of the reads told is left to the next call.
NextTry ==
    /\ HostStep
    /\ look = "sleep"
    /\ tried' = tried + 1
    /\ look' = IF tried < Tries THEN "look" ELSE "idle"
    /\ UNCHANGED <<pc, bag, host, late>>

Host == Look \/ HostFails \/ Reread \/ NextTry

(***************************************************************************)
(* The Cleanups.                                                           *)
(***************************************************************************)
\* Of StepRunSourceVm: a terminated VM has neither addresses nor volumes.
DeleteVm ==
    /\ At("unwind")
    /\ pc' = "deleted"
    /\ \/ shown' = {} /\ coming' = {} /\ assigned' = FALSE
       \/ UNCHANGED service
    /\ UNCHANGED <<stepVars, bag, interrupted, hostVars>>

\* Of StepCleanupVolumes.
CleanupVolumes ==
    /\ At("deleted")
    /\ listed' = IF bag = NoVm THEN {} ELSE bag \cap {"volumes"}
    /\ GoTo("over")
    /\ UNCHANGED <<cfg, keys, polls, vm, bag>>

(***************************************************************************)
(* The service, and the user.                                              *)
(***************************************************************************)
Show ==
    /\ \/ \E a \in coming \ shown : shown' = shown \cup {a} /\ UNCHANGED assigned
       \/ "public_ip" \in coming /\ assigned' = TRUE /\ UNCHANGED shown
    /\ pc \notin {"prepare", "rejected", "keypair", "launch", "over", "panic"}
    /\ UNCHANGED <<stepVars, pc, interrupted, coming, bag, hostVars>>

Interrupt ==
    /\ ~interrupted
    /\ pc \notin {"prepare", "rejected", "over", "panic"}
    /\ interrupted' = TRUE
    /\ UNCHANGED <<stepVars, pc, service, bag, hostVars>>

Stopped == pc \in {"rejected", "over", "panic"} /\ UNCHANGED vars

Steps ==
    \/ Prepare \/ KeyPair \/ Launch \/ ReadVm \/ AwaitPublicIp \/ PublishVm
    \/ GetPassword \/ Connect \/ DeleteVm \/ CleanupVolumes

Next ==
    \/ Steps \/ ConnectTimesOut \/ CallHost \/ Host
    \/ Show \/ Interrupt \/ Stopped

\* The steps run; of the reads of SSHHost, made again and again, not all
\* fail; the service shows in the end what is to be shown.
Fairness ==
    /\ WF_vars(Steps)
    /\ WF_vars(CallHost)
    /\ WF_vars(Look)
    /\ SF_vars(Reread)
    /\ WF_vars(HostFails \/ Reread)
    /\ WF_vars(NextTry)
    /\ WF_vars(Show)

Spec == Init /\ [][Next]_vars /\ Fairness

(***************************************************************************)
(* Properties.                                                             *)
(***************************************************************************)
TypeOK ==
    /\ cfg \in TemplateType
    /\ pc \in {"prepare", "rejected", "keypair", "launch", "read", "await", "password",
               "connect", "unwind", "deleted", "over", "panic"}
    /\ interrupted \in BOOLEAN
    /\ keyPair \in {"none", "users", "temporary"}
    /\ privateKey \in {"none", "file", "generated"}
    /\ coming \subseteq Attributes
    /\ shown \subseteq coming
    /\ assigned \in BOOLEAN
    /\ polls \in 0 .. MaxPolls
    /\ vm \in (SUBSET Attributes) \cup {NoVm}
    /\ bag \in (SUBSET Attributes) \cup {NoVm}
    /\ look \in {"idle", "look", "read", "sleep"}
    /\ tried \in 0 .. Tries + 1
    /\ host \in {"none"} \cup Addresses
    /\ late \in BOOLEAN
    /\ listed \subseteq {"volumes"}

\* A configuration that Prepare accepted is accepted again, and nothing of
\* it changes: the errors of a setting look at what the template said, not
\* at what Prepare itself filled in (run_config.go, Prepare).
PrepareSettled ==
    pc \notin {"prepare", "rejected"} => Accepted(cfg) /\ Prepared(cfg) = cfg

\* What Prepare accepts ends in no panic, neither of SSHHost for the name
\* of its interface nor of the decryption for want of a key; but with an SSH
\* password or agent given for a WinRM build that names no key pair,
\* no key is made and none is required.
AcceptedRuns ==
    pc = "panic" =>
        /\ {"ssh_password", "ssh_agent_auth"} \cap cfg.given # {}
        /\ "ssh_keypair_name" \notin cfg.given

\* Where the code departs from public_ip, which the documents give as the
\* default of ssh_interface (docs/configuration.md:216): for a VM of no net,
\* and for one that has no public IP of its own, or whose address did not
\* appear in all the polls for it (step_run_source_vm.go:281).
DepartsFromDefault ==
    \/ host = "public_dns" /\ "vpc" \notin bag
    \/ /\ host = "private_ip"
       /\ Has(cfg, "associate_public_ip_address") => polls = MaxPolls

\* The communicator is told the address of the interface named, or with none
\* named the public IP, but for the two departures above.
HostAsAsked ==
    host # "none" =>
        IF cfg.interface # "" THEN host = cfg.interface
                              ELSE host = "public_ip" \/ DepartsFromDefault

\* StepCleanupVolumes finds the volumes of the VM in the bag, which SSHHost
\* overwrites, unless it did so after StepConnect was left (ssh.go:96).
VolumesListed ==
    pc = "over" /\ vm # NoVm /\ "volumes" \in vm /\ bag # NoVm /\ ~late
      => "volumes" \in listed

\* What is going to be shown holds an address to be chosen.
Reachable ==
    \/ cfg.interface \in coming
    \/ cfg.interface = "" /\
          IF "vpc" \in coming THEN coming \cap {"public_ip", "private_ip"} # {}
                              ELSE "public_dns" \in coming

\* An address the VM comes to show is found, however late, by one of the
\* calls of SSHHost, unless the connection is given up (ssh.go:35).
AddressFound ==
    (At("connect") /\ cfg.comm # "none" /\ Reachable) ~> (host # "none" \/ ~At("connect"))

\* An interrupted build comes to its end, whatever the service shows
\* (step_run_source_vm.go:281).
Unwinds == interrupted ~> pc \in {"over", "panic"}
=============================================================================
