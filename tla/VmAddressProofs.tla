-------------------------- MODULE VmAddressProofs --------------------------
(***************************************************************************)
(* Proofs about Config and VmAddress: what Prepare accepts is settled and  *)
(* ends in no panic, and the address connected to is the one asked for,    *)
(* for any templates, records of the VM and number of polls.               *)
(***************************************************************************)
EXTENDS VmAddress, TLAPS

(***************************************************************************)
(* Prepare.                                                                *)
(***************************************************************************)
\* What Prepare does, field by field.
Names(c) ==
    GroupsMoved(AccessPrepared(Forced(c)).given
                  \cup TemporaryKeyName(AccessPrepared(Forced(c))))

LEMMA PreparedFields ==
  ASSUME NEW c \in TemplateType
  PROVE  Prepared(c) =
           [c EXCEPT !.given = Names(c),
                     !.regions = [r \in Regions |->
                                    IF r = Space \/ c.regions[r] = 0 THEN 0 ELSE 1],
                     !.cidr = IF c.cidr = "" THEN "0.0.0.0/0" ELSE c.cidr,
                     !.shutdown = IF c.shutdown = "" THEN "stop" ELSE c.shutdown]
<1> DEFINE d == AccessPrepared(Forced(c))
           e == ImagePrepared(d)
           given == (IF Has(c, "packer_force") THEN c.given \cup {"force_deregister"}
                                               ELSE c.given)
                      \cup (c.env \cap EnvSettings) \cup {"region"}
<1>1. d = [c EXCEPT !.given = given] /\ d.given = given
  BY DEF TemplateType, AccessPrepared, Forced, Has
<1>2. e = [c EXCEPT !.given = given,
                    !.regions = [r \in Regions |->
                                   IF r = Space \/ c.regions[r] = 0 THEN 0 ELSE 1]]
  <2>1. d.regions = c.regions
    BY <1>1 DEF TemplateType
  <2>2. e = [d EXCEPT !.regions = [r \in Regions |->
                                     IF r = Space \/ d.regions[r] = 0 THEN 0 ELSE 1]]
    BY DEF ImagePrepared
  <2> HIDE DEF d, e, given
  <2>3. e = [d EXCEPT !.regions = [r \in Regions |->
                                     IF r = Space \/ c.regions[r] = 0 THEN 0 ELSE 1]]
    BY <2>1, <2>2
  <2> QED
    BY <1>1, <2>3 DEF TemplateType
<1>3. e.given = d.given /\ e.cidr = c.cidr /\ e.shutdown = c.shutdown
  <2> HIDE DEF d, e, given
  <2> QED
    BY <1>1, <1>2 DEF TemplateType
<1>4. TemporaryKeyName(e) = TemporaryKeyName(d)
  BY <1>3 DEF TemporaryKeyName
<1>5. Prepared(c) = [e EXCEPT !.given = Names(c),
                              !.cidr = IF c.cidr = "" THEN "0.0.0.0/0" ELSE c.cidr,
                              !.shutdown = IF c.shutdown = "" THEN "stop" ELSE c.shutdown]
  <2>1. Prepared(c) = RunPrepared(e)
    BY DEF Prepared
  <2>2. Names(c) = GroupsMoved(d.given \cup TemporaryKeyName(d))
    BY DEF Names
  <2> HIDE DEF d, e
  <2> QED
    BY <1>3, <1>4, <2>1, <2>2 DEF RunPrepared
<1> HIDE DEF d, e, given
<1> QED
  BY <1>2, <1>5 DEF TemplateType

\* No error is found in any part.
Clean(c) ==
    /\ {"client_id", "client_secret", "space_id"} \subseteq c.given \cup c.env
    /\ ImageErrors(c) = {} /\ BlockErrors(c) = {}
    /\ c.interface # "other" /\ c.bootMode # "other" /\ c.vmType # ""
    /\ c.minutes % 60 = 0 /\ c.cidr # "bad" /\ c.shutdown # "other"
    /\ KeyPairErrors(c) = {} /\ SourceErrors(c) = {}
    /\ Has(c, "user_data_file") => ~Has(c, "user_data") /\ c.fileExists
    /\ ~({"security_group_id", "security_group_ids"} \subseteq c.given)
    /\ Has(c, "enable_t2_unlimited") => c.vmType = "t2."

LEMMA AcceptedIsClean ==
  ASSUME NEW c PROVE Accepted(c) <=> Clean(c)
<1>1. AccessErrors(c) = {}
        <=> {"client_id", "client_secret", "space_id"} \subseteq c.given \cup c.env
  BY DEF AccessErrors, When
<1> DEFINE
      bootMode == When(c.bootMode = "other", {"boot mode"})
      vmType == When(c.vmType = "", {"vm type"})
      duration == When(c.minutes % 60 # 0, {"block duration"})
      userData == When(Has(c, "user_data_file") /\ (Has(c, "user_data") \/ ~c.fileExists),
                       {"user data"})
      groups == When({"security_group_id", "security_group_ids"} \subseteq c.given, {"groups"})
      cidr == When(c.cidr = "bad", {"cidr"})
      shutdown == When(c.shutdown = "other", {"shutdown"})
      t2 == When(Has(c, "enable_t2_unlimited") /\ c.vmType # "t2.", {"t2"})
<1>2. RunErrors(c) = {} <=>
        /\ InterfaceErrors(c) = {} /\ KeyPairErrors(c) = {} /\ bootMode = {}
        /\ SourceErrors(c) = {} /\ vmType = {} /\ duration = {} /\ userData = {}
        /\ groups = {} /\ cidr = {} /\ shutdown = {} /\ t2 = {}
  <2>1. RunErrors(c) =
          UNION {InterfaceErrors(c), KeyPairErrors(c), bootMode, SourceErrors(c), vmType,
                 duration, userData, groups, cidr, shutdown, t2}
    BY DEF RunErrors
  <2> HIDE DEF bootMode, vmType, duration, userData, groups, cidr, shutdown, t2
  <2> QED
    BY <2>1
<1>3. ASSUME NEW b, NEW e PROVE When(b, {e}) = {} <=> ~b
  BY DEF When
<1>4. RunErrors(c) = {} <=>
        /\ c.interface # "other" /\ c.bootMode # "other" /\ c.vmType # ""
        /\ c.minutes % 60 = 0 /\ c.cidr # "bad" /\ c.shutdown # "other"
        /\ KeyPairErrors(c) = {} /\ SourceErrors(c) = {}
        /\ Has(c, "user_data_file") => ~Has(c, "user_data") /\ c.fileExists
        /\ ~({"security_group_id", "security_group_ids"} \subseteq c.given)
        /\ Has(c, "enable_t2_unlimited") => c.vmType = "t2."
  BY <1>2, <1>3 DEF InterfaceErrors
<1> QED
  BY <1>1, <1>4 DEF Accepted, Errors, Clean

\* The names of settings that Prepare may add or move.
Filled ==
    EnvSettings \cup
    {"force_deregister", "temporary_key_pair_name", "security_group_id", "security_group_ids"}

LEMMA NamesKept ==
  ASSUME NEW c \in TemplateType
  PROVE  /\ Names(c) \subseteq PlainSettings
         /\ \A s \in PlainSettings \ Filled : s \in Names(c) <=> s \in c.given
         /\ \A s \in EnvSettings : s \in c.given \cup c.env => s \in Names(c)
         /\ "region" \in Names(c)
         /\ c.env \subseteq Names(c)
         /\ Has(c, "packer_force") => "force_deregister" \in Names(c)
         /\ Names(c) \cap {"ssh_keypair_name", "temporary_key_pair_name",
                           "ssh_private_key_file", "ssh_password"} # {}
         /\ "security_group_id" \in Names(c) => "security_group_ids" \in Names(c)
         /\ {"security_group_id", "security_group_ids"} \subseteq Names(c)
              => {"security_group_id", "security_group_ids"} \subseteq c.given
<1> DEFINE d == AccessPrepared(Forced(c))
           given == (IF Has(c, "packer_force") THEN c.given \cup {"force_deregister"}
                                               ELSE c.given)
                      \cup (c.env \cap EnvSettings) \cup {"region"}
           all == given \cup TemporaryKeyName(d)
<1>1. d.given = given
  BY DEF TemplateType, AccessPrepared, Forced, Has
<1> HIDE DEF d
<1>2. Names(c) = GroupsMoved(all)
  BY <1>1 DEF Names, d
<1>3. TemporaryKeyName(d) \subseteq {"temporary_key_pair_name"}
  BY DEF TemporaryKeyName, When
<1>4. all \cap {"ssh_keypair_name", "temporary_key_pair_name",
                "ssh_private_key_file", "ssh_password"} # {}
  BY <1>1 DEF TemporaryKeyName, When
<1>5. all \subseteq PlainSettings
  BY <1>3 DEF PlainSettings, CommSettings, EnvSettings, TemplateType
<1>6. \A s \in PlainSettings \ Filled : s \in all <=> s \in c.given
  BY <1>3 DEF Filled, EnvSettings
<1>7. c.given \cup c.env \cup {"region"} \subseteq all
  BY DEF TemplateType
<1>8. Has(c, "packer_force") => "force_deregister" \in all
  OBVIOUS
<1>9. {"security_group_id", "security_group_ids"} \cap all \subseteq c.given
  BY <1>3 DEF EnvSettings
<1> HIDE DEF all, given
<1>10. {"security_group_id", "security_group_ids"} \subseteq GroupsMoved(all)
        => {"security_group_id", "security_group_ids"} \subseteq all
  BY DEF GroupsMoved
<1>11. GroupsMoved(all) \subseteq all \cup {"security_group_ids"}
  BY DEF GroupsMoved
<1>12. all \ {"security_group_id"} \subseteq GroupsMoved(all)
  BY DEF GroupsMoved
<1>13. "security_group_id" \in GroupsMoved(all) => "security_group_ids" \in GroupsMoved(all)
  BY DEF GroupsMoved
<1>14. Names(c) \subseteq PlainSettings
  BY <1>2, <1>5, <1>11 DEF PlainSettings
<1>15. \A s \in PlainSettings \ Filled : s \in Names(c) <=> s \in c.given
  BY <1>2, <1>6, <1>11, <1>12 DEF Filled
<1>16. c.env \cup {"region"} \subseteq Names(c)
  <2>1. c.env \subseteq EnvSettings
    BY DEF TemplateType
  <2> QED
    BY <2>1, <1>2, <1>7, <1>12 DEF EnvSettings
<1>17. \A s \in EnvSettings : s \in c.given \cup c.env => s \in Names(c)
  BY <1>2, <1>7, <1>12 DEF EnvSettings
<1>18. Names(c) \cap {"ssh_keypair_name", "temporary_key_pair_name",
                      "ssh_private_key_file", "ssh_password"} # {}
  BY <1>2, <1>4, <1>12
<1> QED
  BY <1>2, <1>8, <1>9, <1>10, <1>12, <1>13, <1>14, <1>15, <1>16, <1>17, <1>18

LEMMA PreparedTyped ==
  ASSUME NEW c \in TemplateType
  PROVE  /\ Prepared(c) \in TemplateType
         /\ Prepared(c).given = Names(c)
         /\ Prepared(c).cidr # "bad" <=> c.cidr # "bad"
         /\ Prepared(c).cidr # ""
         /\ Prepared(c).shutdown # "other" <=> c.shutdown # "other"
         /\ Prepared(c).shutdown # ""
         /\ Prepared(c).regions =
              [r \in Regions |-> IF r = Space \/ c.regions[r] = 0 THEN 0 ELSE 1]
         /\ Prepared(c).env = c.env
         /\ Prepared(c).comm = c.comm
         /\ Prepared(c).interface = c.interface
         /\ Prepared(c).nameLen = c.nameLen
         /\ Prepared(c).nameClean = c.nameClean
         /\ Prepared(c).bootModes = c.bootModes
         /\ Prepared(c).bootMode = c.bootMode
         /\ Prepared(c).unnamed = c.unnamed
         /\ Prepared(c).vmType = c.vmType
         /\ Prepared(c).minutes = c.minutes
         /\ Prepared(c).fileExists = c.fileExists
<1> DEFINE regions == [r \in Regions |-> IF r = Space \/ c.regions[r] = 0 THEN 0 ELSE 1]
           cidr == IF c.cidr = "" THEN "0.0.0.0/0" ELSE c.cidr
           shutdown == IF c.shutdown = "" THEN "stop" ELSE c.shutdown
<1>1. Prepared(c) = [c EXCEPT !.given = Names(c), !.regions = regions,
                              !.cidr = cidr, !.shutdown = shutdown]
  BY PreparedFields
<1>2. Names(c) \in SUBSET PlainSettings
  BY NamesKept
<1>3. regions \in [Regions -> Nat]
  OBVIOUS
<1>4. /\ cidr \in {"0.0.0.0/0", "good", "bad"}
      /\ cidr # "bad" <=> c.cidr # "bad"
  BY DEF TemplateType
<1>5. /\ shutdown \in {"stop", "terminate", "other"}
      /\ shutdown # "other" <=> c.shutdown # "other"
  BY DEF TemplateType
<1> HIDE DEF regions, cidr, shutdown
<1>6. Prepared(c) \in TemplateType
  BY <1>1, <1>2, <1>3, <1>4, <1>5, ZenonT(40) DEF TemplateType
<1>7. /\ Prepared(c).given = Names(c) /\ Prepared(c).regions = regions
      /\ Prepared(c).cidr = cidr /\ Prepared(c).shutdown = shutdown
  BY <1>1 DEF TemplateType
<1>8. /\ Prepared(c).env = c.env /\ Prepared(c).comm = c.comm
      /\ Prepared(c).interface = c.interface /\ Prepared(c).nameLen = c.nameLen
      /\ Prepared(c).nameClean = c.nameClean /\ Prepared(c).bootModes = c.bootModes
      /\ Prepared(c).bootMode = c.bootMode /\ Prepared(c).unnamed = c.unnamed
      /\ Prepared(c).vmType = c.vmType /\ Prepared(c).minutes = c.minutes
      /\ Prepared(c).fileExists = c.fileExists
  BY <1>1 DEF TemplateType
<1>9. cidr # "" /\ shutdown # ""
  BY <1>4, <1>5
<1> QED
  BY <1>4, <1>5, <1>6, <1>7, <1>8, <1>9, Zenon DEF regions

\* A second Prepare finds the names of the settings as they are to be.
LEMMA NamesSettled ==
  ASSUME NEW c \in TemplateType
  PROVE  Names(Prepared(c)) = Names(c)
<1> DEFINE p == Prepared(c)
           d == AccessPrepared(Forced(p))
<1>1. p \in TemplateType /\ p.given = Names(c) /\ p.env = c.env
  BY PreparedTyped
<1>2. "packer_force" \in Names(c) <=> Has(c, "packer_force")
  BY NamesKept DEF PlainSettings, Filled, EnvSettings, Has
<1> HIDE DEF p
<1>3. d.given = Names(c)
  <2>1. d.given = (IF Has(p, "packer_force") THEN p.given \cup {"force_deregister"}
                                             ELSE p.given)
                    \cup (p.env \cap EnvSettings) \cup {"region"}
    BY <1>1 DEF TemplateType, AccessPrepared, Forced, Has
  <2> QED
    BY <2>1, <1>1, <1>2, NamesKept DEF Has
<1>4. TemporaryKeyName(d) = {}
  BY <1>3, NamesKept DEF TemporaryKeyName, When
<1>5. GroupsMoved(Names(c)) = Names(c)
  BY NamesKept DEF GroupsMoved
<1> QED
  BY <1>3, <1>4, <1>5 DEF Names, p

LEMMA PreparedTwice ==
  ASSUME NEW c \in TemplateType
  PROVE  Prepared(Prepared(c)) = Prepared(c)
<1> DEFINE p == Prepared(c)
           kept == [r \in Regions |-> IF r = Space \/ c.regions[r] = 0 THEN 0 ELSE 1]
           again == [r \in Regions |-> IF r = Space \/ p.regions[r] = 0 THEN 0 ELSE 1]
<1>1. /\ p \in TemplateType /\ p.given = Names(c) /\ p.regions = kept
      /\ p.cidr # "" /\ p.shutdown # ""
  BY PreparedTyped
<1>2. Names(p) = p.given
  BY <1>1, NamesSettled
<1>3. again = p.regions
  BY <1>1
<1>4. Prepared(p) = [p EXCEPT !.given = Names(p), !.regions = again,
                              !.cidr = IF p.cidr = "" THEN "0.0.0.0/0" ELSE p.cidr,
                              !.shutdown = IF p.shutdown = "" THEN "stop" ELSE p.shutdown]
  BY <1>1, PreparedFields
<1> HIDE DEF p, again
<1>5. Prepared(p) = [p EXCEPT !.given = p.given, !.regions = p.regions,
                              !.cidr = p.cidr, !.shutdown = p.shutdown]
  BY <1>1, <1>2, <1>3, <1>4
<1>6. p = [p EXCEPT !.given = p.given, !.regions = p.regions,
                    !.cidr = p.cidr, !.shutdown = p.shutdown]
  BY <1>1 DEF TemplateType
<1> QED
  BY <1>5, <1>6 DEF p

LEMMA PreparedClean ==
  ASSUME NEW c \in TemplateType, Clean(c)
  PROVE  Clean(Prepared(c))
<1> DEFINE p == Prepared(c)
<1>1. \A s \in PlainSettings \ Filled : Has(p, s) <=> Has(c, s)
  BY PreparedTyped, NamesKept DEF Has
<1>2. {"client_id", "client_secret", "space_id"} \subseteq p.given \cup p.env
  BY PreparedTyped, NamesKept, ZenonT(40) DEF Clean, EnvSettings
<1>3. ImageErrors(p) = {} /\ BlockErrors(p) = {}
  BY PreparedTyped DEF Clean, ImageErrors, BlockErrors
<1>4. KeyPairErrors(p) = {}
  BY <1>1, PreparedTyped
     DEF Clean, KeyPairErrors, PlainSettings, CommSettings, Filled, EnvSettings
<1>5. SourceErrors(p) = {}
  BY <1>1 DEF Clean, SourceErrors, PlainSettings, Filled, EnvSettings
<1>6. Has(p, "user_data_file") => ~Has(p, "user_data") /\ p.fileExists
  BY <1>1, PreparedTyped DEF Clean, PlainSettings, Filled, EnvSettings
<1>7. Has(p, "enable_t2_unlimited") => p.vmType = "t2."
  BY <1>1, PreparedTyped DEF Clean, PlainSettings, Filled, EnvSettings
<1>8. ~({"security_group_id", "security_group_ids"} \subseteq p.given)
  BY PreparedTyped, NamesKept DEF Clean
<1> QED
  BY <1>2, <1>3, <1>4, <1>5, <1>6, <1>7, <1>8, PreparedTyped DEF Clean

(***************************************************************************)
(* The invariant.                                                          *)
(***************************************************************************)
\* Where the VM has not been read, and where it has not been published.
NotRead == {"prepare", "rejected", "keypair", "launch", "read"}
NotPublished == NotRead \cup {"await"}

WhereVm ==
    /\ pc \in NotRead => vm = NoVm
    /\ pc \in {"await", "password", "connect"} => vm # NoVm

WhereBag ==
    /\ pc \in NotPublished => bag = NoVm
    /\ pc \in {"password", "connect"} => bag # NoVm
    /\ bag # NoVm => vm # NoVm

\* SSHHost is called once a VM is published, and not again after an answer.
HostAfterVm ==
    /\ look # "idle" \/ host # "none" \/ late =>
         bag # NoVm /\ pc \in {"connect", "unwind", "deleted", "over", "panic"}
    /\ host # "none" => look = "idle"

TriesBounded == look # "idle" => tried <= Tries

\* A build without a private key has none to make: it uses an agent, or
\* Prepare had no reason to name a temporary key pair.
KeyMissing ==
    privateKey = "none" /\ pc \in {"launch", "read", "await", "password"} =>
        /\ ~Has(cfg, "ssh_private_key_file")
        /\ Has(cfg, "ssh_agent_auth") \/ ~Has(cfg, "temporary_key_pair_name")

\* What was read of the VM is still shown while the build needs it.
StillShown ==
    pc \in {"await", "password", "connect"} => vm \ {"public_ip"} \subseteq shown

\* The net of the VM is shown from the start, or never.
NetKnown ==
    /\ pc = "read" /\ "vpc" \in coming => "vpc" \in shown
    /\ vm # NoVm /\ "vpc" \notin vm => "vpc" \notin coming
    /\ bag # NoVm /\ "vpc" \in bag => "vpc" \in vm

\* The volumes read are in the bag, however often SSHHost overwrites it.
VolumesInBag ==
    vm # NoVm /\ "volumes" \in vm /\ bag # NoVm /\ ~late =>
        "volumes" \in (IF pc = "over" THEN listed ELSE bag)

\* With no interface named, and polls to spare, the public IP is in the bag
\* when SSHHost first looks, and a VM of a net is reached by it at once.
PublicFirst ==
    /\ cfg.interface = ""
    /\ Has(cfg, "associate_public_ip_address")
    /\ bag # NoVm
    /\ polls # MaxPolls
    => /\ "public_ip" \in vm
       /\ "vpc" \in vm =>
            bag = vm /\ look \in {"idle", "look"} /\ host \in {"none", "public_ip"}
       /\ "vpc" \notin vm => host \in {"none", "public_dns"}

WhereInv == WhereVm /\ WhereBag /\ HostAfterVm /\ TriesBounded

KeyInv == PrepareSettled /\ KeyMissing /\ AcceptedRuns

BagInv == StillShown /\ NetKnown /\ VolumesInBag

HostInv == PublicFirst /\ HostAsAsked

AddressInv == TypeOK /\ WhereInv /\ KeyInv /\ BagInv /\ HostInv

(***************************************************************************)
(* The steps.                                                              *)
(***************************************************************************)
\* A template and a record of the VM make an initial state of the invariant.
LEMMA InitAddress == Init => AddressInv
<1> SUFFICES ASSUME Init PROVE AddressInv
  OBVIOUS
<1>1. TypeOK
  <2>1. coming \subseteq Attributes
    BY AddressAssumption DEF Init, Visible
  <2>2. cfg \in TemplateType /\ polls \in 0 .. MaxPolls
    BY AddressAssumption DEF Init
  <2>3. shown \subseteq coming /\ vm = NoVm /\ bag = NoVm /\ listed \subseteq {"volumes"}
    BY DEF Init
  <2>4. tried \in 0 .. Tries + 1
    BY DEF Init, Tries
  <2> QED
    BY <2>1, <2>2, <2>3, <2>4 DEF Init, TypeOK
<1>2. WhereInv /\ KeyInv /\ BagInv /\ HostInv
  BY DEF Init, WhereInv, WhereVm, WhereBag, HostAfterVm, TriesBounded, KeyInv,
         PrepareSettled, KeyMissing, AcceptedRuns, BagInv, StillShown, NetKnown,
         VolumesInBag, HostInv, PublicFirst, HostAsAsked, DepartsFromDefault
<1> QED
  BY <1>1, <1>2 DEF AddressInv

\* The types; those of what Prepare makes of a template are PreparedTyped.
LEMMA TypesStep ==
  ASSUME TypeOK, WhereInv, KeyInv, [Next]_vars PROVE TypeOK'
<1> USE DEF TypeOK, At, GoTo, HostStep, stepVars, keys, service, hostVars, vars
<1>1. CASE Prepare
  BY <1>1, PreparedTyped, ZenonT(40) DEF Prepare
<1>2. CASE KeyPair
  BY <1>2 DEF KeyPair
<1>3. CASE Launch
  BY <1>3 DEF Launch
<1>4. CASE ReadVm
  BY <1>4 DEF ReadVm
<1>5. CASE AwaitPublicIp
  <2>1. vm \in SUBSET Attributes
    BY <1>5 DEF AwaitPublicIp, WhereInv, WhereVm
  <2>2. polls' \in 0 .. MaxPolls
    BY <1>5, AddressAssumption DEF AwaitPublicIp
  <2>3. vm' \in SUBSET Attributes
    BY <1>5, <2>1 DEF AwaitPublicIp, Attributes, Addresses
  <2> QED
    BY <1>5, <2>2, <2>3 DEF AwaitPublicIp
<1>6. CASE PublishVm
  BY <1>6 DEF PublishVm
<1>7. CASE GetPassword
  BY <1>7 DEF GetPassword
<1>8. CASE Connect
  BY <1>8 DEF Connect
<1>9. CASE DeleteVm
  BY <1>9, ZenonT(40) DEF DeleteVm
<1>10. CASE CleanupVolumes
  BY <1>10 DEF CleanupVolumes
<1>11. CASE ConnectTimesOut
  BY <1>11 DEF ConnectTimesOut
<1>12. CASE CallHost
  BY <1>12 DEF CallHost, Tries
<1>13. CASE Look
  <2>1. cfg.interface # "other" => Asked(bag) \in Addresses
    BY DEF Asked, Addresses, TemplateType
  <2>2. host' \in {"none"} \cup Addresses
    BY <1>13, <2>1 DEF Look
  <2> QED
    BY <1>13, <2>2 DEF Look
<1>14. CASE HostFails
  BY <1>14 DEF HostFails
<1>15. CASE Reread
  BY <1>15 DEF Reread
<1>16. CASE NextTry
  BY <1>16 DEF NextTry, Tries, WhereInv, TriesBounded
<1>17. CASE Show
  <2>1. shown' \subseteq coming /\ assigned' \in BOOLEAN /\ coming' = coming
    BY <1>17 DEF Show
  <2> QED
    BY <1>17, <2>1 DEF Show
<1>18. CASE Interrupt
  BY <1>18 DEF Interrupt
<1>19. CASE UNCHANGED vars
  BY <1>19 DEF vars
<1> QED
  BY <1>1, <1>2, <1>3, <1>4, <1>5, <1>6, <1>7, <1>8, <1>9, <1>10, <1>11, <1>12,
     <1>13, <1>14, <1>15, <1>16, <1>17, <1>18, <1>19
     DEF Next, Steps, Host, Stopped

\* What is there of the VM, and of SSHHost, at each place of the build.
LEMMA WhereStep ==
  ASSUME TypeOK, WhereInv, [Next]_vars PROVE WhereInv'
<1> USE DEF WhereInv, WhereVm, WhereBag, HostAfterVm, TriesBounded,
           NotRead, NotPublished, At, GoTo, HostStep, stepVars, keys, service,
           hostVars, vars
<1>1. CASE Prepare
  BY <1>1 DEF Prepare, TypeOK, NoVm, Attributes, Addresses
<1>2. CASE KeyPair
  BY <1>2 DEF KeyPair
<1>3. CASE Launch
  BY <1>3 DEF Launch
<1>4. CASE ReadVm
  BY <1>4 DEF ReadVm, TypeOK, NoVm, Attributes, Addresses
<1>5. CASE AwaitPublicIp
  BY <1>5 DEF AwaitPublicIp, TypeOK, NoVm, Attributes, Addresses
<1>6. CASE PublishVm
  BY <1>6 DEF PublishVm, TypeOK, NoVm, Attributes, Addresses
<1>7. CASE GetPassword
  BY <1>7 DEF GetPassword
<1>8. CASE Connect
  BY <1>8 DEF Connect
<1>9. CASE DeleteVm
  BY <1>9 DEF DeleteVm
<1>10. CASE CleanupVolumes
  BY <1>10 DEF CleanupVolumes
<1>11. CASE ConnectTimesOut
  BY <1>11 DEF ConnectTimesOut
<1>12. CASE CallHost
  BY <1>12 DEF CallHost, Tries
<1>13. CASE Look
  BY <1>13 DEF Look
<1>14. CASE HostFails
  BY <1>14 DEF HostFails
<1>15. CASE Reread
  BY <1>15 DEF Reread, TypeOK, NoVm, Attributes, Addresses
<1>16. CASE NextTry
  BY <1>16 DEF NextTry, Tries, TypeOK
<1>17. CASE Show
  BY <1>17 DEF Show
<1>18. CASE Interrupt
  BY <1>18 DEF Interrupt
<1>19. CASE UNCHANGED vars
  BY <1>19 DEF vars
<1> QED
  BY <1>1, <1>2, <1>3, <1>4, <1>5, <1>6, <1>7, <1>8, <1>9, <1>10, <1>11, <1>12,
     <1>13, <1>14, <1>15, <1>16, <1>17, <1>18, <1>19
     DEF Next, Steps, Host, Stopped

\* Prepare settles the template, and the key pair step and GetPassword then
\* find in it what Prepare saw to.
LEMMA KeyStep ==
  ASSUME TypeOK, WhereInv, KeyInv, [Next]_vars PROVE KeyInv'
<1> USE DEF KeyInv, PrepareSettled, KeyMissing, AcceptedRuns, At, GoTo, HostStep,
    stepVars, keys, service, hostVars, vars
<1>1. CASE Prepare
  <2>1. cfg \in TemplateType /\ cfg' = Prepared(cfg)
    BY <1>1 DEF Prepare, TypeOK
  <2>2. Prepared(cfg') = cfg'
    BY <2>1, PreparedTwice
  <2>3. Accepted(cfg) => Accepted(cfg')
    BY <2>1, PreparedClean, AcceptedIsClean
  <2>4. pc' = IF Accepted(cfg) THEN "keypair" ELSE "rejected"
    BY <1>1 DEF Prepare
  <2> QED
    BY <2>2, <2>3, <2>4
<1>2. CASE KeyPair
  BY <1>2 DEF KeyPair
<1>3. CASE Launch
  BY <1>3 DEF Launch
<1>4. CASE ReadVm
  BY <1>4 DEF ReadVm
<1>5. CASE AwaitPublicIp
  BY <1>5 DEF AwaitPublicIp
<1>6. CASE PublishVm
  BY <1>6 DEF PublishVm
<1>7. CASE GetPassword
  <2>1. Accepted(cfg) /\ Prepared(cfg) = cfg
    BY <1>7 DEF GetPassword
  <2>2. CASE pc' # "panic"
    BY <1>7, <2>2 DEF GetPassword
  <2>3. CASE pc' = "panic"
    <3>1. /\ cfg.comm = "winrm" /\ ~Has(cfg, "winrm_password")
          /\ ~Has(cfg, "ssh_private_key_file")
          /\ Has(cfg, "ssh_agent_auth") \/ ~Has(cfg, "temporary_key_pair_name")
      BY <1>7, <2>3 DEF GetPassword, NeedsPassword
    <3>2. ~Has(cfg, "ssh_keypair_name")
      BY <2>1, <3>1, AcceptedIsClean DEF Clean, KeyPairErrors
    <3>3. cfg.given \cap {"ssh_keypair_name", "temporary_key_pair_name",
                         "ssh_private_key_file", "ssh_password"} # {}
      BY <2>1, PreparedTyped, NamesKept, ZenonT(40) DEF TypeOK
    <3>4. Has(cfg, "ssh_agent_auth") \/ Has(cfg, "ssh_password")
      BY <3>1, <3>2, <3>3 DEF Has
    <3>5. cfg' = cfg
      BY <1>7 DEF GetPassword
    <3> QED
      BY <2>1, <2>3, <3>2, <3>4, <3>5 DEF Has
  <2> QED
    BY <2>2, <2>3
<1>8. CASE Connect
  BY <1>8 DEF Connect
<1>9. CASE DeleteVm
  BY <1>9 DEF DeleteVm
<1>10. CASE CleanupVolumes
  BY <1>10 DEF CleanupVolumes
<1>11. CASE ConnectTimesOut
  BY <1>11 DEF ConnectTimesOut
<1>12. CASE CallHost
  BY <1>12 DEF CallHost
<1>13. CASE Look
  <2>1. pc \in {"connect", "unwind", "deleted"}
    BY <1>13 DEF Look, WhereInv, HostAfterVm
  <2>2. cfg.interface # "other"
    BY <2>1, AcceptedIsClean DEF Clean
  <2> QED
    BY <1>13, <2>1, <2>2 DEF Look
<1>14. CASE HostFails
  BY <1>14 DEF HostFails
<1>15. CASE Reread
  BY <1>15 DEF Reread
<1>16. CASE NextTry
  BY <1>16 DEF NextTry
<1>17. CASE Show
  BY <1>17 DEF Show
<1>18. CASE Interrupt
  BY <1>18 DEF Interrupt
<1>19. CASE UNCHANGED vars
  BY <1>19 DEF vars
<1> QED
  BY <1>1, <1>2, <1>3, <1>4, <1>5, <1>6, <1>7, <1>8, <1>9, <1>10, <1>11, <1>12,
     <1>13, <1>14, <1>15, <1>16, <1>17, <1>18, <1>19
     DEF Next, Steps, Host, Stopped

\* What SSHHost writes over the VM in the bag shows no less of it.
LEMMA BagStep ==
  ASSUME TypeOK, WhereInv, BagInv, [Next]_vars PROVE BagInv'
<1> USE DEF BagInv, StillShown, NetKnown, VolumesInBag, WhereInv,
           WhereVm, WhereBag, HostAfterVm, NotRead, NotPublished, NoVm, TypeOK, At,
           GoTo, HostStep, stepVars, keys, service, hostVars, vars
<1>1. CASE Prepare
  BY <1>1 DEF Prepare
<1>2. CASE KeyPair
  BY <1>2 DEF KeyPair
<1>3. CASE Launch
  BY <1>3 DEF Launch
<1>4. CASE ReadVm
  BY <1>4 DEF ReadVm
<1>5. CASE AwaitPublicIp
  BY <1>5 DEF AwaitPublicIp
<1>6. CASE PublishVm
  BY <1>6 DEF PublishVm
<1>7. CASE GetPassword
  BY <1>7 DEF GetPassword
<1>8. CASE Connect
  BY <1>8 DEF Connect
<1>9. CASE DeleteVm
  BY <1>9 DEF DeleteVm
<1>10. CASE CleanupVolumes
  BY <1>10 DEF CleanupVolumes
<1>11. CASE ConnectTimesOut
  BY <1>11 DEF ConnectTimesOut
<1>12. CASE CallHost
  BY <1>12 DEF CallHost
<1>13. CASE Look
  BY <1>13 DEF Look
<1>14. CASE HostFails
  BY <1>14 DEF HostFails
<1>15. CASE Reread
  BY <1>15 DEF Reread
<1>16. CASE NextTry
  BY <1>16 DEF NextTry
<1>17. CASE Show
  BY <1>17 DEF Show
<1>18. CASE Interrupt
  BY <1>18 DEF Interrupt
<1>19. CASE UNCHANGED vars
  BY <1>19 DEF vars
<1> QED
  BY <1>1, <1>2, <1>3, <1>4, <1>5, <1>6, <1>7, <1>8, <1>9, <1>10, <1>11, <1>12,
     <1>13, <1>14, <1>15, <1>16, <1>17, <1>18, <1>19
     DEF Next, Steps, Host, Stopped

\* The address published is looked at before one that is read again.
LEMMA PublicStep ==
  ASSUME TypeOK, WhereInv, BagInv, HostInv, [Next]_vars PROVE HostInv'
<1> USE DEF HostInv, PublicFirst, HostAsAsked, DepartsFromDefault, WhereInv,
           WhereVm, WhereBag, HostAfterVm, NotRead, NotPublished, At, GoTo,
           HostStep, stepVars, keys, service, hostVars, vars
<1>1. CASE Prepare
  BY <1>1 DEF Prepare
<1>2. CASE KeyPair
  BY <1>2 DEF KeyPair
<1>3. CASE Launch
  BY <1>3 DEF Launch
<1>4. CASE ReadVm
  BY <1>4 DEF ReadVm
<1>5. CASE AwaitPublicIp
  BY <1>5 DEF AwaitPublicIp
<1>6. CASE PublishVm
  BY <1>6 DEF PublishVm, Awaited
<1>7. CASE GetPassword
  BY <1>7 DEF GetPassword
<1>8. CASE Connect
  BY <1>8 DEF Connect
<1>9. CASE DeleteVm
  BY <1>9 DEF DeleteVm
<1>10. CASE CleanupVolumes
  BY <1>10 DEF CleanupVolumes
<1>11. CASE ConnectTimesOut
  BY <1>11 DEF ConnectTimesOut
<1>12. CASE CallHost
  BY <1>12 DEF CallHost
<1>13. CASE Look
  <2>1. UNCHANGED <<cfg, polls, vm, bag>>
    BY <1>13 DEF Look
  <2>2. CASE UNCHANGED host
    <3>1. look' = "look" \/ look' = "idle" \/ Asked(bag) \notin bag
      BY <1>13, <2>2 DEF Look
    <3>2. look = "look"
      BY <1>13 DEF Look
    <3> QED
      BY <2>1, <2>2, <3>1, <3>2 DEF Asked
  <2>3. CASE host' = Asked(bag) /\ Asked(bag) \in bag /\ look' = "idle"
    <3>1. bag # NoVm /\ ("vpc" \in bag => "vpc" \in vm)
      BY <1>13 DEF Look, BagInv, NetKnown
    <3>2. HostAsAsked'
      BY <2>1, <2>3, <3>1 DEF Asked
    <3> QED
      BY <2>1, <2>3, <3>1, <3>2 DEF Asked
  <2> QED
    BY <1>13, <2>2, <2>3 DEF Look
<1>14. CASE HostFails
  BY <1>14 DEF HostFails
<1>15. CASE Reread
  BY <1>15 DEF Reread, BagInv, NetKnown, TypeOK, NoVm, Attributes, Addresses
<1>16. CASE NextTry
  BY <1>16 DEF NextTry
<1>17. CASE Show
  BY <1>17 DEF Show
<1>18. CASE Interrupt
  BY <1>18 DEF Interrupt
<1>19. CASE UNCHANGED vars
  BY <1>19 DEF vars
<1> QED
  BY <1>1, <1>2, <1>3, <1>4, <1>5, <1>6, <1>7, <1>8, <1>9, <1>10, <1>11, <1>12,
     <1>13, <1>14, <1>15, <1>16, <1>17, <1>18, <1>19
     DEF Next, Steps, Host, Stopped

\* The invariant is inductive.
LEMMA StepAddress == AddressInv /\ [Next]_vars => AddressInv'
BY TypesStep, WhereStep, KeyStep, BagStep, PublicStep DEF AddressInv

\* Types of the variables.
THEOREM AddressTypeCorrect == Spec => []TypeOK
<1>1. AddressInv => TypeOK
  BY DEF AddressInv
<1> QED
  BY <1>1, InitAddress, StepAddress, PTL DEF Spec

\* Whatever the template, Prepare would accept what it accepted again, and
\* would leave it as it is (run_config.go, image_config.go, access_config.go).
THEOREM PrepareIsSettled == Spec => []PrepareSettled
<1>1. AddressInv => PrepareSettled
  BY DEF AddressInv, KeyInv
<1> QED
  BY <1>1, InitAddress, StepAddress, PTL DEF Spec

\* No template that Prepare accepts ends in a panic of SSHHost or of the
\* decryption of the password, but one with an SSH password or agent in a
\* WinRM build that names no key pair.
THEOREM AcceptedTemplatesRun == Spec => []AcceptedRuns
<1>1. AddressInv => AcceptedRuns
  BY DEF AddressInv, KeyInv
<1> QED
  BY <1>1, InitAddress, StepAddress, PTL DEF Spec

\* For any records of the VM and any number of polls, the host is the address
\* named, or the public IP but for a VM of no net, one with no public IP of
\* its own, and one whose address did not appear in all polls (ssh.go:35,
\* step_run_source_vm.go:281).
THEOREM HostIsAsked == Spec => []HostAsAsked
<1>1. AddressInv => HostAsAsked
  BY DEF AddressInv, HostInv
<1> QED
  BY <1>1, InitAddress, StepAddress, PTL DEF Spec

\* However often SSHHost overwrites the VM in the bag while StepConnect runs,
\* StepCleanupVolumes finds its volumes there (ssh.go:96).
THEOREM VolumesAreListed == Spec => []VolumesListed
<1>1. AddressInv => VolumesListed
  BY DEF AddressInv, BagInv, VolumesInBag, VolumesListed
<1> QED
  BY <1>1, InitAddress, StepAddress, PTL DEF Spec

(***************************************************************************)
(* The way to the end.                                                     *)
(***************************************************************************)
\* Steps from here to the end, but for the polls that are left.
Stage ==
    CASE pc = "prepare" -> 10
      [] pc = "keypair" -> 9
      [] pc = "launch" -> 8
      [] pc = "read" -> 7
      [] pc = "await" -> 6
      [] pc = "password" -> 5
      [] pc = "connect" -> 4
      [] pc = "unwind" -> 3
      [] pc = "deleted" -> 2
      [] OTHER -> 1

StepsLeft ==
    Stage + IF pc \in {"prepare", "keypair", "launch", "read", "await"}
              THEN MaxPolls - polls ELSE 0

\* A step of the build leads on, and nothing leads back.
LeadsOn ==
    IF Steps \/ ConnectTimesOut THEN StepsLeft' < StepsLeft
                                ELSE StepsLeft' <= StepsLeft

LEMMA StepsLeftTyped == TypeOK => StepsLeft \in 1 .. MaxPolls + 10
BY AddressAssumption DEF TypeOK, StepsLeft, Stage

\* The polls are counted, and every other step goes to a later place.
LEMMA BuildLeadsOn ==
  ASSUME TypeOK, Steps \/ ConnectTimesOut
  PROVE  StepsLeft' < StepsLeft
<1>1. MaxPolls \in Nat /\ polls \in 0 .. MaxPolls
  BY AddressAssumption DEF TypeOK
<1> USE DEF StepsLeft, Stage, At, GoTo, stepVars
<1>2. CASE Prepare
  BY <1>1, <1>2 DEF Prepare
<1>3. CASE KeyPair
  BY <1>1, <1>3 DEF KeyPair
<1>4. CASE Launch
  BY <1>1, <1>4 DEF Launch
<1>5. CASE ReadVm
  BY <1>1, <1>5 DEF ReadVm
<1>6. CASE AwaitPublicIp
  BY <1>1, <1>6 DEF AwaitPublicIp
<1>7. CASE PublishVm
  BY <1>1, <1>7 DEF PublishVm
<1>8. CASE GetPassword
  BY <1>1, <1>8 DEF GetPassword
<1>9. CASE Connect \/ ConnectTimesOut
  BY <1>1, <1>9 DEF Connect, ConnectTimesOut
<1>10. CASE DeleteVm \/ CleanupVolumes
  BY <1>1, <1>10 DEF DeleteVm, CleanupVolumes
<1> QED
  BY <1>2, <1>3, <1>4, <1>5, <1>6, <1>7, <1>8, <1>9, <1>10 DEF Steps

LEMMA StepLeadsOn == TypeOK /\ [Next]_vars => [LeadsOn]_vars
<1> SUFFICES ASSUME TypeOK, Next PROVE LeadsOn
  BY DEF LeadsOn
<1>1. StepsLeft \in Nat /\ MaxPolls - polls \in Nat
  BY StepsLeftTyped, AddressAssumption DEF TypeOK
<1>2. CASE Steps \/ ConnectTimesOut
  BY <1>2, BuildLeadsOn DEF LeadsOn
<1>3. ASSUME ~(Steps \/ ConnectTimesOut) PROVE StepsLeft' <= StepsLeft
  <2>1. CASE Look
    BY <2>1, <1>1 DEF Look, HostStep, stepVars, StepsLeft, Stage
  <2>2. CASE CallHost \/ HostFails \/ Reread \/ NextTry
    BY <2>2, <1>1 DEF CallHost, HostFails, Reread, NextTry, HostStep, stepVars,
                      StepsLeft, Stage
  <2>3. CASE Show \/ Interrupt \/ Stopped
    BY <2>3, <1>1 DEF Show, Interrupt, Stopped, vars, stepVars, StepsLeft, Stage
  <2> QED
    BY <1>3, <2>1, <2>2, <2>3 DEF Next, Host
<1> QED
  BY <1>2, <1>3 DEF LeadsOn

\* From Prepare to the last Cleanup there are at most MaxPolls + 9 steps,
\* whatever SSHHost, the service and the user do meanwhile: no step leads
\* back, the wait for the public IP counts its polls (step_run_source_vm.go:281).
THEOREM BuildIsBounded == Spec => [](StepsLeft \in 1 .. MaxPolls + 10) /\ [][LeadsOn]_vars
<1>1. AddressInv => TypeOK
  BY DEF AddressInv
<1> QED
  BY <1>1, InitAddress, StepAddress, StepsLeftTyped, StepLeadsOn, PTL DEF Spec
=============================================================================
