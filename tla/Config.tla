------------------------------- MODULE Config -------------------------------
(***************************************************************************)
(* Builder.Prepare: what becomes of a template, and what is said of it.    *)
(* A template is a record; of the settings only tested for being there,    *)
(* the field given holds the names.  Every part of Prepare fills in what   *)
(* it can and returns its errors; a build runs if there are none.          *)
(***************************************************************************)
EXTENDS Integers

CONSTANTS
    Regions,        \* names that image_regions may hold
    Space           \* the configured space_id

CommSettings ==
    {"ssh_keypair_name", "temporary_key_pair_name", "ssh_private_key_file",
     "ssh_password", "ssh_agent_auth", "winrm_password"}

PlainSettings ==
    CommSettings \cup
    {"client_id", "client_secret", "space_id", "region", "source_image",
     "filters", "owners", "user_data", "user_data_file", "packer_force",
     "force_deregister", "security_group_id", "security_group_ids",
     "enable_t2_unlimited", "associate_public_ip_address"}

\* Settings that may come from the environment: NUMSPOT_CLIENT_ID and so on.
EnvSettings == {"client_id", "client_secret", "space_id", "region"}

TemplateType ==
    [given: SUBSET PlainSettings,
     env: SUBSET EnvSettings,
     comm: {"ssh", "winrm", "none"},    \* the communicator
     interface: {"", "public_ip", "private_ip", "public_dns", "private_dns", "other"},
     nameLen: Nat,                      \* of image_name
     nameClean: BOOLEAN,                \* no character is out of place in it
     bootModes: SUBSET {"legacy", "uefi", "other"},     \* image_boot_modes
     bootMode: {"", "legacy", "uefi", "other"},
     regions: [Regions -> Nat],         \* how often each is in image_regions
     unnamed: BOOLEAN,                  \* a mapping without device_name
     vmType: {"", "t2.", "m5.", "dotless"},
     minutes: Nat,                      \* block_duration_minutes
     fileExists: BOOLEAN,               \* of user_data_file
     cidr: {"", "0.0.0.0/0", "good", "bad"},
     shutdown: {"", "stop", "terminate", "other"}]

When(condition, errors) == IF condition THEN errors ELSE {}

Has(c, setting) == setting \in c.given

(***************************************************************************)
(* AccessConfig, ImageConfig, BlockDevices.                                *)
(***************************************************************************)
\* A setting of the template comes before the environment's.
AccessPrepared(c) ==
    [c EXCEPT !.given = @ \cup (c.env \cap EnvSettings) \cup {"region"}]

AccessErrors(c) ==
    LET known == c.given \cup c.env
    IN  ({"client_id", "client_secret", "space_id"} \ known)
        \cup When(("client_id" \in known) # ("client_secret" \in known), {"both"})

\* image_regions once each, and without the configured space, to which
\* prepareRegions compares regions.
ImagePrepared(c) ==
    [c EXCEPT !.regions =
        [r \in Regions |-> IF r = Space \/ c.regions[r] = 0 THEN 0 ELSE 1]]

ImageErrors(c) ==
    When(c.nameLen = 0, {"name required"})
    \cup When(c.nameLen \notin 3 .. 128, {"name length"})
    \cup When(~(c.bootModes \subseteq {"legacy", "uefi"}), {"image boot mode"})
    \cup When(~c.nameClean, {"name characters"})

BlockErrors(c) == When(c.unnamed, {"device name"})

(***************************************************************************)
(* RunConfig.                                                              *)
(***************************************************************************)
\* A key pair is made for every template that names none.
TemporaryKeyNameUnlessNamed(c) ==
    When("ssh_keypair_name" \notin c.given /\ "ssh_private_key_file" \notin c.given
           /\ c.comm = "ssh",
         {"temporary_key_pair_name"})

\* A key pair is made where no credential is given at all.
TemporaryKeyName(c) ==
    When(c.given \cap {"ssh_keypair_name", "temporary_key_pair_name",
                       "ssh_private_key_file", "ssh_password"} = {},
         {"temporary_key_pair_name"})

\* The single group copied into the list.
GroupsCopied(given) ==
    IF "security_group_id" \in given /\ "security_group_ids" \notin given
      THEN given \cup {"security_group_ids"}
      ELSE given

\* The single group moved into the list.
GroupsMoved(given) ==
    IF "security_group_id" \in given /\ "security_group_ids" \notin given
      THEN (given \ {"security_group_id"}) \cup {"security_group_ids"}
      ELSE given

RunPrepared(c) ==
    [c EXCEPT !.given = GroupsMoved(@ \cup TemporaryKeyName(c)),
              !.cidr = IF @ = "" THEN "0.0.0.0/0" ELSE @,
              !.shutdown = IF @ = "" THEN "stop" ELSE @]

KeyPairErrors(c) ==
    IF ~Has(c, "ssh_keypair_name") \/ Has(c, "ssh_private_key_file") THEN {}
    ELSE IF c.comm = "winrm" /\ ~Has(c, "winrm_password") THEN {"key for winrm"}
    ELSE When(~Has(c, "ssh_agent_auth"), {"key or agent"})

SourceErrors(c) ==
    IF Has(c, "source_image") THEN {}
    ELSE When(~Has(c, "filters") /\ ~Has(c, "owners"), {"source required"})
         \cup When(~Has(c, "owners"), {"owner required"})

\* The name of an interface not looked at.
InterfaceErrorsNone(c) == {}

InterfaceErrors(c) == When(c.interface = "other", {"interface"})

RunErrors(c) ==
    UNION {
        InterfaceErrors(c),
        KeyPairErrors(c),
        When(c.bootMode = "other", {"boot mode"}),
        SourceErrors(c),
        When(c.vmType = "", {"vm type"}),
        When(c.minutes % 60 # 0, {"block duration"}),
        When(Has(c, "user_data_file") /\ (Has(c, "user_data") \/ ~c.fileExists), {"user data"}),
        When({"security_group_id", "security_group_ids"} \subseteq c.given, {"groups"}),
        When(c.cidr = "bad", {"cidr"}),
        When(c.shutdown = "other", {"shutdown"}),
        When(Has(c, "enable_t2_unlimited") /\ c.vmType # "t2.", {"t2"})}

(***************************************************************************)
(* Builder.Prepare.  It is taken that the communicator, checked by the     *)
(* SDK, is well configured.                                                *)
(***************************************************************************)
Forced(c) ==
    [c EXCEPT !.given = IF "packer_force" \in @ THEN @ \cup {"force_deregister"} ELSE @]

Prepared(c) == RunPrepared(ImagePrepared(AccessPrepared(Forced(c))))

Errors(c) == AccessErrors(c) \cup ImageErrors(c) \cup BlockErrors(c) \cup RunErrors(c)

Accepted(c) == Errors(c) = {}
=============================================================================
