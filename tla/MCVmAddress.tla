---------------------------- MODULE MCVmAddress ----------------------------
(***************************************************************************)
(* VmAddress for TLC: families of templates, each about some settings.     *)
(***************************************************************************)
EXTENDS VmAddress

Once(names) == [r \in Regions |-> IF r \in names THEN 1 ELSE 0]

\* Nothing but what is required.
Plain ==
    [given |-> {"client_id", "client_secret", "space_id", "source_image"},
     env |-> {}, comm |-> "ssh", interface |-> "", nameLen |-> 8,
     nameClean |-> TRUE, bootModes |-> {}, bootMode |-> "", regions |-> Once({}),
     unnamed |-> FALSE, vmType |-> "m5.", minutes |-> 0, fileExists |-> TRUE,
     cidr |-> "", shutdown |-> ""]

With(c, settings) == [c EXCEPT !.given = @ \cup settings]

\* Credentials of every kind, up to two at a time.
Credentials ==
    {With([Plain EXCEPT !.comm = m], {s, t}) :
        m \in {"ssh", "winrm"}, s \in CommSettings, t \in CommSettings}
    \cup {[Plain EXCEPT !.comm = "winrm"]}

\* Ways to reach the VM.
Interfaces ==
    {With([Plain EXCEPT !.interface = i], s) :
        i \in {"", "public_ip", "private_ip", "public_dns", "private_dns", "other"},
        s \in SUBSET {"associate_public_ip_address"}}

\* One setting out of the ordinary each.
Settings ==
    {With(Plain, {s}) : s \in PlainSettings}
    \cup {With(Plain, {"security_group_id", "security_group_ids"}),
          With(Plain, {"user_data", "user_data_file"}),
          With([Plain EXCEPT !.fileExists = FALSE], {"user_data_file"}),
          With([Plain EXCEPT !.vmType = "t2."], {"enable_t2_unlimited"})}
    \cup {[Plain EXCEPT !.given = @ \ {s}, !.env = e] :
            s \in EnvSettings, e \in {{}, EnvSettings}}
    \cup {[Plain EXCEPT !.given = (@ \ {"source_image"}) \cup s] : s \in SUBSET {"filters", "owners"}}
    \cup {[Plain EXCEPT !.nameLen = n] : n \in {0, 2, 3, 128, 129}}
    \cup {[Plain EXCEPT !.bootModes = b] : b \in {{"uefi"}, {"legacy", "other"}}}
    \cup {[Plain EXCEPT !.bootMode = b] : b \in {"uefi", "other"}}
    \cup {[Plain EXCEPT !.regions = r] : r \in {Once({Space}), [Once({"r2"}) EXCEPT !["r1"] = 2]}}
    \cup {[Plain EXCEPT !.vmType = t] : t \in {"", "dotless"}}
    \cup {[Plain EXCEPT !.minutes = m] : m \in {59, 60}}
    \cup {[Plain EXCEPT !.cidr = c] : c \in {"good", "bad"}}
    \cup {[Plain EXCEPT !.shutdown = s] : s \in {"terminate", "other"}}
    \cup {[Plain EXCEPT !.nameClean = FALSE], [Plain EXCEPT !.unnamed = TRUE],
          [Plain EXCEPT !.comm = "none"]}

AllTemplates == Credentials \cup Interfaces \cup Settings

\* A VM of a net, one of none, and one that shows neither addresses.
AllRecords ==
    {{"vpc", "private_ip", "public_ip", "volumes"},
     {"public_dns", "private_dns"},
     {"vpc", "volumes"}}
=============================================================================
