------------------------------ MODULE ApiCall -------------------------------
(***************************************************************************)
(* One call a step makes through the generated client, from the parameters *)
(* the step fills to what it concludes from the answer.  The client and    *)
(* its HTTP client add no retry, no timeout and no reading of the status:  *)
(* an HTTP error is an answer like another, and each place in the code     *)
(* decides what it looks at.                                               *)
(***************************************************************************)
EXTENDS Api, FiniteSets

CONSTANTS
    Values,         \* ids and names a query may be given
    Statuses        \* statuses the service, or what is before it, may answer

ASSUME CallAssumption ==
    /\ Values # {}
    /\ {200, 201, 204} \cup ErrorStatuses \subseteq Statuses
    /\ Statuses \subseteq 100 .. 599

VARIABLES
    call,           \* where the call is made, and of what
    interrupted,    \* the context given to Builder.Run is done
    stage,          \* how far it is
    executed,       \* how often the service has executed it
    reply,          \* what the service answered, or NoReply
    response,       \* what the method of the client returned, Failure before
    verdict         \* what the step concluded

vars == <<call, interrupted, stage, executed, reply, response, verdict>>

(***************************************************************************)
(* The calls.  heeds says what the step looks at: "data", or it fails;     *)
(* "error", only whether there is one; "maybe", it goes on without the     *)
(* data; "wait", it tries again later, and "poll" even after an error;     *)
(* "gone", a wait that a 404 ends; "told", it reports an error and goes    *)
(* on.  context is the one of the build, or a "background" one, which      *)
(* never ends.  asked says whether the step asks for all there are or for  *)
(* some only; "filter" stands for some, by filters none of which it sends. *)
(***************************************************************************)
NoLists == [p \in {} |-> {}]

Run(op, heeds) ==
    [op |-> op, heeds |-> heeds, context |-> "build", lists |-> NoLists, asked |-> "some"]

Query1(op, heeds, param, values) ==
    [Run(op, heeds) EXCEPT !.lists = [p \in {param} |-> values]]

Cleanup(op) ==
    [Run(op, "told") EXCEPT !.context = "background"]

PreValidateCalls ==
    {Query1("ReadImages", "maybe", "ImageNames", {v}) : v \in Values}

SourceImageInfoCalls ==
    {Query1("ReadImages", "data", "Ids", {v}) : v \in Values}

\* A build names owners where it filters, the data source need not; the data
\* source has a context of its own.
GetFilteredImageCalls ==
    {[Run("ReadImages", "data") EXCEPT
         !.context = context,
         !.lists = [p \in params |-> Values],
         !.asked = IF params = {} THEN "filter" ELSE "some"] :
       context \in {"build", "background"},
       params \in SUBSET {"AccountAliases", "ImageNames"}}

\* Filters of the net and of the subnet are only tested for being there.
NetworkInfoCalls ==
    {[Run("ReadVpcs", "data") EXCEPT !.asked = "filter"],
     [Run("ReadSubnets", "data") EXCEPT !.asked = "filter"],
     Run("ReadSubnetsById", "maybe")}

KeyPairCalls == {Run("CreateKeypair", "data"), Cleanup("DeleteKeypair")}

PublicIpCalls == {Run("CreatePublicIp", "data"), Cleanup("DeletePublicIp")}

\* Groups given by id, if there are any; by a filter, of which only the key
\* "name" is sent; or a new one.
SecurityGroupCalls ==
    {Query1("ReadSecurityGroups", "data", "SecurityGroupIds", ids) :
       ids \in {s \in SUBSET Values : s # {}}}
    \cup {Query1("ReadSecurityGroups", "data", "SecurityGroupNames", {v}) : v \in Values}
    \cup {[Run("ReadSecurityGroups", "data") EXCEPT !.asked = "filter"],
          Run("CreateSecurityGroup", "data"),
          Run("CreateSecurityGroupRule", "error"),
          Cleanup("DeleteSecurityGroup")}

RunSourceVmCalls ==
    {Run("CreateVms", "data"), Run("CreateTags", "error"), Run("LinkPublicIp", "data"),
     Run("ReadVmsById", "data"), Cleanup("DeleteVms")}
    \cup {Query1("ReadPublicIps", "poll", "Ids", {v}) : v \in Values}

GetPasswordCalls == {Run("ReadAdminPassword", "wait")}

SSHHostCalls == {[Run("ReadVmsById", "data") EXCEPT !.context = "background"]}

\* That a VM is gone is waited for by the Cleanup of StepRunSourceVm, and by
\* StepStopBSUBackedVm when the VM terminates on shutdown.
WaitCalls ==
    {Run("ReadVmsById", "wait"), Run("ReadImagesById", "wait"),
     Run("ReadVmsById", "gone"),
     [Run("ReadVmsById", "gone") EXCEPT !.context = "background"]}

StopVmCalls == {Run("StopVm", "error")}

DeregisterImageCalls ==
    {Query1("ReadImages", "maybe", "ImageNames", {v}) : v \in Values}
    \cup {Run("DeleteImage", "error"), Run("DeleteSnapshot", "error")}

CreateImageCalls ==
    {Run("CreateImage", "data"), Cleanup("DeleteImage")}
    \cup {Query1("ReadImages", "data", "Ids", {v}) : v \in Values}
    \cup {Query1("ReadImages", "maybe", "Ids", {v}) : v \in Values}

UpdateImageCalls == {Run("UpdateImage", "error")}

CreateTagsCalls ==
    {Run("CreateTags", "error")}
    \cup {Query1("ReadImages", "data", "Ids", {v}) : v \in Values}

\* The volumes asked for without the test for there being any.
CleanupVolumesCallsUntested ==
    {[Query1("ReadVolumes", "maybe", "Ids", vl) EXCEPT !.context = "background"] :
       vl \in SUBSET Values}
    \cup {Cleanup("DeleteVolume")}

CleanupVolumesCalls ==
    {[Query1("ReadVolumes", "maybe", "Ids", vl) EXCEPT !.context = "background"] :
       vl \in {s \in SUBSET Values : s # {}}}
    \cup {Cleanup("DeleteVolume")}

\* Of Artifact.Destroy, which has no context.
DestroyCalls == {[Run("DeleteImage", "error") EXCEPT !.context = "background"]}

StepCalls ==
    UNION {PreValidateCalls, SourceImageInfoCalls, GetFilteredImageCalls,
           NetworkInfoCalls, KeyPairCalls, PublicIpCalls, SecurityGroupCalls,
           RunSourceVmCalls, GetPasswordCalls, SSHHostCalls, WaitCalls,
           StopVmCalls, DeregisterImageCalls, CreateImageCalls,
           UpdateImageCalls, CreateTagsCalls, CleanupVolumesCalls,
           DestroyCalls}

\* The rest of the client's methods, which no step calls: each as a caller
\* that wants its data, if it has any, would call it.
OtherCalls ==
    {[Run(op, IF DataStatuses(op) = {} THEN "error" ELSE "data") EXCEPT !.asked = "all"] :
       op \in DOMAIN Client \ {c.op : c \in StepCalls}}

Calls == StepCalls \cup OtherCalls

Bodies == {"whole", "blank", "garbled", "cut"}

Replies == [status : Statuses, json : BOOLEAN, body : Bodies]

NoReply == [status |-> 0, json |-> FALSE, body |-> "cut"]

Init ==
    /\ call \in Calls
    /\ interrupted \in BOOLEAN
    /\ stage = "request"
    /\ executed = 0
    /\ reply = NoReply
    /\ response = Failure
    /\ verdict = "none"

ContextDone == interrupted /\ call.context = "build"

(***************************************************************************)
(* The client.                                                             *)
(***************************************************************************)
Return(r) ==
    /\ response' = r
    /\ stage' = "returned"
    /\ UNCHANGED <<call, interrupted, executed, reply, verdict>>

\* The request is built and handed to the HTTP client.
Send ==
    /\ stage = "request"
    /\ stage' = "sent"
    /\ UNCHANGED <<call, interrupted, executed, reply, response, verdict>>

\* The request made without the caller's context.
GiveUpOnError ==
    /\ stage = "sent"
    /\ ~ContextDone
    /\ Return(Failure)

\* The connection fails, or the context is done: before the service has the
\* request, or after.
GiveUp ==
    /\ stage = "sent"
    /\ Return(Failure)

Receive ==
    /\ stage = "sent"
    /\ reply # NoReply
    /\ Return(Parse(call.op, reply))

(***************************************************************************)
(* The step.                                                               *)
(***************************************************************************)
\* No step looks further than the error.
VerdictFromError == IF response.err THEN "failed" ELSE "done"

Verdict ==
    CASE call.heeds = "data" -> IF response.data THEN "done" ELSE "failed"
      [] call.heeds = "error" -> IF response.err THEN "failed" ELSE "done"
      [] call.heeds = "told" -> IF response.err THEN "told" ELSE "done"
      [] call.heeds = "poll" -> IF response.data THEN "done" ELSE "again"
      [] response.err -> "failed"
      [] response.data -> "done"
      [] call.heeds = "gone" /\ response.status = 404 -> "done"
      [] call.heeds = "maybe" -> "without"
      [] OTHER -> "again"

Conclude ==
    /\ stage = "returned"
    /\ stage' = "ended"
    /\ verdict' = Verdict
    /\ UNCHANGED <<call, interrupted, executed, reply, response>>

(***************************************************************************)
(* The service, and the user.                                              *)
(***************************************************************************)
Sent == stage # "request"

\* Perhaps when nobody waits for the answer any more, or after an error of
\* a gateway's.
Execute ==
    /\ Sent
    /\ executed = 0
    /\ reply # NoReply => reply.status >= 500
    /\ executed' = 1
    /\ UNCHANGED <<call, interrupted, stage, reply, response, verdict>>

\* Success is answered of what was executed, a 4xx of what was not.
Answer ==
    /\ stage = "sent"
    /\ reply = NoReply
    /\ reply' \in Replies
    /\ reply'.status < 300 => executed > 0
    /\ reply'.status \in 400 .. 499 => executed = 0
    /\ UNCHANGED <<call, interrupted, stage, executed, response, verdict>>

Interrupt ==
    /\ ~interrupted
    /\ interrupted' = TRUE
    /\ UNCHANGED <<call, stage, executed, reply, response, verdict>>

Ended == stage = "ended" /\ UNCHANGED vars

Next == Send \/ GiveUp \/ Receive \/ Conclude \/ Execute \/ Answer \/ Interrupt \/ Ended

\* The client goes on, and no longer waits once the context is done; it may
\* wait forever for a service that answers nothing.
Fairness ==
    /\ WF_vars(Send \/ Conclude)
    /\ WF_vars(ContextDone /\ GiveUp)

Spec == Init /\ [][Next]_vars /\ Fairness

(***************************************************************************)
(* Properties.                                                             *)
(***************************************************************************)
TypeOK ==
    /\ call \in Calls
    /\ interrupted \in BOOLEAN
    /\ stage \in {"request", "sent", "returned", "ended"}
    /\ executed \in {0, 1}
    /\ reply \in Replies \cup {NoReply}
    /\ response \in [err : BOOLEAN, status : Statuses \cup {0},
                     typed : Statuses \cup {0}, data : BOOLEAN]
    /\ verdict \in {"none", "done", "failed", "told", "again", "without"}

\* Something the service made and answered for in full is known to the step
\* that asked for it, and so to its Cleanup: what the builds of Build lose
\* is lost by an answer that was not had whole, or that is an error.
CreationKnown ==
    call.op \in {"CreateKeypair", "CreatePublicIp", "CreateSecurityGroup",
                 "CreateVms", "CreateImage"}
    /\ stage = "ended"
    /\ executed > 0
    /\ verdict # "done"
    => \/ response.err
       \/ ~reply.json
       \/ reply.body = "blank"
       \/ reply.status # 201

\* A step that asks for some of the objects of a collection never reads all
\* of them: neither for want of a value nor of a parameter to put it in.
\* StepDeregisterImage deletes every image it reads.
ReadsAreNarrow ==
    verdict = "done"
    /\ call.asked = "some"
    /\ Client[call.op].request.verb = "GET"
    /\ Client[call.op].request.on = "collection"
    => Query(call.op, call.lists) # {}

\* A call of the build's own context does not outlive it, whatever the
\* service does.
CancelEndsCall == ContextDone ~> stage = "ended"

\* The outcomes of a call are those Build has.
Promise == INSTANCE CallPromise WITH
    strict <- call.heeds \in {"data", "poll", "wait"},
    heard <- CASE verdict = "none" -> "nothing"
               [] verdict \in {"done", "without", "told"} -> "done"
               [] OTHER -> "failed"

PromiseKept == Promise!Spec
=============================================================================
