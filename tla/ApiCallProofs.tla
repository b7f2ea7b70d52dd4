--------------------------- MODULE ApiCallProofs ---------------------------
(***************************************************************************)
(* Proofs about ApiCall: no read of a step is wider than what it asks for, *)
(* what was created is known to the step that asked for it, and a call has *)
(* the outcomes of CallPromise, for any values and statuses.               *)
(***************************************************************************)
EXTENDS ApiCall, TLAPS

(***************************************************************************)
(* The calls.                                                              *)
(***************************************************************************)
Creations ==
    {"CreateKeypair", "CreatePublicIp", "CreateSecurityGroup", "CreateVms", "CreateImage"}

Reads(op) ==
    /\ Client[op].request.verb = "GET"
    /\ Client[op].request.on = "collection"

\* A creation is asked for by a step that looks at the data.
Careful(c) == c.op \in Creations => c.heeds = "data"

Narrow(c) == c.asked = "some" /\ Reads(c.op) => Query(c.op, c.lists) # {}

\* What of the client's reads is a query for what is given.
LEMMA Parameters ==
  /\ {"ImageNames", "Ids", "AccountAliases"} \subseteq Client["ReadImages"].request.params
  /\ {"SecurityGroupIds", "SecurityGroupNames"}
       \subseteq Client["ReadSecurityGroups"].request.params
  /\ "Ids" \in Client["ReadPublicIps"].request.params
  /\ "Ids" \in Client["ReadVolumes"].request.params
<1>1. /\ Client["ReadImages"].request = NewReadImagesRequest
      /\ Client["ReadSecurityGroups"].request = NewReadSecurityGroupsRequest
      /\ Client["ReadPublicIps"].request = NewReadPublicIpsRequest
      /\ Client["ReadVolumes"].request = NewReadVolumesRequest
  BY DEF Client, Operation
<1> QED
  BY <1>1 DEF NewReadImagesRequest, NewReadSecurityGroupsRequest,
              NewReadPublicIpsRequest, NewReadVolumesRequest, List

\* The other operations of the steps read no collection.
LEMMA NoReads ==
  \A op \in {"ReadSubnetsById", "CreateKeypair", "DeleteKeypair", "CreatePublicIp",
             "DeletePublicIp", "CreateSecurityGroup", "CreateSecurityGroupRule",
             "DeleteSecurityGroup", "CreateVms", "CreateTags", "LinkPublicIp",
             "ReadVmsById", "DeleteVms", "ReadAdminPassword", "ReadImagesById",
             "StopVm", "DeleteImage", "DeleteSnapshot", "CreateImage", "UpdateImage",
             "DeleteVolume"} : ~Reads(op)
<1>1. /\ Client["ReadSubnetsById"].request.on = "member"
      /\ Client["ReadVmsById"].request.on = "member"
      /\ Client["ReadAdminPassword"].request.on = "member"
      /\ Client["ReadImagesById"].request.on = "member"
  BY DEF Client, Operation, NewReadSubnetsByIdRequest, NewReadVmsByIdRequest,
         NewReadAdminPasswordRequest, NewReadImagesByIdRequest, OnMember
<1>2. /\ Client["CreateKeypair"].request.verb = "POST"
      /\ Client["DeleteKeypair"].request.verb = "DELETE"
      /\ Client["CreatePublicIp"].request.verb = "POST"
      /\ Client["DeletePublicIp"].request.verb = "DELETE"
  BY DEF Client, Operation, NewCreateKeypairRequest, NewDeleteKeypairRequest,
         NewCreatePublicIpRequest, NewDeletePublicIpRequest, OnCollection, OnMember
<1>3. /\ Client["CreateSecurityGroup"].request.verb = "POST"
      /\ Client["DeleteSecurityGroup"].request.verb = "DELETE"
      /\ Client["CreateSecurityGroupRule"].request.verb = "POST"
  BY DEF Client, Operation, NewCreateSecurityGroupRequest,
         NewDeleteSecurityGroupRequest, NewCreateSecurityGroupRuleRequest,
         OnCollection, OnMember
<1>4. /\ Client["CreateVms"].request.verb = "POST"
      /\ Client["DeleteVms"].request.verb = "DELETE"
      /\ Client["DeleteVolume"].request.verb = "DELETE"
  BY DEF Client, Operation, NewCreateVmsRequest, NewDeleteVmsRequest,
         NewDeleteVolumeRequest, OnCollection, OnMember
<1>5. /\ Client["CreateImage"].request.verb = "POST"
      /\ Client["DeleteImage"].request.verb = "DELETE"
      /\ Client["DeleteSnapshot"].request.verb = "DELETE"
  BY DEF Client, Operation, NewCreateImageRequest, NewDeleteImageRequest,
         NewDeleteSnapshotRequest, OnCollection, OnMember
<1>6. /\ Client["CreateTags"].request.verb = "PATCH"
      /\ Client["LinkPublicIp"].request.verb = "PUT"
      /\ Client["StopVm"].request.verb = "PUT"
      /\ Client["UpdateImage"].request.verb = "PUT"
  BY DEF Client, Operation, NewCreateTagsRequest, NewLinkPublicIpRequest,
         NewStopVmRequest, NewUpdateImageRequest, OnCollection, OnMember
<1> QED
  BY <1>1, <1>2, <1>3, <1>4, <1>5, <1>6 DEF Reads

\* A query with a value for one of its parameters is narrow.
LEMMA Narrowed ==
  ASSUME NEW op, NEW heeds, NEW p \in Client[op].request.params, NEW values, values # {},
         op \notin Creations
  PROVE  /\ Narrow(Query1(op, heeds, p, values)) /\ Careful(Query1(op, heeds, p, values))
         /\ Query1(op, heeds, p, values).op = op
<1> DEFINE c == Query1(op, heeds, p, values)
<1>1. c.op = op /\ c.lists = [q \in {p} |-> values]
  BY DEF Query1, Run
<1>2. p \in Query(op, c.lists)
  BY <1>1 DEF Query
<1> QED
  BY <1>1, <1>2 DEF Narrow, Careful

\* A call of an operation that reads no collection is narrow, with whatever
\* context; a creation is, if its data is looked at.
LEMMA NarrowOtherwise ==
  ASSUME NEW op, NEW heeds, ~Reads(op), op \in Creations => heeds = "data"
  PROVE  /\ Narrow(Run(op, heeds)) /\ Careful(Run(op, heeds))
         /\ \A context : LET c == [Run(op, heeds) EXCEPT !.context = context]
                         IN  Narrow(c) /\ Careful(c)
BY DEF Narrow, Careful, Run

\* The calls of Cleanups, with the background context.
LEMMA NarrowCleanup ==
  ASSUME NEW op, ~Reads(op), op \notin Creations
  PROVE  Narrow(Cleanup(op)) /\ Careful(Cleanup(op))
BY NarrowOtherwise DEF Cleanup

\* Filters of which none is sent are not asked for as some.
LEMMA NarrowFilter ==
  ASSUME NEW op, NEW heeds, op \notin Creations
  PROVE  LET c == [Run(op, heeds) EXCEPT !.asked = "filter"]
         IN  Narrow(c) /\ Careful(c)
BY DEF Narrow, Careful, Run

Fine(calls) == \A c \in calls : Narrow(c) /\ Careful(c)

LEMMA FineTogether ==
  ASSUME NEW A, NEW B, Fine(A), Fine(B)
  PROVE  Fine(A \cup B)
BY DEF Fine

\* The query for an image by its filters.
LEMMA FilteredImageFine == Fine(GetFilteredImageCalls)
<1> DEFINE Filtered(context, params) ==
             [Run("ReadImages", "data") EXCEPT
                !.context = context,
                !.lists = [p \in params |-> Values],
                !.asked = IF params = {} THEN "filter" ELSE "some"]
<1>1. ASSUME NEW context \in {"build", "background"},
             NEW params \in SUBSET {"AccountAliases", "ImageNames"}
      PROVE  Narrow(Filtered(context, params)) /\ Careful(Filtered(context, params))
  <2> DEFINE c == Filtered(context, params)
  <2>1. c.op = "ReadImages" /\ c.lists = [p \in params |-> Values]
        /\ (params = {} => c.asked = "filter")
    BY DEF Run
  <2>2. params # {} => Query(c.op, c.lists) # {}
    BY <2>1, Parameters, CallAssumption DEF Query
  <2> QED
    BY <2>1, <2>2 DEF Narrow, Careful, Creations
<1> HIDE DEF Filtered
<1>2. GetFilteredImageCalls =
        {Filtered(context, params) : context \in {"build", "background"},
                                     params \in SUBSET {"AccountAliases", "ImageNames"}}
  BY DEF GetFilteredImageCalls, Filtered
<1> QED
  BY <1>1, <1>2 DEF Fine

\* The query for volumes, made only when there are any.
LEMMA CleanupVolumesFine == Fine(CleanupVolumesCalls)
<1>1. ASSUME NEW ids, ids # {},
             NEW c, c = [Query1("ReadVolumes", "maybe", "Ids", ids) EXCEPT
                           !.context = "background"]
      PROVE  Narrow(c) /\ Careful(c)
  <2>1. c.op = "ReadVolumes" /\ c.lists = [p \in {"Ids"} |-> ids]
    BY <1>1 DEF Query1, Run
  <2>2. "Ids" \in Query(c.op, c.lists)
    BY <1>1, <2>1, Parameters DEF Query
  <2> QED
    BY <2>1, <2>2 DEF Narrow, Careful, Creations
<1>2. Narrow(Cleanup("DeleteVolume")) /\ Careful(Cleanup("DeleteVolume"))
  BY NarrowCleanup, NoReads DEF Creations
<1> QED
  BY <1>1, <1>2 DEF Fine, CleanupVolumesCalls

\* The queries of the steps: for the name or the id of an image, for groups
\* and for a public IP.
LEMMA QueriesFine ==
  /\ \A v, heeds :
       /\ LET c == Query1("ReadImages", heeds, "Ids", {v}) IN Narrow(c) /\ Careful(c)
       /\ LET c == Query1("ReadImages", heeds, "ImageNames", {v}) IN Narrow(c) /\ Careful(c)
       /\ LET c == Query1("ReadPublicIps", heeds, "Ids", {v}) IN Narrow(c) /\ Careful(c)
       /\ LET c == Query1("ReadSecurityGroups", heeds, "SecurityGroupNames", {v})
          IN  Narrow(c) /\ Careful(c)
  /\ \A ids : ids # {} =>
       LET c == Query1("ReadSecurityGroups", "data", "SecurityGroupIds", ids)
       IN  Narrow(c) /\ Careful(c)
<1>1. \A op \in {"ReadImages", "ReadPublicIps", "ReadSecurityGroups"} : op \notin Creations
  BY DEF Creations
<1>2. ASSUME NEW v, NEW heeds
      PROVE  /\ LET c == Query1("ReadImages", heeds, "Ids", {v})
                IN  Narrow(c) /\ Careful(c)
             /\ LET c == Query1("ReadImages", heeds, "ImageNames", {v})
                IN  Narrow(c) /\ Careful(c)
             /\ LET c == Query1("ReadPublicIps", heeds, "Ids", {v})
                IN  Narrow(c) /\ Careful(c)
             /\ LET c == Query1("ReadSecurityGroups", heeds, "SecurityGroupNames", {v})
                IN  Narrow(c) /\ Careful(c)
  <2>1. {v} # {}
    OBVIOUS
  <2>2. LET c == Query1("ReadImages", heeds, "Ids", {v}) IN Narrow(c) /\ Careful(c)
    BY <1>1, <2>1, Narrowed, Parameters
  <2>3. LET c == Query1("ReadImages", heeds, "ImageNames", {v}) IN Narrow(c) /\ Careful(c)
    BY <1>1, <2>1, Narrowed, Parameters
  <2>4. LET c == Query1("ReadPublicIps", heeds, "Ids", {v}) IN Narrow(c) /\ Careful(c)
    BY <1>1, <2>1, Narrowed, Parameters
  <2>5. LET c == Query1("ReadSecurityGroups", heeds, "SecurityGroupNames", {v})
        IN  Narrow(c) /\ Careful(c)
    BY <1>1, <2>1, Narrowed, Parameters
  <2> QED
    BY <2>2, <2>3, <2>4, <2>5
<1>3. ASSUME NEW ids, ids # {}
      PROVE  LET c == Query1("ReadSecurityGroups", "data", "SecurityGroupIds", ids)
             IN  Narrow(c) /\ Careful(c)
  BY <1>1, <1>3, Narrowed, Parameters
<1> QED
  BY <1>2, <1>3

\* All calls of steps.
LEMMA StepCallsFine == Fine(StepCalls)
<1>1. Fine(PreValidateCalls)
  BY QueriesFine DEF Fine, PreValidateCalls
<1>2. Fine(SourceImageInfoCalls)
  BY QueriesFine DEF Fine, SourceImageInfoCalls, Creations
<1>3. Fine(NetworkInfoCalls)
  BY NarrowFilter, NarrowOtherwise, NoReads DEF Fine, NetworkInfoCalls, Creations
<1>4. Fine(KeyPairCalls)
  BY NarrowOtherwise, NarrowCleanup, NoReads DEF Fine, KeyPairCalls, Creations
<1>5. Fine(PublicIpCalls)
  BY NarrowOtherwise, NarrowCleanup, NoReads DEF Fine, PublicIpCalls, Creations
<1>6. Fine(SecurityGroupCalls)
  <2>1. Fine({Query1("ReadSecurityGroups", "data", "SecurityGroupIds", ids) :
                ids \in {s \in SUBSET Values : s # {}}})
    BY QueriesFine DEF Fine
  <2>2. Fine({Query1("ReadSecurityGroups", "data", "SecurityGroupNames", {v}) : v \in Values})
    BY QueriesFine DEF Fine
  <2>3. Fine({[Run("ReadSecurityGroups", "data") EXCEPT !.asked = "filter"],
              Run("CreateSecurityGroup", "data"),
              Run("CreateSecurityGroupRule", "error"),
              Cleanup("DeleteSecurityGroup")})
    BY NarrowFilter, NarrowOtherwise, NarrowCleanup, NoReads DEF Fine, Creations
  <2> QED
    BY <2>1, <2>2, <2>3, FineTogether DEF SecurityGroupCalls
<1>7. Fine(RunSourceVmCalls)
  BY QueriesFine, NarrowOtherwise, NarrowCleanup, NoReads DEF Fine,
     RunSourceVmCalls, Creations
<1>8. Fine(GetPasswordCalls)
  BY NarrowOtherwise, NoReads DEF Fine, GetPasswordCalls, Creations
<1>9. Fine(SSHHostCalls)
  BY NarrowOtherwise, NoReads DEF Fine, SSHHostCalls, Creations
<1>10. Fine(WaitCalls)
  BY NarrowOtherwise, NoReads DEF Fine, WaitCalls, Creations
<1>11. Fine(StopVmCalls)
  BY NarrowOtherwise, NoReads DEF Fine, StopVmCalls, Creations
<1>12. Fine(DeregisterImageCalls)
  BY QueriesFine, NarrowOtherwise, NoReads DEF Fine, DeregisterImageCalls, Creations
<1>13. Fine(CreateImageCalls)
  BY QueriesFine, NarrowOtherwise, NarrowCleanup, NoReads DEF Fine,
     CreateImageCalls, Creations
<1>14. Fine(UpdateImageCalls)
  BY NarrowOtherwise, NoReads DEF Fine, UpdateImageCalls, Creations
<1>15. Fine(CreateTagsCalls)
  BY QueriesFine, NarrowOtherwise, NoReads DEF Fine, CreateTagsCalls, Creations
<1>16. Fine(DestroyCalls)
  BY NarrowOtherwise, NoReads DEF Fine, DestroyCalls, Creations
<1> QED
  BY <1>1, <1>2, <1>3, <1>4, <1>5, <1>6, <1>7, <1>8, <1>9, <1>10, <1>11, <1>12,
     <1>13, <1>14, <1>15, <1>16,
     FilteredImageFine, CleanupVolumesFine DEF Fine, StepCalls

\* The operations that create are calls of steps, hence no other calls.
LEMMA CreationsAreSteps == Creations \subseteq {c.op : c \in StepCalls}
<1>1. /\ Run("CreateKeypair", "data") \in StepCalls
      /\ Run("CreatePublicIp", "data") \in StepCalls
      /\ Run("CreateSecurityGroup", "data") \in StepCalls
      /\ Run("CreateVms", "data") \in StepCalls
      /\ Run("CreateImage", "data") \in StepCalls
  BY DEF StepCalls, KeyPairCalls, PublicIpCalls, SecurityGroupCalls,
         RunSourceVmCalls, CreateImageCalls
<1>2. \A op : Run(op, "data").op = op
  BY DEF Run
<1> QED
  BY <1>1, <1>2 DEF Creations

\* The calls no step makes ask for no part of a collection.
LEMMA OtherCallsFine == Fine(OtherCalls)
<1> SUFFICES ASSUME NEW op \in DOMAIN Client \ {c.op : c \in StepCalls},
                    NEW heeds,
                    NEW c, c = [Run(op, heeds) EXCEPT !.asked = "all"]
             PROVE  Narrow(c) /\ Careful(c)
  BY DEF Fine, OtherCalls
<1>1. c.op = op /\ c.asked = "all"
  BY DEF Run
<1>2. op \notin Creations
  BY CreationsAreSteps
<1> QED
  BY <1>1, <1>2 DEF Narrow, Careful

\* Every call is a query for what is given, if it is one for some, and a
\* creation's answer is looked at.
LEMMA CallsFine == Fine(Calls)
BY StepCallsFine, OtherCallsFine, FineTogether DEF Calls

(***************************************************************************)
(* The answers.                                                            *)
(***************************************************************************)
Responses ==
    [err : BOOLEAN, status : Statuses \cup {0}, typed : Statuses \cup {0}, data : BOOLEAN]

\* A failure is an error without data.
LEMMA FailureFine == Failure \in Responses /\ Failure.err = TRUE /\ Failure.data = FALSE
BY DEF Failure, Responses

LEMMA ParsedFine ==
  ASSUME NEW op, NEW r \in Replies, NEW typed \in Statuses \cup {0}
  PROVE  /\ Parsed(op, r, typed) \in Responses
         /\ Parsed(op, r, typed).err = FALSE
         /\ Parsed(op, r, typed).data <=> typed \in DataStatuses(op) /\ r.body = "whole"
<1> DEFINE data == typed \in DataStatuses(op) /\ r.body = "whole"
<1>1. Parsed(op, r, typed) = [err |-> FALSE, status |-> r.status, typed |-> typed, data |-> data]
  BY DEF Parsed
<1>2. data \in BOOLEAN /\ r.status \in Statuses
  BY DEF Replies
<1>3. data <=> typed \in DataStatuses(op) /\ r.body = "whole"
  OBVIOUS
<1> HIDE DEF data
<1> QED
  BY <1>1, <1>2, <1>3 DEF Responses

\* What the client makes of an answer: data only of a success, and of every
\* 201 in JSON that came whole where it decodes a 201.
LEMMA ParseFine ==
  ASSUME NEW op, NEW r \in Replies
  PROVE  /\ Parse(op, r) \in Responses
         /\ Parse(op, r).data => r.status < 300
         /\ (/\ ~Parse(op, r).err
             /\ r.json
             /\ r.status = 201
             /\ 201 \in Client[op].decoded
             /\ r.body # "blank")
            => Parse(op, r).data
<1>1. r.body \in Bodies /\ r.json \in BOOLEAN /\ r.status \in Statuses
  BY DEF Replies
<1>2. 0 \notin DataStatuses(op)
  BY DEF DataStatuses
<1>3. CASE r.body = "cut"
  BY <1>3, FailureFine DEF Parse
<1>4. CASE r.body # "cut" /\ ~(r.json /\ r.status \in Client[op].decoded)
  <2>1. Parse(op, r) = Parsed(op, r, 0)
    BY <1>4 DEF Parse
  <2> QED
    BY <1>2, <1>4, <2>1, ParsedFine
<1>5. CASE r.body = "garbled" /\ r.json /\ r.status \in Client[op].decoded
  BY <1>5, FailureFine DEF Parse
<1>6. CASE r.body \notin {"cut", "garbled"} /\ r.json /\ r.status \in Client[op].decoded
  <2>1. Parse(op, r) = Parsed(op, r, r.status)
    BY <1>6 DEF Parse
  <2>2. r.status \in DataStatuses(op) => r.status < 300
    BY DEF DataStatuses
  <2>3. r.status = 201 => r.status \in DataStatuses(op)
    BY <1>6 DEF DataStatuses
  <2>4. r.body # "blank" => r.body = "whole"
    BY <1>1, <1>6 DEF Bodies
  <2>5. /\ Parse(op, r) \in Responses
        /\ Parse(op, r).data <=> r.status \in DataStatuses(op) /\ r.body = "whole"
    BY <1>1, <2>1, ParsedFine
  <2> QED
    BY <2>2, <2>3, <2>4, <2>5
<1> QED
  BY <1>1, <1>3, <1>4, <1>5, <1>6

\* The client decodes the 201 of each operation that creates.
LEMMA CreationsDecoded == \A op \in Creations : 201 \in Client[op].decoded
<1>1. /\ Client["CreateKeypair"].decoded = ParseCreateKeypairResponse
      /\ Client["CreatePublicIp"].decoded = ParseCreatePublicIpResponse
      /\ Client["CreateSecurityGroup"].decoded = ParseCreateSecurityGroupResponse
      /\ Client["CreateVms"].decoded = ParseCreateVmsResponse
      /\ Client["CreateImage"].decoded = ParseCreateImageResponse
  BY DEF Client, Operation
<1> QED
  BY <1>1 DEF Creations, ParseCreateKeypairResponse, ParseCreatePublicIpResponse,
              ParseCreateSecurityGroupResponse, ParseCreateVmsResponse,
              ParseCreateImageResponse

(***************************************************************************)
(* The invariant: nothing is executed before the call is sent, a success   *)
(* is answered of what was executed, and the step concludes from what the  *)
(* client made of the answer.                                              *)
(***************************************************************************)
RequestInv == stage = "request" => executed = 0 /\ reply = NoReply

AnswerInv == reply # NoReply /\ reply.status < 300 => executed = 1

ResponseInv ==
    \/ response = Failure
    \/ /\ stage \in {"returned", "ended"}
       /\ reply # NoReply
       /\ response = Parse(call.op, reply)

VerdictInv == IF stage = "ended" THEN verdict = Verdict ELSE verdict = "none"

CallInv == TypeOK /\ RequestInv /\ AnswerInv /\ ResponseInv /\ VerdictInv

\* No reply is told from every reply: its status is none.
LEMMA NoReplyFine == NoReply \notin Replies
BY CallAssumption DEF NoReply, Replies

\* What a verdict may be, and what it says of the response.
LEMMA VerdictFine ==
  /\ Verdict \in {"done", "failed", "told", "again", "without"}
  /\ call.heeds = "data" /\ response.data => Verdict = "done"
  /\ /\ call.heeds \in {"data", "poll", "wait"}
     /\ Verdict \in {"done", "without", "told"}
     => response.data
BY DEF Verdict

\* A response with data is of a success, hence of what was executed.
LEMMA DataIsExecuted ==
  ASSUME CallInv, response.data
  PROVE  executed = 1
<1>1. response = Parse(call.op, reply) /\ reply # NoReply
  BY FailureFine DEF CallInv, ResponseInv
<1>2. reply \in Replies
  BY <1>1 DEF CallInv, TypeOK
<1>3. reply.status < 300
  BY <1>1, <1>2, ParseFine
<1> QED
  BY <1>1, <1>3 DEF CallInv, AnswerInv

\* Before the request nothing was executed, answered or concluded.
LEMMA InitCall == Init => CallInv
BY FailureFine DEF Init, CallInv, TypeOK, RequestInv, AnswerInv, ResponseInv,
   VerdictInv, Responses

LEMMA StepCall == CallInv /\ [Next]_vars => CallInv'
<1> SUFFICES ASSUME CallInv, [Next]_vars
             PROVE  CallInv'
  OBVIOUS
<1> USE DEF CallInv
<1>1. CASE Send
  BY <1>1 DEF Send, TypeOK, RequestInv, AnswerInv, ResponseInv, VerdictInv, Verdict
<1>2. CASE GiveUp
  BY <1>2, FailureFine
  DEF GiveUp, Return, TypeOK, RequestInv, AnswerInv, ResponseInv, VerdictInv,
      Verdict, Responses
<1>3. CASE Receive
  <2>1. reply \in Replies
    BY <1>3 DEF Receive, TypeOK
  <2>2. Parse(call.op, reply) \in Responses
    BY <2>1, ParseFine
  <2> QED
    BY <1>3, <2>2 DEF Receive, Return, TypeOK, RequestInv, AnswerInv, ResponseInv,
       VerdictInv, Verdict, Responses
<1>4. CASE Conclude
  <2>1. Verdict' = Verdict
    BY <1>4 DEF Conclude, Verdict
  <2> QED
    BY <1>4, <2>1, VerdictFine
    DEF Conclude, TypeOK, RequestInv, AnswerInv, ResponseInv, VerdictInv
<1>5. CASE Execute
  BY <1>5 DEF Execute, Sent, TypeOK, RequestInv, AnswerInv, ResponseInv,
     VerdictInv, Verdict
<1>6. CASE Answer
  BY <1>6 DEF Answer, TypeOK, RequestInv, AnswerInv, ResponseInv, VerdictInv,
     Verdict
<1>7. CASE Interrupt
  BY <1>7 DEF Interrupt, TypeOK, RequestInv, AnswerInv, ResponseInv, VerdictInv,
     Verdict
<1>8. CASE UNCHANGED vars
  BY <1>8 DEF vars, TypeOK, RequestInv, AnswerInv, ResponseInv, VerdictInv, Verdict
<1> QED
  BY <1>1, <1>2, <1>3, <1>4, <1>5, <1>6, <1>7, <1>8 DEF Next, Ended

\* The inductive invariant holds of every call of the client, whatever the
\* service answers and whenever the context is done.
THEOREM CallInvariant == Spec => []CallInv
BY InitCall, StepCall, PTL DEF Spec

(***************************************************************************)
(* The theorems.                                                           *)
(***************************************************************************)
\* Types, for any values and statuses, and whatever the service answers.
THEOREM CallTypeCorrect == Spec => []TypeOK
<1>1. CallInv => TypeOK
  BY DEF CallInv
<1> QED
  BY <1>1, CallInvariant, PTL

\* What was created and answered for in full is known to the step that asked
\* for it: each of the five operations decodes the 201 it is answered with,
\* and each step looks at its data.
THEOREM CreatedIsKnown == Spec => []CreationKnown
<1>1. CallInv => CreationKnown
  <2> SUFFICES ASSUME CallInv, call.op \in Creations, stage = "ended", executed > 0,
                      verdict # "done", ~response.err, reply.json,
                      reply.body # "blank", reply.status = 201
               PROVE  FALSE
    BY DEF CreationKnown, Creations
  <2>1. call.heeds = "data"
    BY CallsFine DEF CallInv, TypeOK, Fine, Careful
  <2>2. response = Parse(call.op, reply) /\ reply # NoReply
    BY FailureFine DEF CallInv, ResponseInv
  <2>3. reply \in Replies
    BY <2>2 DEF CallInv, TypeOK
  <2>4. response.data
    BY <2>2, <2>3, ParseFine, CreationsDecoded
  <2> QED
    BY <2>1, <2>4, VerdictFine DEF CallInv, VerdictInv
<1> QED
  BY <1>1, CallInvariant, PTL

\* No step that asks for some of a collection reads all of it: every query
\* has a value for a parameter the client sends.
THEOREM NarrowReads == Spec => []ReadsAreNarrow
<1>1. CallInv => ReadsAreNarrow
  BY CallsFine DEF CallInv, TypeOK, Fine, Narrow, Reads, ReadsAreNarrow
<1> QED
  BY <1>1, CallInvariant, PTL

\* A call has the outcomes of CallPromise: executed at most once, and a step
\* that looks at the data goes on only after it was.
THEOREM CallKeepsPromise == Spec => PromiseKept
<1>1. Init => Promise!Init
  BY DEF Init, Promise!Init
<1>2. CallInv /\ [Next]_vars => [Promise!Next]_(Promise!pvars)
  <2> SUFFICES ASSUME CallInv, [Next]_vars
               PROVE  [Promise!Next]_(Promise!pvars)
    OBVIOUS
  <2> USE DEF Promise!pvars
  <2>1. CASE Execute
    BY <2>1 DEF Execute, Promise!Next, Promise!Execute
  <2>2. CASE Conclude
    <3>1. verdict = "none" /\ verdict' = Verdict
      BY <2>2 DEF Conclude, CallInv, VerdictInv
    <3>2. call.heeds \in {"data", "poll", "wait"} /\ verdict' \in {"done", "without", "told"}
            => executed = 1
      BY <3>1, VerdictFine, DataIsExecuted
    <3> QED
      BY <2>2, <3>1, <3>2, VerdictFine DEF Conclude, Promise!Next, Promise!Hear
  <2>3. CASE Send \/ GiveUp \/ Receive \/ Answer \/ Interrupt \/ Ended \/ UNCHANGED vars
    BY <2>3 DEF Send, GiveUp, Receive, Return, Answer, Interrupt, Ended, vars
  <2> QED
    BY <2>1, <2>2, <2>3 DEF Next
<1> QED
  BY <1>1, <1>2, CallInvariant, PTL DEF Spec, PromiseKept, Promise!Spec
=============================================================================
