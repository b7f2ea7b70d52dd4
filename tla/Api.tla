-------------------------------- MODULE Api ---------------------------------
(***************************************************************************)
(* The generated client (numspot/api.gen.go): its operations, and what a   *)
(* caller has of an answer.                                                *)
(***************************************************************************)
EXTENDS Naturals, ApiRequests, ApiResponses

Operation(request, decoded) == [request |-> request, decoded |-> decoded]

\* The methods of ClientWithResponses: the request, sent and its answer parsed.
Client == [
    CreateLoadBalancerTags |->
        Operation(NewCreateLoadBalancerTagsRequest, ParseCreateLoadBalancerTagsResponse),
    CreateTags |-> Operation(NewCreateTagsRequest, ParseCreateTagsResponse),
    DeleteLoadBalancerTags |->
        Operation(NewDeleteLoadBalancerTagsRequest, ParseDeleteLoadBalancerTagsResponse),
    DeleteTags |-> Operation(NewDeleteTagsRequest, ParseDeleteTagsResponse),
    CreateDhcpOptions |->
        Operation(NewCreateDhcpOptionsRequest, ParseCreateDhcpOptionsResponse),
    DeleteDhcpOptions |->
        Operation(NewDeleteDhcpOptionsRequest, ParseDeleteDhcpOptionsResponse),
    ReadDhcpOptions |-> Operation(NewReadDhcpOptionsRequest, ParseReadDhcpOptionsResponse),
    ReadDhcpOptionsById |->
        Operation(NewReadDhcpOptionsByIdRequest, ParseReadDhcpOptionsByIdResponse),
    CreateFlexibleGpu |->
        Operation(NewCreateFlexibleGpuRequest, ParseCreateFlexibleGpuResponse),
    DeleteFlexibleGpu |->
        Operation(NewDeleteFlexibleGpuRequest, ParseDeleteFlexibleGpuResponse),
    LinkFlexibleGpu |-> Operation(NewLinkFlexibleGpuRequest, ParseLinkFlexibleGpuResponse),
    ReadFlexibleGpus |-> Operation(NewReadFlexibleGpusRequest, ParseReadFlexibleGpusResponse),
    ReadFlexibleGpusById |->
        Operation(NewReadFlexibleGpusByIdRequest, ParseReadFlexibleGpusByIdResponse),
    UnlinkFlexibleGpu |->
        Operation(NewUnlinkFlexibleGpuRequest, ParseUnlinkFlexibleGpuResponse),
    UpdateFlexibleGpu |->
        Operation(NewUpdateFlexibleGpuRequest, ParseUpdateFlexibleGpuResponse),
    CreateImage |-> Operation(NewCreateImageRequest, ParseCreateImageResponse),
    DeleteImage |-> Operation(NewDeleteImageRequest, ParseDeleteImageResponse),
    ReadImages |-> Operation(NewReadImagesRequest, ParseReadImagesResponse),
    ReadImagesById |-> Operation(NewReadImagesByIdRequest, ParseReadImagesByIdResponse),
    UpdateImage |-> Operation(NewUpdateImageRequest, ParseUpdateImageResponse),
    CreateInternetGateway |->
        Operation(NewCreateInternetGatewayRequest, ParseCreateInternetGatewayResponse),
    DeleteInternetGateway |->
        Operation(NewDeleteInternetGatewayRequest, ParseDeleteInternetGatewayResponse),
    LinkInternetGateway |->
        Operation(NewLinkInternetGatewayRequest, ParseLinkInternetGatewayResponse),
    ReadInternetGateways |->
        Operation(NewReadInternetGatewaysRequest, ParseReadInternetGatewaysResponse),
    ReadInternetGatewaysById |->
        Operation(NewReadInternetGatewaysByIdRequest, ParseReadInternetGatewaysByIdResponse),
    UnlinkInternetGateway |->
        Operation(NewUnlinkInternetGatewayRequest, ParseUnlinkInternetGatewayResponse),
    CreateKeypair |-> Operation(NewCreateKeypairRequest, ParseCreateKeypairResponse),
    DeleteKeypair |-> Operation(NewDeleteKeypairRequest, ParseDeleteKeypairResponse),
    ReadKeypairs |-> Operation(NewReadKeypairsRequest, ParseReadKeypairsResponse),
    ReadKeypairsById |-> Operation(NewReadKeypairsByIdRequest, ParseReadKeypairsByIdResponse),
    CreateListenerRule |->
        Operation(NewCreateListenerRuleRequest, ParseCreateListenerRuleResponse),
    DeleteListenerRule |->
        Operation(NewDeleteListenerRuleRequest, ParseDeleteListenerRuleResponse),
    ReadListenerRules |->
        Operation(NewReadListenerRulesRequest, ParseReadListenerRulesResponse),
    ReadListenerRulesById |->
        Operation(NewReadListenerRulesByIdRequest, ParseReadListenerRulesByIdResponse),
    UpdateListenerRule |->
        Operation(NewUpdateListenerRuleRequest, ParseUpdateListenerRuleResponse),
    CreateLoadBalancer |->
        Operation(NewCreateLoadBalancerRequest, ParseCreateLoadBalancerResponse),
    CreateLoadBalancerListeners |-> Operation(NewCreateLoadBalancerListenersRequest,
                                              ParseCreateLoadBalancerListenersResponse),
    CreateLoadBalancerPolicy |->
        Operation(NewCreateLoadBalancerPolicyRequest, ParseCreateLoadBalancerPolicyResponse),
    DeleteLoadBalancer |->
        Operation(NewDeleteLoadBalancerRequest, ParseDeleteLoadBalancerResponse),
    DeleteLoadBalancerListeners |-> Operation(NewDeleteLoadBalancerListenersRequest,
                                              ParseDeleteLoadBalancerListenersResponse),
    DeleteLoadBalancerPolicy |->
        Operation(NewDeleteLoadBalancerPolicyRequest, ParseDeleteLoadBalancerPolicyResponse),
    LinkLoadBalancerBackendMachines |-> Operation(NewLinkLoadBalancerBackendMachinesRequest,
                                                  ParseLinkLoadBalancerBackendMachinesResponse),
    ReadLoadBalancers |->
        Operation(NewReadLoadBalancersRequest, ParseReadLoadBalancersResponse),
    ReadLoadBalancersById |->
        Operation(NewReadLoadBalancersByIdRequest, ParseReadLoadBalancersByIdResponse),
    ReadVmsHealth |-> Operation(NewReadVmsHealthRequest, ParseReadVmsHealthResponse),
    UnlinkLoadBalancerBackendMachines |-> Operation(NewUnlinkLoadBalancerBackendMachinesRequest,
                                                    ParseUnlinkLoadBalancerBackendMachinesResponse),
    UpdateLoadBalancer |->
        Operation(NewUpdateLoadBalancerRequest, ParseUpdateLoadBalancerResponse),
    ReadLoadBalancerTags |->
        Operation(NewReadLoadBalancerTagsRequest, ParseReadLoadBalancerTagsResponse),
    CreateNatGateway |-> Operation(NewCreateNatGatewayRequest, ParseCreateNatGatewayResponse),
    DeleteNatGateway |-> Operation(NewDeleteNatGatewayRequest, ParseDeleteNatGatewayResponse),
    ReadNatGateway |-> Operation(NewReadNatGatewayRequest, ParseReadNatGatewayResponse),
    ReadNatGatewayById |->
        Operation(NewReadNatGatewayByIdRequest, ParseReadNatGatewayByIdResponse),
    CreateNic |-> Operation(NewCreateNicRequest, ParseCreateNicResponse),
    DeleteNic |-> Operation(NewDeleteNicRequest, ParseDeleteNicResponse),
    LinkNic |-> Operation(NewLinkNicRequest, ParseLinkNicResponse),
    LinkPrivateIps |-> Operation(NewLinkPrivateIpsRequest, ParseLinkPrivateIpsResponse),
    ReadNics |-> Operation(NewReadNicsRequest, ParseReadNicsResponse),
    ReadNicsById |-> Operation(NewReadNicsByIdRequest, ParseReadNicsByIdResponse),
    UnlinkNic |-> Operation(NewUnlinkNicRequest, ParseUnlinkNicResponse),
    UnlinkPrivateIps |-> Operation(NewUnlinkPrivateIpsRequest, ParseUnlinkPrivateIpsResponse),
    UpdateNic |-> Operation(NewUpdateNicRequest, ParseUpdateNicResponse),
    CreatePublicIp |-> Operation(NewCreatePublicIpRequest, ParseCreatePublicIpResponse),
    DeletePublicIp |-> Operation(NewDeletePublicIpRequest, ParseDeletePublicIpResponse),
    LinkPublicIp |-> Operation(NewLinkPublicIpRequest, ParseLinkPublicIpResponse),
    ReadPublicIps |-> Operation(NewReadPublicIpsRequest, ParseReadPublicIpsResponse),
    ReadPublicIpsById |->
        Operation(NewReadPublicIpsByIdRequest, ParseReadPublicIpsByIdResponse),
    UnlinkPublicIp |-> Operation(NewUnlinkPublicIpRequest, ParseUnlinkPublicIpResponse),
    CreateRoute |-> Operation(NewCreateRouteRequest, ParseCreateRouteResponse),
    CreateRouteTable |-> Operation(NewCreateRouteTableRequest, ParseCreateRouteTableResponse),
    DeleteRoute |-> Operation(NewDeleteRouteRequest, ParseDeleteRouteResponse),
    DeleteRouteTable |-> Operation(NewDeleteRouteTableRequest, ParseDeleteRouteTableResponse),
    LinkRouteTable |-> Operation(NewLinkRouteTableRequest, ParseLinkRouteTableResponse),
    ReadRouteTables |-> Operation(NewReadRouteTablesRequest, ParseReadRouteTablesResponse),
    ReadRouteTablesById |->
        Operation(NewReadRouteTablesByIdRequest, ParseReadRouteTablesByIdResponse),
    UnlinkRouteTable |-> Operation(NewUnlinkRouteTableRequest, ParseUnlinkRouteTableResponse),
    UpdateRoute |-> Operation(NewUpdateRouteRequest, ParseUpdateRouteResponse),
    UpdateRouteTableRoutePropagation |-> Operation(NewUpdateRouteTableRoutePropagationRequest,
                                                   ParseUpdateRouteTableRoutePropagationResponse),
    CreateSecurityGroup |->
        Operation(NewCreateSecurityGroupRequest, ParseCreateSecurityGroupResponse),
    CreateSecurityGroupRule |->
        Operation(NewCreateSecurityGroupRuleRequest, ParseCreateSecurityGroupRuleResponse),
    DeleteSecurityGroup |->
        Operation(NewDeleteSecurityGroupRequest, ParseDeleteSecurityGroupResponse),
    DeleteSecurityGroupRule |->
        Operation(NewDeleteSecurityGroupRuleRequest, ParseDeleteSecurityGroupRuleResponse),
    ReadSecurityGroups |->
        Operation(NewReadSecurityGroupsRequest, ParseReadSecurityGroupsResponse),
    ReadSecurityGroupsById |->
        Operation(NewReadSecurityGroupsByIdRequest, ParseReadSecurityGroupsByIdResponse),
    CreateServerCertificate |->
        Operation(NewCreateServerCertificateRequest, ParseCreateServerCertificateResponse),
    DeleteServerCertificate |->
        Operation(NewDeleteServerCertificateRequest, ParseDeleteServerCertificateResponse),
    ReadServerCertificates |->
        Operation(NewReadServerCertificatesRequest, ParseReadServerCertificatesResponse),
    UpdateServerCertificate |->
        Operation(NewUpdateServerCertificateRequest, ParseUpdateServerCertificateResponse),
    CreateSnapshot |-> Operation(NewCreateSnapshotRequest, ParseCreateSnapshotResponse),
    DeleteSnapshot |-> Operation(NewDeleteSnapshotRequest, ParseDeleteSnapshotResponse),
    ReadSnapshots |-> Operation(NewReadSnapshotsRequest, ParseReadSnapshotsResponse),
    ReadSnapshotsById |->
        Operation(NewReadSnapshotsByIdRequest, ParseReadSnapshotsByIdResponse),
    CreateSubnet |-> Operation(NewCreateSubnetRequest, ParseCreateSubnetResponse),
    DeleteSubnet |-> Operation(NewDeleteSubnetRequest, ParseDeleteSubnetResponse),
    ReadSubnets |-> Operation(NewReadSubnetsRequest, ParseReadSubnetsResponse),
    ReadSubnetsById |-> Operation(NewReadSubnetsByIdRequest, ParseReadSubnetsByIdResponse),
    UpdateSubnet |-> Operation(NewUpdateSubnetRequest, ParseUpdateSubnetResponse),
    ReadTags |-> Operation(NewReadTagsRequest, ParseReadTagsResponse),
    CreateVms |-> Operation(NewCreateVmsRequest, ParseCreateVmsResponse),
    DeleteVms |-> Operation(NewDeleteVmsRequest, ParseDeleteVmsResponse),
    ReadAdminPassword |->
        Operation(NewReadAdminPasswordRequest, ParseReadAdminPasswordResponse),
    ReadConsoleOutput |->
        Operation(NewReadConsoleOutputRequest, ParseReadConsoleOutputResponse),
    ReadVms |-> Operation(NewReadVmsRequest, ParseReadVmsResponse),
    ReadVmsById |-> Operation(NewReadVmsByIdRequest, ParseReadVmsByIdResponse),
    ReadVmsState |-> Operation(NewReadVmsStateRequest, ParseReadVmsStateResponse),
    RebootVm |-> Operation(NewRebootVmRequest, ParseRebootVmResponse),
    StartVm |-> Operation(NewStartVmRequest, ParseStartVmResponse),
    StopVm |-> Operation(NewStopVmRequest, ParseStopVmResponse),
    UpdateVm |-> Operation(NewUpdateVmRequest, ParseUpdateVmResponse),
    CreateVolume |-> Operation(NewCreateVolumeRequest, ParseCreateVolumeResponse),
    DeleteVolume |-> Operation(NewDeleteVolumeRequest, ParseDeleteVolumeResponse),
    LinkVolume |-> Operation(NewLinkVolumeRequest, ParseLinkVolumeResponse),
    ReadVolumes |-> Operation(NewReadVolumesRequest, ParseReadVolumesResponse),
    ReadVolumesById |-> Operation(NewReadVolumesByIdRequest, ParseReadVolumesByIdResponse),
    UnlinkVolume |-> Operation(NewUnlinkVolumeRequest, ParseUnlinkVolumeResponse),
    UpdateVolume |-> Operation(NewUpdateVolumeRequest, ParseUpdateVolumeResponse),
    CreateVpc |-> Operation(NewCreateVpcRequest, ParseCreateVpcResponse),
    DeleteVpc |-> Operation(NewDeleteVpcRequest, ParseDeleteVpcResponse),
    ReadVpcs |-> Operation(NewReadVpcsRequest, ParseReadVpcsResponse),
    ReadVpcsById |-> Operation(NewReadVpcsByIdRequest, ParseReadVpcsByIdResponse),
    UpdateVpc |-> Operation(NewUpdateVpcRequest, ParseUpdateVpcResponse)]

\* The status of an answer that brings what was asked for.
DataStatuses(op) == Client[op].decoded \cap {200, 201}

\* The parameters that narrow the query: a list without values is encoded as
\* one empty value, which need not narrow anything.
Query(op, lists) == {p \in Client[op].request.params : p \in DOMAIN lists /\ lists[p] # {}}

\* What a caller has of an answer: an error if the body cannot be read or
\* decoded, else its status, and the status it was decoded for, 0 if none.
Parsed(op, reply, typed) ==
    [err |-> FALSE, status |-> reply.status, typed |-> typed,
     data |-> typed \in DataStatuses(op) /\ reply.body = "whole"]

Failure == [err |-> TRUE, status |-> 0, typed |-> 0, data |-> FALSE]

Parse(op, reply) ==
    IF reply.body = "cut" THEN Failure
    ELSE IF ~(reply.json /\ reply.status \in Client[op].decoded) THEN Parsed(op, reply, 0)
    ELSE IF reply.body = "garbled" THEN Failure
    ELSE Parsed(op, reply, reply.status)
=============================================================================
