---------------------------- MODULE ApiResponses ----------------------------
(***************************************************************************)
(* The answers of the generated client (numspot/api.gen.go), by the        *)
(* collections of the space.  ParseXResponse says which statuses an answer *)
(* to X is decoded for: the one that brings the data, none where there is  *)
(* no data to bring, a conflict's, and the errors.                         *)
(***************************************************************************)

ErrorStatuses == {400, 401, 403, 404, 414, 500}

\* bulk
ParseCreateLoadBalancerTagsResponse == ErrorStatuses
ParseCreateTagsResponse == ErrorStatuses
ParseDeleteLoadBalancerTagsResponse == ErrorStatuses
ParseDeleteTagsResponse == ErrorStatuses

\* dhcpOptions
ParseCreateDhcpOptionsResponse == {201} \cup ErrorStatuses
ParseDeleteDhcpOptionsResponse == ErrorStatuses
ParseReadDhcpOptionsResponse == {200} \cup ErrorStatuses
ParseReadDhcpOptionsByIdResponse == {200} \cup ErrorStatuses

\* flexibleGpus
ParseCreateFlexibleGpuResponse == {201} \cup ErrorStatuses
ParseDeleteFlexibleGpuResponse == ErrorStatuses
ParseLinkFlexibleGpuResponse == ErrorStatuses
ParseReadFlexibleGpusResponse == {200} \cup ErrorStatuses
ParseReadFlexibleGpusByIdResponse == {200} \cup ErrorStatuses
ParseUnlinkFlexibleGpuResponse == ErrorStatuses
ParseUpdateFlexibleGpuResponse == {200} \cup ErrorStatuses

\* images
ParseCreateImageResponse == {201} \cup ErrorStatuses
ParseDeleteImageResponse == ErrorStatuses
ParseReadImagesResponse == {200} \cup ErrorStatuses
ParseReadImagesByIdResponse == {200} \cup ErrorStatuses
ParseUpdateImageResponse == {200} \cup ErrorStatuses

\* internetGateways
ParseCreateInternetGatewayResponse == {201} \cup ErrorStatuses
ParseDeleteInternetGatewayResponse == ErrorStatuses
ParseLinkInternetGatewayResponse == ErrorStatuses
ParseReadInternetGatewaysResponse == {200} \cup ErrorStatuses
ParseReadInternetGatewaysByIdResponse == {200} \cup ErrorStatuses
ParseUnlinkInternetGatewayResponse == ErrorStatuses

\* keypairs
ParseCreateKeypairResponse == {201, 409} \cup ErrorStatuses
ParseDeleteKeypairResponse == ErrorStatuses
ParseReadKeypairsResponse == {200} \cup ErrorStatuses
ParseReadKeypairsByIdResponse == {200} \cup ErrorStatuses

\* listenerRules
ParseCreateListenerRuleResponse == {201} \cup ErrorStatuses
ParseDeleteListenerRuleResponse == ErrorStatuses
ParseReadListenerRulesResponse == {200} \cup ErrorStatuses
ParseReadListenerRulesByIdResponse == {200} \cup ErrorStatuses
ParseUpdateListenerRuleResponse == {200} \cup ErrorStatuses

\* loadBalancers
ParseCreateLoadBalancerResponse == {201} \cup ErrorStatuses
ParseCreateLoadBalancerListenersResponse == {201} \cup ErrorStatuses
ParseCreateLoadBalancerPolicyResponse == {201} \cup ErrorStatuses
ParseDeleteLoadBalancerResponse == ErrorStatuses
ParseDeleteLoadBalancerListenersResponse == ErrorStatuses
ParseDeleteLoadBalancerPolicyResponse == ErrorStatuses
ParseLinkLoadBalancerBackendMachinesResponse == ErrorStatuses
ParseReadLoadBalancersResponse == {200} \cup ErrorStatuses
ParseReadLoadBalancersByIdResponse == {200} \cup ErrorStatuses
ParseReadVmsHealthResponse == {200} \cup ErrorStatuses
ParseUnlinkLoadBalancerBackendMachinesResponse == ErrorStatuses
ParseUpdateLoadBalancerResponse == {200} \cup ErrorStatuses

\* loadBalancersTags
ParseReadLoadBalancerTagsResponse == {200} \cup ErrorStatuses

\* natGateways
ParseCreateNatGatewayResponse == {201} \cup ErrorStatuses
ParseDeleteNatGatewayResponse == ErrorStatuses
ParseReadNatGatewayResponse == {200} \cup ErrorStatuses
ParseReadNatGatewayByIdResponse == {200} \cup ErrorStatuses

\* nics
ParseCreateNicResponse == {201} \cup ErrorStatuses
ParseDeleteNicResponse == ErrorStatuses
ParseLinkNicResponse == {200} \cup ErrorStatuses
ParseLinkPrivateIpsResponse == ErrorStatuses
ParseReadNicsResponse == {200} \cup ErrorStatuses
ParseReadNicsByIdResponse == {200} \cup ErrorStatuses
ParseUnlinkNicResponse == ErrorStatuses
ParseUnlinkPrivateIpsResponse == ErrorStatuses
ParseUpdateNicResponse == {200} \cup ErrorStatuses

\* publicIps
ParseCreatePublicIpResponse == {201} \cup ErrorStatuses
ParseDeletePublicIpResponse == ErrorStatuses
ParseLinkPublicIpResponse == {200} \cup ErrorStatuses
ParseReadPublicIpsResponse == {200} \cup ErrorStatuses
ParseReadPublicIpsByIdResponse == {200} \cup ErrorStatuses
ParseUnlinkPublicIpResponse == ErrorStatuses

\* routeTables
ParseCreateRouteResponse == {201} \cup ErrorStatuses
ParseCreateRouteTableResponse == {201} \cup ErrorStatuses
ParseDeleteRouteResponse == ErrorStatuses
ParseDeleteRouteTableResponse == ErrorStatuses
ParseLinkRouteTableResponse == {200} \cup ErrorStatuses
ParseReadRouteTablesResponse == {200} \cup ErrorStatuses
ParseReadRouteTablesByIdResponse == {200} \cup ErrorStatuses
ParseUnlinkRouteTableResponse == ErrorStatuses
ParseUpdateRouteResponse == {200} \cup ErrorStatuses
ParseUpdateRouteTableRoutePropagationResponse == {200} \cup ErrorStatuses

\* securityGroups
ParseCreateSecurityGroupResponse == {201} \cup ErrorStatuses
ParseCreateSecurityGroupRuleResponse == {201} \cup ErrorStatuses
ParseDeleteSecurityGroupResponse == ErrorStatuses
ParseDeleteSecurityGroupRuleResponse == ErrorStatuses
ParseReadSecurityGroupsResponse == {200} \cup ErrorStatuses
ParseReadSecurityGroupsByIdResponse == {200} \cup ErrorStatuses

\* serverCertificates
ParseCreateServerCertificateResponse == {201} \cup ErrorStatuses
ParseDeleteServerCertificateResponse == ErrorStatuses
ParseReadServerCertificatesResponse == {200} \cup ErrorStatuses
ParseUpdateServerCertificateResponse == {200} \cup ErrorStatuses

\* snapshots
ParseCreateSnapshotResponse == {201} \cup ErrorStatuses
ParseDeleteSnapshotResponse == ErrorStatuses
ParseReadSnapshotsResponse == {200} \cup ErrorStatuses
ParseReadSnapshotsByIdResponse == {200} \cup ErrorStatuses

\* subnets
ParseCreateSubnetResponse == {201, 409} \cup ErrorStatuses
ParseDeleteSubnetResponse == ErrorStatuses
ParseReadSubnetsResponse == {200} \cup ErrorStatuses
ParseReadSubnetsByIdResponse == {200} \cup ErrorStatuses
ParseUpdateSubnetResponse == {200} \cup ErrorStatuses

\* tags
ParseReadTagsResponse == {200} \cup ErrorStatuses

\* vms
\* The status of a creation taken for that of a read.
ParseCreateVmsResponseOk == {200} \cup ErrorStatuses
ParseCreateVmsResponse == {201} \cup ErrorStatuses
ParseDeleteVmsResponse == ErrorStatuses
ParseReadAdminPasswordResponse == {200} \cup ErrorStatuses
ParseReadConsoleOutputResponse == {200} \cup ErrorStatuses
ParseReadVmsResponse == {200} \cup ErrorStatuses
ParseReadVmsByIdResponse == {200} \cup ErrorStatuses
ParseReadVmsStateResponse == {200} \cup ErrorStatuses
ParseRebootVmResponse == ErrorStatuses
ParseStartVmResponse == {200} \cup ErrorStatuses
ParseStopVmResponse == {200} \cup ErrorStatuses
ParseUpdateVmResponse == {200} \cup ErrorStatuses

\* volumes
ParseCreateVolumeResponse == {201} \cup ErrorStatuses
ParseDeleteVolumeResponse == ErrorStatuses
ParseLinkVolumeResponse == ErrorStatuses
ParseReadVolumesResponse == {200} \cup ErrorStatuses
ParseReadVolumesByIdResponse == {200} \cup ErrorStatuses
ParseUnlinkVolumeResponse == ErrorStatuses
ParseUpdateVolumeResponse == {200} \cup ErrorStatuses

\* vpcs
ParseCreateVpcResponse == {201, 409} \cup ErrorStatuses
ParseDeleteVpcResponse == ErrorStatuses
ParseReadVpcsResponse == {200} \cup ErrorStatuses
ParseReadVpcsByIdResponse == {200} \cup ErrorStatuses
ParseUpdateVpcResponse == {200} \cup ErrorStatuses
=============================================================================
