---------------------------- MODULE ApiRequests -----------------------------
(***************************************************************************)
(* The requests of the generated client (numspot/api.gen.go), by the       *)
(* collections of the space: a verb, on a collection or on one member of   *)
(* it, with the parameters of the query that the builder encodes, each if  *)
(* its pointer is set.                                                     *)
(***************************************************************************)

OnCollection(verb) == [verb |-> verb, on |-> "collection", params |-> {}]

OnMember(verb) == [verb |-> verb, on |-> "member", params |-> {}]

List(params) == [verb |-> "GET", on |-> "collection", params |-> params]

\* bulk
NewCreateLoadBalancerTagsRequest == OnCollection("PATCH")
NewCreateTagsRequest == OnCollection("PATCH")
NewDeleteLoadBalancerTagsRequest == OnCollection("DELETE")
NewDeleteTagsRequest == OnCollection("DELETE")

\* dhcpOptions
NewCreateDhcpOptionsRequest == OnCollection("POST")
NewDeleteDhcpOptionsRequest == OnMember("DELETE")
NewReadDhcpOptionsRequest ==
    List({"Default", "DomainNameServers", "DomainNames", "LogServers",
          "NtpServers", "TagKeys", "TagValues", "Tags", "Ids"})
NewReadDhcpOptionsByIdRequest == OnMember("GET")

\* flexibleGpus
NewCreateFlexibleGpuRequest == OnCollection("POST")
NewDeleteFlexibleGpuRequest == OnMember("DELETE")
NewLinkFlexibleGpuRequest == OnMember("PUT")
NewReadFlexibleGpusRequest ==
    List({"DeleteOnVmDeletion", "Generations", "ModelNames", "States",
          "VmIds", "AvailabilityZoneNames", "Ids"})
NewReadFlexibleGpusByIdRequest == OnMember("GET")
NewUnlinkFlexibleGpuRequest == OnMember("PUT")
NewUpdateFlexibleGpuRequest == OnMember("PUT")

\* images
NewCreateImageRequest == OnCollection("POST")
NewDeleteImageRequest == OnMember("DELETE")
NewReadImagesRequest ==
    List({"AccountAliases", "Architectures",
          "BlockDeviceMappingDeleteOnVmDeletion",
          "BlockDeviceMappingDeviceNames", "BlockDeviceMappingSnapshotIds",
          "BlockDeviceMappingVolumeSizes", "BlockDeviceMappingVolumeTypes",
          "Descriptions", "FileLocations", "Hypervisors", "ImageNames",
          "ProductCodeNames", "ProductCodes", "RootDeviceNames",
          "RootDeviceTypes", "States", "TagKeys", "TagValues", "Tags",
          "VirtualizationTypes", "Ids", "IsPublic"})
NewReadImagesByIdRequest == OnMember("GET")
NewUpdateImageRequest == OnMember("PUT")

\* internetGateways
NewCreateInternetGatewayRequest == OnCollection("POST")
NewDeleteInternetGatewayRequest == OnMember("DELETE")
NewLinkInternetGatewayRequest == OnMember("PUT")
NewReadInternetGatewaysRequest ==
    List({"LinkStates", "TagKeys", "TagValues", "Tags", "LinkVpcIds", "Ids"})
NewReadInternetGatewaysByIdRequest == OnMember("GET")
NewUnlinkInternetGatewayRequest == OnMember("PUT")

\* keypairs
NewCreateKeypairRequest == OnCollection("POST")
NewDeleteKeypairRequest == OnMember("DELETE")
NewReadKeypairsRequest ==
    List({"KeypairFingerprints", "KeypairNames", "KeypairTypes"})
NewReadKeypairsByIdRequest == OnMember("GET")

\* listenerRules
NewCreateListenerRuleRequest == OnCollection("POST")
NewDeleteListenerRuleRequest == OnMember("DELETE")
NewReadListenerRulesRequest ==
    List({"ListenerRuleNames"})
NewReadListenerRulesByIdRequest == OnMember("GET")
NewUpdateListenerRuleRequest == OnMember("PUT")

\* loadBalancers
NewCreateLoadBalancerRequest == OnCollection("POST")
NewCreateLoadBalancerListenersRequest == OnMember("POST")
NewCreateLoadBalancerPolicyRequest == OnMember("POST")
NewDeleteLoadBalancerRequest == OnMember("DELETE")
NewDeleteLoadBalancerListenersRequest == OnMember("DELETE")
NewDeleteLoadBalancerPolicyRequest == OnMember("DELETE")
NewLinkLoadBalancerBackendMachinesRequest == OnMember("PUT")
NewReadLoadBalancersRequest ==
    List({"LoadBalancerNames"})
NewReadLoadBalancersByIdRequest == OnMember("GET")
NewReadVmsHealthRequest == OnMember("GET")
NewUnlinkLoadBalancerBackendMachinesRequest == OnMember("PUT")
NewUpdateLoadBalancerRequest == OnMember("PUT")

\* loadBalancersTags
NewReadLoadBalancerTagsRequest == OnCollection("GET")

\* natGateways
NewCreateNatGatewayRequest == OnCollection("POST")
NewDeleteNatGatewayRequest == OnMember("DELETE")
NewReadNatGatewayRequest ==
    List({"States", "SubnetIds", "TagKeys", "TagValues", "Tags", "Ids",
          "VpcIds"})
NewReadNatGatewayByIdRequest == OnMember("GET")

\* nics
NewCreateNicRequest == OnCollection("POST")
NewDeleteNicRequest == OnMember("DELETE")
NewLinkNicRequest == OnMember("PUT")
NewLinkPrivateIpsRequest == OnMember("PUT")
NewReadNicsRequest ==
    List({"Descriptions", "IsSourceDestCheck", "LinkNicDeleteOnVmDeletion",
          "LinkNicDeviceNumbers", "LinkNicLinkNicIds", "LinkNicStates",
          "LinkNicVmIds", "LinkPublicIpLinkPublicIpIds",
          "LinkPublicIpPublicIpIds", "LinkPublicIpPublicIps",
          "MacAddresses", "PrivateDnsNames",
          "PrivateIpsLinkPublicIpPublicIps", "PrivateIpsPrimaryIp",
          "PrivateIpsPrivateIps", "SecurityGroupIds", "SecurityGroupNames",
          "States", "SubnetIds", "TagKeys", "TagValues", "Tags", "VpcIds",
          "Ids", "AvailabilityZoneNames"})
NewReadNicsByIdRequest == OnMember("GET")
NewUnlinkNicRequest == OnMember("PUT")
NewUnlinkPrivateIpsRequest == OnMember("PUT")
NewUpdateNicRequest == OnMember("PUT")

\* publicIps
NewCreatePublicIpRequest == OnCollection("POST")
NewDeletePublicIpRequest == OnMember("DELETE")
NewLinkPublicIpRequest == OnMember("PUT")
NewReadPublicIpsRequest ==
    List({"LinkPublicIpIds", "NicIds", "PrivateIps", "TagKeys",
          "TagValues", "Tags", "VmIds", "Ids"})
NewReadPublicIpsByIdRequest == OnMember("GET")
NewUnlinkPublicIpRequest == OnMember("PUT")

\* routeTables
NewCreateRouteRequest == OnMember("POST")
NewCreateRouteTableRequest == OnCollection("POST")
NewDeleteRouteRequest == OnMember("DELETE")
NewDeleteRouteTableRequest == OnMember("DELETE")
NewLinkRouteTableRequest == OnMember("PUT")
NewReadRouteTablesRequest ==
    List({"LinkRouteTableIds", "LinkRouteTableLinkRouteTableIds",
          "LinkRouteTableMain", "LinkSubnetIds", "RouteCreationMethods",
          "RouteDestinationIpRanges", "RouteDestinationServiceIds",
          "RouteGatewayIds", "RouteStates", "RouteVmIds", "TagKeys",
          "TagValues", "Tags", "VpcIds", "RouteNatGatewayIds",
          "RouteVpcPeeringIds", "Ids"})
NewReadRouteTablesByIdRequest == OnMember("GET")
NewUnlinkRouteTableRequest == OnMember("PUT")
NewUpdateRouteRequest == OnMember("PUT")
NewUpdateRouteTableRoutePropagationRequest == OnMember("PUT")

\* securityGroups
NewCreateSecurityGroupRequest == OnCollection("POST")
NewCreateSecurityGroupRuleRequest == OnMember("POST")
NewDeleteSecurityGroupRequest == OnMember("DELETE")
NewDeleteSecurityGroupRuleRequest == OnMember("DELETE")
NewReadSecurityGroupsRequest ==
    List({"Descriptions", "InboundRuleFromPortRanges",
          "InboundRuleIpRanges", "InboundRuleProtocols",
          "InboundRuleSecurityGroupIds", "InboundRuleSecurityGroupNames",
          "InboundRuleToPortRanges", "OutboundRuleFromPortRanges",
          "OutboundRuleIpRanges", "OutboundRuleProtocols",
          "OutboundRuleSecurityGroupIds", "OutboundRuleSecurityGroupNames",
          "OutboundRuleToPortRanges", "SecurityGroupIds",
          "SecurityGroupNames", "TagKeys", "TagValues", "Tags", "VpcIds"})
NewReadSecurityGroupsByIdRequest == OnMember("GET")

\* serverCertificates
NewCreateServerCertificateRequest == OnCollection("POST")
NewDeleteServerCertificateRequest == OnMember("DELETE")
NewReadServerCertificatesRequest ==
    List({"Paths"})
NewUpdateServerCertificateRequest == OnMember("PUT")

\* snapshots
NewCreateSnapshotRequest == OnCollection("POST")
NewDeleteSnapshotRequest == OnMember("DELETE")
NewReadSnapshotsRequest ==
    List({"Descriptions", "FromCreationDate", "Progresses", "States",
          "TagKeys", "TagValues", "Tags", "ToCreationDate", "VolumeIds",
          "VolumeSizes", "IsPublic", "Ids"})
NewReadSnapshotsByIdRequest == OnMember("GET")

\* subnets
NewCreateSubnetRequest == OnCollection("POST")
NewDeleteSubnetRequest == OnMember("DELETE")
NewReadSubnetsRequest ==
    List({"AvailableIpsCounts", "IpRanges", "States", "TagKeys",
          "TagValues", "Tags", "VpcIds", "Ids", "AvailabilityZoneNames"})
NewReadSubnetsByIdRequest == OnMember("GET")
NewUpdateSubnetRequest == OnMember("PUT")

\* tags
NewReadTagsRequest ==
    List({"Keys", "ResourceIds", "ResourceTypes", "Values"})

\* vms
NewCreateVmsRequest == OnCollection("POST")
NewDeleteVmsRequest == OnMember("DELETE")
NewReadAdminPasswordRequest == OnMember("GET")
NewReadConsoleOutputRequest == OnMember("GET")
NewReadVmsRequest ==
    List({"Architectures", "BlockDeviceMappingDeleteOnVmDeletion",
          "BlockDeviceMappingDeviceNames", "BlockDeviceMappingLinkDates",
          "BlockDeviceMappingStates", "BlockDeviceMappingVolumeIds",
          "ClientTokens", "CreationDates", "ImageIds",
          "IsSourceDestChecked", "KeypairNames", "LaunchNumbers",
          "Lifecycles", "NicDescriptions", "NicIsSourceDestChecked",
          "NicLinkNicDeleteOnVmDeletion", "NicLinkNicDeviceNumbers",
          "NicLinkNicLinkNicDates", "NicLinkNicLinkNicIds",
          "NicLinkNicStates", "NicLinkNicVmIds",
          "NicLinkPublicIpLinkPublicIpIds", "NicLinkPublicIpPublicIpIds",
          "NicLinkPublicIpPublicIps", "NicMacAddresses", "NicNicIds",
          "NicPrivateIpsLinkPublicIpIds", "NicPrivateIpsPrimaryIp",
          "NicPrivateIpsPrivateIps", "NicSecurityGroupIds",
          "NicSecurityGroupNames", "NicStates", "NicSubnetIds",
          "Platforms", "PrivateIps", "ProductCodes", "PublicIps",
          "ReservationIds", "RootDeviceNames", "RootDeviceTypes",
          "SecurityGroupIds", "SecurityGroupNames", "StateReasonCodes",
          "StateReasonMessages", "StateReasons", "SubnetIds", "TagKeys",
          "TagValues", "Tags", "Tenancies", "VmSecurityGroupIds",
          "VmSecurityGroupNames", "VmStateCodes", "VmStateNames", "Types",
          "VpcIds", "NicVpcIds", "NicAvailabilityZoneNames",
          "AvailabilityZoneNames", "Ids"})
NewReadVmsByIdRequest == OnMember("GET")
NewReadVmsStateRequest ==
    List({"MaintenanceEventCodes", "MaintenanceEventDescriptions",
          "MaintenanceEventsNotAfter", "MaintenanceEventsNotBefore",
          "VmStates", "AvailabilityZoneNames", "Ids"})
NewRebootVmRequest == OnMember("PUT")
NewStartVmRequest == OnMember("PUT")
NewStopVmRequest == OnMember("PUT")
NewUpdateVmRequest == OnMember("PUT")

\* volumes
NewCreateVolumeRequest == OnCollection("POST")
NewDeleteVolumeRequest == OnMember("DELETE")
NewLinkVolumeRequest == OnMember("PUT")
NewReadVolumesRequest ==
    List({"CreationDates", "LinkVolumeDeleteOnVmDeletion",
          "LinkVolumeDeviceNames", "LinkVolumeLinkDates",
          "LinkVolumeLinkStates", "LinkVolumeVmIds", "SnapshotIds",
          "TagKeys", "TagValues", "Tags", "VolumeSizes", "VolumeStates",
          "VolumeTypes", "AvailabilityZoneNames", "Ids"})
NewReadVolumesByIdRequest == OnMember("GET")
NewUnlinkVolumeRequest == OnMember("PUT")
NewUpdateVolumeRequest == OnMember("PUT")

\* vpcs
NewCreateVpcRequest == OnCollection("POST")
NewDeleteVpcRequest == OnMember("DELETE")
NewReadVpcsRequest ==
    List({"DhcpOptionsSetIds", "IpRanges", "IsDefault", "States",
          "TagKeys", "TagValues", "Tags", "Ids"})
NewReadVpcsByIdRequest == OnMember("GET")
NewUpdateVpcRequest == OnMember("PUT")
=============================================================================
