-------------------------- MODULE MCVulkanPassHost --------------------------
(* Small instances of VulkanPassHost: two plugins, one device.              *)
EXTENDS VulkanPassHost, TLC

OneClient == {Bridge}
TwoPlugins == {1, 2}
OnePriority == {0}
TwoPriorities == {0, 1}

=============================================================================
