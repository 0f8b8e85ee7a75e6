---------------------------- MODULE MCVulkanPass ----------------------------
(* Small instances of VulkanPassRegistry.                                   *)
EXTENDS VulkanPassRegistry

CONSTANTS c1, c2

\* Two threads register against each other.
MCClient == {c1, c2}

TwoPriorities == {0, 1}

=============================================================================
