--------------------------- MODULE MCAddonHandlers ---------------------------
(***************************************************************************)
(* The instance of AddonHandlers for TLC: the add-ons that share objects   *)
(* or a handler together, every other one alone.                           *)
(***************************************************************************)
EXTENDS AddonHandlers

MCShared ==
    {{"nutanix-csi", "konnector", "nutanix-ccm"},
     {"local-path", "aws-ebs"},
     {"local-path-crs", "aws-ebs-crs"}}
MCCilium == {{"cilium"}}
MCAddonSets == MCShared \cup {{a} : a \in Addons \ UNION MCShared}
==============================================================================
