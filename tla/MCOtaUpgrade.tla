---------------------------- MODULE MCOtaUpgrade ----------------------------
(* A small device: three copies of the flag, two components, of which U-Boot *)
(* is one, and two packages of the same shape, one newer than the other.     *)
EXTENDS OtaUpgrade, FiniteSetsExt, TLC

MCWriteOrder == <<"rootfs", "uboot">>
MCPkg == 1 :> {"rootfs", "uboot"} @@ 2 :> {"rootfs", "uboot"}
MCMaskValue == {} :> 0 @@ {"uboot"} :> 1 @@ {"rootfs"} :> 8 @@ {"rootfs", "uboot"} :> 9
=============================================================================
