---------------------------- MODULE MCServiceMgr ----------------------------
(***************************************************************************)
(* ServiceMgr for TLC.                                                     *)
(***************************************************************************)
EXTENDS ServiceMgr

TwoServices == <<"vfs", "net">>
=============================================================================
