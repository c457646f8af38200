----------------------------- MODULE MCDnsService -----------------------------
(***************************************************************************)
(* DnsService on two callers, two adapters and three settings: enough for  *)
(* a backup of the other adapter, for a setting that is neither the user's *)
(* nor the one the adapter had before, and for a caller to take over from  *)
(* one that died.                                                          *)
(***************************************************************************)
EXTENDS DnsService
===============================================================================
