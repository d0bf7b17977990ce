---------------------------- MODULE MCLocalStack ----------------------------
(***************************************************************************)
(* LocalStack for TLC: a stack with the two dependencies between services  *)
(* that matter, Vector's on Logflare and everybody's on the gateway, and   *)
(* with the storage volume; starts that exclude nothing, the gateway, or   *)
(* all but the database.                                                   *)
(***************************************************************************)
EXTENDS LocalStack

MCSwitches == {"analytics", "api", "storage"}
MCExclusions == {{}, {"kong"}, {"vector", "kong", "postgrest", "storage-api"}}
=============================================================================
