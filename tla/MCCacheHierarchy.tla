-------------------------- MODULE MCCacheHierarchy --------------------------
(***************************************************************************)
(* Instances of CacheHierarchy for TLC.  Caches have one frame (L2C two    *)
(* where it matters), so that two blocks already compete for it, queues    *)
(* hold one packet, and the read queues are exactly as long as             *)
(* QueuesCoverMisses asks for.                                             *)
(***************************************************************************)
EXTENDS CacheHierarchy
=============================================================================
