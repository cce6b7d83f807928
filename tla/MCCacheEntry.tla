---------------------------- MODULE MCCacheEntry ----------------------------
(* Small instances of CacheEntry for TLC.                                    *)
EXTENDS CacheEntry

CONSTANTS a, b, s
=============================================================================
