----------------------------- MODULE MCCacheFile -----------------------------
(* Values of the constants of CacheFile. *)
EXTENDS CacheFile, TLC

CONSTANTS d1, d2, sensor, lamp

TwoNames == d1 :> sensor @@ d2 :> lamp
=============================================================================
