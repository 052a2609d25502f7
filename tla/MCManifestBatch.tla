---------------------------- MODULE MCManifestBatch ----------------------------
(***************************************************************************)
(* Four rows: the first two have the same asset and ratio, the third needs *)
(* the fallback ratio, and no ratio supports the fourth.                   *)
(***************************************************************************)
EXTENDS ManifestBatch, TLC

CONSTANTS hero, lamp

MCAsset == <<hero, hero, hero, lamp>>
MCRatio == <<"1:1", "1:1", "4:5", "5:4">>
MCFallback == "4:5" :> "3:4"
=============================================================================
