------------------------------ MODULE MCServer ------------------------------
(***************************************************************************)
(* Instances of Server for TLC.                                            *)
(***************************************************************************)
EXTENDS Server

CONSTANTS old, new, release

(* A rolling deploy: the old release embeds one migration, the new two.    *)
MCLatest == [p \in {old, new, release} |-> IF p = old THEN 1 ELSE 2]
MCMaxRequests == [p \in {old, new, release} |-> IF p = new THEN 1 ELSE 0]
=============================================================================
