---------------------------- MODULE MCS3Inventory ----------------------------
(***************************************************************************)
(* Two incoming objects of the quarantine bucket, of sizes below and above *)
(* what is billed at least, and one object of the other bucket.  A class   *)
(* is left after one day and the next one after two.                       *)
(***************************************************************************)
EXTENDS S3Inventory, TLC

CONSTANT Track   \* the object of the other bucket

MCBuckets == <<"quarantine", "transcode">>
MCBucketOf == [k \in Incoming \cup {Track} |-> IF k = Track THEN "transcode" ELSE "quarantine"]
MCPrices == [Standard |-> 250, StandardIA |-> 138, GlacierIR |-> 50]
Symmetry == Permutations(Incoming)
=============================================================================
