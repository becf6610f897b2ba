-------------------------- MODULE MCConnectionLoad --------------------------
(* Model of ConnectionLoad for TLC.                                        *)
EXTENDS ConnectionLoad

(* A key pair, half of one, no authentication, and another family's         *)
(* mechanism with a key pair left over.                                    *)
MCAuths ==
    {[mechanism |-> "acl", keys |-> TRUE], [mechanism |-> "acl", keys |-> FALSE],
     [mechanism |-> "none", keys |-> FALSE], [mechanism |-> "plain", keys |-> TRUE]}
=============================================================================
