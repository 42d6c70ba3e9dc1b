------------------------------ MODULE ConnLife ------------------------------
(***************************************************************************)
(* What a connection promises to those who hold it (the documentation of   *)
(* Dial, Close, Done and Err in conn.go): it is either established or      *)
(* never handed out; Err is nil until Done is closed; from then on Err and *)
(* every call of Close give the one reason for which it ended.             *)
(***************************************************************************)

CONSTANT Reasons

VARIABLES
    life,   \* "starting", "open", "failed" or "closed"
    err     \* what Err returns

lifeVars == << life, err >>

LifeInit == life = "starting" /\ err = "nil"

Establish == life = "starting" /\ life' = "open" /\ err' = "nil"

Refuse == life = "starting" /\ life' = "failed" /\ err' = "nil"

End == life = "open" /\ life' = "closed" /\ err' \in Reasons

LifeSpec == LifeInit /\ [][Establish \/ Refuse \/ End]_lifeVars
=============================================================================
