-------------------------------- MODULE AccountMC --------------------------------
(* The account's parts for TLC, each checked on its own in one run: the     *)
(* guardian of one instance with a user of two verbs; two versions, with    *)
(* two installations, two pins and two removals; the claim two Cores and a  *)
(* pass take; and two lives of an instance's Core over the state they       *)
(* share.                                                                   *)
EXTENDS Guardian, Reclaim, TrunkMC

VARIABLE part
accountVars == <<part, guardianVars, reclaimVars, trunkVars>>

AccountInit ==
    /\ GuardianInit /\ ReclaimInit /\ TrunkInit
    /\ part \in {"guardian", "installed", "claims", "lives"}
    /\ part # "guardian" => record = CHOOSE r \in Told : TRUE
    /\ part # "guardian" => loop = "none"
    /\ part # "lives" => form = "application"

AccountNext ==
    /\ UNCHANGED part
    /\ \/ /\ part = "guardian" /\ GuardianNext
          /\ UNCHANGED <<reclaimVars, trunkVars>>
       \/ /\ part = "installed" /\ InstalledNext
          /\ UNCHANGED <<guardianVars, trunkVars>>
       \/ /\ part = "claims" /\ \E p \in Claimants : Claims(p)
          /\ UNCHANGED <<guardianVars, trunkVars>>
       \/ /\ part = "lives" /\ TrunkNext
          /\ UNCHANGED <<guardianVars, reclaimVars>>

Guarding(A) == part = "guardian" /\ A /\ UNCHANGED <<part, reclaimVars, trunkVars>>

AccountFairness == WF_accountVars(Guarding(Handles)) /\ WF_accountVars(Guarding(Timely))

(* Nothing is said of a version once an installation and a removal, or two  *)
(* removals, were at it at once: what comes after that is not searched.     *)
Apart == shared = {}

AccountSpec == AccountInit /\ [][AccountNext]_accountVars /\ AccountFairness
=================================================================================
