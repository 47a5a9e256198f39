------------------------------- MODULE SessionsMC -------------------------------
(* What a unit's Session carries, for TLC, each part checked on its own in   *)
(* one run: a copy of a plugin that registers, is enabled and is disabled;   *)
(* and a stream two callers start and stop over two lives of its unit.       *)
EXTENDS Participation, Streams

CONSTANTS a

VARIABLE part
sessionsVars == <<part, vars, streamVars>>

SessionsInit ==
    /\ Init /\ StreamInit
    /\ part \in {"participation", "stream"}

SessionsNext ==
    /\ UNCHANGED part
    /\ \/ part = "participation" /\ Next /\ UNCHANGED streamVars
       \/ part = "stream" /\ StreamNext /\ UNCHANGED vars

(* StreamFairness, of the part it is about. *)
SessionsFairness ==
    WF_sessionsVars(part = "stream" /\ CoreGoesOn /\ UNCHANGED <<part, vars>>)

(* CONSTRAINT: a copy a call has strayed about is not followed further;   *)
(* what is checked says nothing of it any more.                            *)
NoneStrayed == strayed = {}

SessionsSpec == SessionsInit /\ [][SessionsNext]_sessionsVars /\ SessionsFairness
=================================================================================
