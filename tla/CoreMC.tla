---------------------------------- MODULE CoreMC ----------------------------------
(* Three parts of the Core for TLC, each checked on its own in one run: an  *)
(* interface in a container with an operator and an engine that answers; a  *)
(* client of the bus that follows the changes and not the occurrences       *)
(* numbered among them, with a queue that overflows at the third; and the   *)
(* log store, with two groups of which a client follows one.                *)
EXTENDS Supervisor, Bus, Logstore

CONSTANTS a

VARIABLE part
coreVars == <<part, vars, busVars, logVars>>

OneInterface == [u \in {a} |-> "interface"]
Alone        == [u \in {a} |-> {}]
TwoValues    == {"Running", "Failed"}
Instruction  == {[occurrence |-> "instruction"]}
OfChanges    == [s \in {"client"} |-> Changes]
TwoGroups    == {"plugin", "other"}
OneFollowed  == {"plugin"}

CoreInit ==
    /\ Init /\ BusInit /\ LogInit
    /\ part \in {"container", "bus", "log"}
    /\ part # "bus" => \A x \in Subjects : record[x] = "Running"
    /\ part # "log" => \A i \in Entries : group[i] = "plugin"

CoreNext ==
    /\ UNCHANGED part
    /\ \/ part = "container" /\ Next /\ UNCHANGED <<busVars, logVars>>
       \/ part = "bus" /\ BusNext /\ UNCHANGED <<vars, logVars>>
       \/ part = "log" /\ LogNext /\ UNCHANGED <<vars, busVars>>

(* BusFairness, and LogFairness, of the part they are about. *)
OthersOfBus == UNCHANGED <<part, vars, logVars>>
OthersOfLog == UNCHANGED <<part, vars, busVars>>

CoreFairness ==
    /\ \A s \in Subs :
         /\ WF_coreVars(part = "bus" /\ Serve(s) /\ OthersOfBus)
         /\ WF_coreVars(part = "bus" /\ MarkClosed(s) /\ OthersOfBus)
         /\ WF_coreVars(part = "bus" /\ reader[s].at = "done" /\ Unlist(s) /\ OthersOfBus)
    /\ \A x \in Subjects :
         WF_coreVars(part = "bus" /\ PublishChange(x) /\ OthersOfBus)
    /\ WF_coreVars(part = "log" /\ TakeFirst /\ OthersOfLog)
    /\ WF_coreVars(part = "log" /\ (StoreBatch \/ LoseBatch) /\ OthersOfLog)
    /\ WF_coreVars(part = "log" /\ TellWatchers /\ OthersOfLog)
    /\ WF_coreVars(part = "log" /\ Watches /\ OthersOfLog)
    /\ WF_coreVars(part = "log" /\ Pages /\ OthersOfLog)
    /\ WF_coreVars(part = "log" /\ Receives /\ OthersOfLog)

CoreSpec == CoreInit /\ [][CoreNext]_coreVars /\ CoreFairness
==================================================================================
