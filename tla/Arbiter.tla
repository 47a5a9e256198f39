--------------------------------- MODULE Arbiter ---------------------------------
(***************************************************************************)
(* Which channels are suspended (internal/core/interfaces/arbitration.go): *)
(* a rule says which channel prevails over which, and a channel is         *)
(* suspended while one that prevails over it holds.  A local channel that  *)
(* reclaimed control inverts the rules that would suspend it.              *)
(*                                                                         *)
(* Rules are pairs in the order declared, a rule over several channels     *)
(* being one pair for each.  Every operation recomputes the verdicts under *)
(* the arbiter's lock and is one step.                                     *)
(***************************************************************************)
EXTENDS Naturals, Sequences

CONSTANTS
    Channels, \* the channels declared
    Rules,    \* the arbitration rules: a sequence of pairs
    Local     \* the channels bound as a local socket

ASSUME RulesAssumption ==
    /\ Rules \in Seq([prevails : Channels, over : Channels])
    /\ Local \subseteq Channels

VARIABLES
    holding,   \* the channels the arbiter was told hold
    reclaimed, \* the local channels that took control back
    verdict    \* what it decided of each channel

arbiterVars == <<holding, reclaimed, verdict>>

Free == [reason |-> "none"]
Verdicts == {Free} \cup [by : Channels, reason : {"displaced", "reclaimed"}]

ArbiterInit ==
    /\ holding = {}
    /\ reclaimed = {}
    /\ verdict = [c \in Channels |-> Free]

(* The rule as it stands, given who holds and who reclaimed. *)
Inverts(c, hold, back) == c \in back /\ c \in Local /\ c \in hold

Edge(i, hold, back) ==
    LET r == Rules[i] IN
    IF Inverts(r.over, hold, back)
    THEN [prevails |-> r.over, over |-> r.prevails, reason |-> "reclaimed"]
    ELSE [prevails |-> r.prevails, over |-> r.over, reason |-> "displaced"]

(* The rules that suspend a channel, and the verdict: the first's. *)
Suspending(c, hold, back) ==
    {i \in DOMAIN Rules : /\ Edge(i, hold, back).over = c
                          /\ Edge(i, hold, back).prevails \in hold}

VerdictOn(c, hold, back) ==
    LET against == Suspending(c, hold, back) IN
    IF against = {} THEN Free
    ELSE LET first == Edge(CHOOSE i \in against : \A j \in against : i <= j,
                           hold, back)
         IN  [by |-> first.prevails, reason |-> first.reason]

(* Mutant: decided from who held before. *)
RecomputeBefore(hold, back) ==
    /\ holding' = hold
    /\ reclaimed' = back
    /\ verdict' = [c \in Channels |-> VerdictOn(c, holding, back)]

Recompute(hold, back) ==
    /\ holding' = hold
    /\ reclaimed' = back
    /\ verdict' = [c \in Channels |-> VerdictOn(c, hold, back)]

(* A channel starts or stops holding; one that stops also stops reclaiming. *)
Hold(c, holds) ==
    IF holds THEN Recompute(holding \cup {c}, reclaimed)
             ELSE Recompute(holding \ {c}, reclaimed \ {c})

(* A local channel takes control back. *)
TakeBack(c) ==
    /\ c \in Local
    /\ Recompute(holding, reclaimed \cup {c})

(* The channels an operation decided something else about, and what: the   *)
(* events it tells once the lock is let go.                                *)
Changed == {c \in Channels : verdict'[c] # verdict[c]}
News == [c \in Changed |-> verdict'[c]]

ArbiterNext ==
    \E c \in Channels : TakeBack(c) \/ \E holds \in BOOLEAN : Hold(c, holds)

ArbiterSpec == ArbiterInit /\ [][ArbiterNext]_arbiterVars

ArbiterTypeOK ==
    /\ holding \subseteq Channels
    /\ reclaimed \subseteq Local
    /\ verdict \in [Channels -> Verdicts]

(* However the rules are inverted, the channels that hold never suspend    *)
(* one another in a circle: while any holds, one of those is suspended by  *)
(* none, whoever reclaimed and in whatever order (recompute).              *)
SomeoneInControl ==
    holding # {} => \E c \in holding : verdict[c] = Free
=================================================================================
