--------------------------------- MODULE Streams ---------------------------------
(***************************************************************************)
(* A stream of a unit, and the exchanges of its Session: what the Core     *)
(* instructs and asks (core/session), the transport it creates before it   *)
(* activates a stream and removes on three routes (core/streams), the      *)
(* operators' and the clients' calls (admin/streams.go,                    *)
(* interfaces/operations.go), and the end of the Session and of the life,  *)
(* which both close what is open (as wired in core/trunk).                 *)
(*                                                                         *)
(* A call is named by its place, and so are the transport it opens and the *)
(* exchange it sends.  What is abstracted: one unit and one stream (the    *)
(* transports of several are removed one after the other); the two         *)
(* surfaces, which differ in the words of their answers; a question and a  *)
(* command, which are a call that asks; contents, identities of messages,  *)
(* health and occurrences; what flows and its deliveries; the events       *)
(* published.  What the Core queues is in no order, and what finds no room *)
(* in the queue, which is dropped and goes by as sent, is what the unit    *)
(* never answers.  A life begins with its Session open and told of: how it *)
(* gets there, and a disabling that meets it on the way, is Participation. *)
(***************************************************************************)
EXTENDS Naturals

CONSTANTS
    EndsLate, \* whether a life may begin before the end of an earlier Session is told
    MaxLife,   \* BOUND: the lives of the unit
    MaxCalls   \* BOUND: the calls

ASSUME CallsAssumption ==
    EndsLate \in BOOLEAN /\ MaxLife \in Nat /\ MaxCalls \in Nat

VARIABLES
    life,     \* the last life launched
    up,       \* whether its process runs
    sup,      \* the supervisor, between lives or not, and what it is removing
    sessions,  \* the Session of each life, and the transport its end removes
    asked,    \* how many calls there were
    calls,     \* each call
    exchange, \* what each sent
    flow,     \* the transport each opened
    file      \* whose socket is at the stream's path, 0 for none

unitVars == <<life, up, sup>>
flowVars == <<flow, file>>
streamVars == <<unitVars, sessions, asked, calls, exchange, flowVars>>

Lives == 1..MaxLife
StreamCalls == 1..MaxCalls
CallOrNone == 0..MaxCalls
StreamOps == {"start", "stop", "ask"}

(* marked: ended, and nothing concluded from it yet; told: being concluded. *)
SessionStates == [at : {"none", "open", "marked", "removing", "told", "over"},
             takes : CallOrNone]

(* What a unit answers with: an acceptance or a final answer, or a failure. *)
Answers == {"ok", "failed"}

(* sent, and maybe dropped; heard, and not handed over yet.                *)
Exchange == [at : {"none", "sent", "heard", "handed"}, life : 0..MaxLife,
             answer : Answers \cup {"none"}]
NoExchange == [at |-> "none", life |-> 0, answer |-> "none"]

Steps == {"none", "opening", "instruct", "waiting", "late", "settle",
          "removing", "over"}
Call == [at : Steps, op : StreamOps, got : Answers \cup {"none", "unanswered", "no session"},
         takes : CallOrNone]
NoCall == [at |-> "none", op |-> "ask", got |-> "none", takes |-> 0]
Over == [NoCall EXCEPT !.at = "over"]

StreamInit ==
    /\ life = 0 /\ up = FALSE
    /\ sup = [at |-> "between", takes |-> 0]
    /\ sessions = [l \in Lives |-> [at |-> "none", takes |-> 0]]
    /\ asked = 0
    /\ calls = [n \in StreamCalls |-> NoCall]
    /\ exchange = [n \in StreamCalls |-> NoExchange]
    /\ flow = [n \in StreamCalls |-> "none"]
    /\ file = 0

Flowing == \E f \in StreamCalls : flow[f] = "open"
TheFlow == IF Flowing THEN CHOOSE f \in StreamCalls : flow[f] = "open" ELSE 0
InSession == life # 0 /\ sessions[life].at = "open"

(* What is taken from the map of open transports is whoever took it's to   *)
(* remove. *)
TakesFlow == flow' = [f \in StreamCalls |-> IF flow[f] = "open" THEN "taken" ELSE flow[f]]
IsRemoved(f) == f # 0 => flow[f] = "gone"

--------------------------------------------------------------------------------
(* The calls.                                                              *)

(* What a call looks at first: the unit's state, under the supervisor's    *)
(* mutex, its Session, what that grants, and whether the stream flows: one  *)
(* that does is not started, and one that does not, not stopped.           *)
Asks(op) ==
    /\ asked < MaxCalls /\ sup.at = "watching" /\ InSession
    /\ op = "start" => ~Flowing
    /\ op = "stop" => Flowing
    /\ asked' = asked + 1
    /\ calls' = [calls EXCEPT ![asked + 1] =
                  [NoCall EXCEPT !.at = IF op = "start" THEN "opening" ELSE "instruct",
                                 !.op = op]]
    /\ UNCHANGED <<unitVars, sessions, exchange, flowVars>>

(* Open: refused where another opened it meanwhile. *)
OpensTransport(n) ==
    /\ calls[n].at = "opening"
    /\ IF Flowing
       THEN /\ calls' = [calls EXCEPT ![n] = Over]
            /\ UNCHANGED flowVars
       ELSE /\ calls' = [calls EXCEPT ![n].at = "instruct"]
            /\ flow' = [flow EXCEPT ![n] = "open"]
            /\ file' = n
    /\ UNCHANGED <<unitVars, sessions, asked, exchange>>

(* issue: on the Session the unit holds by now. *)
Instructs(n) ==
    /\ calls[n].at = "instruct"
    /\ IF InSession
       THEN /\ exchange' = [exchange EXCEPT ![n] =
                              [at |-> "sent", life |-> life, answer |-> "none"]]
            /\ calls' = [calls EXCEPT ![n].at = "waiting"]
       ELSE /\ calls' = [calls EXCEPT ![n] = [@ EXCEPT !.at = "settle", !.got = "no session"]]
            /\ UNCHANGED exchange
    /\ UNCHANGED <<unitVars, sessions, asked, flowVars>>

(* A grant that was not looked at before, or was of another Session.       *)
ScopeRefuses(n) ==
    /\ calls[n].at = "instruct" /\ InSession
    /\ calls' = [calls EXCEPT ![n] = [@ EXCEPT !.at = "settle", !.got = "failed"]]
    /\ UNCHANGED <<unitVars, sessions, asked, exchange, flowVars>>

IsAnswered(n) ==
    /\ calls[n].at = "waiting" /\ exchange[n].at = "handed"
    /\ calls' = [calls EXCEPT ![n] = [@ EXCEPT !.at = "settle", !.got = exchange[n].answer]]
    /\ UNCHANGED <<unitVars, sessions, asked, exchange, flowVars>>

SessionIsOver(n) ==
    /\ calls[n].at = "waiting" /\ sessions[exchange[n].life].at = "over"
    /\ calls' = [calls EXCEPT ![n] = [@ EXCEPT !.at = "settle", !.got = "no session"]]
    /\ exchange' = [exchange EXCEPT ![n] = NoExchange]
    /\ UNCHANGED <<unitVars, sessions, asked, flowVars>>

(* Nobody waits any more, and the exchange goes on. *)
TimesOut(n) ==
    /\ calls[n].at = "waiting"
    /\ calls' = [calls EXCEPT ![n].at = "late"]
    /\ UNCHANGED <<unitVars, sessions, asked, exchange, flowVars>>

(* Mutant: what was handed over while the wait ran out is not looked for. *)
GivesUpUnseen(n) ==
    /\ calls[n].at = "late"
    /\ calls' = [calls EXCEPT ![n] = [@ EXCEPT !.at = "settle", !.got = "unanswered"]]
    /\ UNCHANGED <<unitVars, sessions, asked, exchange, flowVars>>

GivesUpWaiting(n) ==
    /\ calls[n].at = "late"
    /\ calls' = [calls EXCEPT ![n] = [@ EXCEPT !.at = "settle",
                                               !.got = IF exchange[n].at = "handed"
                                                        THEN exchange[n].answer
                                                        ELSE "unanswered"]]
    /\ UNCHANGED <<unitVars, sessions, asked, exchange, flowVars>>

(* Mutant: what no Session was told of is not discarded. *)
SettlesUnlessUntold(n) ==
    /\ calls[n].at = "settle"
    /\ IF \/ calls[n].op = "stop"
          \/ calls[n].op = "start" /\ calls[n].got \in {"failed", "unanswered"}
       THEN /\ calls' = [calls EXCEPT ![n] = [@ EXCEPT !.at = "removing", !.takes = TheFlow]]
            /\ exchange' = [exchange EXCEPT ![n] = NoExchange]
            /\ TakesFlow
       ELSE /\ calls' = [calls EXCEPT ![n] = Over]
            /\ UNCHANGED <<exchange, flow>>
    /\ UNCHANGED <<unitVars, sessions, asked, file>>

(* A start that was acknowledged is published; one that was not discards   *)
(* the transport; a stop closes it whatever was answered.  Both take the   *)
(* one that is open by now.                                                *)
Settles(n) ==
    /\ calls[n].at = "settle"
    /\ IF \/ calls[n].op = "stop"
          \/ calls[n].op = "start" /\ calls[n].got # "ok"
       THEN /\ calls' = [calls EXCEPT ![n] = [@ EXCEPT !.at = "removing", !.takes = TheFlow]]
            /\ exchange' = [exchange EXCEPT ![n] = NoExchange]
            /\ TakesFlow
       ELSE /\ calls' = [calls EXCEPT ![n] = Over]
            /\ UNCHANGED <<exchange, flow>>
    /\ UNCHANGED <<unitVars, sessions, asked, file>>

Returns(n) ==
    /\ calls[n].at = "removing" /\ IsRemoved(calls[n].takes)
    /\ calls' = [calls EXCEPT ![n] = Over]
    /\ UNCHANGED <<unitVars, sessions, asked, exchange, flowVars>>

(* remove, and Discard: the socket is closed and what is at its path is    *)
(* removed, whoever has listened there since; a stop that was not discarded *)
(* is published.                                                           *)
RemovesSocket(f) ==
    /\ flow[f] = "taken"
    /\ flow' = [flow EXCEPT ![f] = "gone"]
    /\ file' = 0
    /\ UNCHANGED <<unitVars, sessions, asked, calls, exchange>>

--------------------------------------------------------------------------------
(* The unit, at the other end of its Session.                              *)

(* receive: an answer to what awaits one, while the Session is open. *)
UnitAnswers(n, answer) ==
    /\ up /\ InSession
    /\ exchange[n].at = "sent" /\ exchange[n].life = life
    /\ exchange' = [exchange EXCEPT ![n] = [@ EXCEPT !.at = "heard", !.answer = answer]]
    /\ UNCHANGED <<unitVars, sessions, asked, calls, flowVars>>

(* answered: handed to who still waits, the Session open by now or not.    *)
(* What reaches nobody, a further answer after an acceptance or one that   *)
(* comes late, changes nothing here.                                       *)
HandsOver(n) ==
    /\ exchange[n].at = "heard" /\ calls[n].at = "waiting"
    /\ exchange' = [exchange EXCEPT ![n].at = "handed"]
    /\ UNCHANGED <<unitVars, sessions, asked, calls, flowVars>>

--------------------------------------------------------------------------------
(* The end of a Session, and of a life.                                    *)

(* A life is launched, registers and opens its Session. *)
Begins ==
    /\ sup.at = "between" /\ life < MaxLife
    /\ EndsLate \/ \A l \in Lives : sessions[l].at \in {"none", "over"}
    /\ life' = life + 1 /\ up' = TRUE
    /\ sup' = [sup EXCEPT !.at = "watching"]
    /\ sessions' = [sessions EXCEPT ![life + 1].at = "open"]
    /\ UNCHANGED <<asked, calls, exchange, flowVars>>

UnitExits ==
    /\ up
    /\ up' = FALSE
    /\ UNCHANGED <<life, sup, sessions, asked, calls, exchange, flowVars>>

(* end: the unit closes it, its heartbeats stop, or the Core revokes it.   *)
EndsSession(l) ==
    /\ sessions[l].at = "open"
    /\ sessions' = [sessions EXCEPT ![l].at = "marked"]
    /\ UNCHANGED <<unitVars, asked, calls, exchange, flowVars>>

(* What observes the end closes every transport of the unit, first. *)
SweepsAtEnd(l) ==
    /\ sessions[l].at = "marked"
    /\ sessions' = [sessions EXCEPT ![l] = [at |-> "removing", takes |-> TheFlow]]
    /\ TakesFlow
    /\ UNCHANGED <<unitVars, asked, calls, exchange, file>>

(* Then the machine is told, under the supervisor's mutex, whichever life   *)
(* it is of: one that runs is concluded from it, its process there or not.  *)
(* Who waits is told last.                                                 *)
EndIsTold(l) ==
    /\ sessions[l].at = "removing" /\ IsRemoved(sessions[l].takes)
    /\ sup.at # "removing"
    /\ IF sup.at = "watching"
       THEN /\ sessions' = [sessions EXCEPT ![l].at = "told"]
            /\ sup' = [at |-> "removing", takes |-> TheFlow]
            /\ TakesFlow
       ELSE /\ sessions' = [sessions EXCEPT ![l].at = "over"]
            /\ UNCHANGED <<sup, flow>>
    /\ UNCHANGED <<life, up, asked, calls, exchange, file>>

(* Mutant: an open Session's transports are left for its end to close. *)
SweepsTheEnded ==
    /\ sup.at = "watching" /\ ~up
    /\ IF InSession
       THEN /\ sup' = [at |-> "removing", takes |-> 0]
            /\ UNCHANGED flow
       ELSE /\ sup' = [at |-> "removing", takes |-> TheFlow]
            /\ TakesFlow
    /\ UNCHANGED <<life, up, sessions, asked, calls, exchange, file>>

(* Ended, under the supervisor's mutex: the transports, then the Session,  *)
(* and with it whoever waits for an answer.                                *)
SweepsAtExit ==
    /\ sup.at = "watching" /\ ~up
    /\ sup' = [at |-> "removing", takes |-> TheFlow]
    /\ TakesFlow
    /\ UNCHANGED <<life, up, sessions, asked, calls, exchange, file>>

Forgets ==
    /\ sup.at = "removing" /\ IsRemoved(sup.takes)
    /\ sup' = [at |-> "between", takes |-> 0]
    /\ sessions' = [l \in Lives |->
                     IF sessions[l].at \in {"open", "told"}
                     THEN [sessions[l] EXCEPT !.at = "over"] ELSE sessions[l]]
    /\ UNCHANGED <<life, up, asked, calls, exchange, flowVars>>

--------------------------------------------------------------------------------
GoesOn(n) ==
    \/ OpensTransport(n) \/ Instructs(n) \/ ScopeRefuses(n)
    \/ IsAnswered(n) \/ SessionIsOver(n) \/ TimesOut(n) \/ GivesUpWaiting(n)
    \/ Settles(n) \/ Returns(n)

Closing == SweepsAtExit \/ Forgets \/ \E l \in Lives : SweepsAtEnd(l) \/ EndIsTold(l)

StreamNext ==
    \/ \E op \in StreamOps : Asks(op)
    \/ \E n \in StreamCalls : GoesOn(n) \/ RemovesSocket(n) \/ HandsOver(n)
    \/ \E n \in StreamCalls, answer \in Answers : UnitAnswers(n, answer)
    \/ \E l \in Lives : EndsSession(l)
    \/ Begins \/ UnitExits \/ Closing

StreamSpec == StreamInit /\ [][StreamNext]_streamVars

CoreGoesOn == Closing \/ \E n \in StreamCalls : GoesOn(n) \/ RemovesSocket(n)

(* Every goroutine of the Core goes on, and a wait has its deadline.  None *)
(* can starve another: calls and lives are bounded, and each takes a       *)
(* bounded number of steps.  The unit need not read, answer, close or      *)
(* exit, and nobody has to ask.                                            *)
StreamFairness == WF_streamVars(CoreGoesOn)

StreamFairSpec == StreamSpec /\ StreamFairness

--------------------------------------------------------------------------------
(* Every variable has its type. *)
StreamTypeOK ==
    /\ life \in 0..MaxLife /\ up \in BOOLEAN
    /\ sup \in [at : {"between", "watching", "removing"}, takes : CallOrNone]
    /\ sessions \in [Lives -> SessionStates]
    /\ asked \in CallOrNone
    /\ calls \in [StreamCalls -> Call]
    /\ exchange \in [StreamCalls -> Exchange]
    /\ flow \in [StreamCalls -> {"none", "open", "taken", "gone"}]
    /\ file \in CallOrNone

(* "The transport goes in all three": one that is open, and that the start *)
(* which opened it is not answering for any more, is of the Session that    *)
(* was told of it, which is open, or closes it next, whichever calls, ends  *)
(* and exits met; and a socket at the path is of a transport that is open,  *)
(* or about to be removed.                                                 *)
IsStarting(n) == calls[n].at \in {"instruct", "waiting", "late", "settle"}
IsKept(l) == l # 0 /\ sessions[l].at \in {"open", "marked"}

NothingKept ==
    /\ \A f \in StreamCalls :
        flow[f] = "open" => IsStarting(f) \/ IsKept(exchange[f].life)
    /\ file # 0 => flow[file] \in {"open", "taken"}

(* An answer handed over while the wait ran out is still the caller's: who *)
(* is told that the unit did not answer was handed nothing.                *)
AnswerKept ==
    \A n \in StreamCalls : calls[n].got = "unanswered" => exchange[n].at # "handed"

(* A transport does not outlive the Session that was told of it. *)
FlowsEnd ==
    \A f \in StreamCalls :
        flow[f] = "open" /\ exchange[f].life # 0 /\ ~IsKept(exchange[f].life)
            ~> flow[f] = "gone"

================================================================================
