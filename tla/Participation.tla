----------------------------- MODULE Participation -----------------------------
(***************************************************************************)
(* How a unit comes to take part, and how it is made to stop: a process    *)
(* presents its token (internal/core/admission), opens the one Session its *)
(* admission names (internal/core/session), and the unit's machine         *)
(* (internal/core/supervisor) is told of both; an operator disables the    *)
(* plugin (internal/core/admin) and every copy is reached.                 *)
(*                                                                         *)
(* Four locks are involved and none is held across two of these parts.     *)
(* Each critical section is an action, and what a handler does between two *)
(* of them may be overtaken: a registration reads the policy, spends the   *)
(* token, is decided and is told in four steps; a Session is looked up,    *)
(* opened and told in three; disabling looks at a unit and then acts.      *)
(*                                                                         *)
(* What is abstracted: all the units are copies of one plugin; a token and *)
(* a Session's identity are named by the life they were issued for, which  *)
(* is unique; the stages that compare declarations refuse or not; the      *)
(* instruction to stop and the startup window, which end a life as an exit *)
(* does here, are Supervisor's.                                            *)
(***************************************************************************)
EXTENDS UnitMachine, Naturals

CONSTANTS
    Units,    \* the copies of the plugin
    MaxLives  \* BOUND: the lives of a unit

ASSUME LivesAssumption == MaxLives \in Nat \ {0}

VARIABLES
    enabled, \* the Registry's policy for the plugin
    unit,    \* the supervisor's machine of each unit, and the life it is of
    alive,   \* the lives whose process is there
    token,   \* the token issued for each unit's last launch, and whether it is
             \* good yet: not spent, and in its window
    call,    \* the registrations of each life: the first, and a retry
    live,    \* admission's account of who is live: the life, 0 for none
    session, \* the Session of each life
    op,      \* the disabling under way: the copies left, where it has got to
    strayed  \* history: the units a call about an ended life has moved

vars == <<enabled, unit, alive, token, call, live, session, op, strayed>>

Numbers == 1..MaxLives
Tries == {"first", "retry"}

(* A registration: not made; past the policy; past the token; decided and  *)
(* not yet told; admitted; refused.                                        *)
Calls == {"none", "seen", "spent", "accepted", "declined", "admitted", "over"}
Deciding == {"seen", "spent", "accepted", "declined"}

(* A Session: whether the machine was told it opened, and the end it has   *)
(* not been told yet.                                                      *)
Sessions == [at : {"none", "found", "open", "ended"}, told : BOOLEAN,
             end : {"", "SessionLost", "SessionWithdrawn"}]
NoSession == [at |-> "none", told |-> FALSE, end |-> ""]

(* What the supervisor keeps of a unit: its life is 0 where it has none. *)
Copies == [state : States, life : 0..MaxLives, lives : Numbers]
Tokens == [life : 0..MaxLives, good : BOOLEAN]

Ops == [at : {"next", "revoke", "withdraw", "telling"},
        unit : Units \cup {""}, left : SUBSET Units]
NoOp == [at |-> "next", unit |-> "", left |-> {}]

Init ==
    /\ enabled = TRUE
    /\ unit = [u \in Units |-> [state |-> "Starting", life |-> 1, lives |-> 1]]
    /\ alive = [u \in Units |-> {1}]
    /\ token = [u \in Units |-> [life |-> 1, good |-> TRUE]]
    /\ call = [u \in Units |-> [k \in Numbers |-> [t \in Tries |-> "none"]]]
    /\ live = [u \in Units |-> 0]
    /\ session = [u \in Units |-> [k \in Numbers |-> NoSession]]
    /\ op = NoOp
    /\ strayed = {}

--------------------------------------------------------------------------------
(* What the handlers are built from.                                       *)

(* Session.Forget: every Session of a unit ends, and nobody is told. *)
Forgotten(row) ==
    [k \in Numbers |-> IF row[k].at = "open"
                       THEN [row[k] EXCEPT !.at = "ended"] ELSE row[k]]

(* Mutant: the Sessions of a life go on when it ends. *)
ConcludedOpen(u, row) ==
    live' = [live EXCEPT ![u] = 0] /\ session' = [session EXCEPT ![u] = row]

(* What concluding a life does outside the supervisor, under its lock:     *)
(* admission releases the unit and its Sessions are forgotten.             *)
Concluded(u, row) ==
    /\ live' = [live EXCEPT ![u] = 0]
    /\ session' = [session EXCEPT ![u] = Forgotten(row)]

(* A handler acts on the unit, and not on the life it was called about: it *)
(* strays when that life is over.  Nothing prevents it; strayed tells the  *)
(* units it happened to.                                                   *)
Strays(u, over) == strayed' = IF over THEN strayed \cup {u} ELSE strayed

(* apply: the machine of a unit weighs an input; row is what its Sessions  *)
(* are before.  The input names the unit, and not the life k it is about.  *)
Tell(u, k, in, row) ==
    LET m == [state |-> unit[u].state, asked |-> FALSE]
        to == Apply("plugin", m, in).state
    IN /\ unit' = [unit EXCEPT ![u].state = to]
       /\ Strays(u, to # m.state /\ unit[u].life # k)
       /\ IF to # m.state /\ Terminal(to)
          THEN Concluded(u, row)
          ELSE live' = live /\ session' = [session EXCEPT ![u] = row]

(* Whether a call about the unit goes on: a registration being decided, or *)
(* a Session found and not opened, opened or ended and not told.           *)
InHand(u) ==
    \E k \in Numbers :
        \/ \E t \in Tries : call[u][k][t] \in Deciding
        \/ session[u][k].at = "found"
        \/ session[u][k].at \in {"open", "ended"} /\ ~session[u][k].told
        \/ session[u][k].end # ""

(* A unit of this kind is launched again after a failure, once its process *)
(* is gone.                                                                *)
Waiting(u) == unit[u].state = "Failed" /\ unit[u].life \notin alive[u]

SetCall(u, k, t, to) == call' = [call EXCEPT ![u][k][t] = to]

--------------------------------------------------------------------------------
(* Registration: Admission.Register.                                       *)

(* Stages 1 to 3: the policy is read, and a disabled plugin is refused. *)
Present(u, k, t) ==
    /\ k \in alive[u]
    /\ call[u][k][t] = "none"
    /\ t = "retry" => call[u][k]["first"] # "none"
    /\ SetCall(u, k, t, IF enabled THEN "seen" ELSE "over")
    /\ UNCHANGED <<enabled, unit, alive, token, live, session, op, strayed>>

(* Mutant: a token is not marked. *)
SpendTwice(u, k, t) ==
    /\ call[u][k][t] = "seen"
    /\ SetCall(u, k, t, IF token[u].life = k THEN "spent" ELSE "over")
    /\ UNCHANGED <<enabled, unit, alive, token, live, session, op, strayed>>

(* Stage 4: a token that is not this launch's, that was spent or is past   *)
(* its window is refused, and nobody but the caller hears of it.           *)
Spend(u, k, t) ==
    /\ call[u][k][t] = "seen"
    /\ \/ /\ token[u] = [life |-> k, good |-> TRUE]
          /\ token' = [token EXCEPT ![u].good = FALSE]
          /\ \E to \in {"spent", "over"} : SetCall(u, k, t, to)
       \/ /\ token[u] # [life |-> k, good |-> TRUE]
          /\ SetCall(u, k, t, "over")
          /\ UNCHANGED token
    /\ UNCHANGED <<enabled, unit, alive, live, session, op, strayed>>

(* Stages 5 to 9: a declaration that diverges is refused, and so is a unit *)
(* that is live; anything else is a commitment, to a life that may be over *)
(* by now.                                                                 *)
Decide(u, k, t) ==
    /\ call[u][k][t] = "spent"
    /\ \/ SetCall(u, k, t, "declined") /\ live' = live
       \/ /\ live[u] = 0
          /\ live' = [live EXCEPT ![u] = k]
          /\ SetCall(u, k, t, "accepted")
    /\ Strays(u, live' # live /\ (unit[u].life # k \/ Terminal(unit[u].state)))
    /\ UNCHANGED <<enabled, unit, alive, token, session, op>>

(* The outcome reaches the unit's machine, and then its process. *)
TellAdmission(u, k, t) ==
    /\ \/ /\ call[u][k][t] = "accepted"
          /\ Tell(u, k, "AdmissionAccepted", session[u])
          /\ SetCall(u, k, t, "admitted")
       \/ /\ call[u][k][t] = "declined"
          /\ Tell(u, k, "AdmissionDeclined", session[u])
          /\ SetCall(u, k, t, "over")
    /\ UNCHANGED <<enabled, alive, token, op>>

--------------------------------------------------------------------------------
(* The Session.                                                            *)

(* The process names the Session its admission gave it, and it is found    *)
(* while admission still holds it.                                         *)
Find(u, k) ==
    /\ k \in alive[u]
    /\ \E t \in Tries : call[u][k][t] = "admitted"
    /\ session[u][k].at = "none"
    /\ live[u] = k
    /\ session' = [session EXCEPT ![u][k].at = "found"]
    /\ UNCHANGED <<enabled, unit, alive, token, call, live, op, strayed>>

(* It is opened, and its heartbeat timer armed, though the admission that  *)
(* named it may be released by now.                                        *)
OpenSession(u, k) ==
    /\ session[u][k].at = "found"
    /\ session' = [session EXCEPT ![u][k].at = "open"]
    /\ Strays(u, live[u] # k)
    /\ UNCHANGED <<enabled, unit, alive, token, call, live, op>>

TellOpened(u, k) ==
    /\ session[u][k].at \in {"open", "ended"}
    /\ ~session[u][k].told
    /\ Tell(u, k, "SessionOpened", [session[u] EXCEPT ![k].told = TRUE])
    /\ UNCHANGED <<enabled, alive, token, call, op>>

(* end: once, whoever comes first; the machine is told outside the lock. *)
EndSession(u, k, why) ==
    /\ session[u][k].at = "open"
    /\ session' = [session EXCEPT ![u][k] = [@ EXCEPT !.at = "ended", !.end = why]]

(* The unit closes it, once its stream is served. *)
CloseSession(u, k) ==
    /\ k \in alive[u]
    /\ session[u][k].told
    /\ EndSession(u, k, "SessionLost")
    /\ UNCHANGED <<enabled, unit, alive, token, call, live, op, strayed>>

(* No heartbeat arrived in time: the process is gone, or silent. *)
HeartbeatLost(u, k) ==
    /\ EndSession(u, k, "SessionLost")
    /\ UNCHANGED <<enabled, unit, alive, token, call, live, op, strayed>>

(* Whoever ended it tells the machine; disabling goes on to the next copy  *)
(* once it has.                                                            *)
TellEnded(u, k) ==
    LET why == session[u][k].end
    IN /\ why # ""
       /\ Tell(u, k, why, [session[u] EXCEPT ![k].end = ""])
       /\ op' = IF why = "SessionWithdrawn" THEN [op EXCEPT !.at = "next"] ELSE op
       /\ UNCHANGED <<enabled, alive, token, call>>

--------------------------------------------------------------------------------
(* The supervisor.                                                         *)

(* Mutant: whichever process ends, the unit is released. *)
ExitsAnyones(u, k) ==
    /\ k \in alive[u]
    /\ alive' = [alive EXCEPT ![u] = @ \ {k}]
    /\ IF k = unit[u].life THEN Tell(u, k, "ExitedNonzero", session[u])
       ELSE Concluded(u, session[u]) /\ UNCHANGED <<unit, strayed>>
    /\ UNCHANGED <<enabled, token, call, op>>

(* A process ends, whatever the reason: a crash, a signal, its own end. *)
Exits(u, k) ==
    /\ k \in alive[u]
    /\ alive' = [alive EXCEPT ![u] = @ \ {k}]
    /\ IF k = unit[u].life THEN Tell(u, k, "ExitedNonzero", session[u])
       ELSE UNCHANGED <<unit, live, session, strayed>>
    /\ UNCHANGED <<enabled, token, call, op>>

(* attempt, where the plugin is disabled: Refused, with no life. *)
DeclinedAt(u) ==
    /\ unit' = [unit EXCEPT ![u] = [@ EXCEPT !.state = "Refused", !.life = 0]]
    /\ UNCHANGED <<live, session, strayed>>

(* attempt: a new token, and a new life; or, before the token or after it, *)
(* a failure before there is a process.                                    *)
Launch(u) ==
    LET k == unit[u].lives + 1
    IN /\ Terminal(unit[u].state)
       /\ \/ /\ ~enabled
             /\ DeclinedAt(u)
             /\ UNCHANGED <<alive, token>>
          \/ /\ enabled
             /\ k \in Numbers
             /\ unit' = [unit EXCEPT ![u] =
                             [state |-> "Starting", life |-> k, lives |-> k]]
             /\ alive' = [alive EXCEPT ![u] = @ \cup {k}]
             /\ token' = [token EXCEPT ![u] = [life |-> k, good |-> TRUE]]
             /\ UNCHANGED <<live, session, strayed>>
          \/ /\ enabled
             /\ unit' = [unit EXCEPT ![u] = [@ EXCEPT !.state = "Failed", !.life = 0]]
             /\ token' \in {token, [token EXCEPT ![u] = [life |-> 0, good |-> TRUE]]}
             /\ Concluded(u, session[u])
             /\ UNCHANGED <<alive, strayed>>
       /\ UNCHANGED <<enabled, call, op>>

--------------------------------------------------------------------------------
(* Disabling and enabling the plugin.                                      *)

(* The policy changes, and then every copy is gone through.  A disabling   *)
(* asked for while another is under way is not modelled.                   *)
Disable ==
    /\ enabled
    /\ op = NoOp
    /\ enabled' = FALSE
    /\ op' = [op EXCEPT !.left = Units]
    /\ UNCHANGED <<unit, alive, token, call, live, session, strayed>>

Enable ==
    /\ ~enabled
    /\ enabled' = TRUE
    /\ UNCHANGED <<unit, alive, token, call, live, session, op, strayed>>

OpenOf(u) == {k \in Numbers : session[u][k].at = "open"}

(* Whether the copy holds a Session decides what is done about it. *)
Look(u) ==
    /\ op.at = "next"
    /\ u \in op.left
    /\ op' = [at |-> IF OpenOf(u) # {} THEN "revoke" ELSE "withdraw",
              unit |-> u, left |-> op.left \ {u}]
    /\ UNCHANGED <<enabled, unit, alive, token, call, live, session, strayed>>

(* Its Session is revoked, if it still holds one. *)
Revoke(u) ==
    /\ op.at = "revoke"
    /\ op.unit = u
    /\ \/ /\ \E k \in OpenOf(u) : EndSession(u, k, "SessionWithdrawn")
          /\ op' = [op EXCEPT !.at = "telling"]
       \/ /\ OpenOf(u) = {}
          /\ op' = [op EXCEPT !.at = "next"]
          /\ UNCHANGED session
    /\ UNCHANGED <<enabled, unit, alive, token, call, live, strayed>>

(* Withdraw: what is done depends on the state, and a unit with a Session, *)
(* or one that ended, is left as it is.                                    *)
Withdraw(u) ==
    /\ op.at = "withdraw"
    /\ op.unit = u
    /\ op' = [op EXCEPT !.at = "next"]
    /\ CASE unit[u].state = "Starting" ->
                Tell(u, unit[u].life, "AdmissionDeclined", session[u])
         [] unit[u].state = "Admitted" ->
                Tell(u, unit[u].life, "AdmissionWithdrawn", session[u])
         [] Waiting(u) -> DeclinedAt(u)
         [] OTHER -> UNCHANGED <<unit, live, session, strayed>>
    /\ UNCHANGED <<enabled, alive, token, call>>

--------------------------------------------------------------------------------
RegisterNext(u, k) ==
    \E t \in Tries : \/ Present(u, k, t) \/ Spend(u, k, t)
                     \/ Decide(u, k, t) \/ TellAdmission(u, k, t)

SessionNext(u, k) ==
    \/ Find(u, k) \/ OpenSession(u, k) \/ TellOpened(u, k)
    \/ CloseSession(u, k) \/ HeartbeatLost(u, k) \/ TellEnded(u, k)

PolicyNext ==
    \/ Disable \/ Enable
    \/ \E u \in Units : Look(u) \/ Revoke(u) \/ Withdraw(u)

Next ==
    \/ \E u \in Units : Launch(u)
    \/ \E u \in Units, k \in Numbers :
           RegisterNext(u, k) \/ SessionNext(u, k) \/ Exits(u, k)
    \/ PolicyNext

Spec == Init /\ [][Next]_vars

--------------------------------------------------------------------------------
(* What is to hold.                                                        *)

(* What each variable holds.                                               *)
TypeOK ==
    /\ enabled \in BOOLEAN
    /\ unit \in [Units -> Copies]
    /\ alive \in [Units -> SUBSET Numbers]
    /\ token \in [Units -> Tokens]
    /\ call \in [Units -> [Numbers -> [Tries -> Calls]]]
    /\ live \in [Units -> 0..MaxLives]
    /\ session \in [Units -> [Numbers -> Sessions]]
    /\ op \in Ops
    /\ strayed \subseteq Units

(* Calls outlive the life they are about: a registration that was past the *)
(* token, a Session found or told. Whatever they overtake, they do harm at *)
(* three points only, which strayed tells: where the machine of a later    *)
(* life takes the outcome (admission.go:125, 138; session.go:212), where a *)
(* life that is over is admitted (admission.go:214), and where its Session *)
(* is opened (session.go:192-202).                                         *)

(* Session.Of returns the first Session of a unit it finds: there is never *)
(* more than one, unless a call strayed.                                   *)
OneSession == \A u \in Units \ strayed : \A k, l \in OpenOf(u) : k = l

(* Register commits before it tells: a unit that takes part is, to         *)
(* admission, the life that is going on, unless a call strayed.            *)
ParticipantIsLive ==
    \A u \in Units \ strayed :
        unit[u].state \in {"Admitted", "Running"} => live[u] = unit[u].life

(* Register tells the machine only of a refusal that is the unit's own: no *)
(* registration, whichever process makes it and whatever it presents,      *)
(* refuses a unit whose life was accepted, unless a call strayed.          *)
AdmissionKept ==
    [][\A u \in Units \ strayed' :
           (/\ unit[u].state # "Refused"
            /\ unit'[u].state = "Refused"
            /\ call' # call)
           => \A t \in Tries :
                  call[u][unit[u].life][t] \notin {"accepted", "admitted"}]_vars

(* operations.go of policy: disabling reaches every copy whose life has    *)
(* not ended.  Once it has gone through them, with the plugin disabled,    *)
(* every copy ended or a call about it is still under way.                 *)
DisablingReaches ==
    ~enabled /\ op.at = "next" /\ op.left = {}
        => \A u \in Units : Terminal(unit[u].state) \/ InHand(u)

================================================================================
