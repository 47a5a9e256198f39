---------------------------- MODULE SessionsProofs -----------------------------
(*****************************************************************************)
(* What a unit's Session carries, for every number of copies, of calls and   *)
(* of lives. Until a call acts on a life it is not about: a unit that takes  *)
(* part is live to admission, no registration refuses one that was           *)
(* accepted, and no two Sessions of it are open. And                         *)
(* no answer handed over is lost to its caller, nor, where a life does not   *)
(* begin before the end of an earlier Session is told, does a transport      *)
(* outlive the Session that was told of it.                                  *)
(*                                                                           *)
(* Participation rests on what a token is good for: of a life, one           *)
(* registration gets past it, so none is refused beside one accepted. And    *)
(* on admission's account: while no call strayed, who is live is the life    *)
(* going on, since what ends a life releases it, with its Sessions; so is    *)
(* who was accepted and not told, and who has a Session open. Calls about    *)
(* a life that is over stay under way all the same: they find the machine    *)
(* ended, or in a state that ignores them, or they stray.                    *)
(*                                                                           *)
(* The transports rest on when one whose start was answered is taken:        *)
(* before its Session is concluded, and, where the life ends first, before   *)
(* the Session is forgotten, while nothing is there to answer any more.      *)
(*****************************************************************************)
EXTENDS Participation, Streams, TLAPS

(* The registrations past the token. *)
Past == {"spent", "accepted", "declined", "admitted"}

LifeInv(u) ==
    /\ ~Terminal(unit[u].state) => unit[u].life # 0
    /\ unit[u].life \in {0, unit[u].lives}
    /\ token[u].life \in {0, unit[u].lives}
    /\ \A k \in alive[u] : k <= unit[u].lives
    /\ \A k \in Numbers : k > unit[u].lives =>
           \A t \in Tries : call[u][k][t] = "none"

TokenInv(u) ==
    \A k \in Numbers, t \in Tries :
        call[u][k][t] \in Past =>
            /\ token[u].life = k => ~token[u].good
            /\ \A s \in Tries \ {t} : call[u][k][s] \notin Past

(* What admission says of a unit no call has strayed about: whoever is     *)
(* live is the life going on, and so is whoever was accepted, takes part   *)
(* or has a Session open.                                                  *)
AccountInv(u) ==
    /\ live[u] # 0 => live[u] = unit[u].life /\ ~Terminal(unit[u].state)
    /\ \A k \in Numbers, t \in Tries :
           call[u][k][t] = "accepted" /\ k = unit[u].life /\ ~Terminal(unit[u].state)
               => live[u] = k
    /\ unit[u].state \in {"Admitted", "Running"} => live[u] = unit[u].life
    /\ \A k \in Numbers : session[u][k].at = "open" => live[u] = k

UnitInv(u) == LifeInv(u) /\ TokenInv(u) /\ (u \notin strayed => AccountInv(u))

Inv == TypeOK /\ \A u \in Units : UnitInv(u)

--------------------------------------------------------------------------------
(* What the machine makes of what these parts tell it.                     *)

To(u, in) ==
    Apply("plugin", [state |-> unit[u].state, asked |-> FALSE], in).state

LEMMA Weighing ==
    ASSUME NEW u \in Units, unit[u].state \in States
    PROVE  /\ To(u, "AdmissionAccepted") =
                IF unit[u].state = "Starting" THEN "Admitted" ELSE unit[u].state
           /\ To(u, "AdmissionDeclined") =
                IF unit[u].state = "Starting" THEN "Refused" ELSE unit[u].state
           /\ To(u, "AdmissionWithdrawn") =
                IF unit[u].state \in {"Admitted", "Running"} THEN "Refused"
                ELSE unit[u].state
           /\ To(u, "SessionOpened") =
                IF unit[u].state = "Admitted" THEN "Running" ELSE unit[u].state
           /\ To(u, "SessionLost") =
                IF unit[u].state = "Running" THEN "Failed" ELSE unit[u].state
           /\ To(u, "SessionWithdrawn") =
                IF unit[u].state = "Running" THEN "Refused" ELSE unit[u].state
           /\ To(u, "ExitedNonzero") =
                IF Terminal(unit[u].state) THEN unit[u].state ELSE "Failed"
  BY DEF To, Apply, Weighed, Exited, States, TerminalStates, Terminal

Told == {"AdmissionAccepted", "AdmissionDeclined", "AdmissionWithdrawn",
         "SessionOpened", "SessionLost", "SessionWithdrawn", "ExitedNonzero"}

LEMMA ToAState ==
    ASSUME NEW u \in Units, unit[u].state \in States, NEW in \in Told
    PROVE  To(u, in) \in States
  BY Weighing DEF Told, States, TerminalStates

(* Forgetting leaves Sessions Sessions. *)
LEMMA ForgottenSessions ==
    ASSUME NEW row \in [Numbers -> Sessions]
    PROVE  Forgotten(row) \in [Numbers -> Sessions]
  BY DEF Forgotten, Sessions

(* What telling changes. *)
LEMMA Telling ==
    ASSUME TypeOK, NEW u \in Units, NEW in \in Told,
           NEW row \in [Numbers -> Sessions], NEW l, Tell(u, l, in, row)
    PROVE  /\ unit' = [unit EXCEPT ![u].state = To(u, in)]
           /\ strayed' = IF To(u, in) # unit[u].state /\ unit[u].life # l
                         THEN strayed \cup {u} ELSE strayed
           /\ live' \in {live, [live EXCEPT ![u] = 0]}
           /\ live' # live =>
                Terminal(To(u, in)) /\ To(u, in) # unit[u].state
           /\ session' \in [Units -> [Numbers -> Sessions]]
<1>1. /\ unit' = [unit EXCEPT ![u].state = To(u, in)]
      /\ strayed' = IF To(u, in) # unit[u].state /\ unit[u].life # l
                    THEN strayed \cup {u} ELSE strayed
  BY DEF Tell, To, Strays
<1>2. CASE To(u, in) # unit[u].state /\ Terminal(To(u, in))
  <2>1. Concluded(u, row) BY <1>2 DEF Tell, To
  <2> QED BY <1>1, <1>2, <2>1, ForgottenSessions DEF Concluded, TypeOK
<1>3. CASE ~(To(u, in) # unit[u].state /\ Terminal(To(u, in)))
  <2>1. live' = live /\ session' = [session EXCEPT ![u] = row]
    BY <1>3 DEF Tell, To
  <2> QED BY <1>1, <2>1 DEF TypeOK
<1> QED BY <1>2, <1>3

--------------------------------------------------------------------------------
(* Types.                                                                  *)

(* A field of a record, an entry of a row, stays what it is. *)
LEMMA SessionFields ==
    ASSUME NEW r \in Sessions
    PROVE  /\ \A at \in {"found", "open", "ended"} : [r EXCEPT !.at = at] \in Sessions
           /\ [r EXCEPT !.told = TRUE] \in Sessions
           /\ [r EXCEPT !.end = ""] \in Sessions
           /\ \A why \in {"SessionLost", "SessionWithdrawn"} :
                 [r EXCEPT !.at = "ended", !.end = why] \in Sessions
  BY DEF Sessions

LEMMA CopyFields ==
    ASSUME NEW r \in Copies
    PROVE  /\ \A to \in States : [r EXCEPT !.state = to] \in Copies
           /\ \A to \in States : [r EXCEPT !.state = to, !.life = 0] \in Copies
<1>1. 0 \in 0..MaxLives
  BY LivesAssumption
<1> QED BY <1>1 DEF Copies

LEMMA InRow ==
    ASSUME NEW S, NEW f \in [Units -> [Numbers -> S]],
           NEW u \in Units, NEW k \in Numbers, NEW v \in S
    PROVE  [f EXCEPT ![u][k] = v] \in [Units -> [Numbers -> S]]
  OBVIOUS

LEMMA EndedSessions ==
    ASSUME TypeOK, NEW u \in Units, NEW k \in Numbers,
           NEW why \in {"SessionLost", "SessionWithdrawn"}, EndSession(u, k, why)
    PROVE  session' \in [Units -> [Numbers -> Sessions]]
<1>1. session[u][k] \in Sessions
  BY DEF TypeOK
<1>2. [session[u][k] EXCEPT !.at = "ended", !.end = why] \in Sessions
  BY <1>1, SessionFields
<1>3. session' = [session EXCEPT ![u][k] =
                     [session[u][k] EXCEPT !.at = "ended", !.end = why]]
  BY DEF EndSession, TypeOK
<1> QED BY <1>2, <1>3, InRow DEF TypeOK

LEMMA TypeInit == Init => TypeOK
<1> SUFFICES ASSUME Init PROVE TypeOK
  OBVIOUS
<1>1. 1 \in Numbers /\ 0 \in 0..MaxLives /\ 1 \in 0..MaxLives
  BY LivesAssumption DEF Numbers
<1>2. unit \in [Units -> Copies] /\ token \in [Units -> Tokens]
  BY <1>1 DEF Init, Copies, Tokens, States
<1>3. session \in [Units -> [Numbers -> Sessions]]
  BY DEF Init, Sessions, NoSession
<1>4. call \in [Units -> [Numbers -> [Tries -> Calls]]]
  BY DEF Init, Calls
<1>5. op \in Ops
  BY DEF Init, Ops, NoOp
<1> QED
  BY <1>2, <1>1, <1>3, <1>4, <1>5 DEF Init, TypeOK

LEMMA TypeTold ==
    ASSUME TypeOK, NEW u \in Units, NEW in \in Told,
           NEW row \in [Numbers -> Sessions], NEW l, Tell(u, l, in, row)
    PROVE  /\ unit' \in [Units -> Copies]
           /\ strayed' \subseteq Units
           /\ live' \in [Units -> 0..MaxLives]
           /\ session' \in [Units -> [Numbers -> Sessions]]
<1>1. To(u, in) \in States
  <2>1. unit[u].state \in States BY DEF TypeOK, Copies
  <2> QED BY <2>1, ToAState
<1>2. /\ unit' = [unit EXCEPT ![u].state = To(u, in)]
      /\ live' \in {live, [live EXCEPT ![u] = 0]}
      /\ session' \in [Units -> [Numbers -> Sessions]]
      /\ strayed' \subseteq Units
  BY Telling DEF TypeOK
<1>3. 0 \in 0..MaxLives
  BY LivesAssumption
<1>4. [unit[u] EXCEPT !.state = To(u, in)] \in Copies
  BY <1>1, CopyFields DEF TypeOK
<1>5. unit' \in [Units -> Copies]
  BY <1>2, <1>4 DEF TypeOK
<1>6. live' \in [Units -> 0..MaxLives]
  BY <1>2, <1>3 DEF TypeOK
<1> QED BY <1>2, <1>5, <1>6

LEMMA TypeRegister ==
    ASSUME TypeOK, NEW u \in Units, NEW k \in Numbers, RegisterNext(u, k)
    PROVE  TypeOK'
<1> PICK t \in Tries : \/ Present(u, k, t) \/ Spend(u, k, t)
                       \/ Decide(u, k, t) \/ TellAdmission(u, k, t)
  BY DEF RegisterNext
<1>1. ASSUME NEW to \in Calls, SetCall(u, k, t, to)
      PROVE  call' \in [Units -> [Numbers -> [Tries -> Calls]]]
  <2>1. [call[u][k] EXCEPT ![t] = to] \in [Tries -> Calls]
    BY DEF TypeOK
  <2> QED BY <1>1, <2>1, InRow DEF SetCall, TypeOK
<1>2. CASE Present(u, k, t)
  <2>1. call' \in [Units -> [Numbers -> [Tries -> Calls]]]
    BY <1>1, <1>2 DEF Present, Calls
  <2> QED BY <1>2, <2>1 DEF Present, TypeOK
<1>3. CASE Spend(u, k, t)
  <2>1. call' \in [Units -> [Numbers -> [Tries -> Calls]]]
    BY <1>1, <1>3 DEF Spend, Calls
  <2>2. token' \in [Units -> Tokens]
    <3>1. [token[u] EXCEPT !.good = FALSE] \in Tokens
      BY DEF TypeOK, Tokens
    <3> QED BY <1>3, <3>1 DEF Spend, TypeOK
  <2> QED BY <1>3, <2>1, <2>2 DEF Spend, TypeOK
<1>4. CASE Decide(u, k, t)
  <2>1. call' \in [Units -> [Numbers -> [Tries -> Calls]]]
    BY <1>1, <1>4 DEF Decide, Calls
  <2>2. k \in 0..MaxLives
    BY DEF Numbers
  <2>3. live' \in [Units -> 0..MaxLives]
    BY <1>4, <2>2 DEF Decide, TypeOK
  <2> QED BY <1>4, <2>1, <2>3 DEF Decide, Strays, TypeOK
<1>5. CASE TellAdmission(u, k, t)
  <2>1. call' \in [Units -> [Numbers -> [Tries -> Calls]]]
    BY <1>1, <1>5 DEF TellAdmission, Calls
  <2>2. PICK in \in Told : Tell(u, k, in, session[u])
    BY <1>5 DEF TellAdmission, Told
  <2>3. session[u] \in [Numbers -> Sessions]
    BY DEF TypeOK
  <2>4. /\ unit' \in [Units -> Copies]
        /\ strayed' \subseteq Units
        /\ live' \in [Units -> 0..MaxLives]
        /\ session' \in [Units -> [Numbers -> Sessions]]
    BY <2>2, <2>3, TypeTold
  <2> QED BY <1>5, <2>1, <2>4 DEF TellAdmission, TypeOK
<1> QED BY <1>2, <1>4, <1>3, <1>5

LEMMA TypeSession ==
    ASSUME TypeOK, NEW u \in Units, NEW k \in Numbers, SessionNext(u, k)
    PROVE  TypeOK'
<1>0. session[u][k] \in Sessions /\ session[u] \in [Numbers -> Sessions]
  BY DEF TypeOK
<1> DEFINE Typed == session' \in [Units -> [Numbers -> Sessions]]
<1>1. CASE Find(u, k)
  <2>1. [session[u][k] EXCEPT !.at = "found"] \in Sessions
    BY <1>0, SessionFields
  <2>2. Typed BY <1>1, <2>1, InRow DEF Find, TypeOK
  <2> QED BY <1>1, <2>2 DEF Find, TypeOK
<1>2. CASE OpenSession(u, k)
  <2>1. [session[u][k] EXCEPT !.at = "open"] \in Sessions
    BY <1>0, SessionFields
  <2>2. Typed BY <1>2, <2>1, InRow DEF OpenSession, TypeOK
  <2> QED BY <1>2, <2>2 DEF OpenSession, Strays, TypeOK
<1>3. CASE CloseSession(u, k) \/ HeartbeatLost(u, k)
  <2>1. EndSession(u, k, "SessionLost")
    BY <1>3 DEF CloseSession, HeartbeatLost
  <2>2. Typed BY <2>1, EndedSessions
  <2> QED BY <1>3, <2>2 DEF CloseSession, HeartbeatLost, TypeOK
<1>5. CASE TellOpened(u, k)
  <2> DEFINE row == [session[u] EXCEPT ![k].told = TRUE]
  <2>1. row \in [Numbers -> Sessions]
    <3>1. [session[u][k] EXCEPT !.told = TRUE] \in Sessions
      BY <1>0, SessionFields
    <3> QED BY <1>0, <3>1
  <2>2. Tell(u, k, "SessionOpened", row) /\ "SessionOpened" \in Told
    BY <1>5 DEF TellOpened, Told
  <2> HIDE DEF row
  <2>4. /\ unit' \in [Units -> Copies]
        /\ strayed' \subseteq Units
        /\ live' \in [Units -> 0..MaxLives]
        /\ Typed
    BY <2>1, <2>2, TypeTold
  <2> QED BY <1>5, <2>4 DEF TellOpened, TypeOK
<1>6. CASE TellEnded(u, k)
  <2> DEFINE row == [session[u] EXCEPT ![k].end = ""]
             why == session[u][k].end
  <2>1. row \in [Numbers -> Sessions]
    <3>1. [session[u][k] EXCEPT !.end = ""] \in Sessions
      BY <1>0, SessionFields
    <3> QED BY <1>0, <3>1
  <2>2. Tell(u, k, why, row)
    BY <1>6 DEF TellEnded
  <2>5. why \in Told
    BY <1>0, <1>6 DEF TellEnded, Told, Sessions
  <2>3. op' \in Ops
    BY <1>6 DEF TellEnded, TypeOK, Ops
  <2> HIDE DEF row, why
  <2>4. /\ unit' \in [Units -> Copies]
        /\ strayed' \subseteq Units
        /\ live' \in [Units -> 0..MaxLives]
        /\ Typed
    BY <2>1, <2>2, <2>5, TypeTold
  <2> QED BY <1>6, <2>3, <2>4 DEF TellEnded, TypeOK
<1> QED BY <1>1, <1>3, <1>2, <1>5, <1>6 DEF SessionNext

LEMMA TypeLaunch ==
    ASSUME TypeOK, NEW u \in Units, Launch(u)
    PROVE  TypeOK'
<1>1. 0 \in 0..MaxLives /\ Numbers \subseteq 0..MaxLives
  BY LivesAssumption DEF Numbers
<1>2. {"Starting", "Failed", "Refused"} \subseteq States
  BY DEF States, TerminalStates
<1> DEFINE k == unit[u].lives + 1
<1>0. unit[u] \in Copies
  BY DEF TypeOK
<1>3. CASE ~enabled
  <2>1. [unit[u] EXCEPT !.state = "Refused", !.life = 0] \in Copies
    BY <1>0, <1>2, CopyFields
  <2>2. unit' \in [Units -> Copies]
    BY <1>3, <2>1 DEF Launch, DeclinedAt, TypeOK
  <2> QED BY <1>3, <2>2 DEF Launch, DeclinedAt, TypeOK
<1>4. CASE /\ k \in Numbers
           /\ unit' = [unit EXCEPT ![u] =
                           [state |-> "Starting", life |-> k, lives |-> k]]
           /\ alive' = [alive EXCEPT ![u] = @ \cup {k}]
           /\ token' = [token EXCEPT ![u] = [life |-> k, good |-> TRUE]]
           /\ UNCHANGED <<enabled, call, op, live, session, strayed>>
  <2> HIDE DEF k
  <2>1. [state |-> "Starting", life |-> k, lives |-> k] \in Copies
    BY <1>1, <1>2, <1>4 DEF Copies
  <2>2. [life |-> k, good |-> TRUE] \in Tokens
    BY <1>1, <1>4 DEF Tokens
  <2>3. unit' \in [Units -> Copies] /\ token' \in [Units -> Tokens]
    BY <1>4, <2>1, <2>2 DEF TypeOK
  <2>4. alive' \in [Units -> SUBSET Numbers]
    BY <1>4 DEF TypeOK
  <2> QED BY <1>4, <2>3, <2>4 DEF TypeOK
<1>5. CASE /\ unit' = [unit EXCEPT ![u] = [@ EXCEPT !.state = "Failed", !.life = 0]]
           /\ token' \in {token, [token EXCEPT ![u] = [life |-> 0, good |-> TRUE]]}
           /\ Concluded(u, session[u])
           /\ UNCHANGED <<enabled, call, op, alive, strayed>>
  <2>1. Forgotten(session[u]) \in [Numbers -> Sessions]
    BY ForgottenSessions DEF TypeOK
  <2>2. [unit[u] EXCEPT !.state = "Failed", !.life = 0] \in Copies
    BY <1>0, <1>2, CopyFields
  <2>3. [life |-> 0, good |-> TRUE] \in Tokens
    BY <1>1 DEF Tokens
  <2>4. unit' \in [Units -> Copies] /\ token' \in [Units -> Tokens]
    BY <1>5, <2>2, <2>3 DEF TypeOK
  <2>5. /\ live' \in [Units -> 0..MaxLives]
        /\ session' \in [Units -> [Numbers -> Sessions]]
    BY <1>1, <1>5, <2>1 DEF Concluded, TypeOK
  <2> QED BY <1>5, <2>4, <2>5 DEF TypeOK
<1> QED BY <1>3, <1>4, <1>5 DEF Launch

LEMMA TypePolicy ==
    ASSUME TypeOK, PolicyNext
    PROVE  TypeOK'
<1>1. CASE Disable
  BY <1>1 DEF Disable, TypeOK, Ops
<1>2. CASE Enable
  BY <1>2 DEF Enable, TypeOK
<1>3. ASSUME NEW u \in Units, Look(u) PROVE TypeOK'
  BY <1>3 DEF Look, TypeOK, Ops
<1>4. ASSUME NEW u \in Units, Revoke(u) PROVE TypeOK'
  <2>1. op' \in Ops
    BY <1>4 DEF Revoke, TypeOK, Ops
  <2>2. session' \in [Units -> [Numbers -> Sessions]]
    <3>1. CASE op'.at = "telling"
      <4>1. PICK k \in Numbers : EndSession(u, k, "SessionWithdrawn")
        BY <1>4, <3>1 DEF Revoke, OpenOf, TypeOK, Ops
      <4> QED BY <4>1, EndedSessions
    <3>2. CASE UNCHANGED session
      BY <3>2 DEF TypeOK
    <3> QED BY <1>4, <3>1, <3>2 DEF Revoke, TypeOK, Ops
  <2> QED BY <1>4, <2>1, <2>2 DEF Revoke, TypeOK
<1>5. ASSUME NEW u \in Units, Withdraw(u) PROVE TypeOK'
  <2>1. op' \in Ops
    BY <1>5 DEF Withdraw, TypeOK, Ops
  <2>2. CASE \E in \in Told : Tell(u, unit[u].life, in, session[u])
    <3>1. session[u] \in [Numbers -> Sessions]
      BY DEF TypeOK
    <3>2. /\ unit' \in [Units -> Copies]
          /\ strayed' \subseteq Units
          /\ live' \in [Units -> 0..MaxLives]
          /\ session' \in [Units -> [Numbers -> Sessions]]
      BY <2>2, <3>1, TypeTold
    <3> QED BY <1>5, <2>1, <3>2 DEF Withdraw, TypeOK
  <2>3. CASE DeclinedAt(u)
    <3>1. "Refused" \in States
      BY DEF States, TerminalStates
    <3>2. [unit[u] EXCEPT !.state = "Refused", !.life = 0] \in Copies
      BY <3>1, CopyFields DEF TypeOK
    <3>3. unit' \in [Units -> Copies]
      BY <2>3, <3>2 DEF DeclinedAt, TypeOK
    <3> QED BY <1>5, <2>1, <2>3, <3>3 DEF Withdraw, DeclinedAt, TypeOK
  <2>4. CASE UNCHANGED <<unit, live, session, strayed>>
    BY <1>5, <2>1, <2>4 DEF Withdraw, TypeOK
  <2> QED BY <1>5, <2>2, <2>3, <2>4 DEF Withdraw, Told
<1> QED BY <1>2, <1>1, <1>3, <1>4, <1>5 DEF PolicyNext

LEMMA TypeExits ==
    ASSUME TypeOK, NEW u \in Units, NEW k \in Numbers, Exits(u, k)
    PROVE  TypeOK'
<1>1. session[u] \in [Numbers -> Sessions] /\ "ExitedNonzero" \in Told
  BY DEF TypeOK, Told
<1>2. CASE Tell(u, k, "ExitedNonzero", session[u])
  <2>1. /\ unit' \in [Units -> Copies]
        /\ strayed' \subseteq Units
        /\ live' \in [Units -> 0..MaxLives]
        /\ session' \in [Units -> [Numbers -> Sessions]]
    BY <1>1, <1>2, TypeTold
  <2> QED BY <1>2, <2>1 DEF Exits, TypeOK
<1>3. CASE UNCHANGED <<unit, live, session, strayed>>
  BY <1>3 DEF Exits, TypeOK
<1> QED BY <1>2, <1>3 DEF Exits

LEMMA TypeStep == TypeOK /\ [Next]_vars => TypeOK'
<1>1. CASE UNCHANGED vars
  BY <1>1 DEF vars, TypeOK
<1> QED
  BY <1>1, TypeLaunch, TypeRegister, TypeSession, TypeExits, TypePolicy DEF Next

(* What every variable holds, whatever is overtaken.                       *)
THEOREM TypeCorrect == Spec => []TypeOK
  BY TypeInit, TypeStep, PTL DEF Spec

--------------------------------------------------------------------------------
(* The invariant, one action at a time.                                    *)

Untouched(v) ==
    /\ unit'[v] = unit[v]
    /\ alive'[v] \subseteq alive[v]
    /\ token'[v] = token[v]
    /\ call'[v] = call[v]
    /\ live'[v] = live[v]
    /\ \A k \in Numbers : session'[v][k].at = "open" => session[v][k].at = "open"
    /\ v \in strayed => v \in strayed'

LEMMA Elsewhere ==
    ASSUME NEW v \in Units, UnitInv(v), Untouched(v)
    PROVE  UnitInv(v)'
  BY DEF UnitInv, LifeInv, TokenInv, AccountInv, Untouched

LEMMA SettingCall ==
    ASSUME TypeOK, NEW u \in Units, NEW k \in Numbers, NEW t \in Tries,
           NEW to, SetCall(u, k, t, to)
    PROVE  /\ \A l \in Numbers, s \in Tries :
                 call'[u][l][s] =
                    IF l = k /\ s = t THEN to ELSE call[u][l][s]
           /\ \A v \in Units \ {u} : call'[v] = call[v]
<1>1. /\ call \in [Units -> [Numbers -> [Tries -> Calls]]]
      /\ call[u] \in [Numbers -> [Tries -> Calls]]
      /\ call[u][k] \in [Tries -> Calls]
  BY DEF TypeOK
<1>2. call' = [call EXCEPT ![u] =
                  [call[u] EXCEPT ![k] = [call[u][k] EXCEPT ![t] = to]]]
  BY <1>1 DEF SetCall
<1>3. call'[u] = [call[u] EXCEPT ![k] = [call[u][k] EXCEPT ![t] = to]]
  BY <1>1, <1>2
<1>4. ASSUME NEW l \in Numbers, NEW s \in Tries
      PROVE  call'[u][l][s] = IF l = k /\ s = t THEN to ELSE call[u][l][s]
  BY <1>1, <1>3
<1>5. \A v \in Units \ {u} : call'[v] = call[v]
  BY <1>1, <1>2
<1> QED BY <1>4, <1>5

(* A call of the life l about the unit: what the machine makes of it keeps *)
(* the invariant, or the call strayed. An acceptance told was decided.     *)
LEMMA Answering ==
    ASSUME TypeOK, NEW u \in Units, UnitInv(u), NEW l, NEW in \in Told,
           NEW row \in [Numbers -> Sessions], Tell(u, l, in, row),
           token' = token, alive'[u] \subseteq alive[u],
           \A k \in Numbers : row[k].at = session[u][k].at,
           \A k \in Numbers, t \in Tries :
               \/ call'[u][k][t] = call[u][k][t]
               \/ call'[u][k][t] = "over" /\ call[u][k][t] # "none"
               \/ call'[u][k][t] = "admitted" /\ call[u][k][t] = "accepted",
           in = "AdmissionAccepted" =>
               l \in Numbers /\ \E t \in Tries : call[u][l][t] = "accepted"
    PROVE  UnitInv(u)'
<1> DEFINE to == To(u, in)
<1>0. unit[u] \in Copies /\ unit[u].state \in States
  BY DEF TypeOK, Copies
<1>1. /\ unit' = [unit EXCEPT ![u].state = to]
      /\ strayed' = IF to # unit[u].state /\ unit[u].life # l
                    THEN strayed \cup {u} ELSE strayed
  BY Telling
<1>2. unit'[u] = [unit[u] EXCEPT !.state = to]
  BY <1>1 DEF TypeOK
<1>3. /\ unit'[u].state = to
      /\ unit'[u].life = unit[u].life
      /\ unit'[u].lives = unit[u].lives
  BY <1>0, <1>2 DEF Copies
<1>4. /\ Terminal(unit[u].state) => to = unit[u].state
      /\ to # unit[u].state =>
            \/ Terminal(to)
            \/ in = "AdmissionAccepted" /\ unit[u].state = "Starting" /\ to = "Admitted"
            \/ unit[u].state = "Admitted" /\ to = "Running"
  BY <1>0, Weighing DEF Told, Terminal, TerminalStates
<1>5. to # unit[u].state /\ Terminal(to) => live'[u] = 0 /\ session'[u] = Forgotten(row)
  <2>1. to # unit[u].state /\ Terminal(to) => Concluded(u, row)
    BY DEF Tell, To
  <2> QED BY <2>1 DEF Concluded, TypeOK
<1>6. ~(to # unit[u].state /\ Terminal(to)) => live'[u] = live[u] /\ session'[u] = row
  <2>1. ~(to # unit[u].state /\ Terminal(to)) =>
           live' = live /\ session' = [session EXCEPT ![u] = row]
    BY DEF Tell, To
  <2> QED BY <2>1 DEF TypeOK
<1> HIDE DEF to
<1>7. LifeInv(u)'
  BY <1>3, <1>4 DEF UnitInv, LifeInv
<1>8. TokenInv(u)'
  BY DEF UnitInv, TokenInv, Past
<1>9. ASSUME u \notin strayed' PROVE AccountInv(u)'
  <2>1. AccountInv(u) /\ (to # unit[u].state => unit[u].life = l)
    BY <1>1, <1>9 DEF UnitInv
  <2>2. \A k \in Numbers, t \in Tries :
           call'[u][k][t] = "accepted" => call[u][k][t] = "accepted"
    OBVIOUS
  <2>3. CASE to = unit[u].state
    BY <1>3, <1>6, <2>1, <2>2, <2>3 DEF AccountInv
  <2>4. CASE to # unit[u].state /\ Terminal(to)
    <3>1. ASSUME NEW k \in Numbers PROVE Forgotten(row)[k].at # "open"
      <4>1. /\ row[k] \in Sessions
            /\ Forgotten(row)[k] = IF row[k].at = "open"
                                   THEN [row[k] EXCEPT !.at = "ended"] ELSE row[k]
        BY DEF Forgotten
      <4> QED BY <4>1 DEF Sessions
    <3>2. 0 \notin Numbers /\ to \notin {"Admitted", "Running"}
      BY <2>4 DEF Numbers, Terminal, TerminalStates
    <3> QED BY <1>3, <1>5, <2>4, <3>1, <3>2 DEF AccountInv
  <2>5. CASE to # unit[u].state /\ ~Terminal(to)
    <3>1. live[u] = unit[u].life
      <4>1. CASE unit[u].state = "Admitted" /\ to = "Running"
        BY <2>1, <4>1 DEF AccountInv
      <4>2. CASE in = "AdmissionAccepted" /\ unit[u].state = "Starting" /\ to = "Admitted"
        <5>1. unit[u].life = l /\ ~Terminal(unit[u].state)
          BY <2>1, <2>5, <4>2 DEF Terminal, TerminalStates
        <5> QED BY <2>1, <4>2, <5>1 DEF AccountInv
      <4> QED BY <1>4, <2>5, <4>1, <4>2
    <3> QED BY <1>3, <1>6, <2>1, <2>5, <3>1 DEF AccountInv
  <2> QED BY <2>3, <2>4, <2>5
<1> QED BY <1>7, <1>8, <1>9 DEF UnitInv

(* What a telling leaves of the other units. *)
LEMMA TellsOne ==
    ASSUME TypeOK, NEW u \in Units, NEW in \in Told, NEW l,
           NEW row \in [Numbers -> Sessions], Tell(u, l, in, row),
           NEW v \in Units \ {u}
    PROVE  /\ unit'[v] = unit[v] /\ live'[v] = live[v] /\ session'[v] = session[v]
           /\ v \in strayed => v \in strayed'
<1>1. /\ unit' = [unit EXCEPT ![u].state = To(u, in)]
      /\ live' \in {live, [live EXCEPT ![u] = 0]}
      /\ strayed \subseteq strayed'
  BY Telling
<1>2. \E r : session' = [session EXCEPT ![u] = r]
  BY DEF Tell, Concluded
<1> QED BY <1>1, <1>2 DEF TypeOK

LEMMA InvPresent ==
    ASSUME Inv, NEW u \in Units, NEW k \in Numbers, NEW t \in Tries,
           Present(u, k, t)
    PROVE  \A v \in Units : UnitInv(v)'
<1>1. PICK to \in {"seen", "over"} : SetCall(u, k, t, to)
  BY DEF Present
<1>2. /\ \A l \in Numbers, s \in Tries :
            call'[u][l][s] = IF l = k /\ s = t THEN to ELSE call[u][l][s]
      /\ \A v \in Units \ {u} : call'[v] = call[v]
  BY <1>1, SettingCall DEF Inv
<1>3. ASSUME NEW v \in Units \ {u} PROVE UnitInv(v)'
  BY <1>2, <1>3, Elsewhere DEF Inv, Untouched, Present
<1>4. UnitInv(u)'
  <2>1. UnitInv(u) BY DEF Inv
  <2>2. k <= unit[u].lives /\ unit[u].lives \in Nat
    BY <2>1 DEF UnitInv, LifeInv, Present, Inv, TypeOK, Copies, Numbers
  <2>3. LifeInv(u)'
    BY <1>2, <2>1, <2>2 DEF UnitInv, LifeInv, Present, Numbers
  <2>4. TokenInv(u)'
    BY <1>2, <2>1 DEF UnitInv, TokenInv, Present, Past
  <2>5. u \notin strayed' => AccountInv(u)'
    BY <1>2, <2>1 DEF UnitInv, AccountInv, Present
  <2> QED BY <2>3, <2>4, <2>5 DEF UnitInv
<1> QED BY <1>3, <1>4

LEMMA InvSpend ==
    ASSUME Inv, NEW u \in Units, NEW k \in Numbers, NEW t \in Tries,
           Spend(u, k, t)
    PROVE  \A v \in Units : UnitInv(v)'
<1>0. UnitInv(u) /\ token[u] \in Tokens /\ token \in [Units -> Tokens]
  BY DEF Inv, TypeOK
<1>1. PICK to \in {"spent", "over"} : SetCall(u, k, t, to)
  BY DEF Spend
<1>2. /\ \A l \in Numbers, s \in Tries :
            call'[u][l][s] = IF l = k /\ s = t THEN to ELSE call[u][l][s]
      /\ \A v \in Units \ {u} : call'[v] = call[v]
  BY <1>1, SettingCall DEF Inv
<1>3. ASSUME NEW v \in Units \ {u} PROVE UnitInv(v)'
  <2>1. token'[v] = token[v] BY <1>0 DEF Spend
  <2> QED BY <1>2, <2>1, Elsewhere DEF Inv, Untouched, Spend
<1>4. LifeInv(u)'
  <2>1. call[u][k][t] # "none" BY DEF Spend
  <2>2. token'[u].life = token[u].life
    BY <1>0 DEF Spend, Tokens
  <2> QED BY <1>0, <1>2, <2>1, <2>2 DEF UnitInv, LifeInv, Spend
<1>5. u \notin strayed' => AccountInv(u)'
  BY <1>0, <1>2 DEF UnitInv, AccountInv, Spend
<1>6. TokenInv(u)'
  <2>1. CASE token[u] = [life |-> k, good |-> TRUE]
    <3>1. token[u].life = k /\ token[u].good
      BY <2>1
    <3>2. token'[u].life = k /\ ~token'[u].good
      BY <1>0, <2>1 DEF Spend, Tokens
    <3>3. \A s \in Tries : call[u][k][s] \notin Past
      BY <1>0, <3>1 DEF UnitInv, TokenInv
    <3> QED BY <1>0, <1>2, <3>2, <3>3 DEF UnitInv, TokenInv
  <2>2. CASE token[u] # [life |-> k, good |-> TRUE]
    <3>1. token' = token /\ call'[u][k][t] = "over"
      <4>1. SetCall(u, k, t, "over") /\ token' = token
        BY <2>2 DEF Spend
      <4> QED BY <4>1, SettingCall DEF Inv
    <3> QED BY <1>0, <1>2, <3>1 DEF UnitInv, TokenInv, Past
  <2> QED BY <2>1, <2>2
<1> QED BY <1>3, <1>5, <1>4, <1>6 DEF UnitInv

LEMMA InvDecide ==
    ASSUME Inv, NEW u \in Units, NEW k \in Numbers, NEW t \in Tries,
           Decide(u, k, t)
    PROVE  \A v \in Units : UnitInv(v)'
<1>0. UnitInv(u) /\ live \in [Units -> 0..MaxLives] /\ unit[u] \in Copies
  BY DEF Inv, TypeOK
<1>1. PICK to \in {"accepted", "declined"} :
         /\ SetCall(u, k, t, to)
         /\ to = "declined" => live' = live
         /\ to = "accepted" => live[u] = 0 /\ live' = [live EXCEPT ![u] = k]
  BY DEF Decide
<1>2. /\ \A l \in Numbers, s \in Tries :
            call'[u][l][s] = IF l = k /\ s = t THEN to ELSE call[u][l][s]
      /\ \A v \in Units \ {u} : call'[v] = call[v]
  BY <1>1, SettingCall DEF Inv
<1>3. strayed \subseteq strayed' /\ UNCHANGED <<unit, alive, token, session>>
      /\ call[u][k][t] = "spent"
  BY DEF Decide, Strays
<1>4. ASSUME NEW v \in Units \ {u} PROVE UnitInv(v)'
  <2>1. live'[v] = live[v] BY <1>0, <1>1
  <2> QED BY <1>2, <1>3, <2>1, Elsewhere DEF Inv, Untouched
<1>5. LifeInv(u)'
  BY <1>0, <1>2, <1>3 DEF UnitInv, LifeInv
<1>6. TokenInv(u)'
  BY <1>0, <1>2, <1>3 DEF UnitInv, TokenInv, Past
<1>7. ASSUME u \notin strayed' PROVE AccountInv(u)'
  <2>1. AccountInv(u)
    BY <1>0, <1>3, <1>7 DEF UnitInv
  <2>2. CASE to = "declined"
    BY <1>1, <1>2, <1>3, <2>1, <2>2 DEF AccountInv
  <2>3. CASE to = "accepted"
    <3>1. live[u] = 0 /\ live'[u] = k /\ 0 \notin Numbers
      BY <1>0, <1>1, <2>3 DEF Numbers
    <3>2. unit[u].life = k /\ ~Terminal(unit[u].state)
      BY <1>7, <3>1 DEF Decide, Strays
    <3>3. \A l \in Numbers : session[u][l].at # "open"
      BY <2>1, <3>1 DEF AccountInv
    <3> QED BY <1>3, <3>1, <3>2, <3>3 DEF AccountInv
  <2> QED BY <1>1, <2>2, <2>3
<1> QED BY <1>4, <1>5, <1>6, <1>7 DEF UnitInv

(* A telling, of whatever life it is. *)
LEMMA InvTold ==
    ASSUME Inv, NEW u \in Units, NEW l, NEW in \in Told,
           NEW row \in [Numbers -> Sessions], Tell(u, l, in, row),
           token' = token, \A v \in Units : alive'[v] \subseteq alive[v],
           \A v \in Units \ {u} : call'[v] = call[v],
           \A k \in Numbers : row[k].at = session[u][k].at,
           \A k \in Numbers, t \in Tries :
               \/ call'[u][k][t] = call[u][k][t]
               \/ call'[u][k][t] = "over" /\ call[u][k][t] # "none"
               \/ call'[u][k][t] = "admitted" /\ call[u][k][t] = "accepted",
           in = "AdmissionAccepted" =>
               l \in Numbers /\ \E t \in Tries : call[u][l][t] = "accepted"
    PROVE  \A v \in Units : UnitInv(v)'
<1>0. TypeOK /\ UnitInv(u)
  BY DEF Inv
<1>1. UnitInv(u)'
  BY <1>0, Answering
<1>2. ASSUME NEW v \in Units \ {u} PROVE UnitInv(v)'
  <2>1. /\ unit'[v] = unit[v] /\ live'[v] = live[v] /\ session'[v] = session[v]
        /\ v \in strayed => v \in strayed'
    BY <1>0, TellsOne
  <2> QED BY <2>1, Elsewhere DEF Inv, Untouched
<1> QED BY <1>1, <1>2

LEMMA InvTellAdmission ==
    ASSUME Inv, NEW u \in Units, NEW k \in Numbers, NEW t \in Tries,
           TellAdmission(u, k, t)
    PROVE  \A v \in Units : UnitInv(v)'
<1>0. /\ TypeOK /\ session[u] \in [Numbers -> Sessions]
      /\ "AdmissionAccepted" \in Told /\ "AdmissionDeclined" \in Told
      /\ token' = token /\ alive' = alive
  BY DEF Inv, TypeOK, Told, TellAdmission
<1>1. CASE /\ call[u][k][t] = "accepted"
           /\ Tell(u, k, "AdmissionAccepted", session[u])
           /\ SetCall(u, k, t, "admitted")
  <2>1. /\ \A l \in Numbers, s \in Tries :
              call'[u][l][s] = IF l = k /\ s = t THEN "admitted" ELSE call[u][l][s]
        /\ \A v \in Units \ {u} : call'[v] = call[v]
    BY <1>0, <1>1, SettingCall
  <2> QED BY <1>0, <1>1, <2>1, InvTold
<1>2. CASE /\ call[u][k][t] = "declined"
           /\ Tell(u, k, "AdmissionDeclined", session[u])
           /\ SetCall(u, k, t, "over")
  <2>1. /\ \A l \in Numbers, s \in Tries :
              call'[u][l][s] = IF l = k /\ s = t THEN "over" ELSE call[u][l][s]
        /\ \A v \in Units \ {u} : call'[v] = call[v]
    BY <1>0, <1>2, SettingCall
  <2> QED BY <1>0, <1>2, <2>1, InvTold
<1> QED BY <1>1, <1>2 DEF TellAdmission

(* A step of one Session that tells nobody: one is opened of the life live *)
(* to admission, or the call strays.                                       *)
LEMMA InvOfSession ==
    ASSUME Inv, NEW u \in Units, NEW k \in Numbers, NEW s,
           session' = [session EXCEPT ![u][k] = s],
           strayed \subseteq strayed',
           s.at = "open" => live[u] = k \/ u \in strayed',
           UNCHANGED <<unit, alive, token, call, live>>
    PROVE  \A v \in Units : UnitInv(v)'
<1>1. /\ session'[u] = [session[u] EXCEPT ![k] = s]
      /\ \A v \in Units \ {u} : session'[v] = session[v]
      /\ session[u] \in [Numbers -> Sessions]
  BY DEF Inv, TypeOK
<1>2. \A l \in Numbers : session'[u][l] = IF l = k THEN s ELSE session[u][l]
  BY <1>1
<1>3. ASSUME NEW v \in Units \ {u} PROVE UnitInv(v)'
  BY <1>1, <1>3, Elsewhere DEF Inv, Untouched
<1>4. UnitInv(u)'
  <2>1. UnitInv(u) BY DEF Inv
  <2>2. LifeInv(u)' /\ TokenInv(u)'
    BY <2>1 DEF UnitInv, LifeInv, TokenInv
  <2>3. u \notin strayed' => AccountInv(u)'
    BY <1>2, <2>1 DEF UnitInv, AccountInv
  <2> QED BY <2>2, <2>3 DEF UnitInv
<1> QED BY <1>3, <1>4

LEMMA InvSession ==
    ASSUME Inv, NEW u \in Units, NEW k \in Numbers, SessionNext(u, k)
    PROVE  \A v \in Units : UnitInv(v)'
<1>0. TypeOK /\ session[u] \in [Numbers -> Sessions] /\ session[u][k] \in Sessions
  BY DEF Inv, TypeOK
<1>1. CASE Find(u, k)
  <2> DEFINE s == [session[u][k] EXCEPT !.at = "found"]
  <2>1. s.at = "found"
    BY <1>0 DEF Sessions
  <2>2. session' = [session EXCEPT ![u][k] = s]
        /\ UNCHANGED <<unit, alive, token, call, live, strayed>>
    BY <1>1 DEF Find
  <2> HIDE DEF s
  <2> QED BY <2>1, <2>2, InvOfSession
<1>2. CASE OpenSession(u, k)
  <2> DEFINE s == [session[u][k] EXCEPT !.at = "open"]
  <2>1. session' = [session EXCEPT ![u][k] = s]
        /\ UNCHANGED <<unit, alive, token, call, live>>
    BY <1>2 DEF OpenSession
  <2>2. strayed \subseteq strayed' /\ (live[u] = k \/ u \in strayed')
    BY <1>2 DEF OpenSession, Strays
  <2> HIDE DEF s
  <2> QED BY <2>1, <2>2, InvOfSession
<1>3. ASSUME NEW why, EndSession(u, k, why),
             UNCHANGED <<unit, alive, token, call, live, strayed>>
      PROVE  \A v \in Units : UnitInv(v)'
  <2> DEFINE s == [session[u][k] EXCEPT !.at = "ended", !.end = why]
  <2>1. s.at = "ended"
    BY <1>0 DEF Sessions
  <2>2. session' = [session EXCEPT ![u][k] = s]
    BY <1>3 DEF EndSession
  <2> HIDE DEF s
  <2> QED BY <1>3, <2>1, <2>2, InvOfSession
<1>4. CASE CloseSession(u, k) \/ HeartbeatLost(u, k)
  BY <1>3, <1>4 DEF CloseSession, HeartbeatLost
<1>5. CASE TellOpened(u, k)
  <2> DEFINE row == [session[u] EXCEPT ![k].told = TRUE]
  <2>1. row \in [Numbers -> Sessions] /\ \A l \in Numbers : row[l].at = session[u][l].at
    <3>1. /\ [session[u][k] EXCEPT !.told = TRUE] \in Sessions
          /\ [session[u][k] EXCEPT !.told = TRUE].at = session[u][k].at
      BY <1>0, SessionFields DEF Sessions
    <3> QED BY <1>0, <3>1
  <2>2. /\ Tell(u, k, "SessionOpened", row) /\ "SessionOpened" \in Told
        /\ UNCHANGED <<alive, token, call>>
    BY <1>5 DEF TellOpened, Told
  <2> HIDE DEF row
  <2> QED BY <2>1, <2>2, InvTold
<1>6. CASE TellEnded(u, k)
  <2> DEFINE row == [session[u] EXCEPT ![k].end = ""]
             why == session[u][k].end
  <2>1. row \in [Numbers -> Sessions] /\ \A l \in Numbers : row[l].at = session[u][l].at
    <3>1. /\ [session[u][k] EXCEPT !.end = ""] \in Sessions
          /\ [session[u][k] EXCEPT !.end = ""].at = session[u][k].at
      BY <1>0, SessionFields DEF Sessions
    <3> QED BY <1>0, <3>1
  <2>2. /\ Tell(u, k, why, row) /\ why \in Told /\ why # "AdmissionAccepted"
        /\ UNCHANGED <<alive, token, call>>
    BY <1>0, <1>6 DEF TellEnded, Told, Sessions
  <2> HIDE DEF row, why
  <2> QED BY <2>1, <2>2, InvTold
<1> QED BY <1>1, <1>2, <1>4, <1>5, <1>6 DEF SessionNext

LEMMA InvExits ==
    ASSUME Inv, NEW u \in Units, NEW k \in Numbers, Exits(u, k)
    PROVE  \A v \in Units : UnitInv(v)'
<1>1. \A v \in Units : alive'[v] \subseteq alive[v]
  BY DEF Exits, Inv, TypeOK
<1>2. CASE k = unit[u].life
  <2>1. session[u] \in [Numbers -> Sessions] /\ "ExitedNonzero" \in Told
    BY DEF Inv, TypeOK, Told
  <2> QED BY <1>1, <1>2, <2>1, InvTold DEF Exits
<1>3. CASE k # unit[u].life
  BY <1>1, <1>3, Elsewhere DEF Exits, Inv, Untouched
<1> QED BY <1>2, <1>3

(* A unit declined, or whose launch failed: it has no life, and whatever   *)
(* was under way about one, nobody is live.                                *)
LEMMA InvWithout ==
    ASSUME TypeOK, NEW u \in Units, UnitInv(u),
           Terminal(unit'[u].state), unit'[u].life = 0,
           unit'[u].lives = unit[u].lives, alive'[u] = alive[u],
           call'[u] = call[u],
           token'[u] \in {token[u], [life |-> 0, good |-> TRUE]},
           strayed' = strayed, u \notin strayed => live'[u] = 0,
           \A k \in Numbers : session'[u][k].at = "open" =>
               session[u][k].at = "open" /\ live'[u] = live[u]
    PROVE  UnitInv(u)'
<1>1. LifeInv(u)'
  BY DEF UnitInv, LifeInv
<1>2. 0 \notin Numbers
  BY DEF Numbers
<1>3. TokenInv(u)'
  BY <1>2 DEF UnitInv, TokenInv
<1>4. u \notin strayed' => AccountInv(u)'
  BY <1>2 DEF UnitInv, AccountInv, Terminal, TerminalStates
<1> QED BY <1>1, <1>3, <1>4 DEF UnitInv

LEMMA InvDeclinedAt ==
    ASSUME Inv, NEW u \in Units, Terminal(unit[u].state), DeclinedAt(u),
           UNCHANGED <<alive, token, call>>
    PROVE  \A v \in Units : UnitInv(v)'
<1>0. TypeOK /\ UnitInv(u) /\ unit[u] \in Copies
  BY DEF Inv, TypeOK
<1>1. /\ unit'[u].state = "Refused" /\ unit'[u].life = 0
      /\ unit'[u].lives = unit[u].lives
      /\ \A v \in Units \ {u} : unit'[v] = unit[v]
  BY <1>0 DEF DeclinedAt, TypeOK, Copies
<1>2. Terminal(unit'[u].state)
  BY <1>1 DEF Terminal, TerminalStates
<1>3. u \notin strayed => live[u] = 0
  BY <1>0 DEF UnitInv, AccountInv
<1>4. UnitInv(u)'
  BY <1>0, <1>1, <1>2, <1>3, InvWithout DEF DeclinedAt
<1>5. ASSUME NEW v \in Units \ {u} PROVE UnitInv(v)'
  BY <1>1, Elsewhere DEF Inv, Untouched, DeclinedAt
<1> QED BY <1>4, <1>5

LEMMA InvLaunch ==
    ASSUME Inv, NEW u \in Units, Launch(u)
    PROVE  \A v \in Units : UnitInv(v)'
<1> DEFINE n == unit[u].lives + 1
<1>0. TypeOK /\ UnitInv(u) /\ unit[u] \in Copies /\ Terminal(unit[u].state)
  BY DEF Inv, TypeOK, Launch
<1>2. CASE DeclinedAt(u) /\ UNCHANGED <<alive, token, call>>
  BY <1>0, <1>2, InvDeclinedAt
<1>3. CASE /\ n \in Numbers
           /\ unit' = [unit EXCEPT ![u] =
                           [state |-> "Starting", life |-> n, lives |-> n]]
           /\ alive' = [alive EXCEPT ![u] = @ \cup {n}]
           /\ token' = [token EXCEPT ![u] = [life |-> n, good |-> TRUE]]
           /\ UNCHANGED <<live, call, session, strayed>>
  <2>1. /\ unit[u].lives \in Nat /\ n \in Nat /\ n > unit[u].lives /\ n # 0
        /\ \A k \in Numbers : k > n => k > unit[u].lives
    BY <1>0 DEF Copies, Numbers
  <2> HIDE DEF n
  <2>2. /\ unit'[u] = [state |-> "Starting", life |-> n, lives |-> n]
        /\ alive'[u] = alive[u] \cup {n}
        /\ token'[u] = [life |-> n, good |-> TRUE]
        /\ alive[u] \subseteq Numbers
    BY <1>0, <1>3 DEF TypeOK
  <2>3. \A t \in Tries : call[u][n][t] = "none"
    BY <1>0, <1>3, <2>1 DEF UnitInv, LifeInv
  <2>4. LifeInv(u)'
    <3>1. \A k \in alive[u] : k <= n
      BY <1>0, <2>1, <2>2 DEF UnitInv, LifeInv, Numbers
    <3>2. \A k \in alive'[u] : k <= n
      BY <2>1, <2>2, <3>1
    <3> QED BY <1>0, <1>3, <2>1, <2>2, <3>2 DEF UnitInv, LifeInv
  <2>5. TokenInv(u)'
    <3>1. \A t \in Tries : call'[u][n][t] \notin Past
      BY <1>3, <2>3 DEF Past
    <3> QED BY <1>0, <1>3, <2>2, <3>1 DEF UnitInv, TokenInv
  <2>6. ASSUME u \notin strayed' PROVE AccountInv(u)'
    <3>1. live[u] = 0 /\ AccountInv(u)
      BY <1>0, <1>3, <2>6 DEF UnitInv, AccountInv
    <3> QED BY <1>3, <2>2, <2>3, <3>1 DEF AccountInv
  <2>7. ASSUME NEW v \in Units \ {u} PROVE UnitInv(v)'
    BY <1>0, <1>3, Elsewhere DEF Inv, TypeOK, Untouched
  <2> QED BY <2>4, <2>6, <2>5, <2>7 DEF UnitInv
<1>4. CASE /\ unit' = [unit EXCEPT ![u] = [@ EXCEPT !.state = "Failed", !.life = 0]]
           /\ token' \in {token, [token EXCEPT ![u] = [life |-> 0, good |-> TRUE]]}
           /\ Concluded(u, session[u])
           /\ UNCHANGED <<alive, call, strayed>>
  <2>1. /\ unit'[u].state = "Failed" /\ unit'[u].life = 0
        /\ unit'[u].lives = unit[u].lives
        /\ token'[u] \in {token[u], [life |-> 0, good |-> TRUE]}
        /\ \A v \in Units \ {u} : /\ unit'[v] = unit[v]
                                  /\ token'[v] = token[v]
    BY <1>0, <1>4 DEF TypeOK, Copies
  <2>2. Terminal(unit'[u].state)
    BY <2>1 DEF Terminal, TerminalStates
  <2>3. /\ live'[u] = 0 /\ session'[u] = Forgotten(session[u])
        /\ \A v \in Units \ {u} : live'[v] = live[v] /\ session'[v] = session[v]
    BY <1>0, <1>4 DEF Concluded, TypeOK
  <2>4. \A k \in Numbers : session'[u][k].at # "open"
    BY <1>0, <2>3 DEF Forgotten, TypeOK, Sessions
  <2>5. UnitInv(u)'
    BY <2>2, <2>1, <2>4, <2>3, <1>0, <1>4, InvWithout
  <2>6. ASSUME NEW v \in Units \ {u} PROVE UnitInv(v)'
    BY <1>4, <2>1, <2>3, Elsewhere DEF Inv, Untouched
  <2> QED BY <2>5, <2>6
<1> QED BY <1>2, <1>3, <1>4 DEF Launch

LEMMA InvPolicy ==
    ASSUME Inv, PolicyNext
    PROVE  \A v \in Units : UnitInv(v)'
<1>1. CASE UNCHANGED <<unit, alive, token, call, live, session, strayed>>
  BY <1>1, Elsewhere DEF Inv, Untouched
<1>2. CASE Disable \/ Enable \/ \E u \in Units : Look(u)
  BY <1>1, <1>2 DEF Disable, Enable, Look
<1>3. ASSUME NEW u \in Units, Revoke(u) PROVE \A v \in Units : UnitInv(v)'
  <2>1. ASSUME NEW k \in OpenOf(u), EndSession(u, k, "SessionWithdrawn"),
               UNCHANGED <<unit, alive, token, call, live, strayed>>
        PROVE  \A v \in Units : UnitInv(v)'
    <3> DEFINE s == [session[u][k] EXCEPT !.at = "ended", !.end = "SessionWithdrawn"]
    <3>1. k \in Numbers /\ session[u][k] \in Sessions
      BY DEF OpenOf, Inv, TypeOK
    <3>2. s.at = "ended"
      BY <3>1 DEF Sessions
    <3>3. session' = [session EXCEPT ![u][k] = s]
      BY <2>1 DEF EndSession
    <3> HIDE DEF s
    <3> QED BY <2>1, <3>1, <3>2, <3>3, InvOfSession
  <2> QED BY <1>1, <1>3, <2>1 DEF Revoke
<1>4. ASSUME NEW u \in Units, Withdraw(u) PROVE \A v \in Units : UnitInv(v)'
  <2>1. UNCHANGED <<alive, token, call>> /\ session[u] \in [Numbers -> Sessions]
    BY <1>4 DEF Withdraw, Inv, TypeOK
  <2>2. CASE UNCHANGED <<unit, live, session, strayed>>
    BY <1>1, <2>1, <2>2
  <2>3. CASE Waiting(u) /\ DeclinedAt(u)
    <3>1. Terminal(unit[u].state)
      BY <2>3 DEF Waiting, Terminal, TerminalStates
    <3> QED BY <2>1, <2>3, <3>1, InvDeclinedAt
  <2>4. CASE \E in \in {"AdmissionDeclined", "AdmissionWithdrawn"} :
                Tell(u, unit[u].life, in, session[u])
    BY <2>1, <2>4, InvTold DEF Told
  <2> QED BY <1>4, <2>2, <2>3, <2>4 DEF Withdraw
<1> QED BY <1>2, <1>3, <1>4 DEF PolicyNext

LEMMA InvInit == Init => Inv
<1> SUFFICES ASSUME Init, NEW u \in Units PROVE UnitInv(u)
  BY TypeInit DEF Inv
<1>1. 1 \in Numbers
  BY LivesAssumption DEF Numbers
<1>2. /\ unit[u] = [state |-> "Starting", life |-> 1, lives |-> 1]
      /\ alive[u] = {1} /\ token[u] = [life |-> 1, good |-> TRUE] /\ live[u] = 0
      /\ \A k \in Numbers : /\ session[u][k].at = "none"
                            /\ \A t \in Tries : call[u][k][t] = "none"
  BY <1>1 DEF Init, NoSession
<1>3. LifeInv(u) /\ TokenInv(u)
  BY <1>2 DEF LifeInv, TokenInv, Past
<1>4. AccountInv(u)
  BY <1>2 DEF AccountInv
<1> QED BY <1>3, <1>4 DEF UnitInv

LEMMA InvStep == Inv /\ [Next]_vars => Inv'
<1> SUFFICES ASSUME Inv, [Next]_vars PROVE Inv'
  OBVIOUS
<1>1. TypeOK'
  BY TypeStep DEF Inv
<1>2. CASE UNCHANGED vars
  BY <1>1, <1>2, Elsewhere DEF Inv, vars, Untouched
<1>3. ASSUME NEW u \in Units, NEW k \in Numbers, RegisterNext(u, k)
      PROVE  \A v \in Units : UnitInv(v)'
  BY <1>3, InvPresent, InvSpend, InvDecide, InvTellAdmission DEF RegisterNext
<1>4. ASSUME NEW u \in Units, NEW k \in Numbers,
             SessionNext(u, k) \/ Exits(u, k)
      PROVE  \A v \in Units : UnitInv(v)'
  BY <1>4, InvSession, InvExits
<1>5. ASSUME NEW u \in Units, Launch(u) PROVE \A v \in Units : UnitInv(v)'
  BY <1>5, InvLaunch
<1>6. CASE PolicyNext
  BY <1>1, <1>6, InvPolicy DEF Inv
<1>7. CASE Next
  BY <1>1, <1>3, <1>4, <1>5, <1>6, <1>7 DEF Next, Inv
<1> QED BY <1>2, <1>7

LEMMA InvAlways == Spec => []Inv
  BY InvInit, InvStep, PTL DEF Spec

--------------------------------------------------------------------------------
(* A unit that takes part is live to admission, whatever its calls         *)
(* overtake, until one acts on a life it is not about (Register, Release). *)
THEOREM ParticipantsLive == Spec => []ParticipantIsLive
<1>1. Inv => ParticipantIsLive
  BY DEF Inv, UnitInv, AccountInv, ParticipantIsLive
<1> QED BY <1>1, InvAlways, PTL

(* No registration refuses a unit whose life was accepted, but one that    *)
(* was about another life (Register).                                      *)
THEOREM AdmissionsKept == Spec => AdmissionKept
<1> DEFINE Kept ==
      \A u \in Units \ strayed' :
         (/\ unit[u].state # "Refused"
          /\ unit'[u].state = "Refused"
          /\ call' # call)
         => \A t \in Tries :
                call[u][unit[u].life][t] \notin {"accepted", "admitted"}
<1>1. Inv /\ [Next]_vars => [Kept]_vars
  <2> SUFFICES ASSUME Inv, Next, NEW u \in Units, u \notin strayed',
                      unit[u].state # "Refused", unit'[u].state = "Refused",
                      call' # call
               PROVE  \A t \in Tries : call[u][unit[u].life][t]
                                          \notin {"accepted", "admitted"}
    OBVIOUS
  <2>0. /\ TypeOK /\ UnitInv(u) /\ unit \in [Units -> Copies]
        /\ unit[u].state \in States
    BY DEF Inv, TypeOK, Copies
  <2>1. ~PolicyNext /\ ~\E v \in Units : Launch(v)
    BY DEF PolicyNext, Disable, Enable, Look, Revoke, Withdraw, Launch
  <2>2. ~\E v \in Units, k \in Numbers : SessionNext(v, k) \/ Exits(v, k)
    BY DEF SessionNext, Find, OpenSession, TellOpened, CloseSession,
       HeartbeatLost, TellEnded, Exits
  <2>3. PICK v \in Units, k \in Numbers : RegisterNext(v, k)
    BY <2>1, <2>2 DEF Next
  <2>4. PICK t \in Tries : TellAdmission(v, k, t)
    BY <2>3 DEF RegisterNext, Present, Spend, Decide
  <2>5. session[v] \in [Numbers -> Sessions]
    BY <2>0 DEF TypeOK
  <2>6. PICK in \in {"AdmissionAccepted", "AdmissionDeclined"} :
           /\ Tell(v, k, in, session[v])
           /\ call[v][k][t] = "declined" \/ in = "AdmissionAccepted"
    BY <2>4 DEF TellAdmission
  <2>7. /\ unit' = [unit EXCEPT ![v].state = To(v, in)]
        /\ strayed' = IF To(v, in) # unit[v].state /\ unit[v].life # k
                      THEN strayed \cup {v} ELSE strayed
    BY <2>0, <2>5, <2>6, Telling DEF Told
  <2>8. v = u /\ To(u, in) = "Refused"
    BY <2>0, <2>7 DEF Copies
  <2>9. in = "AdmissionDeclined" /\ unit[u].state = "Starting"
    BY <2>0, <2>8, Weighing
  <2>10. call[u][k][t] = "declined"
    BY <2>6, <2>8, <2>9
  <2>11. k = unit[u].life
    BY <2>7, <2>8, <2>9
  <2>12. \A s \in Tries \ {t} : call[u][k][s] \notin Past
    BY <2>0, <2>10 DEF UnitInv, TokenInv, Past
  <2> QED BY <2>10, <2>11, <2>12 DEF Past
<1> QED BY <1>1, InvAlways, PTL DEF Spec, AdmissionKept

(* Session.Of has one Session to find: a unit has no two open at once,     *)
(* unless one was opened whose admission had been released meanwhile:      *)
(* what was admitted is released with the Sessions forgotten               *)
(* (Session.Open, Session.Forget).                                         *)
THEOREM OneSessionOpen == Spec => []OneSession
<1>1. Inv => OneSession
  BY DEF Inv, UnitInv, AccountInv, OneSession, OpenOf
<1> QED BY <1>1, InvAlways, PTL

--------------------------------------------------------------------------------

(* What a call has by the step it is at. *)
CallInv(n) ==
    /\ n > asked => calls[n].at = "none"
    /\ calls[n].at \in {"none", "opening"} => flow[n] = "none"
    /\ calls[n].at \in {"none", "opening", "instruct"} => exchange[n] = NoExchange
    /\ calls[n].at \in {"none", "opening", "instruct", "waiting", "late"} =>
           calls[n].got = "none"
    /\ calls[n].at = "opening" => calls[n].op = "start"
    /\ IsStarting(n) /\ flow[n] = "open" => calls[n].op = "start"
    /\ calls[n].at = "settle" /\ calls[n].got = "ok" => exchange[n].at = "handed"
    /\ calls[n].got = "unanswered" => exchange[n].at # "handed"

(* A start is answering for an open transport, or was answered in a        *)
(* Session that is open, or closes it next.                                *)
Answered(f) == exchange[f].at \in {"heard", "handed"}

FlowInv(f) ==
    flow[f] = "open" =>
        /\ IsStarting(f) \/ exchange[f].at = "handed"
        /\ Answered(f) => IsKept(exchange[f].life) /\ sup.at # "removing"

(* Every life launched had a Session, the last one's at most is not over,  *)
(* and while a life that has one open is concluded its process is gone.    *)
SessionInv ==
    /\ \A l \in Lives : l < life => sessions[l].at = "over"
    /\ \A l \in Lives : sessions[l].at = "none" <=> l > life
    /\ sup.at = "removing" /\ up => ~InSession

FileInv == file # 0 => flow[file] \in {"open", "taken"}

CallsInv == StreamTypeOK /\ \A n \in StreamCalls : CallInv(n)
FlowsInv == CallsInv /\ SessionInv /\ FileInv /\ \A f \in StreamCalls : FlowInv(f)

--------------------------------------------------------------------------------
LEMMA FlowTaken ==
    ASSUME StreamTypeOK
    PROVE  TheFlow \in CallOrNone
  <1>1. CASE Flowing
    <2>1. PICK f \in StreamCalls : flow[f] = "open"
      BY <1>1 DEF Flowing
    <2>2. TheFlow \in StreamCalls
      BY <1>1, <2>1 DEF TheFlow
    <2>. QED  BY <2>2, CallsAssumption DEF StreamCalls, CallOrNone
  <1>2. CASE ~Flowing
    BY <1>2, CallsAssumption DEF TheFlow, CallOrNone
  <1>. QED  BY <1>1, <1>2

LEMMA NothingTyped == NoExchange \in Exchange /\ NoCall \in Call /\ Over \in Call
  <1>1. 0 \in CallOrNone /\ 0 \in 0..MaxLife
    BY CallsAssumption DEF CallOrNone
  <1>. QED
    BY <1>1 DEF NoExchange, Exchange, NoCall, Over, Call, Steps, StreamOps

LEMMA TypesStart ==
    ASSUME StreamInit
    PROVE  StreamTypeOK
  <1>1. 0 \in CallOrNone /\ 0 \in 0..MaxLife
    BY CallsAssumption DEF CallOrNone
  <1>2. [at |-> "none", takes |-> 0] \in SessionStates
    BY <1>1 DEF SessionStates
  <1>. QED
    BY <1>1, <1>2, NothingTyped, Zenon DEF StreamInit, StreamTypeOK

LEMMA CallsStart ==
    ASSUME StreamInit, NEW n \in StreamCalls
    PROVE  CallInv(n)
  BY DEF StreamInit, CallInv, IsStarting, NoCall, NoExchange

LEMMA TypesKept ==
    ASSUME StreamTypeOK, [StreamNext]_streamVars
    PROVE  StreamTypeOK'
  <1>. USE CallsAssumption DEF StreamTypeOK, unitVars, flowVars
  <1>0. TheFlow \in CallOrNone /\ 0 \in CallOrNone
    BY FlowTaken DEF CallOrNone
  <1>1. ASSUME NEW way \in StreamOps, Asks(way)
        PROVE  StreamTypeOK'
    <2>1. asked' \in CallOrNone
      BY <1>1 DEF Asks, CallOrNone
    <2>2. calls' \in [StreamCalls -> Call]
      BY NothingTyped, <1>0, <1>1 DEF Asks, Call, Steps, StreamOps
    <2>. QED  BY <1>1, <2>1, <2>2 DEF Asks
  <1>2. ASSUME NEW n \in StreamCalls, OpensTransport(n)
        PROVE  StreamTypeOK'
    <2>1. calls' \in [StreamCalls -> Call]
      <3>1. CASE Flowing
        BY NothingTyped, <1>2, <3>1 DEF OpensTransport
      <3>2. CASE ~Flowing
        <4>1. calls' = [calls EXCEPT ![n].at = "instruct"]
          BY <1>2, <3>2 DEF OpensTransport
        <4>. QED  BY <1>2, <4>1 DEF Call, Steps
      <3>. QED  BY <3>1, <3>2
    <2>2. flow' \in [StreamCalls -> {"none", "open", "taken", "gone"}]
      BY <1>2 DEF OpensTransport
    <2>3. file' \in CallOrNone
      BY <1>2 DEF OpensTransport, CallOrNone, StreamCalls
    <2>. QED  BY <1>2, <2>1, <2>2, <2>3 DEF OpensTransport
  <1>3. ASSUME NEW n \in StreamCalls, Instructs(n)
        PROVE  StreamTypeOK'
    <2>1. calls' \in [StreamCalls -> Call]
      <3>1. CASE InSession
        <4>1. calls' = [calls EXCEPT ![n].at = "waiting"]
          BY <1>3, <3>1 DEF Instructs
        <4>. QED  BY <1>3, <4>1 DEF Call, Steps
      <3>2. CASE ~InSession
        <4>1. calls' = [calls EXCEPT ![n] = [@ EXCEPT !.at = "settle", !.got = "no session"]]
          BY <1>3, <3>2 DEF Instructs
        <4>. QED  BY <1>3, <4>1 DEF Call, Steps
      <3>. QED  BY <3>1, <3>2
    <2>2. exchange' \in [StreamCalls -> Exchange]
      <3>1. CASE InSession
        <4>1. [at |-> "sent", life |-> life, answer |-> "none"] \in Exchange
          BY DEF Exchange
        <4>. QED  BY <1>3, <3>1, <4>1 DEF Instructs
      <3>2. CASE ~InSession
        BY <1>3, <3>2 DEF Instructs
      <3>. QED  BY <3>1, <3>2
    <2>. QED  BY <1>3, <2>1, <2>2 DEF Instructs
  <1>4. ASSUME NEW n \in StreamCalls, ScopeRefuses(n)
        PROVE  StreamTypeOK'
    <2>1. calls' \in [StreamCalls -> Call]
      BY NothingTyped, <1>0, <1>4 DEF ScopeRefuses, Call, Steps, Answers
    <2>. QED  BY <1>4, <2>1 DEF ScopeRefuses
  <1>5. ASSUME NEW n \in StreamCalls, IsAnswered(n)
        PROVE  StreamTypeOK'
    <2>1. calls' \in [StreamCalls -> Call]
      <3>1. exchange[n].answer \in Answers \cup {"none"}
        BY <1>5 DEF Exchange
      <3>. QED  BY <1>5, <3>1 DEF IsAnswered, Call, Steps
    <2>. QED  BY <1>5, <2>1 DEF IsAnswered
  <1>6. ASSUME NEW n \in StreamCalls, SessionIsOver(n)
        PROVE  StreamTypeOK'
    <2>1. calls' \in [StreamCalls -> Call]
      BY NothingTyped, <1>0, <1>6 DEF SessionIsOver, Call, Steps
    <2>2. exchange' \in [StreamCalls -> Exchange]
      BY NothingTyped, <1>6 DEF SessionIsOver, Exchange
    <2>. QED  BY <1>6, <2>1, <2>2 DEF SessionIsOver
  <1>7. ASSUME NEW n \in StreamCalls, TimesOut(n)
        PROVE  StreamTypeOK'
    <2>1. calls' \in [StreamCalls -> Call]
      BY NothingTyped, <1>0, <1>7 DEF TimesOut, Call, Steps
    <2>. QED  BY <1>7, <2>1 DEF TimesOut
  <1>8. ASSUME NEW n \in StreamCalls, GivesUpWaiting(n)
        PROVE  StreamTypeOK'
    <2>1. calls' \in [StreamCalls -> Call]
      <3> DEFINE got == IF exchange[n].at = "handed"
                        THEN exchange[n].answer ELSE "unanswered"
      <3>1. got \in Answers \cup {"none", "unanswered", "no session"}
        BY <1>8 DEF Exchange
      <3>2. calls' = [calls EXCEPT ![n] = [@ EXCEPT !.at = "settle", !.got = got]]
        BY <1>8 DEF GivesUpWaiting
      <3> HIDE DEF got
      <3>. QED  BY <1>8, <3>1, <3>2 DEF Call, Steps
    <2>. QED  BY <1>8, <2>1 DEF GivesUpWaiting
  <1>9. ASSUME NEW n \in StreamCalls, Settles(n)
        PROVE  StreamTypeOK'
    <2>1. calls' \in [StreamCalls -> Call]
      <3>1. CASE \/ calls[n].op = "stop"
                 \/ calls[n].op = "start" /\ calls[n].got # "ok"
        <4>1. calls' = [calls EXCEPT ![n] = [@ EXCEPT !.at = "removing", !.takes = TheFlow]]
          BY <1>9, <3>1 DEF Settles
        <4>. QED  BY <1>0, <1>9, <4>1 DEF Call, Steps
      <3>2. CASE ~(\/ calls[n].op = "stop"
                   \/ calls[n].op = "start" /\ calls[n].got # "ok")
        BY NothingTyped, <1>9, <3>2 DEF Settles
      <3>. QED  BY <3>1, <3>2
    <2>2. exchange' \in [StreamCalls -> Exchange]
      BY NothingTyped, <1>9 DEF Settles, Exchange
    <2>3. flow' \in [StreamCalls -> {"none", "open", "taken", "gone"}]
      BY <1>9 DEF Settles, TakesFlow
    <2>. QED  BY <1>9, <2>1, <2>2, <2>3 DEF Settles
  <1>10. ASSUME NEW n \in StreamCalls, Returns(n)
        PROVE  StreamTypeOK'
    <2>1. calls' \in [StreamCalls -> Call]
      BY NothingTyped, <1>0, <1>10 DEF Returns, Call, Steps
    <2>. QED  BY <1>10, <2>1 DEF Returns
  <1>11. ASSUME NEW n \in StreamCalls, RemovesSocket(n)
        PROVE  StreamTypeOK'
    <2>1. flow' \in [StreamCalls -> {"none", "open", "taken", "gone"}]
      BY <1>11 DEF RemovesSocket
    <2>2. file' \in CallOrNone
      BY <1>11 DEF RemovesSocket, CallOrNone, StreamCalls
    <2>. QED  BY <1>11, <2>1, <2>2 DEF RemovesSocket
  <1>12. ASSUME NEW n \in StreamCalls, HandsOver(n)
        PROVE  StreamTypeOK'
    <2>1. exchange' \in [StreamCalls -> Exchange]
      BY NothingTyped, <1>12 DEF HandsOver, Exchange
    <2>. QED  BY <1>12, <2>1 DEF HandsOver
  <1>13. ASSUME NEW n \in StreamCalls, NEW answer \in Answers, UnitAnswers(n, answer)
        PROVE  StreamTypeOK'
    <2>1. exchange' \in [StreamCalls -> Exchange]
      BY NothingTyped, <1>13 DEF UnitAnswers, Exchange, Answers
    <2>. QED  BY <1>13, <2>1 DEF UnitAnswers
  <1>14. ASSUME NEW l \in Lives, EndsSession(l)
        PROVE  StreamTypeOK'
    <2>1. sessions' \in [Lives -> SessionStates]
      BY <1>0, <1>14 DEF EndsSession, SessionStates
    <2>. QED  BY <1>14, <2>1 DEF EndsSession
  <1>15. ASSUME NEW l \in Lives, SweepsAtEnd(l)
        PROVE  StreamTypeOK'
    <2>1. sessions' \in [Lives -> SessionStates]
      BY <1>0, <1>15 DEF SweepsAtEnd, SessionStates
    <2>2. flow' \in [StreamCalls -> {"none", "open", "taken", "gone"}]
      BY <1>15 DEF SweepsAtEnd, TakesFlow
    <2>. QED  BY <1>15, <2>1, <2>2 DEF SweepsAtEnd
  <1>16. ASSUME NEW l \in Lives, EndIsTold(l)
        PROVE  StreamTypeOK'
    <2>1. sessions' \in [Lives -> SessionStates]
      BY <1>0, <1>16 DEF EndIsTold, SessionStates
    <2>2. sup' \in [at : {"between", "watching", "removing"}, takes : CallOrNone]
      BY <1>0, <1>16 DEF EndIsTold
    <2>3. flow' \in [StreamCalls -> {"none", "open", "taken", "gone"}]
      BY <1>16 DEF EndIsTold, TakesFlow
    <2>. QED  BY <1>16, <2>1, <2>2, <2>3 DEF EndIsTold
  <1>17. ASSUME Begins
        PROVE  StreamTypeOK'
    <2>1. life' \in 0..MaxLife
      BY <1>17 DEF Begins, Lives
    <2>2. up' \in BOOLEAN
      BY <1>17 DEF Begins, Lives
    <2>3. sup' \in [at : {"between", "watching", "removing"}, takes : CallOrNone]
      BY <1>0, <1>17 DEF Begins, Lives
    <2>4. sessions' \in [Lives -> SessionStates]
      BY <1>0, <1>17 DEF Begins, Lives, SessionStates
    <2>. QED  BY <1>17, <2>2, <2>1, <2>3, <2>4 DEF Begins
  <1>18. ASSUME UnitExits
        PROVE  StreamTypeOK'
    <2>1. up' \in BOOLEAN
      BY <1>18 DEF UnitExits
    <2>. QED  BY <1>18, <2>1 DEF UnitExits
  <1>19. ASSUME SweepsAtExit
        PROVE  StreamTypeOK'
    <2>1. sup' \in [at : {"between", "watching", "removing"}, takes : CallOrNone]
      BY <1>0, <1>19 DEF SweepsAtExit
    <2>2. flow' \in [StreamCalls -> {"none", "open", "taken", "gone"}]
      BY <1>19 DEF SweepsAtExit, TakesFlow
    <2>. QED  BY <1>19, <2>1, <2>2 DEF SweepsAtExit
  <1>20. ASSUME Forgets
        PROVE  StreamTypeOK'
    <2>1. sup' \in [at : {"between", "watching", "removing"}, takes : CallOrNone]
      BY <1>0, <1>20 DEF Forgets
    <2>2. sessions' \in [Lives -> SessionStates]
      BY <1>0, <1>20 DEF Forgets, SessionStates
    <2>. QED  BY <1>20, <2>1, <2>2 DEF Forgets
  <1>21. ASSUME UNCHANGED streamVars
        PROVE  StreamTypeOK'
    BY <1>21 DEF streamVars
  <1>. QED
    BY <1>2, <1>1, <1>3, <1>4, <1>5, <1>7, <1>6, <1>8, <1>9, <1>11, <1>10, <1>12,
       <1>13, <1>15, <1>14, <1>16, <1>17, <1>19, <1>18, <1>20, <1>21
    DEF StreamNext, GoesOn, Closing

LEMMA CallKept ==
    ASSUME StreamTypeOK, NEW m \in StreamCalls, CallInv(m), [StreamNext]_streamVars
    PROVE  CallInv(m)'
  <1>0. /\ calls \in [StreamCalls -> Call] /\ exchange \in [StreamCalls -> Exchange]
        /\ flow \in [StreamCalls -> {"none", "open", "taken", "gone"}]
        /\ asked \in Nat /\ m \in Nat
    BY CallsAssumption DEF StreamTypeOK, CallOrNone, StreamCalls
  <1>. USE <1>0 DEF CallInv, IsStarting, NoExchange, NoCall, Over
  <1>1. ASSUME NEW way \in StreamOps, Asks(way)
        PROVE  CallInv(m)'
    BY <1>1 DEF Asks, unitVars, flowVars
  <1>2. ASSUME NEW n \in StreamCalls, OpensTransport(n)
        PROVE  CallInv(m)'
    <2>1. CASE m # n
      <3>1. /\ calls'[m] = calls[m] /\ exchange'[m] = exchange[m] /\ asked' = asked
            /\ flow'[m] = flow[m]
        BY <1>2, <2>1 DEF OpensTransport, unitVars, flowVars
      <3>. QED  BY <1>2, <2>1, <3>1
    <2>2. CASE m = n /\ Flowing
      BY <1>2, <2>2 DEF OpensTransport, unitVars, flowVars
    <2>3. CASE m = n /\ ~Flowing
      <3>1. /\ calls[m].at = "opening"
            /\ calls' = [calls EXCEPT ![m].at = "instruct"]
            /\ exchange' = exchange
            /\ asked' = asked
        BY <1>2, <2>3 DEF OpensTransport, unitVars, flowVars
      <3>. QED  BY <2>3, <3>1 DEF Call
    <2>. QED  BY <2>1, <2>3, <2>2
  <1>3. ASSUME NEW n \in StreamCalls, Instructs(n)
        PROVE  CallInv(m)'
    <2>1. CASE m # n
      <3>1. /\ calls'[m] = calls[m] /\ exchange'[m] = exchange[m] /\ asked' = asked
            /\ flow'[m] = flow[m]
        BY <1>3, <2>1 DEF Instructs, unitVars, flowVars
      <3>. QED  BY <1>3, <2>1, <3>1
    <2>2. CASE m = n /\ InSession
      <3>1. /\ calls[m].at = "instruct"
            /\ calls' = [calls EXCEPT ![m].at = "waiting"]
            /\ exchange'[m].at = "sent"
            /\ flow' = flow
            /\ asked' = asked
        BY <1>3, <2>2 DEF Instructs, unitVars, flowVars
      <3>. QED  BY <2>2, <3>1 DEF Call
    <2>3. CASE m = n /\ ~InSession
      <3>1. /\ calls[m].at = "instruct"
            /\ calls' = [calls EXCEPT ![m] = [@ EXCEPT !.at = "settle", !.got = "no session"]]
            /\ exchange' = exchange
            /\ flow' = flow
            /\ asked' = asked
        BY <1>3, <2>3 DEF Instructs, unitVars, flowVars
      <3>. QED  BY <2>3, <3>1 DEF Call
    <2>. QED  BY <2>1, <2>3, <2>2
  <1>4. ASSUME NEW n \in StreamCalls, ScopeRefuses(n)
        PROVE  CallInv(m)'
    BY <1>4 DEF ScopeRefuses, unitVars, flowVars
  <1>5. ASSUME NEW n \in StreamCalls, IsAnswered(n)
        PROVE  CallInv(m)'
    <2>1. CASE m # n
      <3>1. /\ calls'[m] = calls[m] /\ exchange'[m] = exchange[m] /\ asked' = asked
            /\ flow'[m] = flow[m]
        BY <1>5, <2>1 DEF IsAnswered, unitVars, flowVars
      <3>. QED  BY <1>5, <2>1, <3>1
    <2>2. CASE m = n
      <3>1. /\ calls[m].at = "waiting"
            /\ calls' = [calls EXCEPT ![m] = [@ EXCEPT !.at = "settle", !.got = exchange[m].answer]]
            /\ exchange[m].at = "handed"
            /\ exchange' = exchange /\ flow' = flow /\ asked' = asked
        BY <1>5, <2>2 DEF IsAnswered, unitVars, flowVars
      <3>2. exchange[m].answer # "unanswered"
        BY DEF Exchange, Answers
      <3>. QED  BY <2>2, <3>1, <3>2 DEF Call
    <2>. QED  BY <2>1, <2>2
  <1>6. ASSUME NEW n \in StreamCalls, SessionIsOver(n)
        PROVE  CallInv(m)'
    <2>1. CASE m # n
      <3>1. /\ calls'[m] = calls[m] /\ exchange'[m] = exchange[m] /\ asked' = asked
            /\ flow'[m] = flow[m]
        BY <1>6, <2>1 DEF SessionIsOver, unitVars, flowVars
      <3>. QED  BY <1>6, <2>1, <3>1
    <2>2. CASE m = n
      <3>1. /\ calls[m].at = "waiting"
            /\ calls' = [calls EXCEPT ![m] = [@ EXCEPT !.at = "settle", !.got = "no session"]]
            /\ exchange'[m].at = "none"
            /\ flow' = flow
            /\ asked' = asked
        BY <1>6, <2>2 DEF SessionIsOver, unitVars, flowVars
      <3>. QED  BY <2>2, <3>1 DEF Call
    <2>. QED  BY <2>1, <2>2
  <1>7. ASSUME NEW n \in StreamCalls, TimesOut(n)
        PROVE  CallInv(m)'
    BY <1>7 DEF TimesOut, unitVars, flowVars
  <1>8. ASSUME NEW n \in StreamCalls, GivesUpWaiting(n)
        PROVE  CallInv(m)'
    <2>1. CASE m # n
      <3>1. /\ calls'[m] = calls[m] /\ exchange'[m] = exchange[m] /\ asked' = asked
            /\ flow'[m] = flow[m]
        BY <1>8, <2>1 DEF GivesUpWaiting, unitVars, flowVars
      <3>. QED  BY <1>8, <2>1, <3>1
    <2>2. CASE m = n /\ exchange[n].at = "handed"
      <3>1. /\ calls[m].at = "late"
            /\ calls' = [calls EXCEPT ![m] = [@ EXCEPT !.at = "settle", !.got = exchange[m].answer]]
            /\ exchange[m].at = "handed"
            /\ exchange' = exchange /\ flow' = flow /\ asked' = asked
        BY <1>8, <2>2 DEF GivesUpWaiting, unitVars, flowVars
      <3>2. exchange[m].answer # "unanswered"
        BY DEF Exchange, Answers
      <3>. QED  BY <2>2, <3>1, <3>2 DEF Call
    <2>3. CASE m = n /\ exchange[n].at # "handed"
      BY <1>8, <2>3 DEF GivesUpWaiting, unitVars, flowVars
    <2>. QED  BY <2>1, <2>3, <2>2
  <1>9. ASSUME NEW n \in StreamCalls, Settles(n)
        PROVE  CallInv(m)'
    <2>1. CASE m # n
      <3>1. /\ calls'[m] = calls[m] /\ exchange'[m] = exchange[m] /\ asked' = asked
            /\ flow'[m] = "open" => flow[m] = "open"
            /\ flow[m] = "none" => flow'[m] = "none"
        BY <1>9, <2>1 DEF Settles, TakesFlow, unitVars, flowVars
      <3>. QED  BY <1>9, <2>1, <3>1
    <2>2. CASE m = n
      <3>1. /\ calls[m].at = "settle" /\ asked' = asked
            /\ flow'[m] = "open" => flow[m] = "open"
        BY <1>9, <2>2 DEF Settles, TakesFlow, unitVars, flowVars
      <3>2. CASE calls[m].op = "stop" \/ (calls[m].op = "start" /\ calls[m].got # "ok")
        <4>1. /\ calls' = [calls EXCEPT ![m] = [@ EXCEPT !.at = "removing", !.takes = TheFlow]]
              /\ exchange'[m].at = "none"
          BY <1>9, <2>2, <3>2 DEF Settles
        <4>. QED  BY <2>2, <3>1, <4>1 DEF Call
      <3>3. CASE ~(calls[m].op = "stop" \/ (calls[m].op = "start" /\ calls[m].got # "ok"))
        <4>1. calls' = [calls EXCEPT ![m] = Over]
          BY <1>9, <2>2, <3>3 DEF Settles
        <4>2. calls'[m] = [at |-> "over", op |-> "ask", got |-> "none", takes |-> 0]
          BY <1>0, <4>1 DEF Over, NoCall
        <4>3. calls'[m].at = "over" /\ calls'[m].got = "none"
          BY <4>2
        <4>. QED  BY <2>2, <3>1, <4>3
      <3>. QED  BY <3>2, <3>3
    <2>. QED  BY <2>1, <2>2
  <1>10. ASSUME NEW n \in StreamCalls, Returns(n)
        PROVE  CallInv(m)'
    BY <1>10 DEF Returns, unitVars, flowVars
  <1>11. ASSUME NEW n \in StreamCalls, RemovesSocket(n)
        PROVE  CallInv(m)'
    BY <1>11 DEF RemovesSocket, unitVars, flowVars
  <1>12. ASSUME NEW n \in StreamCalls, HandsOver(n)
        PROVE  CallInv(m)'
    BY <1>12 DEF HandsOver, unitVars, flowVars
  <1>13. ASSUME NEW n \in StreamCalls, NEW answer \in Answers, UnitAnswers(n, answer)
        PROVE  CallInv(m)'
    BY <1>13 DEF UnitAnswers, unitVars, flowVars
  <1>14. ASSUME NEW l \in Lives, EndsSession(l)
        PROVE  CallInv(m)'
    BY <1>14 DEF EndsSession, unitVars, flowVars
  <1>15. ASSUME NEW l \in Lives, SweepsAtEnd(l)
        PROVE  CallInv(m)'
    BY <1>15 DEF SweepsAtEnd, TakesFlow, unitVars, flowVars
  <1>16. ASSUME NEW l \in Lives, EndIsTold(l)
        PROVE  CallInv(m)'
    BY <1>16 DEF EndIsTold, TakesFlow, unitVars, flowVars
  <1>17. ASSUME Begins
        PROVE  CallInv(m)'
    BY <1>17 DEF Begins, unitVars, flowVars
  <1>18. ASSUME UnitExits
        PROVE  CallInv(m)'
    BY <1>18 DEF UnitExits, unitVars, flowVars
  <1>19. ASSUME SweepsAtExit
        PROVE  CallInv(m)'
    BY <1>19 DEF SweepsAtExit, TakesFlow, unitVars, flowVars
  <1>20. ASSUME Forgets
        PROVE  CallInv(m)'
    BY <1>20 DEF Forgets, unitVars, flowVars
  <1>21. ASSUME UNCHANGED streamVars
        PROVE  CallInv(m)'
    BY <1>21 DEF streamVars, unitVars, flowVars
  <1>. QED
    BY <1>2, <1>1, <1>3, <1>4, <1>5, <1>7, <1>6, <1>8, <1>9, <1>11, <1>10, <1>12,
       <1>13, <1>15, <1>14, <1>16, <1>17, <1>19, <1>18, <1>20, <1>21
    DEF StreamNext, GoesOn, Closing

LEMMA SessionsKept ==
    ASSUME StreamTypeOK, SessionInv, ~EndsLate,
           [StreamNext]_streamVars
    PROVE  SessionInv'
  <1>0. /\ sessions \in [Lives -> SessionStates] /\ life \in Nat
        /\ life # 0 => life \in Lives
        /\ \A l \in Lives : l \in Nat /\ l # 0
    BY CallsAssumption DEF StreamTypeOK, Lives
  <1>. USE <1>0 DEF SessionInv, InSession
  <1>1. ASSUME NEW way \in StreamOps, Asks(way)
        PROVE  SessionInv'
    BY <1>1 DEF Asks, unitVars, flowVars
  <1>2. ASSUME NEW n \in StreamCalls, OpensTransport(n)
        PROVE  SessionInv'
    BY <1>2 DEF OpensTransport, unitVars, flowVars
  <1>3. ASSUME NEW n \in StreamCalls, Instructs(n)
        PROVE  SessionInv'
    BY <1>3 DEF Instructs, unitVars, flowVars
  <1>4. ASSUME NEW n \in StreamCalls, ScopeRefuses(n)
        PROVE  SessionInv'
    BY <1>4 DEF ScopeRefuses, unitVars, flowVars
  <1>5. ASSUME NEW n \in StreamCalls, IsAnswered(n)
        PROVE  SessionInv'
    BY <1>5 DEF IsAnswered, unitVars, flowVars
  <1>6. ASSUME NEW n \in StreamCalls, SessionIsOver(n)
        PROVE  SessionInv'
    BY <1>6 DEF SessionIsOver, unitVars, flowVars
  <1>7. ASSUME NEW n \in StreamCalls, TimesOut(n)
        PROVE  SessionInv'
    BY <1>7 DEF TimesOut, unitVars, flowVars
  <1>8. ASSUME NEW n \in StreamCalls, GivesUpWaiting(n)
        PROVE  SessionInv'
    BY <1>8 DEF GivesUpWaiting, unitVars, flowVars
  <1>9. ASSUME NEW n \in StreamCalls, Settles(n)
        PROVE  SessionInv'
    BY <1>9 DEF Settles, TakesFlow, unitVars, flowVars
  <1>10. ASSUME NEW n \in StreamCalls, Returns(n)
        PROVE  SessionInv'
    BY <1>10 DEF Returns, unitVars, flowVars
  <1>11. ASSUME NEW n \in StreamCalls, RemovesSocket(n)
        PROVE  SessionInv'
    BY <1>11 DEF RemovesSocket, unitVars, flowVars
  <1>12. ASSUME NEW n \in StreamCalls, HandsOver(n)
        PROVE  SessionInv'
    BY <1>12 DEF HandsOver, unitVars, flowVars
  <1>13. ASSUME NEW n \in StreamCalls, NEW answer \in Answers, UnitAnswers(n, answer)
        PROVE  SessionInv'
    BY <1>13 DEF UnitAnswers, unitVars, flowVars
  <1>14. ASSUME NEW l \in Lives, EndsSession(l)
        PROVE  SessionInv'
    BY <1>14 DEF EndsSession, unitVars, flowVars
  <1>15. ASSUME NEW l \in Lives, SweepsAtEnd(l)
        PROVE  SessionInv'
    BY <1>15 DEF SweepsAtEnd, TakesFlow, unitVars, flowVars
  <1>16. ASSUME NEW l \in Lives, EndIsTold(l)
        PROVE  SessionInv'
    <2>1. /\ l = life /\ life' = life /\ up' = up
          /\ sup.at # "removing" /\ sessions[l].at = "removing"
      BY <1>16 DEF EndIsTold
    <2>2. CASE sup.at = "watching"
      <3>1. sessions' = [sessions EXCEPT ![l].at = "told"]
        BY <1>16, <2>2 DEF EndIsTold
      <3>2. sessions'[l].at = "told" /\ \A k \in Lives : k # l => sessions'[k] = sessions[k]
        BY <3>1 DEF SessionStates
      <3>. QED  BY <2>1, <3>2
    <2>3. CASE sup.at # "watching"
      <3>1. sessions' = [sessions EXCEPT ![l].at = "over"] /\ sup' = sup
        BY <1>16, <2>3 DEF EndIsTold
      <3>2. sessions'[l].at = "over" /\ \A k \in Lives : k # l => sessions'[k] = sessions[k]
        BY <3>1 DEF SessionStates
      <3>. QED  BY <2>1, <3>1, <3>2
    <2>. QED  BY <2>2, <2>3
  <1>17. ASSUME Begins
        PROVE  SessionInv'
    <2>1. life' = life + 1 /\ sup'.at = "watching"
      BY <1>17 DEF Begins, StreamTypeOK
    <2>2. \A k \in Lives : k # life + 1 => sessions'[k] = sessions[k]
      BY <1>17 DEF Begins
    <2>3. \A k \in Lives : sessions[k].at \in {"none", "over"}
      BY <1>17 DEF Begins
    <2>4. life # 0 => sessions[life].at = "over"
      BY <2>3
    <2>5. sessions'[life + 1].at = "open" /\ life + 1 \in Lives
      BY <1>17, CallsAssumption DEF Begins, Lives, SessionStates, StreamTypeOK
    <2>. QED  BY <2>1, <2>2, <2>4, <2>5
  <1>18. ASSUME UnitExits
        PROVE  SessionInv'
    BY <1>18 DEF UnitExits, unitVars, flowVars
  <1>19. ASSUME SweepsAtExit
        PROVE  SessionInv'
    BY <1>19 DEF SweepsAtExit, TakesFlow, unitVars, flowVars
  <1>20. ASSUME Forgets
        PROVE  SessionInv'
    BY <1>20 DEF Forgets, SessionStates, unitVars, flowVars
  <1>21. ASSUME UNCHANGED streamVars
        PROVE  SessionInv'
    BY <1>21 DEF streamVars, unitVars, flowVars
  <1>. QED
    BY <1>2, <1>1, <1>3, <1>4, <1>5, <1>7, <1>6, <1>8, <1>9, <1>11, <1>10, <1>12,
       <1>13, <1>15, <1>14, <1>16, <1>17, <1>19, <1>18, <1>20, <1>21
    DEF StreamNext, GoesOn, Closing

LEMMA FileKept ==
    ASSUME StreamTypeOK, FileInv,
           [StreamNext]_streamVars
    PROVE  FileInv'
  <1>0. /\ flow \in [StreamCalls -> {"none", "open", "taken", "gone"}]
        /\ file \in CallOrNone /\ \A n \in CallOrNone : n # 0 => n \in StreamCalls
    BY CallsAssumption DEF StreamTypeOK, CallOrNone, StreamCalls
  <1>. USE <1>0 DEF FileInv
  <1>1. ASSUME NEW way \in StreamOps, Asks(way)
        PROVE  FileInv'
    BY <1>1 DEF Asks, unitVars, flowVars
  <1>2. ASSUME NEW n \in StreamCalls, OpensTransport(n)
        PROVE  FileInv'
    BY <1>2 DEF OpensTransport, unitVars, flowVars
  <1>3. ASSUME NEW n \in StreamCalls, Instructs(n)
        PROVE  FileInv'
    BY <1>3 DEF Instructs, unitVars, flowVars
  <1>4. ASSUME NEW n \in StreamCalls, ScopeRefuses(n)
        PROVE  FileInv'
    BY <1>4 DEF ScopeRefuses, unitVars, flowVars
  <1>5. ASSUME NEW n \in StreamCalls, IsAnswered(n)
        PROVE  FileInv'
    BY <1>5 DEF IsAnswered, unitVars, flowVars
  <1>6. ASSUME NEW n \in StreamCalls, SessionIsOver(n)
        PROVE  FileInv'
    BY <1>6 DEF SessionIsOver, unitVars, flowVars
  <1>7. ASSUME NEW n \in StreamCalls, TimesOut(n)
        PROVE  FileInv'
    BY <1>7 DEF TimesOut, unitVars, flowVars
  <1>8. ASSUME NEW n \in StreamCalls, GivesUpWaiting(n)
        PROVE  FileInv'
    BY <1>8 DEF GivesUpWaiting, unitVars, flowVars
  <1>9. ASSUME NEW n \in StreamCalls, Settles(n)
        PROVE  FileInv'
    BY <1>9 DEF Settles, TakesFlow, unitVars, flowVars
  <1>10. ASSUME NEW n \in StreamCalls, Returns(n)
        PROVE  FileInv'
    BY <1>10 DEF Returns, unitVars, flowVars
  <1>11. ASSUME NEW n \in StreamCalls, RemovesSocket(n)
        PROVE  FileInv'
    BY <1>11 DEF RemovesSocket, unitVars, flowVars
  <1>12. ASSUME NEW n \in StreamCalls, HandsOver(n)
        PROVE  FileInv'
    BY <1>12 DEF HandsOver, unitVars, flowVars
  <1>13. ASSUME NEW n \in StreamCalls, NEW answer \in Answers, UnitAnswers(n, answer)
        PROVE  FileInv'
    BY <1>13 DEF UnitAnswers, unitVars, flowVars
  <1>14. ASSUME NEW l \in Lives, EndsSession(l)
        PROVE  FileInv'
    BY <1>14 DEF EndsSession, unitVars, flowVars
  <1>15. ASSUME NEW l \in Lives, SweepsAtEnd(l)
        PROVE  FileInv'
    BY <1>15 DEF SweepsAtEnd, TakesFlow, unitVars, flowVars
  <1>16. ASSUME NEW l \in Lives, EndIsTold(l)
        PROVE  FileInv'
    BY <1>16 DEF EndIsTold, TakesFlow, unitVars, flowVars
  <1>17. ASSUME Begins
        PROVE  FileInv'
    BY <1>17 DEF Begins, unitVars, flowVars
  <1>18. ASSUME UnitExits
        PROVE  FileInv'
    BY <1>18 DEF UnitExits, unitVars, flowVars
  <1>19. ASSUME SweepsAtExit
        PROVE  FileInv'
    BY <1>19 DEF SweepsAtExit, TakesFlow, unitVars, flowVars
  <1>20. ASSUME Forgets
        PROVE  FileInv'
    BY <1>20 DEF Forgets, unitVars, flowVars
  <1>21. ASSUME UNCHANGED streamVars
        PROVE  FileInv'
    BY <1>21 DEF streamVars, unitVars, flowVars
  <1>. QED
    BY <1>2, <1>1, <1>3, <1>4, <1>5, <1>7, <1>6, <1>8, <1>9, <1>11, <1>10, <1>12,
       <1>13, <1>15, <1>14, <1>16, <1>17, <1>19, <1>18, <1>20, <1>21
    DEF StreamNext, GoesOn, Closing

LEMMA FlowKept ==
    ASSUME StreamTypeOK, SessionInv, ~EndsLate,
           NEW f \in StreamCalls, CallInv(f), FlowInv(f),
           [StreamNext]_streamVars
    PROVE  FlowInv(f)'
  <1>0. /\ calls \in [StreamCalls -> Call] /\ exchange \in [StreamCalls -> Exchange]
        /\ flow \in [StreamCalls -> {"none", "open", "taken", "gone"}]
        /\ sessions \in [Lives -> SessionStates] /\ life \in Nat
        /\ \A l \in Lives : l \in Nat /\ l # 0
    BY CallsAssumption DEF StreamTypeOK, Lives
  <1>. USE <1>0 DEF FlowInv, IsStarting, Answered, IsKept
  <1>1. ASSUME NEW way \in StreamOps, Asks(way)
        PROVE  FlowInv(f)'
    <2>1. /\ flow' = flow /\ exchange' = exchange /\ sessions' = sessions /\ sup' = sup
          /\ asked + 1 # f => calls'[f] = calls[f]
      BY <1>1 DEF Asks, unitVars, flowVars
    <2>2. asked + 1 = f => flow[f] = "none"
      BY <1>1 DEF Asks, CallInv, StreamCalls, StreamTypeOK, CallOrNone
    <2>. QED  BY <2>1, <2>2
  <1>2. ASSUME NEW n \in StreamCalls, OpensTransport(n)
        PROVE  FlowInv(f)'
    <2>1. exchange' = exchange /\ sessions' = sessions /\ sup' = sup
      BY <1>2 DEF OpensTransport, unitVars
    <2>2. CASE f # n
      <3>1. calls'[f] = calls[f] /\ flow'[f] = flow[f]
        BY <1>2, <2>2 DEF OpensTransport, flowVars
      <3>. QED  BY <2>1, <3>1
    <2>3. CASE f = n /\ Flowing
      <3>1. flow' = flow /\ flow[f] = "none"
        BY <1>2, <2>3 DEF OpensTransport, flowVars, CallInv
      <3>. QED  BY <3>1
    <2>4. CASE f = n /\ ~Flowing
      <3>1. calls' = [calls EXCEPT ![f].at = "instruct"] /\ exchange[f].at = "none"
        BY <1>2, <2>4 DEF OpensTransport, CallInv, NoExchange
      <3>2. calls'[f].at = "instruct"
        BY <3>1 DEF Call
      <3>. QED  BY <2>1, <3>1, <3>2
    <2>. QED  BY <2>2, <2>3, <2>4
  <1>3. ASSUME NEW n \in StreamCalls, Instructs(n)
        PROVE  FlowInv(f)'
    <2>1. flow' = flow /\ sessions' = sessions /\ sup' = sup
      BY <1>3 DEF Instructs, unitVars, flowVars
    <2>2. CASE f # n
      <3>1. calls'[f] = calls[f] /\ exchange'[f] = exchange[f]
        BY <1>3, <2>2 DEF Instructs
      <3>. QED  BY <2>1, <3>1
    <2>3. CASE f = n
      <3>1. calls'[f].at \in {"waiting", "settle"}
        <4>1. CASE InSession
          <5>1. calls' = [calls EXCEPT ![f].at = "waiting"]
            BY <1>3, <2>3, <4>1 DEF Instructs
          <5>. QED  BY <5>1 DEF Call
        <4>2. CASE ~InSession
          <5>1. calls' = [calls EXCEPT ![f] = [@ EXCEPT !.at = "settle", !.got = "no session"]]
            BY <1>3, <2>3, <4>2 DEF Instructs
          <5>. QED  BY <5>1 DEF Call
        <4>. QED  BY <4>1, <4>2
      <3>2. exchange[f] = NoExchange
        BY <1>3, <2>3 DEF Instructs, CallInv
      <3>3. exchange'[f].at \in {"sent", "none"}
        <4>1. CASE InSession
          <5>1. exchange'[f] = [at |-> "sent", life |-> life, answer |-> "none"]
            BY <1>3, <2>3, <4>1 DEF Instructs
          <5>. QED  BY <5>1
        <4>2. CASE ~InSession
          <5>1. exchange' = exchange
            BY <1>3, <2>3, <4>2 DEF Instructs
          <5>. QED  BY <3>2, <5>1 DEF NoExchange
        <4>. QED  BY <4>1, <4>2
      <3>. QED  BY <2>1, <3>1, <3>3
    <2>. QED  BY <2>2, <2>3
  <1>4. ASSUME NEW n \in StreamCalls, ScopeRefuses(n)
        PROVE  FlowInv(f)'
    BY <1>4 DEF ScopeRefuses, unitVars, flowVars
  <1>5. ASSUME NEW n \in StreamCalls, IsAnswered(n)
        PROVE  FlowInv(f)'
    BY <1>5 DEF IsAnswered, unitVars, flowVars
  <1>6. ASSUME NEW n \in StreamCalls, SessionIsOver(n)
        PROVE  FlowInv(f)'
    <2>1. flow' = flow /\ sessions' = sessions /\ sup' = sup
      BY <1>6 DEF SessionIsOver, unitVars, flowVars
    <2>2. CASE f # n
      <3>1. calls'[f] = calls[f] /\ exchange'[f] = exchange[f]
        BY <1>6, <2>2 DEF SessionIsOver
      <3>. QED  BY <2>1, <3>1
    <2>3. CASE f = n
      <3>1. calls' = [calls EXCEPT ![f] = [@ EXCEPT !.at = "settle", !.got = "no session"]]
        BY <1>6, <2>3 DEF SessionIsOver
      <3>2. calls'[f].at = "settle"
        BY <3>1 DEF Call
      <3>3. exchange'[f].at = "none"
        BY <1>6, <2>3 DEF SessionIsOver, NoExchange
      <3>. QED  BY <2>1, <3>2, <3>3
    <2>. QED  BY <2>2, <2>3
  <1>7. ASSUME NEW n \in StreamCalls, TimesOut(n)
        PROVE  FlowInv(f)'
    BY <1>7 DEF TimesOut, unitVars, flowVars
  <1>8. ASSUME NEW n \in StreamCalls, GivesUpWaiting(n)
        PROVE  FlowInv(f)'
    BY <1>8 DEF GivesUpWaiting, unitVars, flowVars
  <1>9. ASSUME NEW n \in StreamCalls, Settles(n)
        PROVE  FlowInv(f)'
    <2>1. sessions' = sessions /\ sup' = sup
      BY <1>9 DEF Settles, unitVars
    <2>2. flow'[f] = "open" => flow[f] = "open"
      BY <1>9 DEF Settles, TakesFlow
    <2>3. CASE f # n
      <3>1. calls'[f] = calls[f] /\ exchange'[f] = exchange[f]
        BY <1>9, <2>3 DEF Settles
      <3>. QED  BY <2>1, <2>2, <3>1
    <2>4. CASE f = n
      <3>1. CASE calls[f].op = "stop" \/ (calls[f].op = "start" /\ calls[f].got # "ok")
        <4>1. flow'[f] # "open"
          BY <1>9, <2>4, <3>1 DEF Settles, TakesFlow
        <4>. QED  BY <4>1
      <3>2. CASE ~(calls[f].op = "stop" \/ (calls[f].op = "start" /\ calls[f].got # "ok"))
        <4>1. exchange' = exchange
          BY <1>9, <2>4, <3>2 DEF Settles
        <4>2. flow[f] = "open" => exchange[f].at = "handed"
          BY <1>9, <2>4, <3>2 DEF Settles, CallInv
        <4>. QED  BY <2>1, <2>2, <4>1, <4>2
      <3>. QED  BY <3>1, <3>2
    <2>. QED  BY <2>3, <2>4
  <1>10. ASSUME NEW n \in StreamCalls, Returns(n)
        PROVE  FlowInv(f)'
    BY <1>10 DEF Returns, unitVars, flowVars
  <1>11. ASSUME NEW n \in StreamCalls, RemovesSocket(n)
        PROVE  FlowInv(f)'
    BY <1>11 DEF RemovesSocket, unitVars, flowVars
  <1>12. ASSUME NEW n \in StreamCalls, HandsOver(n)
        PROVE  FlowInv(f)'
    BY <1>12 DEF HandsOver, unitVars, flowVars
  <1>13. ASSUME NEW n \in StreamCalls, NEW answer \in Answers, UnitAnswers(n, answer)
        PROVE  FlowInv(f)'
    <2>1. flow' = flow /\ sessions' = sessions /\ sup' = sup /\ calls' = calls
      BY <1>13 DEF UnitAnswers, unitVars, flowVars
    <2>2. CASE f # n
      <3>1. exchange'[f] = exchange[f]
        BY <1>13, <2>2 DEF UnitAnswers
      <3>. QED  BY <2>1, <3>1
    <2>3. CASE f = n
      <3>1. exchange' = [exchange EXCEPT ![f] = [@ EXCEPT !.at = "heard", !.answer = answer]]
        BY <1>13, <2>3 DEF UnitAnswers
      <3>2. exchange'[f].at = "heard" /\ exchange'[f].life = exchange[f].life
        BY <3>1 DEF Exchange
      <3>3. exchange[f].at = "sent" /\ IsKept(exchange[f].life) /\ sup.at # "removing"
        BY <1>13, <2>3 DEF UnitAnswers, InSession, SessionInv
      <3>. QED  BY <2>1, <3>2, <3>3
    <2>. QED  BY <2>2, <2>3
  <1>14. ASSUME NEW l \in Lives, EndsSession(l)
        PROVE  FlowInv(f)'
    BY <1>14 DEF EndsSession, unitVars, flowVars
  <1>15. ASSUME NEW l \in Lives, SweepsAtEnd(l)
        PROVE  FlowInv(f)'
    BY <1>15 DEF SweepsAtEnd, TakesFlow, unitVars, flowVars
  <1>16. ASSUME NEW l \in Lives, EndIsTold(l)
        PROVE  FlowInv(f)'
    <2>1. calls' = calls /\ exchange' = exchange
      BY <1>16 DEF EndIsTold
    <2>2. CASE sup.at = "watching"
      <3>1. flow'[f] # "open"
        BY <1>16, <2>2 DEF EndIsTold, TakesFlow
      <3>. QED  BY <3>1
    <2>3. CASE sup.at # "watching"
      <3>1. /\ flow' = flow /\ sup' = sup
            /\ \A k \in Lives : k # l => sessions'[k] = sessions[k]
            /\ sessions[l].at = "removing"
        BY <1>16, <2>3 DEF EndIsTold
      <3>2. exchange[f].life # 0 => exchange[f].life \in Lives
        BY CallsAssumption DEF Exchange, Lives
      <3>. QED  BY <2>1, <3>1, <3>2
    <2>. QED  BY <2>2, <2>3
  <1>17. ASSUME Begins
        PROVE  FlowInv(f)'
    BY <1>17 DEF Begins, unitVars, flowVars
  <1>18. ASSUME UnitExits
        PROVE  FlowInv(f)'
    BY <1>18 DEF UnitExits, unitVars, flowVars
  <1>19. ASSUME SweepsAtExit
        PROVE  FlowInv(f)'
    BY <1>19 DEF SweepsAtExit, TakesFlow, unitVars, flowVars
  <1>20. ASSUME Forgets
        PROVE  FlowInv(f)'
    BY <1>20 DEF Forgets, unitVars, flowVars
  <1>21. ASSUME UNCHANGED streamVars
        PROVE  FlowInv(f)'
    BY <1>21 DEF streamVars, unitVars, flowVars
  <1>. QED
    BY <1>2, <1>1, <1>3, <1>4, <1>5, <1>7, <1>6, <1>8, <1>9, <1>11, <1>10, <1>12,
       <1>13, <1>15, <1>14, <1>16, <1>17, <1>19, <1>18, <1>20, <1>21
    DEF StreamNext, GoesOn, Closing

LEMMA FlowsStart ==
    ASSUME StreamInit
    PROVE  FlowsInv
  <1>1. SessionInv /\ FileInv /\ \A f \in StreamCalls : FlowInv(f)
    BY DEF StreamInit, SessionInv, FileInv, FlowInv, Lives
  <1>. QED  BY <1>1, TypesStart, CallsStart DEF FlowsInv, CallsInv

LEMMA CallsHold ==
    ASSUME CallsInv, [StreamNext]_streamVars
    PROVE  CallsInv'
  <1>1. \A n \in StreamCalls : CallInv(n)'
    BY CallKept DEF CallsInv
  <1>. QED  BY <1>1, TypesKept DEF CallsInv, StreamCalls

LEMMA FlowsHold ==
    ASSUME FlowsInv, ~EndsLate, [StreamNext]_streamVars
    PROVE  FlowsInv'
  <1>1. \A f \in StreamCalls : FlowInv(f)'
    BY FlowKept DEF FlowsInv, CallsInv
  <1>2. CallsInv' /\ SessionInv' /\ FileInv'
    BY CallsHold, SessionsKept, FileKept DEF FlowsInv, CallsInv
  <1>. QED  BY <1>1, <1>2 DEF FlowsInv, StreamCalls

--------------------------------------------------------------------------------
(* Every variable has its type, whatever overtakes what: there is always a *)
(* call, a transport or a Session behind each number kept of one.          *)
THEOREM StreamTypesCorrect == StreamSpec => []StreamTypeOK
  <1>1. StreamInit => StreamTypeOK
    BY TypesStart
  <1>2. StreamTypeOK /\ [StreamNext]_streamVars => StreamTypeOK'
    BY TypesKept
  <1>. QED  BY <1>1, <1>2, PTL DEF StreamSpec

(* Who is told that the unit did not answer was handed no answer: the wait *)
(* that runs out looks once more for what was handed over meanwhile, and   *)
(* nothing is handed to who is gone (core/session/session.go).            *)
THEOREM AnswersKept == StreamSpec => []AnswerKept
  <1>1. StreamInit => CallsInv
    BY TypesStart, CallsStart DEF CallsInv
  <1>2. CallsInv /\ [StreamNext]_streamVars => CallsInv'
    BY CallsHold
  <1>3. CallsInv => AnswerKept
    BY DEF CallsInv, CallInv, AnswerKept
  <1>. QED  BY <1>1, <1>3, <1>2, PTL DEF StreamSpec

(* A transport that is open, and that no start is answering for any more,  *)
(* is of a Session that is open or closes it next, where no life begins    *)
(* before the end of an earlier Session is told; and a socket at the path  *)
(* is of a transport that is open or about to be removed.                  *)
THEOREM NothingOutlives ==
    ASSUME ~EndsLate
    PROVE  StreamSpec => []NothingKept
  <1>1. StreamInit => FlowsInv
    BY FlowsStart
  <1>2. FlowsInv /\ [StreamNext]_streamVars => FlowsInv'
    BY FlowsHold
  <1>3. FlowsInv => NothingKept
    BY DEF FlowsInv, FileInv, FlowInv, Answered, NothingKept
  <1>. QED  BY <1>1, <1>3, <1>2, PTL DEF StreamSpec

================================================================================
