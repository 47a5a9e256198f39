---------------------------- MODULE SurfacesProofs -----------------------------
(*****************************************************************************)
(* The surfaces, for every set of channels, attachments, requests,           *)
(* deliveries and readers: that the arbiter leaves someone in control,       *)
(* where its rules form no circle; that the count of attachments is exact;   *)
(* and that what is fed to a stream is handed over whole or released,        *)
(* where one goroutine reads it.                                             *)
(*****************************************************************************)
EXTENDS Channels, Deliveries, TLAPS, FiniteSetTheorems, WellFoundedInduction

(* The rules as declared form no circle: the channels have ranks, as many  *)
(* as a chain of all the rules could need, and each rule goes from one to  *)
(* a higher.  A document is not refused for a circle, so this is supposed  *)
(* where it is needed and not of the constants.                            *)
NoCircle ==
    \E rank \in [Channels -> 0..Len(Rules)] :
       \A i \in DOMAIN Rules : rank[Rules[i].prevails] < rank[Rules[i].over]

(* The verdicts are those of who holds and who reclaimed now.              *)
VerdictsAreCurrent ==
    verdict = [c \in Channels |-> VerdictOn(c, holding, reclaimed)]

ArbiterInv == ArbiterTypeOK /\ VerdictsAreCurrent

--------------------------------------------------------------------------------
(* The arbiter's data.                                                     *)

(* A set of naturals that is not empty has a least.                        *)
LEMMA LeastNatural ==
    ASSUME NEW T \in SUBSET Nat, T # {}
    PROVE  \E n \in T : \A m \in T : n <= m
  <1>1. PICK n \in T : \A m \in T : ~(<<m, n>> \in OpToRel(<, Nat))
    BY NatLessThanWellFounded, WFMin
  <1>2. ASSUME NEW m \in T PROVE n <= m
    <2>1. ~(m < n)
      BY <1>1 DEF OpToRel
    <2>. QED  BY <2>1
  <1>. QED  BY <1>2

(* A rule names two channels, as it stands too.                            *)
LEMMA EdgeTypes ==
    ASSUME NEW i \in DOMAIN Rules, NEW hold, NEW back
    PROVE  /\ Rules[i].prevails \in Channels /\ Rules[i].over \in Channels
           /\ Edge(i, hold, back).prevails \in Channels
           /\ Edge(i, hold, back).over \in Channels
           /\ Edge(i, hold, back).reason \in {"displaced", "reclaimed"}
  <1>. DEFINE R == [prevails : Channels, over : Channels]
  <1>1. Rules \in Seq(R)
    BY RulesAssumption
  <1>2. Rules[i] \in R
    <2>. HIDE DEF R
    <2>. QED  BY <1>1
  <1>. QED  BY <1>2 DEF Edge

(* What is decided of a channel is a verdict: of the rules that suspend it *)
(* there is a first.                                                       *)
LEMMA VerdictTypes ==
    ASSUME NEW c \in Channels, NEW hold, NEW back
    PROVE  VerdictOn(c, hold, back) \in Verdicts
  <1>. DEFINE against == Suspending(c, hold, back)
  <1>1. CASE against = {}
    BY <1>1 DEF VerdictOn, Verdicts
  <1>2. CASE against # {}
    <2>1. against \subseteq DOMAIN Rules /\ against \subseteq Nat
      BY RulesAssumption DEF Suspending
    <2>2. PICK n \in against : \A m \in against : n <= m
      BY <1>2, <2>1, LeastNatural
    <2>3. (CHOOSE i \in against : \A j \in against : i <= j) \in DOMAIN Rules
      BY <2>1, <2>2
    <2>. QED  BY <1>2, <2>3, EdgeTypes DEF VerdictOn, Verdicts
  <1>. QED  BY <1>1, <1>2

(* A set of channels that is not empty has one of the lowest rank, and one *)
(* of the highest.                                                         *)
LEMMA Ranked ==
    ASSUME NEW K \in Nat, NEW rank \in [Channels -> 0..K],
           NEW S \in SUBSET Channels, S # {}
    PROVE  /\ \E c \in S : \A d \in S : rank[c] <= rank[d]
           /\ \E c \in S : \A d \in S : rank[d] <= rank[c]
  <1>1. \E c \in S : \A d \in S : rank[c] <= rank[d]
    <2>. DEFINE T == {rank[c] : c \in S}
    <2>1. T \subseteq Nat /\ T # {}
      OBVIOUS
    <2>2. PICK n \in T : \A m \in T : n <= m
      BY <2>1, LeastNatural
    <2>. QED  BY <2>2
  <1>2. \E c \in S : \A d \in S : rank[d] <= rank[c]
    <2>. DEFINE T == {K - rank[c] : c \in S}
    <2>1. T \subseteq Nat /\ T # {}
      OBVIOUS
    <2>2. PICK n \in T : \A m \in T : n <= m
      BY <2>1, LeastNatural
    <2>3. PICK c \in S : n = K - rank[c]
      BY <2>2
    <2>4. \A d \in S : K - rank[c] <= K - rank[d]
      BY <2>2, <2>3
    <2>5. \A d \in S : rank[d] \in Int /\ rank[c] \in Int /\ K \in Int
      OBVIOUS
    <2>. QED  BY <2>4, <2>5
  <1>. QED  BY <1>1, <1>2

(* Of the channels that hold, one is suspended by none: the one that stands *)
(* lowest in the order among those that reclaimed, or, where none did, the *)
(* one that stands highest among all.                                      *)
LEMMA OneIsFree ==
    ASSUME NoCircle, NEW hold \in SUBSET Channels, hold # {}, NEW back
    PROVE  \E c \in hold : VerdictOn(c, hold, back) = Free
  <1>1. PICK rank \in [Channels -> 0..Len(Rules)] :
          \A i \in DOMAIN Rules : rank[Rules[i].prevails] < rank[Rules[i].over]
    BY DEF NoCircle
  <1>2. Len(Rules) \in Nat
    BY RulesAssumption
  <1>. DEFINE inverting == {c \in hold : Inverts(c, hold, back)}
  <1>3. \A c \in Channels : rank[c] \in Int
    BY <1>1, <1>2
  <1>4. CASE inverting = {}
    <2>1. PICK c \in hold : \A d \in hold : rank[c] <= rank[d]
      BY <1>2, Ranked
    <2>2. ASSUME NEW i \in Suspending(c, hold, back) PROVE FALSE
      <3>1. /\ i \in DOMAIN Rules
            /\ Edge(i, hold, back).over = c /\ Edge(i, hold, back).prevails \in hold
        BY <2>2 DEF Suspending
      <3>2. ~Inverts(Rules[i].over, hold, back)
        BY <1>4 DEF Inverts
      <3>3. Rules[i].over = c /\ Rules[i].prevails \in hold
        BY <3>1, <3>2 DEF Edge
      <3>. QED  BY <1>1, <1>3, <2>1, <3>1, <3>3
    <2>. QED  BY <2>2 DEF VerdictOn
  <1>5. CASE inverting # {}
    <2>1. PICK c \in inverting : \A d \in inverting : rank[d] <= rank[c]
      BY <1>2, <1>5, Ranked
    <2>2. ASSUME NEW i \in Suspending(c, hold, back) PROVE FALSE
      <3>1. /\ i \in DOMAIN Rules
            /\ Edge(i, hold, back).over = c /\ Edge(i, hold, back).prevails \in hold
        BY <2>2 DEF Suspending
      <3>2. Inverts(Rules[i].over, hold, back)
        BY <2>1, <3>1 DEF Edge
      <3>3. Rules[i].prevails = c /\ Rules[i].over \in inverting
        BY <3>1, <3>2 DEF Edge, Inverts
      <3>. QED  BY <1>1, <1>3, <2>1, <3>1, <3>3
    <2>. QED  BY <2>1, <2>2 DEF VerdictOn
  <1>. QED  BY <1>4, <1>5

--------------------------------------------------------------------------------
(* The arbiter's invariant.                                                *)

LEMMA ArbiterStarts == ArbiterInit => ArbiterInv
  <1>. SUFFICES ASSUME ArbiterInit PROVE ArbiterInv
    OBVIOUS
  <1>1. \A c \in Channels : Suspending(c, {}, {}) = {}
    BY DEF Suspending
  <1>2. VerdictsAreCurrent
    BY <1>1 DEF ArbiterInit, VerdictsAreCurrent, VerdictOn
  <1>. QED  BY <1>2 DEF ArbiterInit, ArbiterInv, ArbiterTypeOK, Verdicts

LEMMA RecomputeKeeps ==
    ASSUME NEW hold \in SUBSET Channels, NEW back \in SUBSET Local, Recompute(hold, back)
    PROVE  ArbiterInv'
  BY VerdictTypes DEF Recompute, ArbiterInv, ArbiterTypeOK, VerdictsAreCurrent

LEMMA HoldKeeps ==
    ASSUME ArbiterInv, NEW c \in Channels, NEW holds, Hold(c, holds)
    PROVE  ArbiterInv'
  <1>1. holding \cup {c} \in SUBSET Channels /\ holding \ {c} \in SUBSET Channels
    BY DEF ArbiterInv, ArbiterTypeOK
  <1>2. reclaimed \in SUBSET Local /\ reclaimed \ {c} \in SUBSET Local
    BY DEF ArbiterInv, ArbiterTypeOK
  <1>. QED  BY <1>1, <1>2, RecomputeKeeps DEF Hold

LEMMA TakeBackKeeps ==
    ASSUME ArbiterInv, NEW c, TakeBack(c)
    PROVE  ArbiterInv'
  <1>1. holding \in SUBSET Channels /\ reclaimed \cup {c} \in SUBSET Local
    BY DEF ArbiterInv, ArbiterTypeOK, TakeBack
  <1>. QED  BY <1>1, RecomputeKeeps DEF TakeBack

LEMMA ArbiterUnchanged ==
    ArbiterInv /\ UNCHANGED arbiterVars => ArbiterInv'
  BY DEF ArbiterInv, ArbiterTypeOK, VerdictsAreCurrent, arbiterVars

LEMMA SomeoneOfInv ==
    ASSUME NoCircle, ArbiterInv
    PROVE  SomeoneInControl
  <1>. SUFFICES ASSUME holding # {}
                PROVE  \E c \in holding : verdict[c] = Free
    BY DEF SomeoneInControl
  <1>1. holding \in SUBSET Channels
    BY DEF ArbiterInv, ArbiterTypeOK
  <1>2. PICK c \in holding : VerdictOn(c, holding, reclaimed) = Free
    BY <1>1, OneIsFree
  <1>. QED  BY <1>1, <1>2 DEF ArbiterInv, VerdictsAreCurrent

LEMMA ArbiterInvariant == ArbiterSpec => []ArbiterInv
  <1>1. ArbiterInv /\ [ArbiterNext]_arbiterVars => ArbiterInv'
    BY HoldKeeps, TakeBackKeeps, ArbiterUnchanged DEF ArbiterNext
  <1>. QED  BY <1>1, ArbiterStarts, PTL DEF ArbiterSpec

(* Whatever the arbiter is told, and whoever reclaims, of the channels     *)
(* that hold one is suspended by none, where the rules form no circle as   *)
(* they are declared (recompute, arbitration.go).                          *)
THEOREM ControlIsSomeones ==
    ASSUME NoCircle
    PROVE  ArbiterSpec => []SomeoneInControl
  <1>1. ArbiterInv => SomeoneInControl
    BY SomeoneOfInv
  <1>. QED  BY <1>1, ArbiterInvariant, PTL

--------------------------------------------------------------------------------
(* The goroutines. *)

Ats == {"out", "up", "down", "arbiter", "tell", "begun", "opening", "serving",
        "ending", "detached", "done", "watching", "handling", "answered",
        "unanswered", "streaming"}
Telling == {<<>>} \cup UNION {[S -> Verdicts] : S \in SUBSET Channels}
ThreadStates == [at : Ats, next : Ats, of : SUBSET Attachments, holds : BOOLEAN,
                 news : Telling]

(* Where a goroutine that counts, tells the arbiter or tells what changed  *)
(* goes on once it has.                                                    *)
Moving(t) == At(t) \in {"up", "down", "arbiter", "tell"}
GoesOn(t) == IF t[2] = "serve" THEN {"begun", "serving", "done"}
             ELSE IF t[2] = "watch" THEN {"watching"} ELSE {"answered"}

(* A request that goes on has found an attachment that has begun.          *)
GoroutineOK(t) ==
    /\ Moving(t) => thread[t].next \in GoesOn(t)
    /\ t[2] = "control" /\ At(t) # "out" =>
         \E a \in Attachments : thread[t].of = {a} /\ At(Server(a)) # "out"

(* One that has not begun is not counted, nor found; until it serves, no   *)
(* watch over it begins.                                                   *)
Opening(a) == \/ At(Server(a)) \in {"out", "begun", "opening"}
              \/ Moving(Server(a)) /\ thread[Server(a)].next = "begun"
AttachmentOK(a) ==
    /\ At(Server(a)) = "out" => a \in stale /\ a \notin web
    /\ Opening(a) => At(Watch(a)) = "out"

ShapeInv ==
    /\ thread \in [Threads -> ThreadStates]
    /\ current \in [Channels -> Int]
    /\ stale \subseteq Attachments /\ web \subseteq Attachments
    /\ \A t \in Threads : GoroutineOK(t)
    /\ \A a \in Attachments : AttachmentOK(a)

(* What is on its way to the count is finitely many, so it can be counted. *)
CountInv ==
    /\ ShapeInv
    /\ \A c \in Channels, way \in {"up", "down"} : IsFiniteSet(Counting(c, way))
    /\ CountIsExact

(* Each attachment's two goroutines, and each request's.                   *)
LEMMA ThreadKinds ==
    /\ \A a \in Attachments :
          /\ Server(a) \in Threads /\ Server(a)[1] = a /\ Server(a)[2] = "serve"
          /\ Watch(a) \in Threads /\ Watch(a)[1] = a /\ Watch(a)[2] = "watch"
    /\ \A r \in Requests : <<r, "control">> \in Threads /\ <<r, "control">>[2] = "control"
    /\ \A t \in Threads :
          \/ \E a \in Attachments : t = Server(a)
          \/ \E a \in Attachments : t = Watch(a)
          \/ \E r \in Requests : t = <<r, "control">>
    /\ \A a, b \in Attachments : Server(a) # Watch(b) /\ (Server(a) = Server(b) => a = b)
                                 /\ (Watch(a) = Watch(b) => a = b)
  BY DEF Threads, Server, Watch

(* What a goroutine is about is an attachment made on a channel.           *)
LEMMA AboutTypes ==
    ASSUME ShapeInv, NEW t \in Threads, t[2] = "control" => At(t) # "out"
    PROVE  About(t) \in Attachments /\ On(t) \in Channels
  <1>1. CASE t[2] = "control"
    <2>1. PICK a \in Attachments : thread[t].of = {a}
      BY <1>1 DEF ShapeInv, GoroutineOK
    <2>2. About(t) = a
      BY <1>1, <2>1 DEF About
    <2>. QED  BY <2>2, ChannelsAssumption DEF On
  <1>2. CASE t[2] # "control"
    <2>1. t[1] \in Attachments
      BY <1>2, ThreadKinds
    <2>. QED  BY <1>2, <2>1, ChannelsAssumption DEF On, About
  <1>. QED  BY <1>1, <1>2

(* It is about that as long as what it found is the same.                  *)
OneOf(S) == CHOOSE a \in Attachments : a \in S

LEMMA AboutKept ==
    ASSUME NEW t \in Threads, thread'[t].of = thread[t].of
    PROVE  About(t)' = About(t) /\ On(t)' = On(t)
  <1>1. /\ About(t) = IF t[2] = "control" THEN OneOf(thread[t].of) ELSE t[1]
        /\ About(t)' = IF t[2] = "control" THEN OneOf(thread'[t].of) ELSE t[1]
    BY DEF About, OneOf
  <1>2. About(t)' = About(t)
    BY <1>1
  <1>. QED  BY <1>2 DEF On

--------------------------------------------------------------------------------
(* Counting. *)

Fresh(c) == {a \in Attachments \ stale : ChannelOf[a] = c}
One(p) == IF p THEN 1 ELSE 0
On1(t, c, way) == One(At(t) = way /\ On(t) = c)

(* One attachment more, or less, is counted.                               *)
LEMMA FreshGains ==
    ASSUME NEW a \in stale, a \in Attachments, stale' = stale \ {a}, NEW c
    PROVE  /\ Cardinality(Fresh(c)) \in Nat
           /\ Cardinality(Fresh(c)') = Cardinality(Fresh(c)) + One(ChannelOf[a] = c)
  <1>1. IsFiniteSet(Fresh(c))
    BY ChannelsAssumption, FS_Subset DEF Fresh
  <1>2. Cardinality(Fresh(c)) \in Nat
    BY <1>1, FS_CardinalityType
  <1>3. CASE ChannelOf[a] = c
    <2>1. Fresh(c)' = Fresh(c) \cup {a} /\ a \notin Fresh(c)
      BY <1>3 DEF Fresh
    <2>. QED  BY <1>1, <1>3, <1>2, <2>1, FS_AddElement DEF One
  <1>4. CASE ChannelOf[a] # c
    <2>1. Fresh(c)' = Fresh(c)
      BY <1>4 DEF Fresh
    <2>. QED  BY <1>2, <1>4, <2>1 DEF One
  <1>. QED  BY <1>3, <1>4, <1>2

LEMMA FreshLoses ==
    ASSUME NEW a \in Attachments, a \notin stale, stale' = stale \cup {a}, NEW c
    PROVE  /\ Cardinality(Fresh(c)) \in Nat
           /\ Cardinality(Fresh(c)') = Cardinality(Fresh(c)) - One(ChannelOf[a] = c)
  <1>1. IsFiniteSet(Fresh(c))
    BY ChannelsAssumption, FS_Subset DEF Fresh
  <1>2. Cardinality(Fresh(c)) \in Nat
    BY <1>1, FS_CardinalityType
  <1>3. CASE ChannelOf[a] = c
    <2>1. Fresh(c)' = Fresh(c) \ {a} /\ a \in Fresh(c)
      BY <1>3 DEF Fresh
    <2>. QED  BY <1>1, <1>3, <1>2, <2>1, FS_RemoveElement DEF One
  <1>4. CASE ChannelOf[a] # c
    <2>1. Fresh(c)' = Fresh(c)
      BY <1>4 DEF Fresh
    <2>. QED  BY <1>2, <1>4, <2>1 DEF One
  <1>. QED  BY <1>3, <1>4, <1>2

(* One goroutine moves: it joins those that count, or leaves them.         *)
LEMMA CountingMoves ==
    ASSUME NEW t \in Threads, \A s \in Threads \ {t} : thread'[s] = thread[s],
           NEW c, NEW way, IsFiniteSet(Counting(c, way))
    PROVE  /\ IsFiniteSet(Counting(c, way)')
           /\ Cardinality(Counting(c, way)) \in Nat
           /\ Cardinality(Counting(c, way)')
                = Cardinality(Counting(c, way)) - On1(t, c, way) + On1(t, c, way)'
  <1>. DEFINE was == Counting(c, way)
              rest == was \ {t}
  <1>1. \A s \in Threads \ {t} : At(s)' = At(s) /\ On(s)' = On(s)
    BY AboutKept DEF At
  <1>2. /\ IsFiniteSet(rest) /\ Cardinality(was) \in Nat
        /\ Cardinality(rest) = Cardinality(was) - On1(t, c, way)
    <2>1. t \in was <=> At(t) = way /\ On(t) = c
      BY DEF Counting
    <2>. QED  BY <2>1, FS_RemoveElement, FS_CardinalityType DEF On1, One
  <1>3. CASE At(t)' = way /\ On(t)' = c
    <2>1. was' = rest \cup {t} /\ t \notin rest
      BY <1>1, <1>3 DEF Counting
    <2>2. On1(t, c, way)' = 1
      BY <1>3 DEF On1, One
    <2>3. On1(t, c, way) \in Nat
      BY DEF On1, One
    <2>4. IsFiniteSet(was') /\ Cardinality(was') = Cardinality(rest) + 1
      <3>1. IsFiniteSet(rest \cup {t})
        BY <1>2, FS_AddElement
      <3>2. Cardinality(rest \cup {t}) = Cardinality(rest) + 1
        <4>. HIDE DEF rest
        <4>. QED  BY <1>2, <2>1, FS_AddElement
      <3>. QED  BY <2>1, <3>1, <3>2
    <2>. QED  BY <1>2, <2>2, <2>3, <2>4
  <1>4. CASE ~(At(t)' = way /\ On(t)' = c)
    <2>1. was' = rest
      BY <1>1, <1>4 DEF Counting
    <2>2. On1(t, c, way)' = 0
      BY <1>4 DEF On1, One
    <2>. QED  BY <1>2, <2>1, <2>2, FS_CardinalityType
  <1>. QED  BY <1>3, <1>4

(* None of those that count moves.                                         *)
LEMMA CountingStays ==
    ASSUME CountInv, UNCHANGED <<current, stale>>,
           \A s \in Threads : \/ thread'[s] = thread[s]
                              \/ At(s) \notin {"up", "down"} /\ At(s)' \notin {"up", "down"}
    PROVE  /\ \A c \in Channels, way \in {"up", "down"} : IsFiniteSet(Counting(c, way)')
           /\ CountIsExact'
  <1>1. ASSUME NEW c \in Channels, NEW way \in {"up", "down"}
        PROVE  Counting(c, way)' = Counting(c, way)
    <2>1. ASSUME NEW s \in Threads
          PROVE  (At(s) = way /\ On(s) = c) <=> (At(s)' = way /\ On(s)' = c)
      <3>1. thread'[s] = thread[s] => At(s)' = At(s) /\ On(s)' = On(s)
        BY AboutKept DEF At
      <3>. QED  BY <3>1
    <2>. QED  BY <2>1 DEF Counting
  <1>. QED  BY <1>1 DEF CountInv, CountIsExact

(* One goroutine moves, and the channels' counts, what is not stale and    *)
(* what is on its way change together.                                     *)
LEMMA CountingBalances ==
    ASSUME CountInv, NEW t \in Threads, \A s \in Threads \ {t} : thread'[s] = thread[s],
           \A c \in Channels :
              /\ current[c] \in Int /\ current'[c] \in Int
              /\ Cardinality(Fresh(c)) \in Nat /\ Cardinality(Fresh(c)') \in Nat
              /\ current'[c] + On1(t, c, "up")' + On1(t, c, "down") + Cardinality(Fresh(c))
                   = current[c] + On1(t, c, "up") + On1(t, c, "down")' + Cardinality(Fresh(c)')
    PROVE  /\ \A c \in Channels, way \in {"up", "down"} : IsFiniteSet(Counting(c, way)')
           /\ CountIsExact'
  <1>1. ASSUME NEW c \in Channels, NEW way \in {"up", "down"}
        PROVE  /\ IsFiniteSet(Counting(c, way)')
               /\ Cardinality(Counting(c, way)) \in Nat
               /\ Cardinality(Counting(c, way)')
                    = Cardinality(Counting(c, way)) - On1(t, c, way) + On1(t, c, way)'
    BY CountingMoves DEF CountInv
  <1>2. ASSUME NEW c \in Channels
        PROVE  current'[c] + Cardinality(Counting(c, "up")')
                 = Cardinality(Fresh(c)') + Cardinality(Counting(c, "down")')
    <2>1. current[c] + Cardinality(Counting(c, "up"))
            = Cardinality(Fresh(c)) + Cardinality(Counting(c, "down"))
      BY DEF CountInv, CountIsExact, Fresh
    <2>2. \A way \in {"up", "down"} : On1(t, c, way) \in Nat /\ On1(t, c, way)' \in Nat
      BY DEF On1, One
    <2>. HIDE DEF On1
    <2>. QED  BY <1>1, <2>1, <2>2
  <1>. QED  BY <1>1, <1>2 DEF CountIsExact, Fresh

(* An attachment is counted from now on, and a goroutine is to count it.   *)
LEMMA GoesUp ==
    ASSUME CountInv, NEW t \in Threads, \A s \in Threads \ {t} : thread'[s] = thread[s],
           ~Moving(t), At(t)' = "up", NEW a \in stale, a \in Attachments,
           On(t)' = ChannelOf[a], stale' = stale \ {a}, current' = current
    PROVE  /\ \A c \in Channels, way \in {"up", "down"} : IsFiniteSet(Counting(c, way)')
           /\ CountIsExact'
  <1>1. ASSUME NEW c \in Channels
        PROVE  /\ On1(t, c, "up") = 0 /\ On1(t, c, "down") = 0 /\ On1(t, c, "down")' = 0
               /\ On1(t, c, "up")' = One(ChannelOf[a] = c)
               /\ One(ChannelOf[a] = c) \in Nat
    BY DEF On1, One, Moving
  <1>2. ASSUME NEW c \in Channels
        PROVE  /\ Cardinality(Fresh(c)) \in Nat
               /\ Cardinality(Fresh(c)') = Cardinality(Fresh(c)) + One(ChannelOf[a] = c)
    BY FreshGains
  <1>3. \A c \in Channels : current[c] \in Int
    BY DEF CountInv, ShapeInv
  <1>. QED  BY <1>1, <1>3, <1>2, CountingBalances

(* An attachment is counted no longer, and a goroutine is to discount it.  *)
LEMMA GoesDown ==
    ASSUME CountInv, NEW t \in Threads, \A s \in Threads \ {t} : thread'[s] = thread[s],
           ~Moving(t), At(t)' = "down", NEW a \in Attachments, a \notin stale,
           On(t)' = ChannelOf[a], stale' = stale \cup {a}, current' = current
    PROVE  /\ \A c \in Channels, way \in {"up", "down"} : IsFiniteSet(Counting(c, way)')
           /\ CountIsExact'
  <1>1. ASSUME NEW c \in Channels
        PROVE  /\ On1(t, c, "up") = 0 /\ On1(t, c, "down") = 0 /\ On1(t, c, "up")' = 0
               /\ On1(t, c, "down")' = One(ChannelOf[a] = c)
               /\ One(ChannelOf[a] = c) \in Nat
    BY DEF On1, One, Moving
  <1>2. ASSUME NEW c \in Channels
        PROVE  /\ Cardinality(Fresh(c)) \in Nat
               /\ Cardinality(Fresh(c)') = Cardinality(Fresh(c)) - One(ChannelOf[a] = c)
    BY FreshLoses
  <1>3. ASSUME NEW c \in Channels PROVE Cardinality(Fresh(c)') \in Nat
    <2>1. IsFiniteSet(Fresh(c)')
      BY ChannelsAssumption, FS_Subset DEF Fresh
    <2>. QED  BY <2>1, FS_CardinalityType
  <1>4. \A c \in Channels : current[c] \in Int
    BY DEF CountInv, ShapeInv
  <1>. QED  BY <1>2, <1>1, <1>3, <1>4, CountingBalances

--------------------------------------------------------------------------------
(* What a step leaves in order. *)

(* One goroutine moves, and has begun.                                     *)
LEMMA ShapeMoves ==
    ASSUME ShapeInv, NEW t \in Threads, thread' \in [Threads -> ThreadStates],
           \A s \in Threads \ {t} : thread'[s] = thread[s],
           At(t)' # "out", GoroutineOK(t)',
           \A a \in Attachments : AttachmentOK(a)',
           current' \in [Channels -> Int], stale' \subseteq Attachments, web' \subseteq Attachments
    PROVE  ShapeInv'
  <1>1. ASSUME NEW s \in Threads \ {t}
        PROVE  GoroutineOK(s)'
    <2>1. \A a \in Attachments : At(Server(a)) # "out" => At(Server(a))' # "out"
      BY ThreadKinds DEF At, Server
    <2>2. At(s)' = At(s) /\ thread'[s] = thread[s] /\ (Moving(s)' <=> Moving(s))
      BY DEF At, Moving
    <2>. QED  BY <2>1, <2>2 DEF ShapeInv, GoroutineOK
  <1>. QED  BY <1>1 DEF ShapeInv

(* What is so of the attachments where a goroutine moves that is none of   *)
(* those that begin, and what it changes is of one that has begun.         *)
LEMMA AttachmentsStay ==
    ASSUME ShapeInv, NEW t \in Threads, \A s \in Threads \ {t} : thread'[s] = thread[s],
           At(t)' # "out",
           \A a \in Attachments : /\ t = Server(a) => (Opening(a)' => Opening(a))
                                  /\ t = Watch(a) => At(t) # "out",
           \A a \in Attachments : At(Server(a)) = "out" =>
              (a \in stale => a \in stale') /\ (a \in web' => a \in web)
    PROVE  \A a \in Attachments : AttachmentOK(a)'
  <1>. SUFFICES ASSUME NEW a \in Attachments PROVE AttachmentOK(a)'
    OBVIOUS
  <1>1. AttachmentOK(a)
    BY DEF ShapeInv
  <1>2. /\ Server(a)' = Server(a) /\ Watch(a)' = Watch(a)
        /\ Server(a) \in Threads /\ Watch(a) \in Threads /\ Server(a) # Watch(a)
    BY ThreadKinds DEF Server, Watch
  <1>3. At(Server(a))' = "out" => At(Server(a)) = "out"
    BY <1>2 DEF At
  <1>4. Opening(a)' => Opening(a)
    BY <1>2 DEF Opening, At, Moving
  <1>5. At(Watch(a)) = "out" /\ Opening(a) => At(Watch(a))' = "out"
    <2>1. CASE t = Watch(a)
      BY <1>1, <2>1 DEF AttachmentOK
    <2>2. CASE t # Watch(a)
      BY <1>2, <2>2 DEF At
    <2>. QED  BY <2>1, <2>2
  <1>. QED  BY <1>1, <1>3, <1>4, <1>5 DEF AttachmentOK

LEMMA CountsKeeps ==
    ASSUME CountInv, NEW t \in Threads, Counts(t)
    PROVE  CountInv'
  <1>1. /\ thread \in [Threads -> ThreadStates] /\ GoroutineOK(t)
        /\ current \in [Channels -> Int]
    BY DEF CountInv, ShapeInv
  <1>2. About(t) \in Attachments /\ On(t) \in Channels
    BY AboutTypes DEF CountInv, Counts
  <1>. DEFINE now == current[On(t)] + (IF At(t) = "up" THEN 1 ELSE -1)
  <1>3. /\ At(t) \in {"up", "down"} /\ stale' = stale /\ web' = web
        /\ current' = [current EXCEPT ![On(t)] = now]
        /\ thread' = [thread EXCEPT ![t] = [@ EXCEPT !.at = "arbiter", !.holds = now > 0]]
    BY DEF Counts, arbiterVars
  <1>4. /\ thread' \in [Threads -> ThreadStates]
        /\ \A s \in Threads \ {t} : thread'[s] = thread[s]
        /\ At(t)' = "arbiter" /\ thread'[t].next = thread[t].next /\ thread'[t].of = thread[t].of
    <2>1. ASSUME NEW h \in BOOLEAN,
                 thread' = [thread EXCEPT ![t] = [@ EXCEPT !.at = "arbiter", !.holds = h]]
          PROVE  /\ thread' \in [Threads -> ThreadStates]
                 /\ \A s \in Threads \ {t} : thread'[s] = thread[s]
                 /\ At(t)' = "arbiter" /\ thread'[t].next = thread[t].next
                 /\ thread'[t].of = thread[t].of
      BY <1>1, <2>1 DEF ThreadStates, Ats, At
    <2>2. (now > 0) \in BOOLEAN
      OBVIOUS
    <2>. QED  BY <1>3, <2>1, <2>2
  <1>5. now \in Int /\ current' \in [Channels -> Int]
    BY <1>1, <1>2, <1>3
  <1>6. GoroutineOK(t)'
    <2>1. Moving(t) /\ Moving(t)'
      BY <1>3, <1>4 DEF Moving
    <2>2. \A a \in Attachments : At(Server(a)) # "out" => At(Server(a))' # "out"
      BY <1>3, <1>4, ThreadKinds DEF At, Server
    <2>. QED  BY <1>1, <1>3, <1>4, <2>1, <2>2 DEF GoroutineOK
  <1>7. \A a \in Attachments : AttachmentOK(a)'
    <2>1. \A a \in Attachments : t = Server(a) => (Opening(a)' => Opening(a))
      BY <1>3, <1>4 DEF Opening, Moving, At, Server
    <2>2. At(t) # "out" /\ At(t)' # "out"
      BY <1>3, <1>4
    <2>. QED  BY <1>3, <1>4, <2>1, <2>2, AttachmentsStay DEF CountInv
  <1>8. ShapeInv'
    BY <1>3, <1>5, <1>4, <1>6, <1>7, ShapeMoves DEF CountInv, ShapeInv
  <1>9. \A c \in Channels :
          /\ current[c] \in Int /\ current'[c] \in Int
          /\ Cardinality(Fresh(c)) \in Nat /\ Cardinality(Fresh(c)') \in Nat
          /\ current'[c] + On1(t, c, "up")' + On1(t, c, "down") + Cardinality(Fresh(c))
               = current[c] + On1(t, c, "up") + On1(t, c, "down")' + Cardinality(Fresh(c)')
    <2>. SUFFICES ASSUME NEW c \in Channels
                  PROVE  /\ current[c] \in Int /\ current'[c] \in Int
                         /\ Cardinality(Fresh(c)) \in Nat /\ Cardinality(Fresh(c)') \in Nat
                         /\ current'[c] + On1(t, c, "up")' + On1(t, c, "down") + Cardinality(Fresh(c))
                              = current[c] + On1(t, c, "up") + On1(t, c, "down")' + Cardinality(Fresh(c)')
      OBVIOUS
    <2>1. Fresh(c)' = Fresh(c)
      BY <1>3 DEF Fresh
    <2>2. Cardinality(Fresh(c)) \in Nat
      BY ChannelsAssumption, FS_Subset, FS_CardinalityType DEF Fresh
    <2>3. On1(t, c, "up")' = 0 /\ On1(t, c, "down")' = 0
      BY <1>4 DEF On1, One
    <2>4. current[c] \in Int /\ current'[c] \in Int
      BY <1>1, <1>5
    <2>5. current'[c] + On1(t, c, "down") = current[c] + On1(t, c, "up")
      BY <1>1, <1>2, <1>3 DEF On1, One
    <2>6. On1(t, c, "up") \in Nat /\ On1(t, c, "down") \in Nat
      BY DEF On1, One
    <2>. HIDE DEF On1, Fresh
    <2>. QED  BY <2>2, <2>1, <2>3, <2>4, <2>5, <2>6
  <1>. QED  BY <1>4, <1>8, <1>9, CountingBalances DEF CountInv

(* A goroutine goes on, or is to count first.                              *)
LEMMA GoesSets ==
    ASSUME ShapeInv, NEW t \in Threads, NEW at \in Ats, Goes(t, at)
    PROVE  /\ thread' \in [Threads -> ThreadStates]
           /\ \A s \in Threads \ {t} : thread'[s] = thread[s]
           /\ At(t)' = at /\ thread'[t].next = thread[t].next /\ thread'[t].of = thread[t].of
  BY DEF ShapeInv, ThreadStates, At, Goes

LEMMA HoldingSets ==
    ASSUME ShapeInv, NEW t \in Threads, NEW at \in Ats, NEW next \in Ats, Holding(t, at, next)
    PROVE  /\ thread' \in [Threads -> ThreadStates]
           /\ \A s \in Threads \ {t} : thread'[s] = thread[s]
           /\ At(t)' = at /\ thread'[t].next = next /\ thread'[t].of = thread[t].of
  BY DEF ShapeInv, ThreadStates, At, Holding

(* What a goroutine found stays what it found, and has begun.              *)
LEMMA GoroutineStays ==
    ASSUME ShapeInv, NEW t \in Threads, \A s \in Threads \ {t} : thread'[s] = thread[s],
           At(t)' # "out", At(t) # "out" \/ t[2] # "control", thread'[t].of = thread[t].of,
           Moving(t)' => thread'[t].next \in GoesOn(t)
    PROVE  GoroutineOK(t)'
  <1>1. \A a \in Attachments : At(Server(a)) # "out" => At(Server(a))' # "out"
    BY ThreadKinds DEF At, Server
  <1>. QED  BY <1>1 DEF ShapeInv, GoroutineOK, GoesOn

(* A step of one goroutine that counts nothing and has nothing counted.    *)
LEMMA QuietKeeps ==
    ASSUME CountInv, NEW t \in Threads, thread' \in [Threads -> ThreadStates],
           \A s \in Threads \ {t} : thread'[s] = thread[s],
           At(t) \notin {"up", "down"}, At(t)' \notin {"out", "up", "down"},
           GoroutineOK(t)', \A a \in Attachments : AttachmentOK(a)',
           UNCHANGED <<current, stale>>, web' \subseteq Attachments
    PROVE  CountInv'
  <1>1. ShapeInv'
    BY ShapeMoves DEF CountInv, ShapeInv
  <1>2. \A s \in Threads : \/ thread'[s] = thread[s]
                           \/ At(s) \notin {"up", "down"} /\ At(s)' \notin {"up", "down"}
    OBVIOUS
  <1>3. /\ \A c \in Channels, way \in {"up", "down"} : IsFiniteSet(Counting(c, way)')
        /\ CountIsExact'
    BY <1>2, CountingStays
  <1>. QED  BY <1>1, <1>3 DEF CountInv

LEMMA NewsTypes ==
    ASSUME NEW hold, NEW back, Recompute(hold, back)
    PROVE  News \in Telling
  <1>1. verdict' \in [Channels -> Verdicts]
    BY VerdictTypes DEF Recompute
  <1>2. Changed \in SUBSET Channels
    BY DEF Changed
  <1>3. News \in [Changed -> Verdicts]
    BY <1>1, <1>2 DEF News
  <1>. QED  BY <1>2, <1>3 DEF Telling

(* A goroutine's record is replaced.                                       *)
LEMMA RecordSets ==
    ASSUME ShapeInv, NEW t \in Threads, NEW r \in ThreadStates, thread' = [thread EXCEPT ![t] = r]
    PROVE  /\ thread' \in [Threads -> ThreadStates]
           /\ \A s \in Threads \ {t} : thread'[s] = thread[s]
           /\ thread'[t] = r
  BY DEF ShapeInv

(* The arbiter is told, or decides, and what changed is to be told.        *)
LEMMA DecidesSets ==
    ASSUME ShapeInv, NEW t \in Threads, NEW next \in Ats, NEW h \in BOOLEAN, NEW news \in Telling,
           thread' = [thread EXCEPT ![t] = [@ EXCEPT !.at = "tell", !.next = next, !.holds = h,
                                                     !.news = news]]
    PROVE  /\ thread' \in [Threads -> ThreadStates]
           /\ \A s \in Threads \ {t} : thread'[s] = thread[s]
           /\ At(t)' = "tell" /\ thread'[t].next = next /\ thread'[t].of = thread[t].of
  <1>. DEFINE r == [thread[t] EXCEPT !.at = "tell", !.next = next, !.holds = h, !.news = news]
  <1>1. thread \in [Threads -> ThreadStates] /\ thread[t] \in ThreadStates
    BY DEF ShapeInv
  <1>2. r \in ThreadStates /\ r.at = "tell" /\ r.next = next /\ r.of = thread[t].of
    BY <1>1 DEF ThreadStates, Ats
  <1>3. thread' = [thread EXCEPT ![t] = r]
    BY <1>1 DEF ThreadStates
  <1>. HIDE DEF r
  <1>4. /\ thread' \in [Threads -> ThreadStates]
        /\ \A s \in Threads \ {t} : thread'[s] = thread[s]
        /\ thread'[t] = r
    BY ONLY ShapeInv, t \in Threads, <1>2, <1>3, RecordSets
  <1>. QED  BY ONLY <1>2, <1>4 DEF At

LEMMA TellArbiterKeeps ==
    ASSUME CountInv, NEW t \in Threads, TellArbiter(t)
    PROVE  CountInv'
  <1>1. ShapeInv /\ GoroutineOK(t) /\ thread \in [Threads -> ThreadStates]
    BY DEF CountInv, ShapeInv
  <1>2. News \in Telling
    BY NewsTypes DEF TellArbiter, Hold
  <1>3. /\ At(t) = "arbiter" /\ UNCHANGED <<current, stale, web>>
        /\ thread' = [thread EXCEPT ![t] = [@ EXCEPT !.at = "tell", !.holds = FALSE, !.news = News]]
    BY DEF TellArbiter, surfaceVars
  <1>4. /\ thread' \in [Threads -> ThreadStates]
        /\ \A s \in Threads \ {t} : thread'[s] = thread[s]
        /\ At(t)' = "tell" /\ thread'[t].next = thread[t].next /\ thread'[t].of = thread[t].of
    <2>. DEFINE news == News
    <2>1. ASSUME NEW n \in Telling,
                 thread' = [thread EXCEPT ![t] = [@ EXCEPT !.at = "tell", !.holds = FALSE, !.news = n]]
          PROVE  /\ thread' \in [Threads -> ThreadStates]
                 /\ \A s \in Threads \ {t} : thread'[s] = thread[s]
                 /\ At(t)' = "tell" /\ thread'[t].next = thread[t].next
                 /\ thread'[t].of = thread[t].of
      BY <1>1, <2>1 DEF ThreadStates, Ats, At
    <2>. QED  BY <1>2, <1>3, <2>1
  <1>5. GoroutineOK(t)'
    <2>1. Moving(t)
      BY <1>3 DEF Moving
    <2>2. thread[t].next \in GoesOn(t)
      BY <1>1, <2>1 DEF GoroutineOK
    <2>. QED  BY <1>1, <1>3, <1>4, <2>2, GoroutineStays
  <1>6. \A a \in Attachments : AttachmentOK(a)'
    <2>1. \A a \in Attachments : t = Server(a) => (Opening(a)' => Opening(a))
      BY <1>3, <1>4 DEF Opening, Moving, At, Server
    <2>. QED  BY <1>1, <1>3, <1>4, <2>1, AttachmentsStay
  <1>. QED  BY <1>1, <1>3, <1>4, <1>5, <1>6, QuietKeeps DEF ShapeInv

LEMMA TellKeeps ==
    ASSUME CountInv, NEW t \in Threads, Tell(t)
    PROVE  CountInv'
  <1>1. ShapeInv /\ GoroutineOK(t) /\ thread \in [Threads -> ThreadStates]
    BY DEF CountInv, ShapeInv
  <1>2. /\ At(t) = "tell" /\ UNCHANGED <<current, stale, web>>
        /\ thread' = [thread EXCEPT ![t] = [@ EXCEPT !.at = thread[t].next, !.next = "out",
                                                     !.news = <<>>]]
    BY DEF Tell, surfaceVars
  <1>3. /\ thread' \in [Threads -> ThreadStates]
        /\ \A s \in Threads \ {t} : thread'[s] = thread[s]
        /\ At(t)' = thread[t].next /\ thread'[t].of = thread[t].of
    <2>. DEFINE r == [thread[t] EXCEPT !.at = thread[t].next, !.next = "out", !.news = <<>>]
    <2>1. <<>> \in Telling /\ thread[t] \in ThreadStates
      BY <1>1 DEF Telling
    <2>2. r \in ThreadStates /\ r.at = thread[t].next /\ r.of = thread[t].of
      BY <2>1 DEF ThreadStates, Ats
    <2>3. thread' = [thread EXCEPT ![t] = r]
      BY <1>1, <1>2, <2>1 DEF ThreadStates
    <2>. HIDE DEF r
    <2>. QED  BY <1>1, <2>2, <2>3 DEF At
  <1>4. thread[t].next \in {"begun", "serving", "done", "watching", "answered"}
    BY <1>1, <1>2 DEF GoroutineOK, Moving, GoesOn
  <1>5. ~Moving(t)' /\ At(t)' \notin {"out", "up", "down"}
    BY <1>3, <1>4 DEF Moving
  <1>6. GoroutineOK(t)'
    BY <1>2, <1>1, <1>3, <1>4, <1>5, GoroutineStays
  <1>7. \A a \in Attachments : AttachmentOK(a)'
    <2>1. ASSUME NEW a \in Attachments, t = Server(a) PROVE Opening(a)' => Opening(a)
      <3>1. Moving(t)
        BY <1>2 DEF Moving
      <3>2. thread[t].next \in {"begun", "serving", "done"}
        BY <1>1, <2>1, <3>1, ThreadKinds DEF GoroutineOK, GoesOn
      <3>3. Server(a)' = t
        BY <2>1 DEF Server
      <3>. QED  BY <1>3, <1>5, <2>1, <3>1, <3>2, <3>3 DEF Opening
    <2>. QED  BY <1>1, <1>3, <1>2, <1>5, <2>1, AttachmentsStay
  <1>. QED  BY <1>1, <1>3, <1>2, <1>5, <1>6, <1>7, QuietKeeps DEF ShapeInv

LEMMA BeginsKeeps ==
    ASSUME CountInv, NEW a \in Attachments, Begins(a)
    PROVE  CountInv'
  <1>. DEFINE t == Server(a)
  <1>1. ShapeInv /\ AttachmentOK(a) /\ t \in Threads /\ t[2] = "serve" /\ t[1] = a
    BY ThreadKinds DEF CountInv, ShapeInv
  <1>2. /\ At(t) = "out" /\ UNCHANGED <<current, web>> /\ stale' = stale \ {a}
        /\ Holding(t, "up", "begun")
    BY DEF Begins
  <1>3. /\ thread' \in [Threads -> ThreadStates]
        /\ \A s \in Threads \ {t} : thread'[s] = thread[s]
        /\ At(t)' = "up" /\ thread'[t].next = "begun" /\ thread'[t].of = thread[t].of
    BY <1>1, <1>2, HoldingSets DEF Ats
  <1>4. a \in stale /\ a \notin web /\ At(Watch(a)) = "out"
    BY <1>1, <1>2 DEF AttachmentOK, Opening
  <1>5. GoroutineOK(t)'
    BY <1>1, <1>3, GoroutineStays DEF GoesOn
  <1>6. ASSUME NEW b \in Attachments PROVE AttachmentOK(b)'
    <2>1. CASE b = a
      <3>1. At(Server(b))' = "up" /\ At(Watch(b))' = "out"
        BY <1>3, <1>4, <2>1, ThreadKinds DEF At, Server, Watch
      <3>. QED  BY <3>1 DEF AttachmentOK
    <2>2. CASE b # a
      <3>1. /\ thread'[Server(b)] = thread[Server(b)] /\ thread'[Watch(b)] = thread[Watch(b)]
            /\ Server(b)' = Server(b) /\ Watch(b)' = Watch(b)
        BY <1>3, <2>2, ThreadKinds DEF Server, Watch
      <3>. QED  BY <1>1, <1>2, <2>2, <3>1 DEF ShapeInv, AttachmentOK, Opening, Moving, At
    <2>. QED  BY <2>1, <2>2
  <1>7. ShapeInv'
    BY <1>1, <1>2, <1>3, <1>5, <1>6, ShapeMoves DEF ShapeInv
  <1>8. ~Moving(t) /\ On(t)' = ChannelOf[a]
    BY <1>1, <1>2 DEF Moving, On, About
  <1>. QED  BY <1>2, <1>1, <1>3, <1>4, <1>7, <1>8, GoesUp DEF CountInv

(* A step by which an attachment's server, having begun, goes on.          *)
LEMMA ServerKeeps ==
    ASSUME CountInv, NEW a \in Attachments, NEW at \in Ats, Goes(Server(a), at),
           At(Server(a)) \notin {"out", "up", "down", "arbiter", "tell"},
           at \notin {"out", "up", "down", "arbiter", "tell"},
           at \in {"begun", "opening"} => At(Server(a)) \in {"begun", "opening"},
           UNCHANGED <<current, stale>>, web' \subseteq web \cup {a}
    PROVE  CountInv'
  <1>. DEFINE t == Server(a)
  <1>1. ShapeInv /\ t \in Threads /\ t[2] = "serve" /\ web \subseteq Attachments
    BY ThreadKinds DEF CountInv, ShapeInv
  <1>2. /\ thread' \in [Threads -> ThreadStates]
        /\ \A s \in Threads \ {t} : thread'[s] = thread[s]
        /\ At(t)' = at /\ thread'[t].next = thread[t].next /\ thread'[t].of = thread[t].of
    BY <1>1, GoesSets
  <1>3. GoroutineOK(t)'
    BY <1>1, <1>2, GoroutineStays DEF Moving
  <1>4. ASSUME NEW b \in Attachments
        PROVE  /\ t = Server(b) => (Opening(b)' => Opening(b))
               /\ t = Watch(b) => At(t) # "out"
               /\ At(Server(b)) = "out" => /\ b \in stale => b \in stale'
                                           /\ b \in web' => b \in web
    <2>1. CASE b = a
      <3>1. Server(b)' = t
        BY <2>1 DEF Server
      <3>. QED  BY <1>2, <2>1, <3>1 DEF Opening, Moving
    <2>2. CASE b # a
      BY <2>2, ThreadKinds
    <2>. QED  BY <2>1, <2>2
  <1>5. \A b \in Attachments : AttachmentOK(b)'
    BY <1>1, <1>2, <1>4, AttachmentsStay
  <1>. QED  BY <1>1, <1>3, <1>2, <1>5, QuietKeeps

LEMMA StartKeeps ==
    ASSUME CountInv, NEW a \in Attachments, Start(a)
    PROVE  CountInv'
  <1>. DEFINE t == Server(a)
              w == Watch(a)
              begins == IF ChannelOf[a] \in Confirmed THEN "watching" ELSE "out"
  <1>1. /\ ShapeInv /\ AttachmentOK(a) /\ thread \in [Threads -> ThreadStates]
        /\ t \in Threads /\ w \in Threads /\ t # w /\ t[2] = "serve" /\ w[2] = "watch"
    BY ThreadKinds DEF CountInv, ShapeInv
  <1>2. /\ At(t) \in {"begun", "opening"} /\ UNCHANGED <<current, stale, web>>
        /\ thread' = [thread EXCEPT ![t].at = "serving", ![w].at = begins]
    BY DEF Start, surfaceVars
  <1>3. At(w) = "out"
    BY <1>1, <1>2 DEF AttachmentOK, Opening
  <1>4. /\ thread' \in [Threads -> ThreadStates]
        /\ \A s \in Threads \ {t, w} : thread'[s] = thread[s]
        /\ At(t)' = "serving" /\ thread'[t].of = thread[t].of /\ thread'[t].next = thread[t].next
        /\ At(w)' \in {"watching", "out"}
    BY <1>1, <1>2 DEF ThreadStates, Ats, At
  <1>5. ASSUME NEW b \in Attachments
        PROVE  AttachmentOK(b)' /\ (At(Server(b)) # "out" => At(Server(b))' # "out")
    <2>1. CASE b = a
      <3>1. Server(b)' = t
        BY <2>1 DEF Server
      <3>. QED  BY <1>4, <2>1, <3>1 DEF AttachmentOK, Opening, Moving
    <2>2. CASE b # a
      <3>1. /\ thread'[Server(b)] = thread[Server(b)] /\ thread'[Watch(b)] = thread[Watch(b)]
            /\ Server(b)' = Server(b) /\ Watch(b)' = Watch(b)
        BY <1>4, <2>2, ThreadKinds DEF Server, Watch
      <3>. QED  BY <1>1, <1>2, <3>1 DEF ShapeInv, AttachmentOK, Opening, Moving, At
    <2>. QED  BY <2>1, <2>2
  <1>6. ASSUME NEW s \in Threads PROVE GoroutineOK(s)'
    <2>1. CASE s \in {t, w}
      BY <1>1, <1>4, <2>1 DEF GoroutineOK, Moving
    <2>2. CASE s \notin {t, w}
      <3>1. thread'[s] = thread[s] /\ At(s)' = At(s) /\ (Moving(s)' <=> Moving(s))
        BY <1>4, <2>2 DEF At, Moving
      <3>. QED  BY <1>1, <1>5, <3>1 DEF ShapeInv, GoroutineOK
    <2>. QED  BY <2>1, <2>2
  <1>7. ShapeInv'
    BY <1>1, <1>2, <1>4, <1>5, <1>6 DEF ShapeInv
  <1>8. \A s \in Threads : \/ thread'[s] = thread[s]
                           \/ At(s) \notin {"up", "down"} /\ At(s)' \notin {"up", "down"}
    BY <1>2, <1>3, <1>4
  <1>9. /\ \A c \in Channels, way \in {"up", "down"} : IsFiniteSet(Counting(c, way)')
        /\ CountIsExact'
    BY <1>2, <1>8, CountingStays
  <1>. QED  BY <1>7, <1>9 DEF CountInv

(* A goroutine that has begun finds an attachment stale, or not any more,  *)
(* and is to count.                                                        *)
LEMMA DownKeeps ==
    ASSUME CountInv, NEW a \in Attachments, NEW t \in {Server(a), Watch(a)}, NEW next \in GoesOn(t),
           Holding(t, "down", next), ~Moving(t), At(t) # "out",
           t = Server(a) => next # "begun",
           a \notin stale, stale' = stale \cup {a}, UNCHANGED <<current, web>>
    PROVE  CountInv'
  <1>1. ShapeInv /\ t \in Threads /\ t[2] # "control" /\ t[1] = a
    BY ThreadKinds DEF CountInv, ShapeInv
  <1>2. /\ thread' \in [Threads -> ThreadStates]
        /\ \A s \in Threads \ {t} : thread'[s] = thread[s]
        /\ At(t)' = "down" /\ thread'[t].next = next /\ thread'[t].of = thread[t].of
    <2>1. next \in Ats /\ "down" \in Ats
      BY DEF GoesOn, Ats
    <2>. QED  BY <1>1, <2>1, HoldingSets
  <1>3. GoroutineOK(t)'
    BY <1>1, <1>2, GoroutineStays
  <1>4. \A b \in Attachments : t = Server(b) => (Opening(b)' => Opening(b))
    <2>1. ASSUME NEW b \in Attachments, t = Server(b), Opening(b)' PROVE FALSE
      <3>1. b = a /\ Server(b)' = t /\ next # "begun"
        BY <2>1, ThreadKinds DEF Server
      <3>. QED  BY <1>2, <2>1, <3>1 DEF Opening
    <2>. QED  BY <2>1
  <1>5. \A b \in Attachments : AttachmentOK(b)'
    BY <1>1, <1>2, <1>4, AttachmentsStay
  <1>6. ShapeInv'
    BY <1>1, <1>2, <1>3, <1>5, ShapeMoves DEF ShapeInv
  <1>7. On(t)' = ChannelOf[a]
    BY <1>1 DEF On, About
  <1>. QED  BY <1>1, <1>2, <1>6, <1>7, GoesDown DEF CountInv

LEMMA FinishesKeeps ==
    ASSUME CountInv, NEW a \in Attachments, Register(a) \/ End(a) \/ Finishes(a)
    PROVE  CountInv'
  <1>1. CASE Register(a)
    BY <1>1, ServerKeeps DEF Register, Ats
  <1>2. CASE End(a)
    BY <1>2, ServerKeeps DEF End, Ats
  <1>3. CASE Detach(a)
    BY <1>3, ServerKeeps DEF Detach, Ats
  <1>4. CASE Uncount(a)
    <2>1. CASE a \in stale
      <3>1. stale' = stale
        BY <1>4, <2>1 DEF Uncount
      <3>. QED  BY <1>4, <2>1, <3>1, ServerKeeps DEF Uncount, Ats
    <2>2. CASE a \notin stale
      <3>1. "done" \in GoesOn(Server(a))
        BY ThreadKinds DEF GoesOn
      <3>. QED  BY <1>4, <2>2, <3>1, DownKeeps DEF Uncount, Moving
    <2>. QED  BY <2>1, <2>2
  <1>. QED  BY <1>2, <1>1, <1>3, <1>4 DEF Finishes

(* A goroutine that begins nothing goes on, and counts nothing.            *)
LEMMA OthersKeep ==
    ASSUME CountInv, NEW t \in Threads, thread' \in [Threads -> ThreadStates],
           \A s \in Threads \ {t} : thread'[s] = thread[s],
           At(t) \notin {"out", "up", "down"}, At(t)' \notin {"out", "up", "down"},
           thread'[t].of = thread[t].of, Moving(t)' => thread'[t].next \in GoesOn(t),
           \A a \in Attachments : t = Server(a) => ~Opening(a)',
           UNCHANGED <<current, stale, web>>
    PROVE  CountInv'
  <1>1. ShapeInv
    BY DEF CountInv
  <1>2. GoroutineOK(t)'
    BY <1>1, GoroutineStays
  <1>3. \A a \in Attachments : AttachmentOK(a)'
    BY <1>1, AttachmentsStay
  <1>. QED  BY <1>1, <1>3, <1>2, QuietKeeps DEF ShapeInv

LEMMA WatchesKeeps ==
    ASSUME CountInv, NEW a \in Attachments, Watches(a)
    PROVE  CountInv'
  <1>1. Watch(a) \in Threads /\ Watch(a)[2] = "watch" /\ \A b \in Attachments : Watch(a) # Server(b)
    BY ThreadKinds
  <1>2. CASE FindsStale(a)
    <2>1. "watching" \in GoesOn(Watch(a)) /\ Watch(a) # Server(a)
      BY <1>1 DEF GoesOn
    <2>. QED  BY <1>2, <2>1, DownKeeps DEF FindsStale, Moving
  <1>3. CASE WatchEnds(a)
    <2>1. /\ At(Watch(a)) = "watching" /\ Goes(Watch(a), "done") /\ UNCHANGED <<current, stale, web>>
      BY <1>3 DEF WatchEnds, surfaceVars
    <2>2. /\ thread' \in [Threads -> ThreadStates]
          /\ \A s \in Threads \ {Watch(a)} : thread'[s] = thread[s]
          /\ thread'[Watch(a)].at = "done" /\ thread'[Watch(a)].of = thread[Watch(a)].of
      BY <1>1, <2>1 DEF CountInv, ShapeInv, ThreadStates, Ats, Goes
    <2>. DEFINE t == Watch(a)
    <2>3. At(t)' = "done" /\ ~Moving(t)'
      <3>1. Watch(a)' = Watch(a)
        BY DEF Watch
      <3>. QED  BY <2>2, <3>1 DEF At, Moving
    <2>. QED  BY <1>1, <2>1, <2>2, <2>3, OthersKeep
  <1>. QED  BY <1>2, <1>3 DEF Watches

LEMMA FindsKeeps ==
    ASSUME CountInv, NEW r \in Requests, NEW a \in Attachments, Finds(r, a)
    PROVE  CountInv'
  <1>. DEFINE t == <<r, "control">>
  <1>1. /\ ShapeInv /\ AttachmentOK(a) /\ thread \in [Threads -> ThreadStates]
        /\ t \in Threads /\ t[2] = "control" /\ \A b \in Attachments : t # Server(b) /\ t # Watch(b)
    BY ThreadKinds DEF CountInv, ShapeInv, Server, Watch
  <1>2. /\ At(t) = "out" /\ a \in web /\ UNCHANGED <<current, stale, web>>
        /\ thread' = [thread EXCEPT ![t] = [@ EXCEPT !.at = "handling", !.of = {a}]]
    BY DEF Finds, surfaceVars
  <1>3. /\ thread' \in [Threads -> ThreadStates]
        /\ \A s \in Threads \ {t} : thread'[s] = thread[s]
        /\ At(t)' = "handling" /\ thread'[t].of = {a}
    BY <1>1, <1>2 DEF ThreadStates, Ats, At
  <1>4. At(Server(a)) # "out" /\ At(Server(a))' = At(Server(a))
    BY <1>1, <1>2, <1>3, ThreadKinds DEF AttachmentOK, At, Server
  <1>5. GoroutineOK(t)'
    BY <1>1, <1>3, <1>4 DEF GoroutineOK, Moving
  <1>6. \A b \in Attachments : AttachmentOK(b)'
    BY <1>1, <1>2, <1>3, AttachmentsStay
  <1>. QED  BY <1>1, <1>3, <1>2, <1>5, <1>6, QuietKeeps DEF ShapeInv

(* Whoever handles a request is about an attachment that has begun, and    *)
(* goes on to its answer.                                                  *)
LEMMA HandlingTypes ==
    ASSUME ShapeInv, NEW t \in Threads, Handling(t)
    PROVE  /\ At(t) \notin {"out", "up", "down"} /\ ~Moving(t)
           /\ About(t) \in Attachments /\ At(Server(About(t))) # "out"
           /\ Answered(t) \in Ats /\ Answered(t) \in GoesOn(t)
           /\ Answered(t) \notin {"out", "up", "down", "arbiter", "tell", "begun", "opening"}
           /\ \A a \in Attachments : t = Server(a) => ~Opening(a)
  <1>1. At(t) \in {"handling", "serving"} /\ t[2] \in {"control", "serve"}
    BY DEF Handling
  <1>2. About(t) \in Attachments
    BY <1>1, AboutTypes
  <1>3. At(Server(About(t))) # "out"
    <2>1. CASE t[2] = "control"
      <3>1. PICK a \in Attachments : thread[t].of = {a} /\ At(Server(a)) # "out"
        BY <1>1, <2>1 DEF ShapeInv, GoroutineOK
      <3>2. About(t) = a
        BY <2>1, <3>1 DEF About
      <3>. QED  BY <3>1, <3>2
    <2>2. CASE t[2] = "serve"
      <3>1. t = Server(About(t))
        BY <2>2, ThreadKinds DEF About
      <3>. QED  BY <1>1, <3>1
    <2>. QED  BY <1>1, <2>1, <2>2
  <1>4. \A a \in Attachments : t = Server(a) => ~Opening(a)
    BY <1>1, ThreadKinds DEF Opening, Handling, Moving
  <1>. QED  BY <1>2, <1>1, <1>3, <1>4 DEF Answered, Moving, GoesOn, Ats

LEMMA ConfirmKeeps ==
    ASSUME CountInv, NEW t \in Threads, Confirm(t)
    PROVE  CountInv'
  <1>. DEFINE a == About(t)
              next == Answered(t)
  <1>1. ShapeInv /\ Handling(t) /\ UNCHANGED <<current, web>> /\ stale' = stale \ {a}
    BY DEF CountInv, Confirm
  <1>2. /\ At(t) \notin {"out", "up", "down"} /\ ~Moving(t)
        /\ a \in Attachments /\ At(Server(a)) # "out"
        /\ next \in Ats /\ next \in GoesOn(t)
        /\ next \notin {"out", "up", "down", "arbiter", "tell", "begun", "opening"}
        /\ \A b \in Attachments : t = Server(b) => ~Opening(b)
    BY <1>1, HandlingTypes
  <1>3. CASE a \in stale
    <2>1. Holding(t, "up", next)
      BY <1>3 DEF Confirm
    <2>2. /\ thread' \in [Threads -> ThreadStates]
          /\ \A s \in Threads \ {t} : thread'[s] = thread[s]
          /\ At(t)' = "up" /\ thread'[t].next = next /\ thread'[t].of = thread[t].of
      BY <1>1, <1>2, <2>1, HoldingSets DEF Ats
    <2>3. GoroutineOK(t)'
      BY <1>1, <1>2, <2>2, GoroutineStays
    <2>4. ASSUME NEW b \in Attachments, t = Server(b) PROVE ~Opening(b)'
      <3>1. Server(b)' = t
        BY <2>4 DEF Server
      <3>. QED  BY <1>2, <2>2, <3>1 DEF Opening
    <2>5. \A b \in Attachments : At(Server(b)) = "out" =>
             /\ b \in stale => b \in stale'
             /\ b \in web' => b \in web
      BY <1>1, <1>2
    <2>6. \A b \in Attachments : AttachmentOK(b)'
      BY <1>1, <1>2, <2>2, <2>4, <2>5, AttachmentsStay
    <2>7. ShapeInv'
      BY <1>1, <2>2, <2>3, <2>6, ShapeMoves DEF ShapeInv
    <2>8. On(t)' = ChannelOf[a]
      BY <2>2, AboutKept DEF On
    <2>. HIDE DEF a
    <2>. QED  BY <1>1, <1>3, <1>2, <2>2, <2>7, <2>8, GoesUp DEF CountInv
  <1>4. CASE a \notin stale
    <2>1. Goes(t, next) /\ stale' = stale
      BY <1>1, <1>4 DEF Confirm
    <2>2. /\ thread' \in [Threads -> ThreadStates]
          /\ \A s \in Threads \ {t} : thread'[s] = thread[s]
          /\ At(t)' = next /\ thread'[t].next = thread[t].next /\ thread'[t].of = thread[t].of
      BY <1>1, <1>2, <2>1, GoesSets
    <2>3. ~Moving(t)'
      BY <1>2, <2>2 DEF Moving
    <2>4. ASSUME NEW b \in Attachments, t = Server(b) PROVE ~Opening(b)'
      <3>1. Server(b)' = t
        BY <2>4 DEF Server
      <3>. QED  BY <1>2, <2>2, <2>3, <3>1 DEF Opening
    <2>. QED  BY <1>1, <1>2, <2>2, <2>1, <2>3, <2>4, OthersKeep
  <1>. QED  BY <1>3, <1>4

LEMMA ReclaimKeeps ==
    ASSUME CountInv, NEW t \in Threads, Reclaim(t)
    PROVE  CountInv'
  <1>. DEFINE next == Answered(t)
  <1>1. ShapeInv /\ Handling(t) /\ UNCHANGED <<current, stale, web>>
    BY DEF CountInv, Reclaim, surfaceVars
  <1>2. /\ At(t) \notin {"out", "up", "down"}
        /\ next \in Ats /\ next \in GoesOn(t)
        /\ next \notin {"out", "up", "down", "arbiter", "tell", "begun", "opening"}
    BY <1>1, HandlingTypes
  <1>3. News \in Telling
    BY NewsTypes DEF Reclaim, TakeBack
  <1>4. /\ thread' \in [Threads -> ThreadStates]
        /\ \A s \in Threads \ {t} : thread'[s] = thread[s]
        /\ At(t)' = "tell" /\ thread'[t].next = next /\ thread'[t].of = thread[t].of
    <2>1. ASSUME NEW n \in Telling, NEW x \in Ats,
                 thread' = [thread EXCEPT ![t] = [@ EXCEPT !.at = "tell", !.next = x, !.news = n]]
          PROVE  /\ thread' \in [Threads -> ThreadStates]
                 /\ \A s \in Threads \ {t} : thread'[s] = thread[s]
                 /\ At(t)' = "tell" /\ thread'[t].next = x /\ thread'[t].of = thread[t].of
      <3>. DEFINE r == [thread[t] EXCEPT !.at = "tell", !.next = x, !.news = n]
      <3>1. thread \in [Threads -> ThreadStates] /\ thread[t] \in ThreadStates
        BY <1>1 DEF ShapeInv
      <3>2. r \in ThreadStates /\ r.at = "tell" /\ r.next = x /\ r.of = thread[t].of
        BY <3>1 DEF ThreadStates, Ats
      <3>3. thread' = [thread EXCEPT ![t] = r]
        BY <2>1, <3>1 DEF ThreadStates
      <3>. HIDE DEF r
      <3>4. /\ thread' \in [Threads -> ThreadStates]
            /\ \A s \in Threads \ {t} : thread'[s] = thread[s]
            /\ thread'[t] = r
        BY ONLY <1>1, t \in Threads, <3>2, <3>3, RecordSets
      <3>. QED  BY ONLY <3>2, <3>4 DEF At
    <2>. QED  BY <1>2, <1>3, <2>1 DEF Reclaim
  <1>5. ASSUME NEW b \in Attachments, t = Server(b) PROVE ~Opening(b)'
    <2>1. Server(b)' = t
      BY <1>5 DEF Server
    <2>. QED  BY <1>2, <1>4, <2>1 DEF Opening
  <1>. QED  BY <1>1, <1>2, <1>4, <1>5, OthersKeep

LEMMA StreamsKeep ==
    ASSUME CountInv, NEW t \in Threads, Subscribe(t) \/ FirstAnswer(t)
    PROVE  CountInv'
  <1>1. PICK at \in {"streaming", "answered", "unanswered"} :
           /\ Goes(t, at) /\ UNCHANGED <<current, stale, web>>
           /\ At(t) \in {"handling", "serving", "streaming"}
    BY DEF Subscribe, FirstAnswer, Handling, surfaceVars
  <1>2. ShapeInv /\ at \in Ats
    BY DEF CountInv, Ats
  <1>3. /\ thread' \in [Threads -> ThreadStates]
        /\ \A s \in Threads \ {t} : thread'[s] = thread[s]
        /\ At(t)' = at /\ thread'[t].next = thread[t].next /\ thread'[t].of = thread[t].of
    BY <1>1, <1>2, GoesSets
  <1>4. ~Moving(t)'
    BY <1>3 DEF Moving
  <1>5. ASSUME NEW b \in Attachments, t = Server(b) PROVE ~Opening(b)'
    <2>1. Server(b)' = t
      BY <1>5 DEF Server
    <2>. QED  BY <1>3, <1>4, <2>1 DEF Opening
  <1>. QED  BY <1>1, <1>3, <1>4, <1>5, OthersKeep

--------------------------------------------------------------------------------
(* The channels' invariant.                                                *)

LEMMA ChannelsStart == ChannelsInit => ArbiterInv /\ CountInv
  <1>. SUFFICES ASSUME ChannelsInit PROVE ArbiterInv /\ CountInv
    OBVIOUS
  <1>1. /\ thread = [t \in Threads |-> Idle] /\ stale = Attachments /\ web = {}
        /\ current = [c \in Channels |-> 0] /\ ArbiterInit
    BY DEF ChannelsInit
  <1>2. Idle \in ThreadStates /\ Idle.at = "out"
    BY DEF Idle, ThreadStates, Ats, Telling
  <1>3. \A t \in Threads : At(t) = "out"
    BY <1>1, <1>2 DEF At
  <1>4. \A t \in Threads : GoroutineOK(t)
    BY <1>3 DEF GoroutineOK, Moving
  <1>5. \A a \in Attachments : AttachmentOK(a)
    BY <1>1, <1>3, ThreadKinds DEF AttachmentOK
  <1>6. ShapeInv
    BY <1>1, <1>2, <1>4, <1>5 DEF ShapeInv
  <1>7. \A c \in Channels, way \in {"up", "down"} :
           IsFiniteSet(Counting(c, way)) /\ Cardinality(Counting(c, way)) = 0
    <2>1. \A c \in Channels, way \in {"up", "down"} : Counting(c, way) = {}
      BY <1>3 DEF Counting
    <2>. QED  BY <2>1, FS_EmptySet
  <1>8. CountIsExact
    <2>1. \A c \in Channels : {a \in Attachments \ stale : ChannelOf[a] = c} = {}
      BY <1>1
    <2>. QED  BY <1>1, <1>7, <2>1, FS_EmptySet DEF CountIsExact
  <1>. QED  BY <1>1, <1>6, <1>7, <1>8, ArbiterStarts DEF CountInv

LEMMA ChannelsStep ==
    ArbiterInv /\ CountInv /\ [ChannelsNext]_channelVars => ArbiterInv' /\ CountInv'
  <1>. SUFFICES ASSUME ArbiterInv, CountInv, [ChannelsNext]_channelVars
                PROVE  ArbiterInv' /\ CountInv'
    OBVIOUS
  <1>1. ASSUME NEW a \in Attachments,
               Begins(a) \/ Register(a) \/ Start(a) \/ End(a) \/ Finishes(a) \/ Watches(a)
        PROVE  ArbiterInv' /\ CountInv'
    <2>1. UNCHANGED arbiterVars
      BY <1>1 DEF Begins, Register, Start, End, Finishes, Detach, Uncount, Watches,
                  FindsStale, WatchEnds
    <2>. QED  BY <1>1, <2>1, ArbiterUnchanged, BeginsKeeps, FinishesKeeps, StartKeeps, WatchesKeeps
  <1>2. ASSUME NEW a \in Attachments, NEW r \in Requests, Finds(r, a)
        PROVE  ArbiterInv' /\ CountInv'
    BY <1>2, ArbiterUnchanged, FindsKeeps DEF Finds
  <1>3. ASSUME NEW t \in Threads, Counts(t) \/ Tell(t) \/ Confirm(t) \/ Subscribe(t) \/ FirstAnswer(t)
        PROVE  ArbiterInv' /\ CountInv'
    <2>1. UNCHANGED arbiterVars
      BY <1>3 DEF Counts, Tell, Confirm, Subscribe, FirstAnswer
    <2>. QED  BY <1>3, <2>1, ArbiterUnchanged, CountsKeeps, TellKeeps, ConfirmKeeps, StreamsKeep
  <1>4. ASSUME NEW t \in Threads, TellArbiter(t)
        PROVE  ArbiterInv' /\ CountInv'
    <2>1. On(t) \in Channels
      BY <1>4, AboutTypes DEF CountInv, TellArbiter
    <2>. QED  BY <1>4, <2>1, HoldKeeps, TellArbiterKeeps DEF TellArbiter
  <1>5. ASSUME NEW t \in Threads, Reclaim(t)
        PROVE  ArbiterInv' /\ CountInv'
    BY <1>5, TakeBackKeeps, ReclaimKeeps DEF Reclaim
  <1>6. CASE UNCHANGED channelVars
    <2>1. UNCHANGED <<arbiterVars, thread, current, stale, web>>
      BY <1>6 DEF channelVars, surfaceVars
    <2>2. ArbiterInv'
      BY <2>1, ArbiterUnchanged
    <2>3. ShapeInv'
      BY <2>1 DEF CountInv, ShapeInv, GoroutineOK, AttachmentOK, Opening, Moving, At, Server, Watch
    <2>4. /\ \A c \in Channels, way \in {"up", "down"} : IsFiniteSet(Counting(c, way)')
          /\ CountIsExact'
      BY <2>1, CountingStays
    <2>. QED  BY <2>2, <2>3, <2>4 DEF CountInv
  <1>. QED  BY <1>2, <1>1, <1>3, <1>4, <1>5, <1>6 DEF ChannelsNext, Holds, Handles

(* Whatever the order in which beginnings, confirmations, watches and ends *)
(* reach it, a channel's count is that of its attachments whose picture is *)
(* current, but for those a goroutine is on its way to count, or to count  *)
(* no longer (hold, watch, finish, confirm: attachment.go).                *)
THEOREM CountsAreExact == ChannelsSpec => []CountIsExact
  <1>1. CountInv => CountIsExact
    BY DEF CountInv
  <1>. QED  BY <1>1, ChannelsStart, ChannelsStep, PTL DEF ChannelsSpec

(* And whatever reaches the arbiter, in whatever order the goroutines      *)
(* carry it there, someone who holds is in control (Hold, TakeBack).       *)
THEOREM ChannelsAreInControl ==
    ASSUME NoCircle
    PROVE  ChannelsSpec => []SomeoneInControl
  <1>1. ArbiterInv => SomeoneInControl
    BY SomeoneOfInv
  <1>. QED  BY <1>1, ChannelsStart, ChannelsStep, PTL DEF ChannelsSpec

--------------------------------------------------------------------------------
(* A delivery is somebody's to release until it is released, and one's     *)
(* only.                                                                   *)

(* The deliveries begun are the first so many numbers.                     *)
BegunInOrder == \E n \in 0..MaxDeliveries : begun = 1..n

HeldInv ==
    /\ BegunInOrder
    /\ feeds \subseteq begun /\ held \subseteq begun /\ adding \subseteq begun
    /\ behind \subseteq begun /\ released \subseteq begun
    /\ drop \in [Droppers -> [left : SUBSET begun, now : SUBSET begun]]
    /\ feeds \cap released = {}
    /\ held \cap (adding \cup Releasing \cup released) = {}
    /\ adding \cap (Releasing \cup released) = {}
    /\ server # "adding" => adding = {}
    /\ FedIsHeld
    /\ server \in {"ending", "ended"} => held \subseteq drop[Attachment].left
    /\ server = "ended" => Unoccupied(Attachment)
    /\ ToldItsEnd
    /\ cut \subseteq begun
    /\ \A d \in Numbers : drop[d].left \subseteq {d}

(* A goroutine that drops is one of three.                                 *)
LEMMA DropperKinds ==
    /\ Attachment \in Droppers /\ Closer \in Droppers /\ Closer # Attachment
    /\ \A d \in Numbers : d \in Droppers /\ d # Attachment /\ d # Closer
  BY DeliveriesAssumption DEF Attachment, Closer, Droppers, Numbers

(* The next delivery is none of those begun.                               *)
LEMMA NextIsNew ==
    ASSUME BegunInOrder, NEW d \in Numbers, d = Cardinality(begun) + 1
    PROVE  d \notin begun /\ BegunInOrder \in BOOLEAN
           /\ \E n \in 0..MaxDeliveries : begun \cup {d} = 1..n
  <1>1. PICK n \in 0..MaxDeliveries : begun = 1..n
    BY DEF BegunInOrder
  <1>2. n \in Nat /\ Cardinality(1..n) = n
    BY <1>1, DeliveriesAssumption, FS_Interval
  <1>3. d = n + 1
    BY <1>1, <1>2
  <1>4. begun \cup {d} = 1..(n + 1) /\ n + 1 \in 0..MaxDeliveries
    BY <1>1, <1>2, <1>3, DeliveriesAssumption DEF Numbers
  <1>. QED  BY <1>2, <1>1, <1>3, <1>4 DEF BegunInOrder

LEMMA HeldStarts == DeliveriesInit => HeldInv
  <1>. SUFFICES ASSUME DeliveriesInit PROVE HeldInv
    OBVIOUS
  <1>1. /\ feeds = {} /\ held = {} /\ begun = {} /\ adding = {}
        /\ behind = {} /\ released = {} /\ server = "serving" /\ cut = {} /\ unheard = {}
        /\ drop = [p \in Droppers |-> NoDrop]
    BY DEF DeliveriesInit
  <1>2. BegunInOrder
    <2>1. 0 \in 0..MaxDeliveries /\ 1..0 = {}
      BY DeliveriesAssumption
    <2>. QED  BY <1>1, <2>1 DEF BegunInOrder
  <1>3. Releasing = {}
    BY <1>1 DEF Releasing, NoDrop
  <1>4. \A d \in Numbers : drop[d].left \subseteq {d}
    BY <1>1, DropperKinds DEF NoDrop
  <1>. QED  BY <1>1, <1>3, <1>2, <1>4 DEF HeldInv, FedIsHeld, NoDrop, ToldItsEnd

(* Where no goroutine's drops change.                                      *)
LEMMA ReleasingKept ==
    ASSUME drop' = drop
    PROVE  Releasing' = Releasing /\ (Unoccupied(Attachment)' <=> Unoccupied(Attachment))
  BY DEF Releasing, Unoccupied

(* What is told stays told where nothing is dropped, found behind or cut.  *)
LEMMA ToldKept ==
    ASSUME HeldInv, drop' = drop, UNCHANGED <<behind, cut, unheard, released, begun>>
    PROVE  ToldItsEnd' /\ (cut \subseteq begun)' /\ (\A d \in Numbers : drop[d].left \subseteq {d})'
  BY ReleasingKept DEF HeldInv, ToldItsEnd

LEMMA ServerHolds ==
    ASSUME HeldInv, NEW d \in Numbers, SubscribeStream(d)
    PROVE  HeldInv'
  <1>1. /\ server = "serving" /\ server' = "adding" /\ adding' = {d} /\ adding = {}
        /\ begun' = begun \cup {d} /\ feeds' = feeds \cup {d}
        /\ UNCHANGED <<held, drop, released, behind, cut, unheard>>
        /\ d = Cardinality(begun) + 1
    BY DEF SubscribeStream, HeldInv, readVars, endVars
  <1>2. d \notin begun /\ BegunInOrder'
    BY <1>1, NextIsNew DEF HeldInv, BegunInOrder
  <1>3. Releasing' = Releasing /\ Releasing \subseteq begun
    BY <1>1, ReleasingKept DEF Releasing, HeldInv
  <1>4. drop' \in [Droppers -> [left : SUBSET begun', now : SUBSET begun']]
    BY <1>1 DEF HeldInv
  <1>5. ToldItsEnd' /\ cut' \subseteq begun' /\ (\A e \in Numbers : drop[e].left \subseteq {e})'
    BY <1>1, <1>3 DEF HeldInv, ToldItsEnd
  <1>. QED  BY <1>2, <1>1, <1>3, <1>4, <1>5 DEF HeldInv, FedIsHeld

LEMMA AddHolds ==
    ASSUME HeldInv, Add \/ Detached
    PROVE  HeldInv'
  <1>1. CASE Add
    <2>1. /\ server = "adding" /\ server' = "serving" /\ held' = held \cup adding /\ adding' = {}
          /\ UNCHANGED <<feeds, begun, drop, released, behind, cut, unheard>>
      BY <1>1 DEF Add, readVars, endVars
    <2>2. Releasing' = Releasing
      BY <2>1, ReleasingKept
    <2>3. ToldItsEnd' /\ (cut \subseteq begun)' /\ (\A d \in Numbers : drop[d].left \subseteq {d})'
      BY <2>1, ToldKept
    <2>. QED  BY <2>1, <2>2, <2>3 DEF HeldInv, FedIsHeld, BegunInOrder
  <1>2. CASE Detached
    <2>1. /\ server = "ending" /\ server' = "ended" /\ Unoccupied(Attachment)
          /\ UNCHANGED <<feeds, held, adding, begun, drop, released, behind, cut, unheard>>
      BY <1>2 DEF Detached, readVars, endVars
    <2>2. Releasing' = Releasing /\ (Unoccupied(Attachment)' <=> Unoccupied(Attachment))
      BY <2>1, ReleasingKept
    <2>3. ToldItsEnd' /\ (cut \subseteq begun)' /\ (\A d \in Numbers : drop[d].left \subseteq {d})'
      BY <2>1, ToldKept
    <2>. QED  BY <2>1, <2>2, <2>3 DEF HeldInv, FedIsHeld, BegunInOrder
  <1>. QED  BY <1>1, <1>2

(* Where what one goroutine is releasing changes.                          *)
LEMMA ReleasingMoves ==
    ASSUME NEW p \in Droppers, \A q \in Droppers \ {p} : drop'[q].now = drop[q].now,
           \A q, s \in Droppers : q # s => drop[q].now \cap drop[s].now = {}
    PROVE  Releasing' = (Releasing \ drop[p].now) \cup drop'[p].now
  BY DEF Releasing

(* And what is told: of the one that drops, what it has left or is         *)
(* releasing is still left, being released, or released, or was early.     *)
LEMMA ToldMoves ==
    ASSUME HeldInv, NEW p \in Droppers, \A q \in Droppers \ {p} : drop'[q] = drop[q],
           \A d \in drop[p].left \cup drop[p].now :
              d \in drop'[p].left \cup Releasing' \cup released' \cup unheard',
           \A d \in behind' \cup cut' :
              d \in behind \cup cut \cup drop'[p].left,
           released \subseteq released', unheard \subseteq unheard',
           drop[p].now = {} \/ drop[p].now \subseteq released' \/ drop'[p].now = drop[p].now
    PROVE  ToldItsEnd'
  <1>. SUFFICES ASSUME NEW d \in behind' \cup cut'
                PROVE  \/ d \in (released \cup Releasing \cup unheard)'
                       \/ \E q \in Droppers : d \in drop'[q].left
    BY DEF ToldItsEnd
  <1>1. CASE d \in drop'[p].left
    BY <1>1
  <1>2. CASE d \in behind \cup cut
    <2>1. \/ d \in released \cup unheard
          \/ \E q \in Droppers : d \in drop[q].left \cup drop[q].now
      BY <1>2 DEF HeldInv, ToldItsEnd, Releasing
    <2>2. ASSUME NEW q \in Droppers \ {p}, d \in drop[q].left \cup drop[q].now
          PROVE  d \in Releasing' \/ d \in drop'[q].left
      BY <2>2 DEF Releasing
    <2>. QED  BY <2>1, <2>2
  <1>. QED  BY <1>1, <1>2

LEMMA UnsubscribeHolds ==
    ASSUME HeldInv, NEW d \in Numbers, Unsubscribe(d)
    PROVE  HeldInv'
  <1>1. /\ server = "serving" /\ Unoccupied(Attachment) /\ d \in held
        /\ held' = held \ {d} /\ drop' = [drop EXCEPT ![Attachment].now = {d}]
        /\ UNCHANGED <<feeds, begun, adding, server, released, behind, cut, unheard>>
    BY DEF Unsubscribe, attachmentVars, readVars, endVars
  <1>2. /\ drop' \in [Droppers -> [left : SUBSET begun, now : SUBSET begun]]
        /\ \A q \in Droppers \ {Attachment} : drop'[q] = drop[q]
        /\ drop'[Attachment].now = {d} /\ drop[Attachment].now = {} /\ drop[Attachment].left = {}
    BY <1>1, DropperKinds DEF HeldInv, Unoccupied, NoDrop
  <1>3. Releasing' = Releasing \cup {d}
    BY <1>2, DropperKinds, ReleasingMoves DEF HeldInv, FedIsHeld
  <1>4. \A q \in Droppers : drop[q].now \subseteq Releasing
    BY DEF Releasing
  <1>5. \A q, s \in Droppers : q # s => drop'[q].now \cap drop'[s].now = {}
    BY <1>1, <1>2, <1>4 DEF HeldInv, FedIsHeld
  <1>6. ToldItsEnd'
    BY <1>1, <1>2, DropperKinds, ToldMoves
  <1>7. \A e \in Numbers : drop'[e].left \subseteq {e}
    BY <1>2, DropperKinds DEF HeldInv
  <1>. QED  BY <1>1, <1>3, <1>2, <1>5, <1>6, <1>7 DEF HeldInv, FedIsHeld, BegunInOrder

LEMMA ReleaseHolds ==
    ASSUME HeldInv, NEW p \in Droppers, Release(p)
    PROVE  HeldInv'
  <1>1. /\ drop[p].now # {} /\ feeds' = feeds \ drop[p].now
        /\ released' = released \cup drop[p].now
        /\ drop' = [drop EXCEPT ![p].now = {}]
        /\ UNCHANGED <<held, server, begun, adding, behind, cut, unheard>>
    BY DEF Release, attachmentVars, readVars, endVars
  <1>2. /\ drop' \in [Droppers -> [left : SUBSET begun, now : SUBSET begun]]
        /\ \A q \in Droppers \ {p} : drop'[q] = drop[q]
        /\ drop'[p].now = {} /\ drop'[p].left = drop[p].left
    BY <1>1 DEF HeldInv
  <1>3. Releasing' = Releasing \ drop[p].now /\ drop[p].now \subseteq Releasing
    BY <1>2, ReleasingMoves DEF HeldInv, FedIsHeld, Releasing
  <1>4. \A q, s \in Droppers : q # s => drop'[q].now \cap drop'[s].now = {}
    BY <1>2 DEF HeldInv, FedIsHeld
  <1>5. server = "ended" => p # Attachment
    BY <1>1 DEF HeldInv, Unoccupied, NoDrop
  <1>6. drop'[Attachment].left = drop[Attachment].left
    BY <1>2, DropperKinds
  <1>7. server = "ended" => Unoccupied(Attachment)'
    BY <1>2, <1>5, DropperKinds DEF HeldInv, Unoccupied
  <1>8. ToldItsEnd'
    BY <1>1, <1>2, ToldMoves
  <1>9. \A e \in Numbers : drop'[e].left \subseteq {e}
    BY <1>2, DropperKinds DEF HeldInv
  <1>. QED  BY <1>2, <1>1, <1>3, <1>4, <1>6, <1>7, <1>8, <1>9 DEF HeldInv, FedIsHeld, BegunInOrder

LEMMA TakeHolds ==
    ASSUME HeldInv, NEW p \in Droppers, NEW d \in Numbers, TakeRelease(p, d)
    PROVE  HeldInv'
  <1>1. /\ drop[p].now = {} /\ d \in drop[p].left
        /\ held' = held \ {d}
        /\ drop' = [drop EXCEPT ![p] = [drop[p] EXCEPT !.left = @ \ {d}, !.now = {d} \cap held]]
        /\ unheard' = unheard \cup ({d} \cap adding)
        /\ UNCHANGED <<feeds, server, begun, adding, released, behind, cut>>
    BY DEF TakeRelease, attachmentVars, readVars
  <1>0. drop \in [Droppers -> [left : SUBSET begun, now : SUBSET begun]] /\ held \subseteq begun
    BY DEF HeldInv
  <1>2. /\ drop' \in [Droppers -> [left : SUBSET begun, now : SUBSET begun]]
        /\ \A q \in Droppers \ {p} : drop'[q] = drop[q]
        /\ drop'[p].now = {d} \cap held /\ drop'[p].left = drop[p].left \ {d}
    BY <1>0, <1>1
  <1>3. Releasing' = Releasing \cup ({d} \cap held)
    BY <1>1, <1>2, ReleasingMoves DEF HeldInv, FedIsHeld
  <1>4. \A q \in Droppers : drop[q].now \subseteq Releasing
    BY DEF Releasing
  <1>5. \A q, s \in Droppers : q # s => drop'[q].now \cap drop'[s].now = {}
    BY <1>1, <1>2, <1>4 DEF HeldInv, FedIsHeld
  <1>6. server = "ended" => p # Attachment
    BY <1>1 DEF HeldInv, Unoccupied, NoDrop
  <1>7. drop[Attachment].left \ {d} \subseteq drop'[Attachment].left
    BY <1>2, DropperKinds
  <1>8. server = "ended" => Unoccupied(Attachment)'
    BY <1>2, <1>6, DropperKinds DEF HeldInv, Unoccupied
  <1>9. d \in released' \cup Releasing' \cup unheard'
    BY <1>1, <1>3 DEF HeldInv, FedIsHeld
  <1>10. ToldItsEnd'
    BY <1>1, <1>2, <1>9, ToldMoves
  <1>11. \A e \in Numbers : drop'[e].left \subseteq {e}
    BY <1>2, DropperKinds DEF HeldInv
  <1>. QED  BY <1>1, <1>3, <1>2, <1>5, <1>7, <1>8, <1>10, <1>11 DEF HeldInv, FedIsHeld, BegunInOrder

(* What is to be dropped, by one of them, is known.                        *)
LEMMA ToDropHolds ==
    ASSUME HeldInv, NEW p \in Droppers, NEW ds \in SUBSET begun, ToDrop(p, ds),
           p = Attachment => server = "serving" /\ (server' # "serving" => held \subseteq ds),
           server' = server \/ (p = Attachment /\ server' = "ending"),
           drop[p].left \subseteq ds, p \in Numbers => ds \subseteq {p},
           feeds' \subseteq feeds, behind' \subseteq begun, cut' \subseteq begun,
           behind' \cup cut' \subseteq behind \cup cut \cup ds,
           UNCHANGED <<held, adding, begun, released, unheard>>
    PROVE  HeldInv'
  <1>1. /\ drop' \in [Droppers -> [left : SUBSET begun, now : SUBSET begun]]
        /\ \A q \in Droppers \ {p} : drop'[q] = drop[q]
        /\ drop'[p].now = drop[p].now /\ drop'[p].left = ds
    BY DEF ToDrop, HeldInv
  <1>2. Releasing' = Releasing
    BY <1>1 DEF Releasing
  <1>3. \A q, s \in Droppers : q # s => drop'[q].now \cap drop'[s].now = {}
    BY <1>1 DEF HeldInv, FedIsHeld
  <1>4. server' \in {"ending", "ended"} => held \subseteq drop'[Attachment].left
    BY <1>1, DropperKinds DEF HeldInv
  <1>5. server' = "ended" => Unoccupied(Attachment)'
    BY <1>1, DropperKinds DEF HeldInv, Unoccupied
  <1>6. drop[p].now \subseteq Releasing
    BY DEF Releasing
  <1>7. ToldItsEnd'
    BY <1>2, <1>1, <1>6, ToldMoves
  <1>8. \A e \in Numbers : drop'[e].left \subseteq {e}
    BY <1>1, DropperKinds DEF HeldInv
  <1>. QED  BY <1>2, <1>1, <1>3, <1>4, <1>5, <1>7, <1>8 DEF HeldInv, FedIsHeld, BegunInOrder

(* What each that reads the stream hands over was read, and is begun.      *)
Hands3 == [to : {0} \cup begun, frame : 0..MaxFrame, left : SUBSET begun]
HandTypes ==
    /\ frames \in 0..MaxFrame
    /\ handing \in [StreamReaders -> Hands3]
    /\ accepted \in [Numbers -> Seq(1..MaxFrame)]
    /\ darkened \in [Numbers -> SUBSET Nat]
    /\ \A r \in StreamReaders : handing[r].left # {} => handing[r].frame \in 1..frames
    /\ \A r \in StreamReaders : handing[r].to # 0 => handing[r].to \in handing[r].left

LEMMA HandTypesStart == DeliveriesInit => HandTypes
  <1>. SUFFICES ASSUME DeliveriesInit PROVE HandTypes
    OBVIOUS
  <1>1. Hand \in Hands3 /\ Hand.to = 0 /\ Hand.left = {} /\ 0 \in 0..MaxFrame
    BY DeliveriesAssumption DEF Hand, Hands3
  <1>2. \A d \in Numbers : <<>> \in Seq(1..MaxFrame)
    OBVIOUS
  <1>. QED  BY <1>1, <1>2 DEF DeliveriesInit, HandTypes

LEMMA ReadTypes ==
    ASSUME HeldInv, HandTypes, NEW r \in StreamReaders, ReadFrame(r)
    PROVE  /\ HandTypes' /\ frames' = frames + 1
           /\ handing'[r].to = 0 /\ handing'[r].frame = frames + 1 /\ handing'[r].left = feeds
           /\ \A q \in StreamReaders \ {r} : handing'[q] = handing[q]
  <1>1. /\ handing' = [handing EXCEPT ![r] = [Hand EXCEPT !.frame = frames + 1, !.left = feeds]]
        /\ frames < MaxFrame /\ frames' = frames + 1 /\ UNCHANGED <<begun, accepted, darkened>>
    BY DEF ReadFrame, attachmentVars
  <1>2. frames' \in 0..MaxFrame /\ frames + 1 \in 1..frames' /\ \A f \in 1..frames : f \in 1..frames'
    BY <1>1, DeliveriesAssumption DEF HandTypes
  <1>. DEFINE h == [Hand EXCEPT !.frame = frames + 1, !.left = feeds]
  <1>3. h \in Hands3 /\ h.to = 0 /\ h.frame = frames + 1 /\ h.left = feeds
    BY <1>1, <1>2 DEF Hand, Hands3, HeldInv
  <1>4. Hands3' = Hands3 /\ handing' = [handing EXCEPT ![r] = h]
    BY <1>1 DEF Hands3
  <1>. HIDE DEF h
  <1>. QED  BY <1>2, <1>1, <1>3, <1>4 DEF HandTypes

LEMMA SkipTypes ==
    ASSUME HandTypes, NEW r \in StreamReaders, NEW d \in Numbers, Skips(r, d)
    PROVE  /\ HandTypes' /\ frames' = frames
           /\ handing'[r] = [handing[r] EXCEPT !.left = @ \ {d}]
           /\ \A q \in StreamReaders \ {r} : handing'[q] = handing[q]
  <1>1. /\ handing' = [handing EXCEPT ![r].left = @ \ {d}]
        /\ handing[r].to = 0 /\ d \in handing[r].left
        /\ UNCHANGED <<frames, begun, accepted>>
        /\ darkened' = IF d \in behind THEN darkened
                       ELSE [darkened EXCEPT ![d] = @ \cup {handing[r].frame}]
    BY DEF Skips, attachmentVars
  <1>2. handing[r] \in Hands3 /\ handing[r].frame \in Nat
    BY DEF HandTypes, Hands3
  <1>3. darkened' \in [Numbers -> SUBSET Nat]
    BY <1>1, <1>2 DEF HandTypes
  <1>4. Hands3' = Hands3 /\ handing' \in [StreamReaders -> Hands3]
    BY <1>1 DEF Hands3, HandTypes
  <1>. QED  BY <1>2, <1>1, <1>3, <1>4 DEF HandTypes, Hands3

LEMMA CarryTypes ==
    ASSUME HandTypes, NEW r \in StreamReaders, NEW d \in Numbers, Carries(r, d)
    PROVE  /\ HandTypes' /\ frames' = frames
           /\ handing'[r] = [handing[r] EXCEPT !.to = d]
           /\ \A q \in StreamReaders \ {r} : handing'[q] = handing[q]
  <1>1. /\ handing' = [handing EXCEPT ![r].to = d] /\ d \in handing[r].left
        /\ UNCHANGED <<frames, begun, accepted, darkened>>
    BY DEF Carries, attachmentVars
  <1>2. Hands3' = Hands3 /\ handing' \in [StreamReaders -> Hands3]
    BY <1>1 DEF Hands3, HandTypes
  <1>. QED  BY <1>1, <1>2 DEF HandTypes, Hands3

LEMMA OfferTypes ==
    ASSUME HandTypes, NEW r \in StreamReaders, NEW d \in Numbers, Offers(r, d)
    PROVE  /\ HandTypes' /\ frames' = frames /\ d \in handing[r].left /\ d \in begun
           /\ handing'[r] = [handing[r] EXCEPT !.to = 0, !.left = @ \ {d}]
           /\ \A q \in StreamReaders \ {r} : handing'[q] = handing[q]
           /\ handing[r].frame \in 1..frames /\ handing[r].frame \in 1..MaxFrame
  <1>1. /\ handing' = [handing EXCEPT ![r] = [handing[r] EXCEPT !.to = 0, !.left = @ \ {d}]]
        /\ handing[r].to = d
        /\ UNCHANGED <<frames, begun, darkened>>
    BY DEF Offers, attachmentVars
  <1>2. d # 0 /\ handing[r] \in Hands3
    BY DEF Numbers, HandTypes
  <1>3. d \in handing[r].left /\ d \in begun /\ handing[r].frame \in 1..frames
    BY <1>1, <1>2 DEF HandTypes, Hands3
  <1>4. handing[r].frame \in 1..MaxFrame
    BY <1>3, DeliveriesAssumption DEF HandTypes
  <1>5. accepted' \in [Numbers -> Seq(1..MaxFrame)]
    <2>1. Append(accepted[d], handing[r].frame) \in Seq(1..MaxFrame)
      BY <1>4 DEF HandTypes
    <2>. QED  BY <2>1 DEF Offers, Accept, FallsBehind, HandTypes
  <1>6. Hands3' = Hands3 /\ handing' \in [StreamReaders -> Hands3]
    BY <1>1 DEF Hands3, HandTypes
  <1>. QED  BY <1>1, <1>3, <1>4, <1>5, <1>6 DEF HandTypes, Hands3

LEMMA HandTypesKept ==
    ASSUME HandTypes, begun \subseteq begun', UNCHANGED <<frames, handing, accepted, darkened>>
    PROVE  HandTypes'
  <1>1. Hands3 \subseteq Hands3'
    BY DEF Hands3
  <1>. QED  BY <1>1 DEF HandTypes

LEMMA HeldStep ==
    HeldInv /\ HandTypes /\ [DeliveriesNext]_deliveryVars => HeldInv' /\ HandTypes'
  <1>. SUFFICES ASSUME HeldInv, HandTypes, [DeliveriesNext]_deliveryVars
                PROVE  HeldInv' /\ HandTypes'
    OBVIOUS
  <1>1. ASSUME NEW d \in Numbers, SubscribeStream(d) \/ Unsubscribe(d)
        PROVE  HeldInv' /\ HandTypes'
    <2>1. begun \subseteq begun' /\ UNCHANGED <<frames, handing, accepted, darkened>>
      BY <1>1 DEF SubscribeStream, Unsubscribe, attachmentVars, readVars
    <2>. QED  BY <1>1, <2>1, ServerHolds, UnsubscribeHolds, HandTypesKept
  <1>2. CASE Add \/ Detached
    <2>1. begun \subseteq begun' /\ UNCHANGED <<frames, handing, accepted, darkened>>
      BY <1>2 DEF Add, Detached, readVars
    <2>. QED  BY <1>2, <2>1, AddHolds, HandTypesKept
  <1>3. CASE Detaches
    <2>1. /\ server = "serving" /\ server' = "ending" /\ ToDrop(Attachment, held)
          /\ UNCHANGED <<feeds, held, adding, begun, released, behind, cut, unheard>>
          /\ UNCHANGED <<frames, handing, accepted, darkened>>
          /\ drop[Attachment].left = {}
      BY <1>3 DEF Detaches, readVars, endVars, Unoccupied, NoDrop
    <2>2. HeldInv'
      BY <2>1, ToDropHolds, DropperKinds DEF HeldInv
    <2>. QED  BY <2>1, <2>2, HandTypesKept
  <1>4. CASE UnitEnds
    <2>1. /\ feeds' = {} /\ ToDrop(Closer, feeds) /\ cut' = cut \cup feeds
          /\ UNCHANGED <<held, server, adding, begun, released, behind, unheard>>
          /\ UNCHANGED <<frames, handing, accepted, darkened>>
          /\ drop[Closer].left = {}
      BY <1>4 DEF UnitEnds, attachmentVars, readVars, Unoccupied, NoDrop
    <2>2. HeldInv'
      BY <2>1, ToDropHolds, DropperKinds DEF HeldInv
    <2>. QED  BY <2>1, <2>2, HandTypesKept
  <1>5. ASSUME NEW p \in Droppers, Drops(p) PROVE HeldInv' /\ HandTypes'
    <2>1. UNCHANGED <<begun, frames, handing, accepted, darkened>>
      BY <1>5 DEF Drops, Release, TakeRelease, attachmentVars, readVars
    <2>. QED  BY <1>5, <2>1, ReleaseHolds, TakeHolds, HandTypesKept DEF Drops
  <1>6. ASSUME NEW r \in StreamReaders, NEW d \in Numbers, Offers(r, d)
        PROVE  HeldInv' /\ HandTypes'
    <2>1. /\ UNCHANGED <<feeds, held, server, adding, begun, released, cut, unheard>>
          /\ \/ UNCHANGED <<drop, behind>>
             \/ ToDrop(d, {d}) /\ behind' = behind \cup {d}
      BY <1>6 DEF Offers, Accept, FallsBehind, ToDrop, attachmentVars, endVars
    <2>2. d \in begun /\ HandTypes'
      BY <1>6, OfferTypes
    <2>3. CASE UNCHANGED <<drop, behind>>
      <3>1. Releasing' = Releasing /\ (Unoccupied(Attachment)' <=> Unoccupied(Attachment))
        BY <2>3, ReleasingKept
      <3>2. ToldItsEnd' /\ (cut \subseteq begun)' /\ (\A e \in Numbers : drop[e].left \subseteq {e})'
        BY <2>1, <2>3, ToldKept
      <3>. QED  BY <2>1, <2>3, <2>2, <3>1, <3>2 DEF HeldInv, FedIsHeld, BegunInOrder
    <2>4. CASE ToDrop(d, {d}) /\ behind' = behind \cup {d}
      BY <2>1, <2>2, <2>4, ToDropHolds, DropperKinds DEF HeldInv
    <2>. QED  BY <2>1, <2>3, <2>4
  <1>7. ASSUME UNCHANGED <<feeds, held, server, adding, begun, released, drop, behind, cut, unheard>>
        PROVE  HeldInv'
    <2>1. Releasing' = Releasing /\ (Unoccupied(Attachment)' <=> Unoccupied(Attachment))
      BY <1>7, ReleasingKept
    <2>2. ToldItsEnd' /\ (cut \subseteq begun)' /\ (\A d \in Numbers : drop[d].left \subseteq {d})'
      BY <1>7, ToldKept
    <2>. QED  BY <1>7, <2>1, <2>2 DEF HeldInv, FedIsHeld, BegunInOrder
  <1>8. ASSUME NEW r \in StreamReaders, ReadFrame(r) \/ \E d \in Numbers : Skips(r, d) \/ Carries(r, d)
        PROVE  HeldInv' /\ HandTypes'
    <2>1. UNCHANGED <<feeds, held, server, adding, begun, released, drop, behind, cut, unheard>>
      BY <1>8 DEF ReadFrame, Skips, Carries, attachmentVars, endVars
    <2>. QED  BY <1>7, <1>8, <2>1, ReadTypes, SkipTypes, CarryTypes
  <1>9. ASSUME NEW d \in Numbers, HandsOver(d) PROVE HeldInv' /\ HandTypes'
    <2>1. /\ UNCHANGED <<feeds, held, server, adding, begun, released, drop, behind, cut, unheard>>
          /\ UNCHANGED <<frames, handing, accepted, darkened>>
      BY <1>9 DEF HandsOver, attachmentVars, readVars, endVars
    <2>. QED  BY <1>7, <2>1, HandTypesKept
  <1>10. CASE UNCHANGED deliveryVars
    <2>1. /\ UNCHANGED <<feeds, held, server, adding, begun, released, drop, behind, cut, unheard>>
          /\ UNCHANGED <<frames, handing, accepted, darkened>>
      BY <1>10 DEF deliveryVars, attachmentVars, readVars, endVars
    <2>. QED  BY <1>7, <2>1, HandTypesKept
  <1>. QED  BY <1>2, <1>1, <1>3, <1>4, <1>5, <1>6, <1>8, <1>9, <1>10 DEF DeliveriesNext, Hands

LEMMA DetachedIsDone == HeldInv => DetachedLeavesNothing
  <1>. SUFFICES ASSUME HeldInv, server = "ended", \A p \in Droppers : Unoccupied(p)
                PROVE  released = begun /\ feeds = {}
    BY DEF DetachedLeavesNothing
  <1>1. Releasing = {} /\ adding = {}
    BY DEF Releasing, Unoccupied, NoDrop, HeldInv
  <1>2. held = {}
    BY DropperKinds DEF HeldInv, Unoccupied, NoDrop
  <1>. QED  BY <1>1, <1>2 DEF HeldInv, FedIsHeld

(* Whatever drops race, a delivery not released is somebody's to release,  *)
(* and one's only; once the attachment has ended and nothing is being      *)
(* released, all it ever held was and none is fed; and one that fell       *)
(* behind or that the unit's end took is released or to be, but where its  *)
(* drop came before it was held (deliveries.drop, all: delivery.go).       *)
THEOREM FedIsReleasable == DeliveriesSpec => [](FedIsHeld /\ DetachedLeavesNothing /\ ToldItsEnd)
  <1>1. HeldInv => FedIsHeld /\ DetachedLeavesNothing /\ ToldItsEnd
    BY DetachedIsDone DEF HeldInv
  <1>. QED  BY <1>1, HeldStarts, HandTypesStart, HeldStep, PTL DEF DeliveriesSpec
--------------------------------------------------------------------------------
(* What a delivery hands over has no gap, where one goroutine at a time    *)
(* reads the stream.                                                       *)

OneReader == \E r : StreamReaders = {r}

(* Of one delivery: what it accepted is in order and missing nothing, and  *)
(* since the last one nothing was missed, as long as it is fed.            *)
Missed(d, from, to) == \A n \in (from + 1)..to : n \in darkened[d]
UnbrokenAt(d) ==
    \A i \in 1..(Len(accepted[d]) - 1) :
       /\ accepted[d][i] < accepted[d][i + 1]
       /\ Missed(d, accepted[d][i], accepted[d][i + 1] - 1)
LastOf(d) == accepted[d][Len(accepted[d])]
UpTo(d, r) == IF d \in handing[r].left THEN frames - 1 ELSE frames
SinceLast(d, r) ==
    Len(accepted[d]) > 0 /\ d \notin behind /\ d \in feeds \cup handing[r].left
    => LastOf(d) <= UpTo(d, r) /\ Missed(d, LastOf(d), UpTo(d, r))
CarriedInv(d, r) ==
    /\ d \notin begun => Len(accepted[d]) = 0
    /\ UnbrokenAt(d) /\ SinceLast(d, r)
HandInv(r) ==
    /\ handing[r].left # {} => handing[r].frame = frames
    /\ handing[r].to \notin behind
WholeInv == \A r \in StreamReaders : HandInv(r) /\ \A d \in Numbers : CarriedInv(d, r)

LEMMA WholeStarts == DeliveriesInit => WholeInv
  <1>. SUFFICES ASSUME DeliveriesInit, NEW r \in StreamReaders
                PROVE  HandInv(r) /\ \A d \in Numbers : CarriedInv(d, r)
    BY DEF WholeInv
  <1>1. Hand.left = {} /\ handing[r] = Hand /\ behind = {}
    BY DEF Hand, DeliveriesInit
  <1>2. \A d \in Numbers : Len(accepted[d]) = 0
    BY DEF DeliveriesInit
  <1>. QED  BY <1>1, <1>2 DEF HandInv, CarriedInv, UnbrokenAt, SinceLast

(* What changes nothing of what was read but, perhaps, takes feeds away or *)
(* finds a delivery behind.                                                *)
LEMMA WholeKept ==
    ASSUME WholeInv, NEW r \in StreamReaders, begun \subseteq begun',
           feeds' \subseteq feeds \cup (begun' \ begun),
           behind \subseteq behind', handing'[r] = handing[r], handing[r].to \notin behind',
           \A d \in begun' \ begun : d \notin handing[r].left,
           UNCHANGED <<frames, accepted, darkened>>
    PROVE  HandInv(r)' /\ \A d \in Numbers : CarriedInv(d, r)'
  <1>1. HandInv(r)'
    BY DEF WholeInv, HandInv
  <1>2. ASSUME NEW d \in Numbers PROVE CarriedInv(d, r)'
    <2>1. CarriedInv(d, r)
      BY DEF WholeInv
    <2>2. UnbrokenAt(d)' /\ LastOf(d)' = LastOf(d) /\ UpTo(d, r)' = UpTo(d, r)
      BY <2>1 DEF CarriedInv, UnbrokenAt, Missed, LastOf, UpTo
    <2>3. d \in begun' \ begun => Len(accepted[d]) = 0
      BY <2>1 DEF CarriedInv
    <2>4. SinceLast(d, r)'
      BY <2>1, <2>2, <2>3 DEF CarriedInv, SinceLast, Missed
    <2>. QED  BY <2>1, <2>2, <2>4 DEF CarriedInv
  <1>. QED  BY <1>1, <1>2
(* The numbers a delivery accepted are numbers of frames.                  *)
LEMMA FramesRead ==
    ASSUME HandTypes, NEW d \in Numbers
    PROVE  /\ frames \in Nat /\ Len(accepted[d]) \in Nat
           /\ \A i \in 1..Len(accepted[d]) : accepted[d][i] \in Nat
           /\ Len(accepted[d]) > 0 => LastOf(d) \in Nat
           /\ \A r \in StreamReaders : UpTo(d, r) \in Int
  <1>1. accepted[d] \in Seq(1..MaxFrame) /\ frames \in Nat
    BY DeliveriesAssumption DEF HandTypes
  <1>2. \A i \in 1..Len(accepted[d]) : accepted[d][i] \in Nat
    BY <1>1, DeliveriesAssumption
  <1>. QED  BY <1>1, <1>2 DEF LastOf, UpTo

LEMMA WholeRead ==
    ASSUME HeldInv, HandTypes, WholeInv, NEW r \in StreamReaders, ReadFrame(r)
    PROVE  HandInv(r)' /\ \A d \in Numbers : CarriedInv(d, r)'
  <1>1. /\ handing[r].left = {} /\ UNCHANGED <<feeds, begun, behind, accepted, darkened>>
        /\ frames' = frames + 1
        /\ handing'[r].to = 0 /\ handing'[r].frame = frames + 1 /\ handing'[r].left = feeds
    BY ReadTypes DEF ReadFrame, attachmentVars
  <1>2. 0 \notin behind
    BY DeliveriesAssumption DEF HeldInv, BegunInOrder
  <1>3. ASSUME NEW d \in Numbers PROVE CarriedInv(d, r)'
    <2>1. CarriedInv(d, r)
      BY DEF WholeInv
    <2>2. UnbrokenAt(d)' /\ LastOf(d)' = LastOf(d)
      BY <1>1, <2>1 DEF CarriedInv, UnbrokenAt, Missed, LastOf
    <2>3. d \in feeds => UpTo(d, r)' = UpTo(d, r)
      BY <1>1, FramesRead DEF UpTo
    <2>4. SinceLast(d, r)'
      BY <1>1, <2>1, <2>2, <2>3 DEF CarriedInv, SinceLast, Missed
    <2>. QED  BY <1>1, <2>1, <2>2, <2>4 DEF CarriedInv
  <1>. QED  BY <1>1, <1>3, <1>2 DEF HandInv

LEMMA WholeSkip ==
    ASSUME HandTypes, WholeInv, NEW r \in StreamReaders, NEW d \in Numbers, Skips(r, d)
    PROVE  HandInv(r)' /\ \A e \in Numbers : CarriedInv(e, r)'
  <1>1. /\ d \in handing[r].left /\ handing[r].frame = frames
        /\ UNCHANGED <<frames, feeds, begun, behind, accepted>>
        /\ darkened' = IF d \in behind THEN darkened
                       ELSE [darkened EXCEPT ![d] = @ \cup {handing[r].frame}]
    BY DEF Skips, attachmentVars, WholeInv, HandInv
  <1>2. handing'[r].left = handing[r].left \ {d} /\ handing'[r].frame = handing[r].frame
        /\ handing'[r].to = handing[r].to
    BY DEF Skips, HandTypes, Hands3
  <1>3. /\ \A e \in Numbers : darkened[e] \subseteq darkened'[e]
        /\ d \notin behind => frames \in darkened'[d]
    BY <1>1 DEF HandTypes
  <1>4. ASSUME NEW e \in Numbers PROVE CarriedInv(e, r)'
    <2>1. CarriedInv(e, r)
      BY DEF WholeInv
    <2>2. UnbrokenAt(e)' /\ LastOf(e)' = LastOf(e)
      BY <1>1, <1>3, <2>1 DEF CarriedInv, UnbrokenAt, Missed, LastOf
    <2>3. SinceLast(e, r)'
      <3>1. CASE e # d
        <4>1. UpTo(e, r)' = UpTo(e, r)
          BY <1>1, <1>2, <3>1 DEF UpTo
        <4>. QED  BY <1>1, <1>3, <1>2, <2>1, <2>2, <3>1, <4>1 DEF CarriedInv, SinceLast, Missed
      <3>2. CASE e = d
        <4>1. UpTo(d, r) = frames - 1 /\ UpTo(d, r)' = frames
          BY <1>1, <1>2 DEF UpTo
        <4>2. ASSUME Len(accepted[d]) > 0, d \notin behind
              PROVE  LastOf(d) <= frames /\ Missed(d, LastOf(d), frames)'
          <5>1. LastOf(d) <= frames - 1 /\ Missed(d, LastOf(d), frames - 1)
            BY <1>1, <2>1, <3>2, <4>1, <4>2 DEF CarriedInv, SinceLast
          <5>2. \A n \in (LastOf(d) + 1)..frames : n = frames \/ n \in (LastOf(d) + 1)..(frames - 1)
            BY <4>2, FramesRead
          <5>. QED  BY <1>1, <1>3, <2>2, <3>2, <4>2, <5>1, <5>2, FramesRead DEF Missed
        <4>. QED  BY <1>1, <2>2, <3>2, <4>1, <4>2 DEF SinceLast, Missed
      <3>. QED  BY <3>1, <3>2
    <2>. QED  BY <1>1, <2>1, <2>2, <2>3 DEF CarriedInv
  <1>. QED  BY <1>1, <1>2, <1>4 DEF HandInv, WholeInv

LEMMA WholeOffer ==
    ASSUME HeldInv, HandTypes, WholeInv, NEW r \in StreamReaders, NEW d \in Numbers,
           Offers(r, d)
    PROVE  HandInv(r)' /\ \A e \in Numbers : CarriedInv(e, r)'
  <1>0. d \in handing[r].left /\ d \in begun /\ handing[r].frame = frames /\ d \notin behind
        /\ UNCHANGED <<frames, feeds, begun, darkened>>
    BY OfferTypes DEF Offers, attachmentVars, WholeInv, HandInv
  <1>1. handing'[r].left = handing[r].left \ {d} /\ handing'[r].frame = handing[r].frame
        /\ handing'[r].to = 0
    BY DEF Offers, HandTypes, Hands3
  <1>2. 0 \notin behind \cup {d}
    BY DeliveriesAssumption DEF HeldInv, BegunInOrder, Numbers
  <1>3. CASE Accept(d, frames)
    <2>1. /\ accepted' = [accepted EXCEPT ![d] = Append(@, frames)] /\ UNCHANGED behind
          /\ \A e \in Numbers : e # d => accepted'[e] = accepted[e]
      BY <1>3 DEF Accept, HandTypes
    <2>2. ASSUME NEW e \in Numbers, e # d PROVE CarriedInv(e, r)'
      <3>1. CarriedInv(e, r) /\ accepted'[e] = accepted[e]
        BY <2>1, <2>2 DEF WholeInv
      <3>2. UnbrokenAt(e)' /\ LastOf(e)' = LastOf(e) /\ UpTo(e, r)' = UpTo(e, r)
        BY <1>0, <1>1, <2>2, <3>1 DEF CarriedInv, UnbrokenAt, Missed, LastOf, UpTo
      <3>. QED  BY <1>0, <1>1, <2>1, <2>2, <3>1, <3>2 DEF CarriedInv, SinceLast, Missed
    <2>3. CarriedInv(d, r)'
      <3>. DEFINE L == Len(accepted[d])
      <3>1. /\ L \in Nat /\ Len(accepted'[d]) = L + 1 /\ accepted'[d][L + 1] = frames
            /\ \A i \in 1..L : accepted'[d][i] = accepted[d][i]
        BY <2>1 DEF HandTypes
      <3>2. CarriedInv(d, r) /\ UpTo(d, r) = frames - 1 /\ UpTo(d, r)' = frames
        BY <1>0, <1>1 DEF WholeInv, UpTo
      <3>3. L > 0 => accepted[d][L] < frames /\ Missed(d, accepted[d][L], frames - 1)
        BY <1>0, <3>2, FramesRead DEF CarriedInv, SinceLast, LastOf
      <3>4. UnbrokenAt(d)'
        <4>. SUFFICES ASSUME NEW i \in 1..L
                      PROVE  /\ accepted'[d][i] < accepted'[d][i + 1]
                             /\ Missed(d, accepted'[d][i], accepted'[d][i + 1] - 1)
          BY <1>0, <3>1 DEF UnbrokenAt, Missed
        <4>1. CASE i = L
          BY <3>1, <3>3, <4>1
        <4>2. CASE i # L
          <5>1. i \in 1..(L - 1) /\ i + 1 \in 1..L
            BY <3>1, <4>2
          <5>. QED  BY <3>1, <3>2, <5>1 DEF CarriedInv, UnbrokenAt
        <4>. QED  BY <4>1, <4>2
      <3>5. SinceLast(d, r)'
        <4>1. LastOf(d)' = frames
          BY <3>1 DEF LastOf
        <4>2. \A n \in (frames + 1)..frames : FALSE
          BY FramesRead
        <4>. QED  BY <3>2, <4>1, <4>2, FramesRead DEF SinceLast, Missed
      <3>. QED  BY <1>0, <3>4, <3>5 DEF CarriedInv
    <2>. QED  BY <1>0, <1>1, <1>2, <2>1, <2>2, <2>3 DEF HandInv
  <1>4. CASE FallsBehind(d, frames)
    <2>1. behind' = behind \cup {d} /\ UNCHANGED accepted
      BY <1>4 DEF FallsBehind
    <2>2. ASSUME NEW e \in Numbers PROVE CarriedInv(e, r)'
      <3>1. CarriedInv(e, r)
        BY DEF WholeInv
      <3>2. /\ UnbrokenAt(e)' /\ LastOf(e)' = LastOf(e)
            /\ e # d => UpTo(e, r)' = UpTo(e, r)
        BY <1>0, <1>1, <2>1, <3>1 DEF CarriedInv, UnbrokenAt, Missed, LastOf, UpTo
      <3>. QED  BY <1>0, <1>1, <2>1, <3>1, <3>2 DEF CarriedInv, SinceLast, Missed
    <2>. QED  BY <1>0, <1>1, <1>2, <2>1, <2>2 DEF HandInv
  <1>. QED  BY <1>0, <1>3, <1>4 DEF Offers
LEMMA WholeStep ==
    ASSUME OneReader
    PROVE  HeldInv /\ HandTypes /\ WholeInv /\ [DeliveriesNext]_deliveryVars => WholeInv'
  <1>. SUFFICES ASSUME HeldInv, HandTypes, WholeInv, [DeliveriesNext]_deliveryVars,
                       NEW r \in StreamReaders
                PROVE  HandInv(r)' /\ \A d \in Numbers : CarriedInv(d, r)'
    BY DEF WholeInv
  <1>0. /\ handing[r].to \notin behind /\ handing[r].left \subseteq begun
        /\ \A s \in StreamReaders : s = r
    BY DEF OneReader, WholeInv, HandInv, HandTypes, Hands3
  <1>1. ASSUME NEW d \in Numbers, SubscribeStream(d)
        PROVE  HandInv(r)' /\ \A e \in Numbers : CarriedInv(e, r)'
    <2>1. /\ begun' = begun \cup {d} /\ feeds' = feeds \cup {d} /\ d \notin begun
          /\ UNCHANGED <<behind, handing, frames, accepted, darkened>>
      BY <1>1, NextIsNew DEF SubscribeStream, readVars, HeldInv
    <2>. QED  BY <1>0, <2>1, WholeKept
  <1>2. ASSUME begun' = begun, feeds' \subseteq feeds,
               UNCHANGED <<behind, handing, frames, accepted, darkened>>
        PROVE  HandInv(r)' /\ \A e \in Numbers : CarriedInv(e, r)'
    BY <1>0, <1>2, WholeKept
  <1>3. ASSUME NEW d \in Numbers, Unsubscribe(d) \/ HandsOver(d)
        PROVE  HandInv(r)' /\ \A e \in Numbers : CarriedInv(e, r)'
    BY <1>2, <1>3 DEF Unsubscribe, HandsOver, attachmentVars, readVars
  <1>4. CASE Add \/ Detaches \/ Detached \/ UnitEnds
    BY <1>2, <1>4 DEF Add, Detaches, Detached, UnitEnds, attachmentVars, readVars
  <1>5. ASSUME NEW p \in Droppers, Drops(p)
        PROVE  HandInv(r)' /\ \A e \in Numbers : CarriedInv(e, r)'
    BY <1>2, <1>5 DEF Drops, Release, TakeRelease, attachmentVars, readVars
  <1>6. ASSUME NEW d \in Numbers, Carries(r, d)
        PROVE  HandInv(r)' /\ \A e \in Numbers : CarriedInv(e, r)'
    <2>1. /\ d \notin behind
          /\ UNCHANGED <<feeds, begun, behind, frames, accepted, darkened>>
      BY <1>6 DEF Carries, attachmentVars
    <2>2. /\ handing'[r].left = handing[r].left /\ handing'[r].frame = handing[r].frame
          /\ handing'[r].to = d
      BY <1>6 DEF Carries, HandTypes, Hands3
    <2>3. ASSUME NEW e \in Numbers PROVE CarriedInv(e, r)'
      <3>1. CarriedInv(e, r)
        BY DEF WholeInv
      <3>2. UnbrokenAt(e)' /\ LastOf(e)' = LastOf(e) /\ UpTo(e, r)' = UpTo(e, r)
        BY <2>1, <2>2, <3>1 DEF CarriedInv, UnbrokenAt, Missed, LastOf, UpTo
      <3>. QED  BY <2>1, <2>2, <3>1, <3>2 DEF CarriedInv, SinceLast, Missed
    <2>. QED  BY <2>1, <2>3, <2>2 DEF HandInv, WholeInv
  <1>7. CASE UNCHANGED deliveryVars
    BY <1>2, <1>7 DEF deliveryVars, attachmentVars, readVars
  <1>. QED
    BY <1>0, <1>1, <1>3, <1>4, <1>5, <1>6, <1>7, WholeRead, WholeSkip, WholeOffer
    DEF DeliveriesNext, Hands

LEMMA WholeIsUnbroken ==
    ASSUME HandTypes, WholeInv, StreamReaders # {}
    PROVE  Unbroken
  <1>. SUFFICES ASSUME NEW d \in Numbers, NEW i \in 1..(Len(accepted[d]) - 1)
                PROVE  /\ accepted[d][i] < accepted[d][i + 1]
                       /\ (accepted[d][i] + 1)..(accepted[d][i + 1] - 1) \subseteq darkened[d]
    BY DEF Unbroken
  <1>1. UnbrokenAt(d)
    BY DEF WholeInv, CarriedInv
  <1>. QED  BY <1>1 DEF UnbrokenAt, Missed

(* Where one goroutine at a time reads a stream, what a client attached to *)
(* is handed to it whole but for what came while the channel was dark, or  *)
(* it is told where it ends, but for the delivery dropped before it was    *)
(* held; and a delivery that is not released can be, by one goroutine      *)
(* (carry, deliveries.drop, deliveries.all: delivery.go).                  *)
THEOREM DeliveriesHandWhole ==
    ASSUME OneReader
    PROVE  DeliveriesSpec => []HandedWholeOrReleased
  <1>1. HeldInv /\ HandTypes /\ WholeInv => HandedWholeOrReleased
    BY DetachedIsDone, WholeIsUnbroken DEF HeldInv, HandedWholeOrReleased, OneReader
  <1>2. HeldInv /\ HandTypes /\ WholeInv /\ [DeliveriesNext]_deliveryVars => WholeInv'
    BY WholeStep
  <1>. QED  BY <1>1, <1>2, HeldStarts, HandTypesStart, WholeStarts, HeldStep, PTL
            DEF DeliveriesSpec
================================================================================
