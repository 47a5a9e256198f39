----------------------------- MODULE LogstoreProofs -----------------------------
(***************************************************************************)
(* Logstore, for any groups, caps and number of entries: Close keeps what  *)
(* was queued; and, where retention never takes the newest row, a follow   *)
(* pushes what it selects as it is written, and skips nothing untold.      *)
(*                                                                         *)
(* The invariant has three parts.  What is held is in the batch or in the  *)
(* queue, in the order it was asked for, and after all that was written.   *)
(* Numbers keep that order, because the last one given is still there.     *)
(* And a follow is at the number of the last entry it told of, and what    *)
(* the store holds above it is in its page, or will wake it.               *)
(***************************************************************************)
EXTENDS Logstore, TLAPS

Numbered == {i \in Entries : number[i] # 0}
Held == {i \in Entries : fate[i] = "held"}
NumberedOrNone(i) == i = 0 \/ i \in Numbered

(* What is held. *)
Increases(q) == \A k, l \in 1..Len(q) : k < l => q[k] < q[l]

PipeInv ==
    /\ \A k \in 1..Len(writer.batch) : fate[writer.batch[k]] = "held"
    /\ \A k \in 1..Len(queue) : fate[queue[k]] = "held"
    /\ \A i \in Held : \/ \E k \in 1..Len(writer.batch) : writer.batch[k] = i
                       \/ \E k \in 1..Len(queue) : queue[k] = i
    /\ Increases(writer.batch) /\ Increases(queue)
    /\ \A k \in 1..Len(writer.batch), l \in 1..Len(queue) :
         writer.batch[k] < queue[l]
    /\ \A i \in Entries : fate[i] # "unwritten" => i <= asked /\ i # taking
    /\ taking # 0 => taking = asked
    /\ writer.at # "gather" => writer.batch = <<>>
    /\ core = "closed" => writer.at = "done" /\ queue = <<>>

(* The numbers. *)
NumberInv ==
    /\ \A i \in Entries : i \in Numbered <=> fate[i] \in {"stored", "removed"}
    /\ \A i \in Numbered, j \in Held : i < j
    /\ \A i, j \in Numbered : i < j => number[i] < number[j]
    /\ Numbered = {} \/ \E t \in Stored : \A i \in Numbered : i <= t

(* The follow: the last entry it told of, and what it has still to tell.   *)
Pushed == IF carried = <<>> THEN client.told ELSE carried[Len(carried)].upto
Sent == IF follow.at = "full" THEN follow.notice.upto ELSE Pushed
Before(k) == IF k = 1 THEN client.told ELSE carried[k - 1].upto
Wanted == {i \in Stored : group[i] \in Follows}
WillWake == follow.woken \/ writer.at = "tell"

ClientInv ==
    /\ NumberedOrNone(client.told)
    /\ client.at # 0 => client.got \in Numbered /\ client.at = number[client.got]

Tells(n, before) ==
    /\ NumberedOrNone(n.upto)
    /\ IF n.behind THEN n.at <= NumberOf(before)
       ELSE /\ n.upto \in Numbered /\ n.at = number[n.upto]
            /\ \A i \in Wanted : i <= before \/ i >= n.upto

CarriedInv ==
    /\ \A k \in 1..Len(carried) : Tells(carried[k], Before(k))
    /\ follow.at = "full" => follow.notice.behind
                               /\ Tells(follow.notice, Pushed)
    /\ follow.at = "out" => carried = <<>>

FollowInv ==
    /\ core = "down" => follow.at = "out"
    /\ follow.at # "out" =>
         /\ follow.cursor <= NumberOf(Sent)
         /\ Running => follow.cursor = NumberOf(Sent)
    /\ follow.at = "push" =>
         /\ follow.page # {}
         /\ \A p \in follow.page : p \in Numbered /\ p > Sent
         /\ \A i \in Wanted : i > Sent /\ i \notin follow.page =>
              WillWake /\ \A p \in follow.page : p < i
    /\ follow.at \in {"full", "wait"} =>
         \A i \in Wanted : i > Sent => WillWake

LogInv == LogTypeOK /\ PipeInv /\ NumberInv /\ ClientInv /\ CarriedInv
          /\ FollowInv

--------------------------------------------------------------------------------
(* Helpers. *)

LEMMA NumberOfType ==
    ASSUME LogTypeOK, NEW i \in EntryOrNone
    PROVE  NumberOf(i) \in Nat
BY LogAssumption DEF LogTypeOK, NumberOf, EntryOrNone, Entries

LEMMA PlaceIsThere ==
    ASSUME LogTypeOK, NEW j \in Batched
    PROVE  /\ PlaceInBatch(j) \in 1..Len(writer.batch)
           /\ writer.batch[PlaceInBatch(j)] = j
<1>1. writer.batch \in Seq(Entries)
  BY DEF LogTypeOK, Writers
<1>2. DOMAIN writer.batch = 1..Len(writer.batch)
  BY <1>1
<1>3. \E k \in DOMAIN writer.batch : writer.batch[k] = j
  BY DEF Batched
<1> QED
  BY <1>2, <1>3 DEF PlaceInBatch

LEMMA HeadOfQueue ==
    ASSUME NEW S, NEW q \in Seq(S), q # <<>>
    PROVE  /\ Head(q) = q[1] /\ Head(q) \in S /\ Tail(q) \in Seq(S)
           /\ Len(q) \in Nat \ {0} /\ Len(Tail(q)) = Len(q) - 1
           /\ \A k \in 1..Len(Tail(q)) : Tail(q)[k] = q[k + 1]
OBVIOUS

LEMMA AtItsEnd ==
    ASSUME NEW S, NEW q \in Seq(S), NEW x \in S
    PROVE  /\ Append(q, x) \in Seq(S) /\ Len(Append(q, x)) = Len(q) + 1
           /\ Append(q, x)[Len(q) + 1] = x /\ Len(q) \in Nat
           /\ \A k \in 1..Len(q) : Append(q, x)[k] = q[k]
OBVIOUS

LEMMA StillIncreases ==
    ASSUME NEW q \in Seq(Entries), NEW x \in Entries, Increases(q),
           \A k \in 1..Len(q) : q[k] < x
    PROVE  Increases(Append(q, x))
<1> DEFINE r == Append(q, x)
<1>1. /\ Len(r) = Len(q) + 1 /\ r[Len(q) + 1] = x /\ Len(q) \in Nat
      /\ \A k \in 1..Len(q) : r[k] = q[k]
  BY AtItsEnd
<1> HIDE DEF r
<1>2. ASSUME NEW k \in 1..Len(r), NEW l \in 1..Len(r), k < l
      PROVE  r[k] < r[l]
  <2>1. k \in 1..Len(q)
    BY <1>1, <1>2
  <2>2. CASE l \in 1..Len(q)
    BY <1>1, <1>2, <2>1, <2>2 DEF Increases
  <2>3. CASE l = Len(q) + 1
    BY <1>1, <2>1, <2>3
  <2> QED
    BY <1>1, <2>2, <2>3
<1> QED
  BY <1>2 DEF Increases, r

--------------------------------------------------------------------------------
(* Types. *)

LEMMA WriteType ==
    ASSUME LogTypeOK, TakesLock \/ Queued \/ Writes
    PROVE  LogTypeOK'
<1> USE CapsAssumption, LogAssumption
<1>1. CASE TakesLock
  <2>1. asked + 1 \in EntryOrNone
    BY <1>1 DEF TakesLock, LogTypeOK, EntryOrNone
  <2> QED
    BY <1>1, <2>1 DEF TakesLock, LogTypeOK, followVars
<1>2. CASE Queued
  <2>1. taking \in Entries
    BY <1>2 DEF Queued, LogTypeOK, EntryOrNone, Entries
  <2>2. queue' \in Seq(Entries) /\ Len(queue') <= QueueCap
    BY <1>2, <2>1 DEF Queued, LogTypeOK
  <2>3. fate' \in [Entries -> Fates]
    BY <1>2 DEF Queued, LogTypeOK, Fates
  <2>4. taking' \in EntryOrNone
    BY <1>2 DEF Queued, EntryOrNone
  <2> QED
    BY <1>2, <2>2, <2>3, <2>4 DEF Queued, LogTypeOK, followVars
<1>3. CASE TakeFirst
  <2>1. queue \in Seq(Entries) /\ queue # <<>>
    BY <1>3 DEF TakeFirst, LogTypeOK
  <2>2. Head(queue) \in Entries /\ queue' \in Seq(Entries)
        /\ Len(queue') = Len(queue) - 1
    BY <1>3, <2>1, HeadOfQueue DEF TakeFirst
  <2>3. writer' \in Writers /\ Len(writer'.batch) <= BatchCap
    BY <1>3, <2>2 DEF TakeFirst, Writers
  <2> QED
    BY <1>3, <2>1, <2>2, <2>3 DEF TakeFirst, LogTypeOK, entryVars, followVars
<1>4. CASE Gather
  <2>1. queue \in Seq(Entries) /\ queue # <<>>
    BY <1>4 DEF Gather, LogTypeOK
  <2>2. Head(queue) \in Entries /\ queue' \in Seq(Entries)
        /\ Len(queue') = Len(queue) - 1
    BY <1>4, <2>1, HeadOfQueue DEF Gather
  <2>3. writer.batch \in Seq(Entries)
    BY DEF LogTypeOK, Writers
  <2>4. /\ Append(writer.batch, Head(queue)) \in Seq(Entries)
        /\ Len(Append(writer.batch, Head(queue))) <= BatchCap
    BY <1>4, <2>2, <2>3, AtItsEnd DEF Gather
  <2>5. writer' = [writer EXCEPT !.batch = Append(writer.batch, Head(queue))]
    BY <1>4 DEF Gather
  <2>6. writer' \in Writers /\ Len(writer'.batch) <= BatchCap
    BY <2>4, <2>5 DEF LogTypeOK, Writers
  <2> QED
    BY <1>4, <2>1, <2>2, <2>6 DEF Gather, LogTypeOK, entryVars, followVars
<1>5. CASE StoreBatch
  <2>1. PICK i \in EntryOrNone :
          number' = [j \in Entries |->
                       IF j \in Batched THEN NumberOf(i) + PlaceInBatch(j)
                       ELSE number[j]]
    BY <1>5 DEF StoreBatch
  <2>2. \A j \in Batched : PlaceInBatch(j) \in Nat
    BY PlaceIsThere DEF LogTypeOK, Writers
  <2>3. number' \in [Entries -> Nat]
    BY <2>1, <2>2, NumberOfType DEF LogTypeOK
  <2>4. fate' \in [Entries -> Fates]
    BY <1>5 DEF StoreBatch, LogTypeOK, Fates
  <2>5. writer' \in Writers /\ Len(writer'.batch) <= BatchCap
    BY <1>5 DEF StoreBatch, Writers
  <2> QED
    BY <1>5, <2>3, <2>4, <2>5 DEF StoreBatch, LogTypeOK, followVars
<1>6. CASE LoseBatch
  <2>1. fate' \in [Entries -> Fates]
    BY <1>6 DEF LoseBatch, LogTypeOK, Fates
  <2>2. writer' \in Writers /\ Len(writer'.batch) <= BatchCap
    BY <1>6 DEF LoseBatch, Writers
  <2> QED
    BY <1>6, <2>1, <2>2 DEF LoseBatch, LogTypeOK, followVars
<1>7. CASE TellWatchers
  <2>1. writer' \in Writers /\ Len(writer'.batch) <= BatchCap
    BY <1>7 DEF TellWatchers, LogTypeOK, Writers
  <2>2. follow' \in Follow
    BY <1>7 DEF TellWatchers, LogTypeOK, Follow, Watching
  <2> QED
    BY <1>7, <2>1, <2>2 DEF TellWatchers, LogTypeOK, entryVars
<1> QED
  BY <1>2, <1>1, <1>3, <1>4, <1>5, <1>6, <1>7 DEF Writes

LEMMA LifeType ==
    ASSUME LogTypeOK,
           CloseBegins \/ CloseReturns \/ Dies \/ Opens \/ (\E g \in Groups : Clean(g))
    PROVE  LogTypeOK'
<1> USE CapsAssumption, LogAssumption
<1>0. NoFollow \in Follow /\ 0 \in EntryOrNone
  BY DEF NoFollow, NoNews, Follow, News, EntryOrNone
<1>1. CASE CloseBegins \/ Opens
  BY <1>1 DEF CloseBegins, Opens, LogTypeOK, entryVars, followVars
<1>2. CASE CloseReturns
  <2>1. writer' \in Writers /\ Len(writer'.batch) <= BatchCap
    BY <1>2 DEF CloseReturns, LogTypeOK, Writers
  <2> QED
    BY <1>2, <2>1 DEF CloseReturns, LogTypeOK, entryVars, followVars
<1>3. CASE Dies
  <2>1. fate' \in [Entries -> Fates]
    BY <1>3 DEF Dies, LogTypeOK, Fates
  <2>2. writer' \in Writers /\ Len(writer'.batch) <= BatchCap
    BY <1>3 DEF Dies, Writers
  <2> QED
    BY <1>0, <1>3, <2>1, <2>2 DEF Dies, LogTypeOK
<1>4. ASSUME NEW g \in Groups, Clean(g) PROVE LogTypeOK'
  <2>1. fate' \in [Entries -> Fates]
    BY <1>4 DEF Clean, LogTypeOK, Fates
  <2> QED
    BY <1>4, <2>1 DEF Clean, LogTypeOK, storeVars, followVars
<1> QED
  BY <1>2, <1>1, <1>3, <1>4

LEMMA FollowType ==
    ASSUME LogTypeOK, Begins \/ Watches \/ Pages \/ Leaves \/ Receives
    PROVE  LogTypeOK'
<1> USE CapsAssumption, LogAssumption
<1>0. NoFollow \in Follow /\ follow \in Follow /\ client \in Clients
      /\ carried \in Seq(News)
  BY DEF NoFollow, NoNews, Follow, News, EntryOrNone, LogTypeOK
<1>1. CASE Begins
  <2>1. follow' \in Follow
    <3>1. \A i \in EntryOrNone : NumberOf(i) \in Nat
      BY NumberOfType
    <3>2. client.at \in Nat
      BY <1>0 DEF Clients
    <3>3. \A n \in Nat : [NoFollow EXCEPT !.at = "watch", !.cursor = n] \in Follow
      BY <1>0 DEF Follow
    <3>4. \E n \in Nat : follow' = [NoFollow EXCEPT !.at = "watch", !.cursor = n]
      BY <1>1, <3>1, <3>2 DEF Begins
    <3> QED
      BY <3>3, <3>4
  <2>2. client' \in Clients
    BY <1>0, <1>1 DEF Begins, Clients
  <2> QED
    BY <1>1, <2>1, <2>2 DEF Begins, LogTypeOK, entryVars, storeVars
<1>2. CASE Watches \/ Wakes
  <2>1. follow' \in Follow
    BY <1>0, <1>2 DEF Watches, Wakes, Follow
  <2> QED
    BY <1>2, <2>1 DEF Watches, Wakes, LogTypeOK, entryVars, storeVars
<1>3. CASE Queries
  <2>1. Selected \in SUBSET Entries
    BY DEF Selected, Stored
  <2>2. follow' \in Follow
    BY <1>0, <1>3, <2>1 DEF Queries, Follow
  <2> QED
    BY <1>3, <2>2 DEF Queries, LogTypeOK, entryVars, storeVars
<1>4. CASE QueryFails \/ Leaves
  <2>1. <<>> \in Seq(News) /\ Len(<<>>) <= Behind
    OBVIOUS
  <2>2. follow' \in Follow /\ carried' \in Seq(News) /\ Len(carried') <= Behind
    BY <1>0, <1>4, <2>1 DEF QueryFails, Leaves
  <2> QED
    BY <1>4, <2>2 DEF QueryFails, Leaves, LogTypeOK, entryVars, storeVars
<1>5. CASE Pushes
  <2>1. PICK i \in Entries :
          /\ carried' = Append(carried, [behind |-> FALSE, at |-> number[i],
                                         upto |-> i])
          /\ follow' = [follow EXCEPT !.page = follow.page \ {i},
                           !.cursor = number[i],
                           !.at = IF follow.page = {i} THEN "wait" ELSE "push"]
    BY <1>5 DEF Pushes
  <2>2. number[i] \in Nat /\ i \in EntryOrNone
    BY DEF LogTypeOK, Entries, EntryOrNone
  <2>3. [behind |-> FALSE, at |-> number[i], upto |-> i] \in News
    BY <2>2 DEF News
  <2>4. carried' \in Seq(News) /\ Len(carried') = Len(carried) + 1
    BY <1>0, <2>1, <2>3, AtItsEnd
  <2>5. follow' \in Follow
    BY <1>0, <2>1, <2>2 DEF Follow
  <2>6. Len(carried') <= Behind
    BY <1>0, <1>5, <2>4 DEF Pushes
  <2> QED
    BY <1>5, <2>4, <2>5, <2>6 DEF Pushes, LogTypeOK, entryVars, storeVars
<1>6. CASE GivesUp
  <2>1. PICK i \in EntryOrNone :
          follow' = [follow EXCEPT
                       !.at = "full", !.page = {},
                       !.cursor = IF Running THEN NumberOf(i) ELSE follow.cursor,
                       !.notice = [behind |-> TRUE, at |-> follow.cursor,
                                   upto |-> i]]
    BY <1>6 DEF GivesUp
  <2>2. NumberOf(i) \in Nat /\ follow.cursor \in Nat
    BY <1>0, NumberOfType DEF Follow
  <2>3. follow' \in Follow
    BY <1>0, <2>1, <2>2 DEF Follow, News
  <2> QED
    BY <1>6, <2>3 DEF GivesUp, LogTypeOK, entryVars, storeVars
<1>7. CASE TellsBehind
  <2>1. follow.notice \in News /\ NoNews \in News
    BY <1>0 DEF Follow, NoNews, News, EntryOrNone
  <2>2. carried' \in Seq(News) /\ Len(carried') <= Behind
    BY <1>0, <1>7, <2>1, AtItsEnd DEF TellsBehind
  <2>3. follow' \in Follow
    BY <1>0, <1>7, <2>1 DEF TellsBehind, Follow
  <2> QED
    BY <1>7, <2>2, <2>3 DEF TellsBehind, LogTypeOK, entryVars, storeVars
<1>8. CASE Receives
  <2>1. carried # <<>>
    BY <1>8 DEF Receives
  <2>2. Head(carried) \in News /\ carried' \in Seq(News)
        /\ Len(carried') = Len(carried) - 1
    BY <1>0, <1>8, <2>1, HeadOfQueue DEF Receives
  <2>3. client' \in Clients
    BY <1>0, <1>8, <2>2 DEF Receives, News, Clients
  <2> QED
    BY <1>0, <1>8, <2>2, <2>3 DEF Receives, LogTypeOK, entryVars, storeVars
<1> QED
  BY <1>2, <1>1, <1>3, <1>4, <1>5, <1>7, <1>6, <1>8 DEF Pages

LEMMA InitType == LogInit => LogTypeOK
<1> SUFFICES ASSUME LogInit PROVE LogTypeOK
  OBVIOUS
<1> USE CapsAssumption, LogAssumption
<1>1. /\ NoFollow \in Follow
      /\ [at |-> 0, got |-> 0, told |-> 0] \in Clients
      /\ [at |-> "take", batch |-> <<>>] \in Writers
  BY DEF NoFollow, NoNews, Follow, News, EntryOrNone, Clients, Writers
<1> QED
  BY <1>1 DEF LogInit, LogTypeOK, EntryOrNone, Fates

LEMMA TypeStep == ASSUME LogTypeOK, [LogNext]_logVars PROVE LogTypeOK'
<1>1. CASE UNCHANGED logVars
  BY <1>1 DEF logVars, entryVars, storeVars, followVars, LogTypeOK
<1> QED
  BY <1>1, WriteType, LifeType, FollowType DEF LogNext

(* Every variable keeps its type, whatever is appended, removed, followed, *)
(* closed or lost (logstore.go, and logFollow in admin/reads.go).          *)
THEOREM TypeCorrect == LogSpec => []LogTypeOK
BY InitType, TypeStep, PTL DEF LogSpec

--------------------------------------------------------------------------------
(* What is held. *)

PipeVars == <<asked, fate, core, taking, queue, writer>>

LEMMA InitPipe == LogInit => PipeInv
<1> SUFFICES ASSUME LogInit PROVE PipeInv
  OBVIOUS
<1>1. queue = <<>> /\ writer.batch = <<>> /\ taking = 0 /\ core = "up"
      /\ \A i \in Entries : fate[i] = "unwritten"
  BY DEF LogInit
<1> QED
  BY <1>1 DEF PipeInv, Increases, Held

LEMMA AppendPipe ==
    ASSUME LogTypeOK, PipeInv, TakesLock \/ Queued
    PROVE  PipeInv'
<1> DEFINE b == writer.batch
<1>1. asked \in Nat /\ \A i \in Entries : i \in Nat
  BY LogAssumption DEF LogTypeOK, EntryOrNone, Entries
<1>2. CASE TakesLock
  BY <1>1, <1>2, LogAssumption
     DEF TakesLock, PipeInv, Held, Increases, LogTypeOK, Entries, EntryOrNone
<1>3. CASE Queued
  <2>1. /\ taking \in Entries /\ taking = asked /\ fate[taking] = "unwritten"
        /\ taking \in Nat
    BY <1>3 DEF Queued, PipeInv, LogTypeOK, Entries, EntryOrNone
  <2>2. /\ queue' = Append(queue, taking) /\ UNCHANGED <<writer, core, asked>>
        /\ fate' = [fate EXCEPT ![taking] = "held"] /\ taking' = 0
    BY <1>3 DEF Queued
  <2>3. queue \in Seq(Entries) /\ b \in Seq(Entries)
    BY DEF LogTypeOK, Writers
  <2>4. /\ Len(queue') = Len(queue) + 1 /\ Len(queue) \in Nat
        /\ queue'[Len(queue) + 1] = taking
        /\ \A k \in 1..Len(queue) : queue'[k] = queue[k]
    BY <2>1, <2>2, <2>3, AtItsEnd
  <2>5. /\ \A k \in 1..Len(b) : b[k] \in Entries /\ b[k] < taking
        /\ \A k \in 1..Len(queue) : queue[k] \in Entries /\ queue[k] < taking
    <3>1. ASSUME NEW i \in Entries, fate[i] = "held" PROVE i < taking
      BY <1>1, <2>1, <3>1 DEF PipeInv
    <3>2. /\ \A k \in 1..Len(b) : b[k] \in Entries
          /\ \A k \in 1..Len(queue) : queue[k] \in Entries
      BY <2>3
    <3> QED
      BY <3>1, <3>2 DEF PipeInv
  <2>6. /\ \A k \in 1..Len(b) : fate'[b[k]] = "held"
        /\ \A k \in 1..Len(queue') : fate'[queue'[k]] = "held"
    BY <2>1, <2>2, <2>4, <2>5 DEF PipeInv, LogTypeOK
  <2>7. \A i \in Entries : fate'[i] = "held" =>
          \/ \E k \in 1..Len(b) : b[k] = i
          \/ \E k \in 1..Len(queue') : queue'[k] = i
    <3> SUFFICES ASSUME NEW i \in Entries, fate'[i] = "held", i # taking
                 PROVE  \/ \E k \in 1..Len(b) : b[k] = i
                        \/ \E k \in 1..Len(queue') : queue'[k] = i
      BY <2>4
    <3>1. i \in Held
      BY <2>2 DEF Held, LogTypeOK
    <3>2. CASE \E k \in 1..Len(queue) : queue[k] = i
      BY <2>4, <3>2
    <3> QED
      BY <3>1, <3>2 DEF PipeInv
  <2>8. Increases(b) /\ Increases(queue')
    BY <2>1, <2>2, <2>3, <2>5, StillIncreases DEF PipeInv
  <2>9. \A k \in 1..Len(b), l \in 1..Len(queue') : b[k] < queue'[l]
    <3> SUFFICES ASSUME NEW k \in 1..Len(b), NEW l \in 1..Len(queue')
                 PROVE  b[k] < queue'[l]
      OBVIOUS
    <3>1. l \in 1..Len(queue) \/ l = Len(queue) + 1
      BY <2>4
    <3>2. CASE l \in 1..Len(queue)
      <4>1. b[k] < queue[l] /\ queue'[l] = queue[l]
        BY <2>4, <3>2 DEF PipeInv
      <4> QED
        BY <4>1
    <3>3. CASE l = Len(queue) + 1
      <4>1. b[k] < taking /\ queue'[l] = taking
        BY <2>4, <2>5, <3>3
      <4> QED
        BY <4>1
    <3> QED
      BY <3>1, <3>3, <3>2
  <2>10. \A i \in Entries : fate'[i] # "unwritten" => i <= asked' /\ i # taking'
    BY <1>1, <2>1, <2>2 DEF PipeInv, LogTypeOK, Entries
  <2>11. core # "closed"
    BY <1>3 DEF Queued
  <2> QED
    BY <2>2, <2>6, <2>7, <2>8, <2>9, <2>10, <2>11 DEF PipeInv, Held, Increases
<1> QED
  BY <1>2, <1>3

LEMMA TakePipe ==
    ASSUME LogTypeOK, PipeInv, TakeFirst \/ Gather
    PROVE  PipeInv'
<1> DEFINE b == writer.batch
           c == writer'.batch
<1>1. /\ queue \in Seq(Entries) /\ queue # <<>> /\ b \in Seq(Entries)
      /\ queue' = Tail(queue) /\ writer'.at = "gather"
      /\ c = Append(b, Head(queue))
      /\ UNCHANGED <<asked, fate, core, taking>> /\ core # "closed"
  <2>1. queue \in Seq(Entries) /\ b \in Seq(Entries) /\ writer \in Writers
    BY DEF LogTypeOK, Writers
  <2>2. CASE TakeFirst
    <3>1. b = <<>>
      BY <2>2 DEF PipeInv, TakeFirst
    <3>2. Append(<<>>, Head(queue)) = <<Head(queue)>>
      OBVIOUS
    <3> QED
      BY <2>1, <2>2, <3>1, <3>2 DEF TakeFirst, entryVars, Running
  <2>3. CASE Gather
    <3>1. c = Append(b, Head(queue)) /\ writer'.at = "gather"
      BY <2>1, <2>3 DEF Gather, Writers
    <3> QED
      BY <2>1, <2>3, <3>1 DEF Gather, entryVars, Running
  <2> QED
    BY <2>2, <2>3
<1>2. /\ Head(queue) = queue[1] /\ Head(queue) \in Entries
      /\ Len(queue) \in Nat \ {0} /\ Len(queue') = Len(queue) - 1
      /\ \A k \in 1..Len(queue') : queue'[k] = queue[k + 1]
  BY <1>1, HeadOfQueue
<1>3. /\ Len(c) = Len(b) + 1 /\ c[Len(b) + 1] = queue[1] /\ Len(b) \in Nat
      /\ \A k \in 1..Len(b) : c[k] = b[k]
  BY <1>1, <1>2, AtItsEnd
<1>4. /\ \A k \in 1..Len(b) : b[k] < queue[1]
      /\ \A k \in 1..Len(queue') : queue[1] < queue'[k]
  BY <1>2 DEF PipeInv, Increases
<1>5. /\ \A k \in 1..Len(c) : fate[c[k]] = "held"
      /\ \A k \in 1..Len(queue') : fate[queue'[k]] = "held"
  <2>1. ASSUME NEW k \in 1..Len(c) PROVE fate[c[k]] = "held"
    <3>1. k \in 1..Len(b) \/ k = Len(b) + 1
      BY <1>3
    <3>2. fate[queue[1]] = "held"
      BY <1>2 DEF PipeInv
    <3> QED
      BY <1>3, <3>1, <3>2 DEF PipeInv
  <2>2. ASSUME NEW k \in 1..Len(queue') PROVE fate[queue'[k]] = "held"
    <3>1. k + 1 \in 1..Len(queue) /\ queue'[k] = queue[k + 1]
      BY <1>2
    <3> QED
      BY <3>1 DEF PipeInv
  <2> QED
    BY <2>1, <2>2
<1>6. ASSUME NEW i \in Held
      PROVE  \/ \E k \in 1..Len(c) : c[k] = i
             \/ \E k \in 1..Len(queue') : queue'[k] = i
  <2>1. CASE \E k \in 1..Len(b) : b[k] = i
    BY <1>3, <2>1
  <2>2. CASE \E k \in 1..Len(queue) : queue[k] = i
    <3>1. PICK k \in 1..Len(queue) : queue[k] = i
      BY <2>2
    <3>2. CASE k = 1
      BY <1>3, <3>1, <3>2
    <3>3. CASE k # 1
      <4>1. k - 1 \in 1..Len(queue') /\ queue'[k - 1] = queue[(k - 1) + 1]
        BY <1>2, <3>3
      <4> QED
        BY <3>1, <4>1
    <3> QED
      BY <3>2, <3>3
  <2> QED
    BY <2>1, <2>2 DEF PipeInv
<1>7. Increases(c)
  BY <1>1, <1>2, <1>4, StillIncreases DEF PipeInv
<1>8. Increases(queue')
  BY <1>2 DEF PipeInv, Increases
<1>9. \A k \in 1..Len(c), l \in 1..Len(queue') : c[k] < queue'[l]
  <2> SUFFICES ASSUME NEW k \in 1..Len(c), NEW l \in 1..Len(queue')
               PROVE  c[k] < queue'[l]
    OBVIOUS
  <2>1. CASE k \in 1..Len(b)
    <3>1. l + 1 \in 1..Len(queue) /\ queue'[l] = queue[l + 1]
      BY <1>2
    <3> QED
      BY <1>3, <2>1, <3>1 DEF PipeInv
  <2>2. CASE k = Len(b) + 1
    BY <1>3, <1>4, <2>2
  <2> QED
    BY <1>3, <2>1, <2>2
<1> QED
  BY <1>1, <1>5, <1>6, <1>7, <1>8, <1>9 DEF PipeInv, Held, Increases

LEMMA WrittenPipe ==
    ASSUME LogTypeOK, PipeInv, StoreBatch \/ LoseBatch
    PROVE  PipeInv'
<1>1. /\ writer' = [at |-> "tell", batch |-> <<>>]
      /\ UNCHANGED <<asked, core, taking, queue>> /\ core # "closed"
      /\ \A j \in Entries : fate'[j] = fate[j] \/ j \in Batched
      /\ \A j \in Entries : j \in Batched => fate'[j] \in {"stored", "lost"}
  BY DEF StoreBatch, LoseBatch, Running
<1>2. queue \in Seq(Entries) /\ writer.batch \in Seq(Entries)
  BY DEF LogTypeOK, Writers
<1>3. ASSUME NEW l \in 1..Len(queue)
      PROVE  queue[l] \in Entries /\ queue[l] \notin Batched
  <2>1. queue[l] \in Entries
    BY <1>2
  <2>2. ASSUME NEW k \in 1..Len(writer.batch) PROVE writer.batch[k] # queue[l]
    <3>1. writer.batch[k] < queue[l] /\ queue[l] \in Nat
      BY <2>1 DEF PipeInv, Entries
    <3> QED
      BY <3>1
  <2> QED
    BY <1>2, <2>1, <2>2 DEF Batched
<1>4. \A k \in 1..Len(queue) : fate'[queue[k]] = "held"
  BY <1>1, <1>3 DEF PipeInv
<1>5. ASSUME NEW i \in Entries, fate'[i] = "held"
      PROVE  \E k \in 1..Len(queue) : queue[k] = i
  <2>1. i \notin Batched /\ i \in Held
    BY <1>1, <1>5 DEF Held
  <2>2. \A k \in 1..Len(writer.batch) : writer.batch[k] # i
    BY <1>2, <2>1 DEF Batched
  <2> QED
    BY <2>1, <2>2 DEF PipeInv
<1>6. \A i \in Entries : fate'[i] # "unwritten" => fate[i] # "unwritten"
  <2>1. \A i \in Batched : fate[i] = "held"
    BY <1>2 DEF PipeInv, Batched
  <2> QED
    BY <1>1, <2>1
<1>7. writer'.batch = <<>> /\ writer'.at = "tell"
  BY <1>1
<1> QED
  BY <1>1, <1>4, <1>5, <1>6, <1>7 DEF PipeInv, Held, Increases

LEMMA PipeStep ==
    ASSUME LogTypeOK, PipeInv, [LogNext]_logVars
    PROVE  PipeInv'
<1>1. CASE TellWatchers
  BY <1>1 DEF TellWatchers, PipeInv, Held, Increases, entryVars, Running,
              LogTypeOK, Writers
<1>2. CASE CloseBegins \/ Opens
  BY <1>2 DEF CloseBegins, Opens, PipeInv, Held, Increases, entryVars
<1>3. CASE CloseReturns
  BY <1>3 DEF CloseReturns, PipeInv, Held, Increases, entryVars, LogTypeOK,
              Writers
<1>4. CASE Dies
  <2>1. /\ queue' = <<>> /\ writer'.batch = <<>> /\ taking' = 0
        /\ core' = "down" /\ asked' = asked
    BY <1>4 DEF Dies
  <2>2. \A i \in Entries : fate'[i] # "held"
    BY <1>4 DEF Dies, LogTypeOK
  <2>3. \A i \in Entries : fate'[i] # "unwritten" => i <= asked /\ i # 0
    <3> SUFFICES ASSUME NEW i \in Entries, fate'[i] # "unwritten"
                 PROVE  i <= asked /\ i # 0
      OBVIOUS
    <3>1. fate[i] # "unwritten" \/ i = taking
      BY <1>4 DEF Dies, LogTypeOK
    <3>2. i \in Nat /\ i # 0 /\ asked \in Nat
      BY LogAssumption DEF Entries, LogTypeOK, EntryOrNone
    <3> QED
      BY <3>1, <3>2 DEF PipeInv
  <2> QED
    BY <2>1, <2>3, <2>2 DEF PipeInv, Held, Increases
<1>5. ASSUME NEW g \in Groups, Clean(g) PROVE PipeInv'
  <2>1. /\ UNCHANGED <<asked, core, taking, queue, writer>>
        /\ \A i \in Entries : \/ fate'[i] = fate[i]
                              \/ fate[i] = "stored" /\ fate'[i] = "removed"
    BY <1>5 DEF Clean, storeVars, Stored, LogTypeOK
  <2>2. \A i \in Entries : /\ fate'[i] = "held" <=> fate[i] = "held"
                           /\ fate'[i] # "unwritten" => fate[i] # "unwritten"
    BY <2>1
  <2>3. /\ \A k \in 1..Len(writer.batch) : writer.batch[k] \in Entries
        /\ \A k \in 1..Len(queue) : queue[k] \in Entries
    BY DEF LogTypeOK, Writers
  <2> QED
    BY <2>1, <2>3, <2>2 DEF PipeInv, Held, Increases
<1>6. CASE UNCHANGED PipeVars
  BY <1>6 DEF PipeVars, PipeInv, Held, Increases
<1>7. Begins \/ Watches \/ Pages \/ Leaves \/ Receives => UNCHANGED PipeVars
  BY DEF Begins, Watches, Pages, Queries, QueryFails, Pushes, GivesUp, TellsBehind,
         Wakes, Leaves, Receives, PipeVars, entryVars, storeVars
<1>8. UNCHANGED logVars => UNCHANGED PipeVars
  BY DEF logVars, PipeVars, entryVars, storeVars
<1> QED
  BY <1>2, <1>1, <1>3, <1>4, <1>5, <1>7, <1>6, <1>8, AppendPipe, TakePipe,
     WrittenPipe DEF LogNext, Writes

LEMMA PipeAlways == LogSpec => [](LogTypeOK /\ PipeInv)
BY InitType, InitPipe, TypeStep, PipeStep, PTL DEF LogSpec

(* Close returns once everything that was queued is written or reported.   *)
THEOREM ClosedKeeps == LogSpec => []CloseKeeps
<1>1. LogTypeOK /\ PipeInv => CloseKeeps
  <2> SUFFICES ASSUME PipeInv, core = "closed", NEW i \in Entries,
                      fate[i] = "held"
               PROVE  FALSE
    BY DEF CloseKeeps
  <2>1. i \in Held /\ queue = <<>> /\ writer.batch = <<>>
    BY DEF Held, PipeInv
  <2> QED
    BY <2>1 DEF PipeInv
<1> QED
  BY <1>1, PipeAlways, PTL

--------------------------------------------------------------------------------
(* The numbers. *)

(* What max(seq) says is above every number given. *)
LEMMA LastIsAbove ==
    ASSUME LogTypeOK, NumberInv, NEW l \in EntryOrNone, IsLast(l)
    PROVE  /\ l = 0 => Numbered = {}
           /\ l # 0 => l \in Stored /\ l \in Numbered
           /\ \A i \in Numbered : i <= l /\ number[i] <= NumberOf(l)
<1> USE LogAssumption
<1>1. CASE Numbered = {}
  <2>1. Stored = {}
    BY <1>1 DEF NumberInv, Stored, Numbered
  <2> QED
    BY <1>1, <2>1 DEF IsLast, Entries
<1>2. CASE Numbered # {}
  <2>1. PICK t \in Stored : \A i \in Numbered : i <= t
    BY <1>2 DEF NumberInv
  <2>2. l \in Stored /\ number[t] <= number[l]
    BY <2>1 DEF IsLast
  <2>3. Stored \subseteq Numbered
    BY DEF NumberInv, Stored
  <2>4. l \in Numbered /\ t \in Numbered /\ l <= t
    BY <2>1, <2>2, <2>3
  <2>5. l \in Nat /\ t \in Nat /\ l # 0 /\ number[l] \in Nat /\ number[t] \in Nat
    BY <2>4 DEF Numbered, Entries, LogTypeOK
  <2>6. l = t
    BY <2>2, <2>4, <2>5 DEF NumberInv
  <2>7. ASSUME NEW i \in Numbered PROVE i <= l /\ number[i] <= number[l]
    <3>1. i <= l /\ i \in Nat /\ number[i] \in Nat
      BY <2>1, <2>6 DEF Numbered, Entries, LogTypeOK
    <3>2. i = l \/ number[i] < number[l]
      BY <2>4, <2>5, <3>1 DEF NumberInv
    <3> QED
      BY <2>5, <3>1, <3>2
  <2> QED
    BY <2>2, <2>4, <2>5, <2>7 DEF NumberOf
<1> QED
  BY <1>1, <1>2

LEMMA InitNumber == LogInit => NumberInv
BY DEF LogInit, NumberInv, Numbered, Held, Stored

LEMMA StoreNumber ==
    ASSUME LogTypeOK, PipeInv, NumberInv, StoreBatch
    PROVE  NumberInv'
<1> USE LogAssumption
<1> DEFINE b == writer.batch
<1>1. PICK l \in EntryOrNone :
        /\ IsLast(l)
        /\ number' = [j \in Entries |->
                        IF j \in Batched THEN NumberOf(l) + PlaceInBatch(j)
                        ELSE number[j]]
  BY DEF StoreBatch
<1>2. fate' = [j \in Entries |-> IF j \in Batched THEN "stored" ELSE fate[j]]
  BY DEF StoreBatch
<1>3. b \in Seq(Entries) /\ Len(b) \in Nat
  BY DEF LogTypeOK, Writers
<1>4. Batched \subseteq Held /\ Batched \subseteq Entries
  BY <1>3 DEF Batched, Held, PipeInv
<1>5. \A j \in Batched : PlaceInBatch(j) \in 1..Len(b) /\ b[PlaceInBatch(j)] = j
  BY PlaceIsThere
<1>6. ASSUME NEW i \in Batched, NEW j \in Batched, i < j
      PROVE  PlaceInBatch(i) < PlaceInBatch(j)
  <2> DEFINE k == PlaceInBatch(i)
             m == PlaceInBatch(j)
  <2>1. k \in 1..Len(b) /\ m \in 1..Len(b) /\ b[k] = i /\ b[m] = j
    BY <1>5
  <2> HIDE DEF k, m
  <2>2. i \in Nat /\ j \in Nat
    BY <1>4 DEF Entries
  <2>3. ~(m < k) /\ m # k
    BY <1>6, <2>1, <2>2 DEF PipeInv, Increases
  <2> QED
    BY <1>3, <2>1, <2>3 DEF k, m
<1>7. /\ NumberOf(l) \in Nat
      /\ \A i \in Numbered : number[i] <= NumberOf(l)
  BY <1>1, LastIsAbove, NumberOfType
<1>8. /\ \A j \in Batched : /\ number'[j] = NumberOf(l) + PlaceInBatch(j)
                            /\ number'[j] \in Nat /\ number'[j] > NumberOf(l)
                            /\ fate'[j] = "stored"
      /\ \A j \in Entries \ Batched : number'[j] = number[j] /\ fate'[j] = fate[j]
  BY <1>2, <1>1, <1>3, <1>4, <1>5, <1>7
<1>9. Numbered' = Numbered \cup Batched /\ Numbered \cap Batched = {}
  <2>1. ASSUME NEW i \in Numbered PROVE i \notin Batched
    BY <1>4 DEF NumberInv, Held, Numbered
  <2>2. ASSUME NEW i \in Batched PROVE number'[i] # 0
    BY <1>7, <1>8
  <2> QED
    BY <1>4, <1>8, <2>1, <2>2 DEF Numbered
<1>10. \A i \in Entries : i \in Numbered' <=> fate'[i] \in {"stored", "removed"}
  BY <1>8, <1>9 DEF NumberInv
<1>11. ASSUME NEW i \in Numbered', NEW j \in Held' PROVE i < j
  <2>1. j \in Held /\ j \notin Batched /\ j \in Entries
    BY <1>8 DEF Held
  <2>2. PICK m \in 1..Len(queue) : queue[m] = j
    BY <1>3, <2>1 DEF PipeInv, Batched
  <2>3. CASE i \in Batched
    BY <1>5, <2>2, <2>3 DEF PipeInv
  <2> QED
    BY <1>9, <2>1, <2>3 DEF NumberInv
<1>12. ASSUME NEW i \in Numbered', NEW j \in Numbered', i < j
       PROVE  number'[i] < number'[j]
  <2>1. i \in Nat /\ j \in Nat
    BY <1>4, <1>9 DEF Numbered, Entries
  <2>2. CASE i \in Numbered /\ j \in Numbered
    <3>1. number'[i] = number[i] /\ number'[j] = number[j]
      BY <1>8, <1>9, <2>2 DEF Numbered
    <3> QED
      BY <1>12, <2>2, <3>1 DEF NumberInv
  <2>3. CASE i \in Numbered /\ j \in Batched
    <3>1. number'[i] = number[i] /\ number[i] \in Nat
      BY <1>8, <1>9, <2>3 DEF Numbered, LogTypeOK
    <3> QED
      BY <1>7, <1>8, <2>3, <3>1
  <2>4. CASE i \in Batched /\ j \in Numbered
    <3>1. j < i
      BY <1>4, <2>4 DEF NumberInv
    <3> QED
      BY <1>12, <2>1, <3>1
  <2>5. CASE i \in Batched /\ j \in Batched
    <3>1. PlaceInBatch(i) \in Nat /\ PlaceInBatch(j) \in Nat
      BY <1>3, <1>5, <2>5
    <3>2. PlaceInBatch(i) < PlaceInBatch(j)
      BY <1>6, <1>12, <2>5
    <3> QED
      BY <1>7, <1>8, <2>5, <3>1, <3>2
  <2> QED
    BY <1>9, <2>2, <2>4, <2>3, <2>5
<1>13. Numbered' = {} \/ \E t \in Stored' : \A i \in Numbered' : i <= t
  <2>1. CASE Batched = {}
    <3>1. Stored' = Stored /\ Numbered' = Numbered
      BY <1>8, <1>9, <2>1 DEF Stored
    <3> QED
      BY <3>1 DEF NumberInv
  <2>2. CASE Batched # {}
    <3>1. Len(b) \in 1..Len(b) /\ \A m \in 1..Len(b) : m <= Len(b)
      BY <1>3, <1>5, <2>2
    <3> DEFINE t == b[Len(b)]
    <3>2. t \in Batched /\ t \in Entries
      BY <1>3, <3>1 DEF Batched
    <3>3. t \in Stored'
      BY <1>8, <3>2 DEF Stored
    <3>4. ASSUME NEW i \in Batched PROVE i <= t
      <4>1. PICK m \in 1..Len(b) : b[m] = i
        BY <1>5
      <4>2. m = Len(b) \/ m < Len(b)
        BY <1>3, <4>1
      <4>3. i \in Nat /\ t \in Nat
        BY <1>4, <3>2 DEF Entries
      <4> QED
        BY <3>1, <4>1, <4>2, <4>3 DEF PipeInv, Increases
    <3>5. ASSUME NEW i \in Numbered PROVE i <= t
      <4>1. i < t
        BY <1>4, <3>2 DEF NumberInv
      <4>2. i \in Nat /\ t \in Nat
        BY <3>2 DEF Numbered, Entries
      <4> QED
        BY <4>1, <4>2
    <3> HIDE DEF t
    <3> QED
      BY <1>9, <3>3, <3>4, <3>5
  <2> QED
    BY <2>1, <2>2
<1> QED
  BY <1>10, <1>12, <1>11, <1>13 DEF NumberInv

LEMMA NumberStep ==
    ASSUME LogTypeOK, PipeInv, NumberInv, ~TakesLast, [LogNext]_logVars
    PROVE  NumberInv'
<1> USE LogAssumption
<1>1. CASE UNCHANGED <<fate, number>>
  BY <1>1 DEF NumberInv, Numbered, Held, Stored
<1>2. ASSUME number' = number, Stored' = Stored, Held' \subseteq Held,
             \A i \in Entries : fate'[i] = "removed" <=> fate[i] = "removed"
      PROVE  NumberInv'
  <2>1. Numbered' = Numbered
    BY <1>2 DEF Numbered
  <2>2. \A i \in Entries : fate'[i] = "stored" <=> fate[i] = "stored"
    BY <1>2 DEF Stored
  <2> QED
    BY <1>2, <2>1, <2>2 DEF NumberInv
<1>3. CASE Queued
  <2>1. /\ taking \in Entries /\ taking = asked /\ fate[taking] = "unwritten"
        /\ fate' = [fate EXCEPT ![taking] = "held"] /\ number' = number
    BY <1>3 DEF Queued, PipeInv, LogTypeOK, Entries, EntryOrNone
  <2>2. Numbered' = Numbered /\ taking \notin Numbered
    BY <2>1 DEF Numbered, NumberInv
  <2>3. Stored' = Stored /\ Held' = Held \cup {taking}
    BY <2>1 DEF Stored, Held, LogTypeOK
  <2>4. ASSUME NEW i \in Numbered PROVE i < taking
    <3>1. i \in Entries /\ i # taking /\ fate[i] # "unwritten"
      BY <2>2 DEF Numbered, NumberInv
    <3>2. i <= asked /\ i \in Nat /\ taking \in Nat
      BY <2>1, <3>1 DEF PipeInv, Entries
    <3> QED
      BY <2>1, <3>1, <3>2
  <2>5. \A i \in Entries : fate'[i] \in {"stored", "removed"}
                             <=> fate[i] \in {"stored", "removed"}
    BY <2>1 DEF LogTypeOK
  <2> QED
    BY <2>2, <2>1, <2>3, <2>4, <2>5 DEF NumberInv
<1>4. CASE LoseBatch
  <2>1. Batched \subseteq Held
    BY DEF Batched, Held, PipeInv, LogTypeOK, Writers
  <2>2. /\ number' = number
        /\ fate' = [j \in Entries |-> IF j \in Batched THEN "lost" ELSE fate[j]]
    BY <1>4 DEF LoseBatch
  <2> QED
    BY <1>2, <2>1, <2>2 DEF Held, Stored
<1>5. CASE Dies
  <2>1. \A i \in Entries : fate[i] \in {"stored", "removed"} => i # taking
    BY DEF PipeInv
  <2>2. /\ number' = number
        /\ fate' = [i \in Entries |-> IF fate[i] = "held" \/ i = taking
                                      THEN "dead" ELSE fate[i]]
    BY <1>5 DEF Dies
  <2> QED
    BY <1>2, <2>1, <2>2 DEF Held, Stored
<1>6. ASSUME NEW g \in Groups, Clean(g) PROVE NumberInv'
  <2>1. PICK gone \in SUBSET Stored :
          /\ \A i \in gone : ~IsLast(i)
          /\ fate' = [i \in Entries |-> IF i \in gone THEN "removed" ELSE fate[i]]
    BY <1>6 DEF Clean
  <2>2. number' = number
    BY <1>6 DEF Clean
  <2>3. Numbered' = Numbered /\ Held' = Held
    BY <2>1, <2>2 DEF Numbered, Held, Stored
  <2>4. \A i \in Entries : fate'[i] \in {"stored", "removed"}
                             <=> fate[i] \in {"stored", "removed"}
    BY <2>1 DEF Stored
  <2>5. Numbered = {} \/ \E t \in Stored' : \A i \in Numbered : i <= t
    <3> SUFFICES ASSUME Numbered # {}
                 PROVE  \E t \in Stored' : \A i \in Numbered : i <= t
      OBVIOUS
    <3>1. PICK t \in Stored : \A i \in Numbered : i <= t
      BY DEF NumberInv
    <3>2. t \in Numbered /\ Stored \subseteq Numbered
      BY <3>1 DEF NumberInv, Stored
    <3>3. ASSUME NEW j \in Stored PROVE number[j] <= number[t]
      <4>1. j \in Numbered /\ j <= t /\ j \in Nat /\ t \in Nat
        BY <3>1, <3>2 DEF Numbered, Entries
      <4>2. number[j] \in Nat /\ number[t] \in Nat
        BY <3>2, <4>1 DEF Numbered, LogTypeOK
      <4>3. j = t \/ number[j] < number[t]
        BY <3>2, <4>1 DEF NumberInv
      <4> QED
        BY <4>2, <4>3
    <3>4. IsLast(t)
      BY <3>1, <3>3 DEF IsLast
    <3>5. t \in Stored'
      BY <2>1, <3>1, <3>4 DEF Stored
    <3> QED
      BY <3>1, <3>5
  <2> QED
    BY <2>2, <2>4, <2>3, <2>5 DEF NumberInv
<1>7. \/ UNCHANGED <<fate, number>>
      \/ Queued \/ StoreBatch \/ LoseBatch \/ Dies \/ \E g \in Groups : Clean(g)
  BY DEF LogNext, Writes, Pages, TakesLock, TakeFirst, Gather, TellWatchers,
         CloseBegins, CloseReturns, Opens, Begins, Watches, Queries, QueryFails,
         Pushes, GivesUp, TellsBehind, Wakes, Leaves, Receives, logVars, entryVars
<1> QED
  BY <1>1, <1>3, <1>4, <1>5, <1>6, <1>7, StoreNumber

--------------------------------------------------------------------------------
(* The follow. *)

FollowsInv == ClientInv /\ CarriedInv /\ FollowInv

(* Numbers order what was stored as it was asked for. *)
LEMMA InOrder ==
    ASSUME LogTypeOK, NumberInv,
           NEW a, NumberedOrNone(a), NEW b, NumberedOrNone(b)
    PROVE  /\ a \in Nat /\ b \in Nat
           /\ NumberOf(a) \in Nat /\ NumberOf(b) \in Nat
           /\ a <= b => NumberOf(a) <= NumberOf(b)
           /\ a < b => NumberOf(a) < NumberOf(b)
           /\ NumberOf(a) < NumberOf(b) => a < b
<1> USE LogAssumption
<1>1. \A i \in Numbered : i \in Nat /\ i # 0 /\ number[i] \in Nat /\ number[i] # 0
  BY DEF Numbered, Entries, LogTypeOK
<1>2. CASE a = 0 \/ b = 0
  BY <1>1, <1>2 DEF NumberedOrNone, NumberOf
<1>3. CASE a \in Numbered /\ b \in Numbered
  <2>1. a < b => number[a] < number[b]
    BY <1>3 DEF NumberInv
  <2>2. b < a => number[b] < number[a]
    BY <1>3 DEF NumberInv
  <2>3. NumberOf(a) = number[a] /\ NumberOf(b) = number[b]
    BY <1>1, <1>3 DEF NumberOf
  <2> QED
    BY <1>1, <1>3, <2>1, <2>2, <2>3
<1> QED
  BY <1>2, <1>3 DEF NumberedOrNone

LEMMA WantedIsNumbered ==
    ASSUME NumberInv, NEW i \in Wanted
    PROVE  i \in Numbered /\ i \in Stored /\ NumberedOrNone(i)
BY DEF NumberInv, Wanted, Stored, NumberedOrNone

LEMMA SentIsNumbered ==
    ASSUME LogTypeOK, ClientInv, CarriedInv
    PROVE  NumberedOrNone(Pushed) /\ NumberedOrNone(Sent)
<1>1. NumberedOrNone(Pushed)
  <2>1. CASE carried = <<>>
    BY <2>1 DEF Pushed, ClientInv
  <2>2. CASE carried # <<>>
    <3>1. Len(carried) \in 1..Len(carried)
      BY <2>2 DEF LogTypeOK
    <3> QED
      BY <2>2, <3>1 DEF Pushed, CarriedInv, Tells
  <2> QED
    BY <2>1, <2>2
<1> QED
  BY <1>1 DEF Sent, CarriedInv, Tells

(* What the store does beside a follow: it numbers entries that are above  *)
(* all that were, and then tells, and it wakes.                            *)
LEMMA BesideFollow ==
    ASSUME LogTypeOK, NumberInv, FollowsInv,
           UNCHANGED <<carried, client>>,
           /\ follow'.at = follow.at /\ follow'.cursor = follow.cursor
           /\ follow'.page = follow.page /\ follow'.notice = follow.notice,
           \A i \in Numbered : i \in Numbered' /\ number'[i] = number[i],
           \A i \in Wanted' : \/ i \in Wanted
                              \/ writer'.at = "tell" /\ \A j \in Numbered : j < i,
           follow.at \notin {"out", "watch"} /\ WillWake => WillWake',
           core' = "down" => core = "down",
           Running' => Running \/ follow.at = "out"
    PROVE  FollowsInv'
<1> USE DEF FollowsInv
<1>1. Pushed' = Pushed /\ Sent' = Sent
  BY DEF Pushed, Sent
<1>2. \A i : NumberedOrNone(i) => NumberedOrNone(i)' /\ NumberOf(i)' = NumberOf(i)
  BY DEF NumberedOrNone, NumberOf
<1>3. NumberedOrNone(Pushed) /\ NumberedOrNone(Sent)
  BY SentIsNumbered
<1>4. ClientInv'
  BY <1>2 DEF ClientInv
<1>5. ASSUME NEW n, NEW a, NumberedOrNone(a), Tells(n, a)
      PROVE  Tells(n, a)'
  <2>1. NumberedOrNone(n.upto)'
    BY <1>2, <1>5 DEF Tells
  <2>2. CASE n.behind
    BY <1>2, <1>5, <2>1, <2>2 DEF Tells
  <2>3. CASE ~n.behind
    <3>1. n.upto \in Numbered /\ n.at = number[n.upto]
      BY <1>5, <2>3 DEF Tells
    <3>2. n.upto \in Numbered' /\ n.at = number'[n.upto]
      BY <3>1
    <3>3. ASSUME NEW i \in Wanted' PROVE i <= a \/ i >= n.upto
      <4>1. CASE i \in Wanted
        BY <1>5, <2>3, <4>1 DEF Tells
      <4>2. CASE \A j \in Numbered : j < i
        <5>1. n.upto < i
          BY <3>1, <4>2
        <5>2. n.upto \in Nat /\ i \in Nat
          BY <3>1, LogAssumption DEF Numbered, Wanted, Stored, Entries
        <5> QED
          BY <5>1, <5>2
      <4> QED
        BY <4>1, <4>2
    <3> QED
      BY <2>1, <2>3, <3>2, <3>3 DEF Tells
  <2> QED
    BY <2>2, <2>3
<1>6. CarriedInv'
  <2>1. ASSUME NEW k \in 1..Len(carried) PROVE Tells(carried[k], Before(k))'
    <3>1. Tells(carried[k], Before(k))
      BY DEF CarriedInv
    <3>2. NumberedOrNone(Before(k))
      <4>1. CASE k = 1
        BY <4>1 DEF Before, ClientInv
      <4>2. CASE k # 1
        <5>1. k - 1 \in 1..Len(carried)
          BY <4>2 DEF LogTypeOK
        <5> QED
          BY <4>2, <5>1 DEF Before, CarriedInv, Tells
      <4> QED
        BY <4>1, <4>2
    <3>3. Before(k)' = Before(k) /\ carried'[k] = carried[k]
      BY DEF Before
    <3> HIDE DEF Before
    <3> QED
      BY <1>5, <3>1, <3>2, <3>3 DEF Tells
  <2>2. ASSUME follow.at = "full"
        PROVE  follow'.notice.behind /\ Tells(follow.notice, Pushed)'
    <3>1. follow.notice.behind /\ Tells(follow.notice, Pushed)
      BY <2>2 DEF CarriedInv
    <3> QED
      BY <1>1, <1>3, <1>5, <3>1 DEF Tells
  <2>3. follow'.at = "out" => carried' = <<>>
    BY DEF CarriedInv
  <2> QED
    BY <2>1, <2>3, <2>2 DEF CarriedInv
<1>7. FollowInv'
  <2>1. core' = "down" => follow'.at = "out"
    BY DEF FollowInv
  <2>2. follow'.at # "out" =>
          /\ follow'.cursor <= NumberOf(Sent)'
          /\ Running' => follow'.cursor = NumberOf(Sent)'
    BY <1>1, <1>2, <1>3 DEF FollowInv
  <2>3. ASSUME follow.at = "push"
        PROVE  /\ follow'.page # {}
               /\ \A p \in follow'.page : p \in Numbered' /\ p > Sent'
               /\ \A i \in Wanted' : i > Sent' /\ i \notin follow'.page =>
                    WillWake' /\ \A p \in follow'.page : p < i
    <3>1. \A p \in follow.page : p \in Numbered /\ p > Sent
      BY <2>3 DEF FollowInv
    <3>2. ASSUME NEW i \in Wanted', i > Sent, i \notin follow.page
          PROVE  WillWake' /\ \A p \in follow.page : p < i
      <4>1. CASE i \in Wanted
        BY <2>3, <3>2, <4>1 DEF FollowInv
      <4>2. CASE i \notin Wanted
        BY <3>1, <4>2 DEF WillWake
      <4> QED
        BY <4>1, <4>2
    <3> QED
      BY <1>1, <2>3, <3>1, <3>2 DEF FollowInv
  <2>4. ASSUME follow.at \in {"full", "wait"}, NEW i \in Wanted', i > Sent
        PROVE  WillWake'
    <3>1. CASE i \in Wanted
      BY <2>4, <3>1 DEF FollowInv
    <3>2. CASE i \notin Wanted
      BY <3>2 DEF WillWake
    <3> QED
      BY <3>1, <3>2
  <2> QED
    BY <1>1, <2>2, <2>1, <2>3, <2>4 DEF FollowInv
<1> QED
  BY <1>4, <1>6, <1>7

WorldSteps ==
    \/ TakesLock \/ Queued \/ Writes
    \/ CloseBegins \/ CloseReturns \/ Opens
    \/ \E g \in Groups : Clean(g)

LEMMA WorldStep ==
    ASSUME LogTypeOK, PipeInv, NumberInv, FollowsInv, WorldSteps
    PROVE  FollowsInv'
<1>1. UNCHANGED <<group, carried, client>>
  BY DEF WorldSteps, Writes, TakesLock, Queued, TakeFirst, Gather, StoreBatch,
         LoseBatch, TellWatchers, CloseBegins, CloseReturns, Opens, Clean,
         entryVars, followVars
<1>2. /\ follow'.at = follow.at /\ follow'.cursor = follow.cursor
      /\ follow'.page = follow.page /\ follow'.notice = follow.notice
  <2>1. CASE TellWatchers
    BY <2>1 DEF TellWatchers, LogTypeOK, Follow
  <2>2. ~TellWatchers => UNCHANGED follow
    BY DEF WorldSteps, Writes, TakesLock, Queued, TakeFirst, Gather, StoreBatch,
           LoseBatch, CloseBegins, CloseReturns, Opens, Clean, followVars
  <2> QED
    BY <2>1, <2>2
<1>3. /\ core' = "down" => core = "down"
      /\ Running' => Running \/ follow.at = "out"
  <2>1. CASE Opens
    BY <2>1 DEF Opens, FollowsInv, FollowInv
  <2>2. CASE CloseBegins \/ CloseReturns
    BY <2>2 DEF CloseBegins, CloseReturns, Running
  <2>3. CASE UNCHANGED core
    BY <2>3 DEF Running
  <2>4. Opens \/ CloseBegins \/ CloseReturns \/ UNCHANGED core
    BY DEF WorldSteps, Writes, TakesLock, Queued, TakeFirst, Gather, StoreBatch,
           LoseBatch, TellWatchers, Clean, storeVars
  <2> QED
    BY <2>2, <2>1, <2>3, <2>4
<1>4. follow.at \notin {"out", "watch"} /\ WillWake => WillWake'
  <2>1. CASE TellWatchers
    BY <2>1 DEF TellWatchers, LogTypeOK, Follow, Watching, WillWake
  <2>2. CASE writer.at = "tell" /\ ~TellWatchers
    <3>1. UNCHANGED writer
      BY <2>2 DEF WorldSteps, Writes, TakesLock, Queued, TakeFirst, Gather,
                  StoreBatch, LoseBatch, CloseBegins, CloseReturns, Opens, Clean,
                  storeVars
    <3> QED
      BY <2>2, <3>1 DEF WillWake
  <2>3. CASE writer.at # "tell"
    <3>1. UNCHANGED follow
      BY <2>3 DEF WorldSteps, Writes, TakesLock, Queued, TakeFirst, Gather,
                  StoreBatch, LoseBatch, TellWatchers, CloseBegins, CloseReturns,
                  Opens, Clean, followVars
    <3> QED
      BY <2>3, <3>1 DEF WillWake
  <2> QED
    BY <2>1, <2>3, <2>2
<1>5. CASE StoreBatch
  <2> DEFINE b == writer.batch
  <2>1. \A j \in Batched : fate[j] = "held" /\ j \in Held
    BY DEF Batched, Held, PipeInv, LogTypeOK, Writers
  <2>2. /\ \A j \in Entries \ Batched : number'[j] = number[j]
        /\ fate' = [j \in Entries |-> IF j \in Batched THEN "stored" ELSE fate[j]]
        /\ writer'.at = "tell"
    BY <1>5 DEF StoreBatch
  <2>3. \A i \in Numbered : i \in Numbered' /\ number'[i] = number[i]
    <3> SUFFICES ASSUME NEW i \in Numbered
                 PROVE  i \in Numbered' /\ number'[i] = number[i]
      OBVIOUS
    <3>1. fate[i] # "held" /\ i \in Entries
      BY DEF NumberInv, Numbered
    <3>2. i \notin Batched
      BY <2>1, <3>1
    <3> QED
      BY <2>2, <3>1, <3>2 DEF Numbered
  <2>4. ASSUME NEW i \in Wanted', i \notin Wanted
        PROVE  \A j \in Numbered : j < i
    <3>1. i \in Batched
      BY <1>1, <2>2, <2>4 DEF Wanted, Stored
    <3> QED
      BY <2>1, <3>1 DEF NumberInv
  <2> QED
    BY <1>2, <1>1, <1>3, <1>4, <2>2, <2>3, <2>4, BesideFollow
<1>6. CASE ~StoreBatch
  <2>1. number' = number
    BY <1>6 DEF WorldSteps, Writes, TakesLock, Queued, TakeFirst, Gather,
                LoseBatch, TellWatchers, CloseBegins, CloseReturns, Opens, Clean,
                entryVars
  <2>2. Stored' \subseteq Stored
    <3>1. CASE Queued
      BY <3>1 DEF Queued, Stored, LogTypeOK
    <3>2. CASE LoseBatch
      BY <3>2 DEF LoseBatch, Stored
    <3>3. ASSUME NEW g \in Groups, Clean(g) PROVE Stored' \subseteq Stored
      BY <3>3 DEF Clean, Stored
    <3>4. CASE UNCHANGED fate
      BY <3>4 DEF Stored
    <3>5. Queued \/ LoseBatch \/ (\E g \in Groups : Clean(g)) \/ UNCHANGED fate
      BY <1>6 DEF WorldSteps, Writes, TakesLock, TakeFirst, Gather, TellWatchers,
                  CloseBegins, CloseReturns, Opens, entryVars
    <3> QED
      BY <3>2, <3>1, <3>3, <3>4, <3>5
  <2>3. \A i \in Numbered : i \in Numbered' /\ number'[i] = number[i]
    BY <2>1 DEF Numbered
  <2>4. \A i \in Wanted' : i \in Wanted
    BY <1>1, <2>2 DEF Wanted
  <2> QED
    BY <1>2, <1>1, <1>3, <1>4, <2>3, <2>4, BesideFollow
<1> QED
  BY <1>5, <1>6

(* What a follow leaves alone. *)
LEMMA StoreIsTheSame ==
    ASSUME UNCHANGED <<entryVars, storeVars>>
    PROVE  /\ Numbered' = Numbered /\ Wanted' = Wanted /\ Running' = Running
           /\ number' = number /\ core' = core /\ writer' = writer
           /\ \A i : /\ NumberOf(i)' = NumberOf(i)
                     /\ NumberedOrNone(i)' = NumberedOrNone(i)
BY DEF entryVars, storeVars, Numbered, Wanted, Stored, Running, NumberOf,
       NumberedOrNone

(* Its client goes, or the store or the process does. *)
LEMMA EndsFollow ==
    ASSUME LogTypeOK, NumberInv, FollowsInv, Leaves \/ QueryFails \/ Dies
    PROVE  FollowsInv'
<1>1. /\ follow'.at = "out" /\ carried' = <<>>
      /\ number' = number /\ client' = client
  BY DEF Leaves, QueryFails, Dies, NoFollow, entryVars
<1>2. ClientInv'
  BY <1>1 DEF FollowsInv, ClientInv, NumberedOrNone, Numbered
<1>3. CarriedInv'
  BY <1>1 DEF CarriedInv
<1> QED
  BY <1>1, <1>3, <1>2 DEF FollowsInv, FollowInv

LEMMA BeginsFollow ==
    ASSUME LogTypeOK, NumberInv, FollowsInv, Begins
    PROVE  FollowsInv'
<1> USE DEF FollowsInv
<1>1. /\ Numbered' = Numbered /\ number' = number /\ core' = core
      /\ \A i : NumberOf(i)' = NumberOf(i)
      /\ carried' = carried /\ carried = <<>> /\ Running
  BY StoreIsTheSame DEF Begins, CarriedInv
<1>2. PICK i : /\ follow' = [NoFollow EXCEPT !.at = "watch",
                                             !.cursor = NumberOf(i)]
               /\ client'.told = i /\ client'.at = client.at
               /\ client'.got = client.got \/ client'.at = 0
               /\ NumberedOrNone(i)
  <2>1. ASSUME client.at = 0, NEW l \in EntryOrNone, IsLast(l)
        PROVE  NumberedOrNone(l)
    BY <2>1, LastIsAbove DEF NumberedOrNone
  <2>2. CASE client.at = 0
    BY <2>1, <2>2 DEF Begins, LogTypeOK, Clients
  <2>3. CASE client.at # 0
    <3>1. client.got \in Numbered /\ client.at = number[client.got]
      BY <2>3 DEF ClientInv
    <3>2. client.got # 0
      BY <3>1, LogAssumption DEF Numbered, Entries
    <3>3. NumberOf(client.got) = client.at
      BY <3>1, <3>2 DEF NumberOf
    <3> QED
      BY <2>3, <3>1, <3>3 DEF Begins, LogTypeOK, Clients, NumberedOrNone
  <2> QED
    BY <2>2, <2>3
<1>3. ClientInv'
  BY <1>1, <1>2 DEF ClientInv, NumberedOrNone
<1>4. follow'.at = "watch" /\ follow'.cursor = NumberOf(i)
  BY <1>2 DEF NoFollow
<1>5. CarriedInv'
  BY <1>1, <1>4 DEF CarriedInv
<1>6. Sent' = i
  BY <1>1, <1>2, <1>4 DEF Sent, Pushed
<1>7. NumberOf(i) \in Nat /\ NumberOf(Sent)' = NumberOf(i)
  BY <1>1, <1>2, <1>6, InOrder DEF NumberOf
<1>8. FollowInv'
  BY <1>1, <1>4, <1>7 DEF FollowInv, Running
<1> QED
  BY <1>3, <1>5, <1>8

(* It takes its watch, or the token of it. *)
LEMMA WatchesFollow ==
    ASSUME LogTypeOK, NumberInv, FollowsInv, Watches \/ Wakes
    PROVE  FollowsInv'
<1> USE DEF FollowsInv
<1>1. /\ follow'.at = "query" /\ follow'.cursor = follow.cursor
      /\ follow.at \in {"watch", "wait"}
      /\ UNCHANGED <<carried, client>>
  BY DEF Watches, Wakes, LogTypeOK, Follow
<1>2. /\ Numbered' = Numbered /\ Wanted' = Wanted /\ Running' = Running
      /\ number' = number /\ core' = core
  BY StoreIsTheSame DEF Watches, Wakes
<1>3. ClientInv'
  BY <1>1, <1>2 DEF ClientInv, NumberedOrNone
<1>4. CarriedInv'
  BY <1>1, <1>2 DEF CarriedInv, Tells, Before, NumberOf, NumberedOrNone
<1>5. Sent' = Sent
  BY <1>1 DEF Sent, Pushed
<1>6. NumberOf(Sent)' = NumberOf(Sent)
  BY <1>2, <1>5 DEF NumberOf
<1>7. FollowInv'
  BY <1>1, <1>2, <1>6 DEF FollowInv
<1> QED
  BY <1>3, <1>4, <1>7

(* What it selects above its cursor is what it did not tell of. *)
LEMMA QueriesFollow ==
    ASSUME LogTypeOK, NumberInv, FollowsInv, Queries
    PROVE  FollowsInv'
<1> USE DEF FollowsInv
<1>1. /\ Running /\ follow.at = "query" /\ UNCHANGED <<carried, client>>
      /\ follow'.at = (IF Selected = {} THEN "wait" ELSE "push")
      /\ follow'.page = Selected /\ follow'.cursor = follow.cursor
  BY DEF Queries, LogTypeOK, Follow
<1>2. /\ Numbered' = Numbered /\ Wanted' = Wanted /\ Running' = Running
      /\ number' = number /\ core' = core
  BY StoreIsTheSame DEF Queries
<1>3. ClientInv'
  BY <1>1, <1>2 DEF ClientInv, NumberedOrNone
<1>4. CarriedInv'
  BY <1>1, <1>2 DEF CarriedInv, Tells, Before, NumberOf, NumberedOrNone
<1>5. Sent' = Sent /\ NumberOf(Sent)' = NumberOf(Sent)
  BY <1>1, <1>2 DEF Sent, Pushed, NumberOf
<1>6. NumberedOrNone(Sent) /\ follow.cursor = NumberOf(Sent)
  BY <1>1, SentIsNumbered DEF FollowInv
<1>7. \A i : i \in Selected <=> i \in Wanted /\ i > Sent
  <2>1. \A i : i \in Selected <=> i \in Wanted /\ number[i] > NumberOf(Sent)
    BY <1>6 DEF Selected, Wanted
  <2>2. ASSUME NEW i \in Wanted PROVE number[i] > NumberOf(Sent) <=> i > Sent
    <3>1. NumberedOrNone(i) /\ NumberOf(i) = number[i]
      BY WantedIsNumbered, LogAssumption DEF NumberOf, Wanted, Stored, Entries
    <3> QED
      BY <1>6, <3>1, InOrder
  <2> QED
    BY <2>1, <2>2
<1>8. \A i \in Selected : i \in Numbered
  BY <1>7, WantedIsNumbered
<1>9. FollowInv'
  BY <1>1, <1>2, <1>5, <1>7, <1>8 DEF FollowInv
<1> QED
  BY <1>3, <1>4, <1>9

(* What is put on its way. *)
LEMMA OnItsWay ==
    ASSUME LogTypeOK, CarriedInv, UNCHANGED <<entryVars, storeVars, client>>,
           NEW n \in News, Tells(n, Pushed), carried' = Append(carried, n),
           follow'.at \notin {"full", "out"}
    PROVE  CarriedInv' /\ Pushed' = n.upto
<1>1. carried \in Seq(News)
  BY DEF LogTypeOK
<1>2. /\ Len(carried') = Len(carried) + 1 /\ carried'[Len(carried) + 1] = n
      /\ Len(carried) \in Nat /\ \A k \in 1..Len(carried) : carried'[k] = carried[k]
  BY <1>1, AtItsEnd
<1>3. Pushed' = n.upto
  <2>1. carried' # <<>>
    BY <1>1, <1>2
  <2> QED
    BY <1>2, <2>1 DEF Pushed
<1>4. /\ Numbered' = Numbered /\ Wanted' = Wanted /\ number' = number
      /\ \A i : NumberOf(i)' = NumberOf(i)
  BY StoreIsTheSame
<1>5. ASSUME NEW k \in 1..Len(carried') PROVE Tells(carried[k], Before(k))'
  <2>1. CASE k \in 1..Len(carried)
    <3>1. Tells(carried[k], Before(k)) /\ carried'[k] = carried[k]
      BY <1>2, <2>1 DEF CarriedInv
    <3>2. Before(k)' = Before(k)
      <4>1. k # 1 => k - 1 \in 1..Len(carried)
        BY <1>2, <2>1
      <4> QED
        BY <1>2, <4>1 DEF Before
    <3> QED
      BY <1>4, <3>1, <3>2 DEF Tells, NumberedOrNone, NumberOf
  <2>2. CASE k = Len(carried) + 1
    <3>1. carried'[k] = n
      BY <1>2, <2>2
    <3>2. Before(k)' = Pushed
      <4>1. CASE carried = <<>>
        BY <2>2, <4>1 DEF Before, Pushed
      <4>2. CASE carried # <<>>
        <5>1. Len(carried) \in 1..Len(carried) /\ k # 1 /\ k - 1 = Len(carried)
          BY <1>1, <1>2, <2>2, <4>2
        <5> QED
          BY <1>2, <4>2, <5>1 DEF Before, Pushed
      <4> QED
        BY <4>1, <4>2
    <3> QED
      BY <1>4, <3>1, <3>2 DEF Tells, NumberedOrNone, NumberOf
  <2> QED
    BY <1>2, <2>1, <2>2
<1> QED
  BY <1>3, <1>5 DEF CarriedInv

LEMMA PushesFollow ==
    ASSUME LogTypeOK, NumberInv, FollowsInv, Pushes
    PROVE  FollowsInv'
<1> USE DEF FollowsInv
<1>1. PICK i \in Entries :
        /\ Foremost(i)
        /\ carried' = Append(carried, [behind |-> FALSE, at |-> number[i],
                                       upto |-> i])
        /\ follow' = [follow EXCEPT !.page = follow.page \ {i},
                         !.cursor = number[i],
                         !.at = IF follow.page = {i} THEN "wait" ELSE "push"]
  BY DEF Pushes
<1> DEFINE n == [behind |-> FALSE, at |-> number[i], upto |-> i]
<1>2. /\ follow.at = "push" /\ UNCHANGED <<entryVars, storeVars, client>>
      /\ follow'.at = (IF follow.page = {i} THEN "wait" ELSE "push")
      /\ follow'.page = follow.page \ {i} /\ follow'.cursor = number[i]
      /\ follow'.woken = follow.woken
  BY <1>1 DEF Pushes, LogTypeOK, Follow
<1>3. /\ Numbered' = Numbered /\ Wanted' = Wanted /\ Running' = Running
      /\ number' = number /\ core' = core /\ writer' = writer
  BY <1>2, StoreIsTheSame
<1>4. /\ i \in follow.page /\ i \in Numbered /\ i > Sent /\ Sent = Pushed
      /\ \A p \in follow.page : p \in Numbered /\ p > Sent
                                  /\ (p # i => i < p)
  <2>1. /\ i \in follow.page /\ Sent = Pushed
        /\ \A p \in follow.page : p \in Numbered /\ p > Sent /\ number[i] <= number[p]
    BY <1>1, <1>2 DEF Foremost, FollowInv, Sent
  <2>2. ASSUME NEW p \in follow.page, p # i PROVE i < p
    <3>1. p \in Nat /\ i \in Nat /\ number[i] \in Nat /\ number[p] \in Nat
      BY <2>1 DEF Numbered, Entries, LogTypeOK
    <3>2. p < i => number[p] < number[i]
      BY <2>1 DEF NumberInv
    <3> QED
      BY <2>1, <2>2, <3>1, <3>2
  <2> QED
    BY <2>1, <2>2
<1>5. \A w \in Wanted : w > Sent => w = i \/ i < w
  <2> SUFFICES ASSUME NEW w \in Wanted, w > Sent, w # i PROVE i < w
    OBVIOUS
  <2>1. CASE w \in follow.page
    BY <1>4, <2>1
  <2>2. CASE w \notin follow.page
    BY <1>2, <1>4, <2>2 DEF FollowInv
  <2> QED
    BY <2>1, <2>2
<1>6. number[i] \in Nat /\ i \in Nat /\ i # 0 /\ NumberOf(i) = number[i]
  BY <1>1, LogAssumption DEF LogTypeOK, Entries, NumberOf
<1>7. n \in News
  BY <1>1, <1>6 DEF News, EntryOrNone, Entries
<1>8. Tells(n, Pushed)
  <2>1. ASSUME NEW w \in Wanted PROVE w <= Pushed \/ w >= i
    <3>1. w \in Nat /\ NumberedOrNone(Pushed)
      BY SentIsNumbered DEF Wanted, Stored, Entries
    <3>2. Pushed \in Nat
      BY <3>1 DEF NumberedOrNone, Numbered, Entries
    <3> QED
      BY <1>4, <1>5, <1>6, <3>1, <3>2
  <2> QED
    BY <1>4, <2>1 DEF Tells, NumberedOrNone
<1>9. CarriedInv' /\ Pushed' = i
  BY <1>1, <1>2, <1>7, <1>8, OnItsWay
<1>10. ClientInv'
  BY <1>2, <1>3 DEF ClientInv, NumberedOrNone
<1>11. Sent' = i /\ NumberOf(Sent)' = number[i]
  BY <1>2, <1>3, <1>6, <1>9 DEF Sent, NumberOf
<1>12. ASSUME NEW w \in Wanted, w > i, w \notin follow.page \ {i}
       PROVE  WillWake' /\ \A p \in follow.page : p < w
  <2>1. w \in Nat /\ NumberedOrNone(Sent)
    BY SentIsNumbered DEF Wanted, Stored, Entries
  <2>2. w > Sent /\ w \notin follow.page
    <3>1. Sent \in Nat
      BY <2>1 DEF NumberedOrNone, Numbered, Entries
    <3> QED
      BY <1>4, <1>6, <1>12, <2>1, <3>1
  <2> QED
    BY <1>2, <1>3, <2>2 DEF FollowInv, WillWake
<1>13. FollowInv'
  <2>1. core' = "down" => follow'.at = "out"
    BY <1>2, <1>3 DEF FollowInv
  <2>2. follow'.cursor = NumberOf(Sent)'
    BY <1>2, <1>11
  <2>3. follow'.cursor <= NumberOf(Sent)'
    BY <1>6, <1>11, <2>2
  <2>4. follow'.at = "push" => follow'.page # {}
    BY <1>2, <1>4
  <2>5. \A p \in follow'.page : p \in Numbered' /\ p > Sent'
    BY <1>2, <1>3, <1>4, <1>11
  <2>6. \A w \in Wanted' : w > Sent' /\ w \notin follow'.page =>
          WillWake' /\ \A p \in follow'.page : p < w
    BY <1>2, <1>3, <1>11, <1>12
  <2>7. follow'.at = "wait" => \A w \in Wanted' : w > Sent' => WillWake'
    BY <1>2, <1>3, <1>11, <1>12
  <2>8. follow'.at \in {"push", "wait"}
    BY <1>2
  <2> QED
    BY <2>2, <2>1, <2>3, <2>4, <2>5, <2>7, <2>6, <2>8 DEF FollowInv
<1> QED
  BY <1>9, <1>10, <1>13

LEMMA GivesUpFollow ==
    ASSUME LogTypeOK, NumberInv, FollowsInv, GivesUp
    PROVE  FollowsInv'
<1> USE DEF FollowsInv
<1>1. PICK l \in EntryOrNone :
        /\ IsLast(l)
        /\ follow' = [follow EXCEPT
                         !.at = "full", !.page = {},
                         !.cursor = IF Running THEN NumberOf(l) ELSE follow.cursor,
                         !.notice = [behind |-> TRUE, at |-> follow.cursor,
                                     upto |-> l]]
  BY DEF GivesUp
<1>2. /\ follow.at = "push" /\ UNCHANGED <<entryVars, storeVars, carried, client>>
      /\ follow'.at = "full"
      /\ follow'.cursor = (IF Running THEN NumberOf(l) ELSE follow.cursor)
      /\ follow'.notice = [behind |-> TRUE, at |-> follow.cursor, upto |-> l]
  BY <1>1 DEF GivesUp, LogTypeOK, Follow
<1>3. /\ Numbered' = Numbered /\ Wanted' = Wanted /\ Running' = Running
      /\ number' = number /\ core' = core
      /\ \A i : NumberOf(i)' = NumberOf(i)
  BY <1>2, StoreIsTheSame
<1>4. NumberedOrNone(l) /\ \A i \in Numbered : i <= l
  BY <1>1, LastIsAbove DEF NumberedOrNone
<1>5. Pushed' = Pushed /\ Sent = Pushed /\ Sent' = l
  BY <1>2 DEF Pushed, Sent
<1>6. NumberedOrNone(Sent) /\ Sent <= l
  <2>1. NumberedOrNone(Sent)
    BY SentIsNumbered
  <2>2. l \in Nat
    BY <1>4 DEF NumberedOrNone, Numbered, Entries
  <2> QED
    BY <1>4, <2>1, <2>2 DEF NumberedOrNone
<1>7. /\ NumberOf(Sent) \in Nat /\ NumberOf(l) \in Nat /\ follow.cursor \in Nat
      /\ NumberOf(Sent) <= NumberOf(l) /\ follow.cursor <= NumberOf(Sent)
  BY <1>2, <1>4, <1>6, InOrder DEF FollowInv, LogTypeOK, Follow
<1>8. ClientInv'
  BY <1>2, <1>3 DEF ClientInv, NumberedOrNone
<1>9. CarriedInv'
  <2>1. ASSUME NEW k \in 1..Len(carried) PROVE Tells(carried[k], Before(k))'
    <3>1. Tells(carried[k], Before(k)) /\ Before(k)' = Before(k)
      BY <1>2 DEF CarriedInv, Before
    <3> QED
      BY <1>2, <1>3, <3>1 DEF Tells, NumberedOrNone, NumberOf
  <2>2. follow'.notice.behind /\ Tells(follow.notice, Pushed)'
    BY <1>2, <1>4, <1>3, <1>5, <1>7 DEF Tells, NumberedOrNone, NumberOf
  <2> QED
    BY <1>2, <2>1, <2>2 DEF CarriedInv
<1>10. NumberOf(Sent)' = NumberOf(l)
  BY <1>3, <1>5 DEF NumberOf
<1>11. ASSUME NEW w \in Wanted PROVE ~(w > l)
  BY <1>4, WantedIsNumbered, LogAssumption
     DEF NumberedOrNone, Numbered, Wanted, Stored, Entries
<1>12. FollowInv'
  BY <1>2, <1>3, <1>5, <1>7, <1>10, <1>11 DEF FollowInv
<1> QED
  BY <1>8, <1>9, <1>12

LEMMA TellsFollow ==
    ASSUME LogTypeOK, NumberInv, FollowsInv, TellsBehind
    PROVE  FollowsInv'
<1> USE DEF FollowsInv
<1>1. /\ follow.at = "full" /\ UNCHANGED <<entryVars, storeVars, client>>
      /\ carried' = Append(carried, follow.notice)
      /\ follow'.at = "wait" /\ follow'.cursor = follow.cursor
      /\ follow'.woken = follow.woken /\ follow.notice \in News
  BY DEF TellsBehind, LogTypeOK, Follow
<1>2. /\ Numbered' = Numbered /\ Wanted' = Wanted /\ Running' = Running
      /\ number' = number /\ core' = core /\ writer' = writer
  BY <1>1, StoreIsTheSame
<1>3. Tells(follow.notice, Pushed)
  BY <1>1 DEF CarriedInv
<1>4. CarriedInv' /\ Pushed' = follow.notice.upto
  BY <1>1, <1>3, OnItsWay
<1>5. ClientInv'
  BY <1>1, <1>2 DEF ClientInv, NumberedOrNone
<1>6. Sent' = Sent /\ NumberOf(Sent)' = NumberOf(Sent)
  BY <1>1, <1>2, <1>4 DEF Sent, NumberOf
<1>7. FollowInv'
  BY <1>1, <1>2, <1>6 DEF FollowInv, WillWake
<1> QED
  BY <1>4, <1>5, <1>7

LEMMA ReceivesFollow ==
    ASSUME LogTypeOK, NumberInv, FollowsInv, Receives
    PROVE  FollowsInv'
<1> USE DEF FollowsInv
<1>1. carried # <<>> /\ carried \in Seq(News)
  BY DEF Receives, LogTypeOK
<1>2. /\ Head(carried) = carried[1] /\ carried' = Tail(carried)
      /\ Len(carried) \in Nat \ {0} /\ Len(carried') = Len(carried) - 1
      /\ \A k \in 1..Len(carried') : carried'[k] = carried[k + 1]
  BY <1>1, HeadOfQueue DEF Receives
<1> DEFINE n == carried[1]
<1>3. /\ UNCHANGED <<entryVars, storeVars, follow>>
      /\ n.behind => /\ client'.told = n.upto /\ client'.at = client.at
                     /\ client'.got = client.got
      /\ ~n.behind => /\ client'.told = n.upto /\ client'.got = n.upto
                      /\ client'.at = n.at
  BY <1>2 DEF Receives, LogTypeOK, Clients
<1>4. Tells(n, client.told)
  <2>1. 1 \in 1..Len(carried)
    BY <1>2
  <2> QED
    BY <2>1 DEF CarriedInv, Before
<1>5. /\ Numbered' = Numbered /\ Wanted' = Wanted /\ Running' = Running
      /\ number' = number /\ core' = core /\ writer' = writer
  BY <1>3, StoreIsTheSame
<1>6. ClientInv'
  BY <1>3, <1>4, <1>5 DEF ClientInv, Tells, NumberedOrNone
<1>7. Pushed' = Pushed
  <2>1. CASE carried' = <<>>
    <3>1. Len(carried) - 1 = 0
      <4>1. Len(carried') = Len(carried) - 1
        BY <1>2
      <4>2. Len(carried') = 0
        BY <2>1
      <4> QED
        BY <4>1, <4>2
    <3>2. Len(carried) = 1
      <4>1. Len(carried) \in Nat
        BY <1>1
      <4> QED
        BY <3>1, <4>1
    <3>3. client'.told = carried[1].upto
      BY <1>3
    <3>4. Pushed = carried[1].upto
      BY <1>1, <3>2 DEF Pushed
    <3>5. Pushed' = client'.told
      BY <2>1 DEF Pushed
    <3> QED
      BY <3>3, <3>4, <3>5
  <2>2. CASE carried' # <<>>
    <3>1. Len(carried') \in 1..Len(carried') /\ Len(carried') + 1 = Len(carried)
      BY <1>1, <1>2, <2>2
    <3> QED
      BY <1>1, <1>2, <2>2, <3>1 DEF Pushed
  <2> QED
    BY <2>1, <2>2
<1>8. ASSUME NEW k \in 1..Len(carried') PROVE Tells(carried[k], Before(k))'
  <2>1. k + 1 \in 1..Len(carried) /\ k \in Nat /\ k >= 1
    BY <1>2
  <2>2. Tells(carried[k + 1], Before(k + 1)) /\ carried'[k] = carried[k + 1]
    BY <1>2, <2>1 DEF CarriedInv
  <2>3. Before(k)' = Before(k + 1)
    <3>1. CASE k = 1
      BY <1>3, <3>1 DEF Before
    <3>2. CASE k # 1
      <4>1. k - 1 \in 1..Len(carried') /\ (k - 1) + 1 = k /\ (k + 1) - 1 = k
            /\ k + 1 # 1
        BY <1>2, <2>1, <3>2
      <4>2. carried'[k - 1] = carried[k]
        BY <1>2, <4>1
      <4> QED
        BY <3>2, <4>1, <4>2 DEF Before
    <3> QED
      BY <3>1, <3>2
  <2> QED
    BY <1>5, <2>2, <2>3 DEF Tells, NumberedOrNone, NumberOf
<1>9. CarriedInv'
  <2>1. follow.at = "full" => follow'.notice.behind /\ Tells(follow.notice, Pushed)'
    BY <1>3, <1>5, <1>7 DEF CarriedInv, Tells, NumberedOrNone, NumberOf
  <2>2. follow.at # "out"
    BY <1>1 DEF CarriedInv
  <2> QED
    BY <1>3, <1>8, <2>1, <2>2 DEF CarriedInv
<1>10. Sent' = Sent /\ NumberOf(Sent)' = NumberOf(Sent)
  BY <1>3, <1>5, <1>7 DEF Sent, NumberOf
<1>11. FollowInv'
  BY <1>3, <1>5, <1>10 DEF FollowInv, WillWake
<1> QED
  BY <1>6, <1>9, <1>11

--------------------------------------------------------------------------------
(* The invariant, and what follows from it. *)

LEMMA InitLog == LogInit => LogInv
<1> SUFFICES ASSUME LogInit PROVE LogInv
  OBVIOUS
<1>1. ClientInv /\ CarriedInv /\ FollowInv
  BY DEF LogInit, NoFollow, ClientInv, NumberedOrNone, CarriedInv, FollowInv
<1> QED
  BY <1>1, InitType, InitPipe, InitNumber DEF LogInv

LEMMA LogStep == ASSUME LogInv, ~TakesLast, [LogNext]_logVars PROVE LogInv'
<1> USE DEF LogInv
<1>1. LogTypeOK' /\ PipeInv' /\ NumberInv'
  BY TypeStep, PipeStep, NumberStep
<1>2. FollowsInv
  BY DEF FollowsInv
<1>3. CASE UNCHANGED logVars
  <2>1. UNCHANGED <<group, fate, number, core, writer, follow, carried, client>>
    BY <1>3 DEF logVars, entryVars, storeVars, followVars
  <2>2. /\ core' = "down" => core = "down"
        /\ Running' => Running \/ follow.at = "out"
        /\ WillWake => WillWake'
        /\ \A i \in Numbered : i \in Numbered' /\ number'[i] = number[i]
        /\ \A i \in Wanted' : i \in Wanted
    BY <2>1 DEF Running, WillWake, Numbered, Wanted, Stored
  <2> QED
    BY <1>1, <1>2, <2>1, <2>2, BesideFollow DEF FollowsInv
<1>4. LogNext => FollowsInv'
  <2>1. WorldSteps => FollowsInv'
    BY <1>2, WorldStep
  <2> QED
    BY <1>2, <2>1, EndsFollow, BeginsFollow, WatchesFollow, QueriesFollow,
       PushesFollow, GivesUpFollow, TellsFollow, ReceivesFollow
       DEF LogNext, Pages, WorldSteps
<1> QED
  BY <1>1, <1>3, <1>4 DEF FollowsInv

LEMMA LogAlways == ASSUME ~TakesLast PROVE LogSpec => []LogInv
<1>1. LogInv /\ [LogNext]_logVars => LogInv'
  BY LogStep
<1> QED
  BY <1>1, InitLog, PTL DEF LogSpec

(* A follow that sleeps has pushed every entry it selects, where retention *)
(* leaves the newest row (logFollow, and the watch it takes first).        *)
THEOREM PushesAllWritten ==
    ASSUME ~TakesLast PROVE LogSpec => []PushedAsWritten
<1>1. LogInv => PushedAsWritten
  <2> SUFFICES ASSUME LogInv, follow.at = "wait", ~follow.woken, carried = <<>>,
                      writer.at # "tell", NEW i \in Stored, group[i] \in Follows
               PROVE  i <= client.told
    BY DEF PushedAsWritten
  <2>1. Sent = client.told /\ i \in Wanted /\ ~WillWake
    BY DEF Sent, Pushed, Wanted, WillWake
  <2>2. i \in Nat /\ client.told \in Nat
    BY LogAssumption DEF LogInv, LogTypeOK, Clients, EntryOrNone, Stored, Entries
  <2> QED
    BY <2>1, <2>2 DEF LogInv, FollowInv
<1> QED
  BY <1>1, LogAlways, PTL

(* Whatever a client is sent, what it was not sent before is above it, or  *)
(* above the number it is told it was current to (logFollow's notice).     *)
THEOREM SkipsNothing ==
    ASSUME ~TakesLast PROVE LogSpec => NothingSkipped
<1> DEFINE Untold(i) ==
      \/ group[i] \notin Follows \/ i <= client.told
      \/ IF Head(carried).behind THEN number[i] > Head(carried).at
                                ELSE i >= client'.told
<1>1. ASSUME LogInv, Receives, NEW i \in Stored PROVE Untold(i)
  <2>1. CASE group[i] \notin Follows \/ i <= client.told
    BY <2>1
  <2>2. CASE group[i] \in Follows /\ ~(i <= client.told)
    <3>1. carried # <<>> /\ carried \in Seq(News)
      BY <1>1 DEF Receives, LogInv, LogTypeOK
    <3>2. Head(carried) = carried[1] /\ 1 \in 1..Len(carried)
      BY <3>1, HeadOfQueue
    <3>3. Tells(carried[1], client.told)
      BY <1>1, <3>2 DEF LogInv, CarriedInv, Before
    <3>4. i \in Wanted /\ NumberedOrNone(i) /\ NumberOf(i) = number[i]
      BY <1>1, <2>2, WantedIsNumbered, LogAssumption
         DEF LogInv, Wanted, NumberOf, Stored, Entries
    <3>5. CASE carried[1].behind
      <4>1. NumberedOrNone(client.told)
        BY <1>1 DEF LogInv, ClientInv
      <4>2. client.told < i /\ NumberOf(client.told) < NumberOf(i)
        BY <1>1, <2>2, <3>4, <4>1, InOrder DEF LogInv
      <4>3. NumberOf(client.told) \in Nat /\ NumberOf(i) \in Nat
        BY <1>1, <3>4, <4>1, InOrder DEF LogInv
      <4>4. carried[1].at <= NumberOf(client.told)
        BY <3>3, <3>5 DEF Tells
      <4>5. carried[1].at \in Nat
        <5>1. carried[1] \in News
          BY <3>1, <3>2
        <5> QED
          BY <5>1 DEF News
      <4> QED
        BY <3>2, <3>4, <3>5, <4>2, <4>4, <4>3, <4>5
    <3>6. CASE ~carried[1].behind
      <4>1. client'.told = carried[1].upto
        BY <1>1, <3>2, <3>6 DEF Receives
      <4> QED
        BY <2>2, <3>2, <3>3, <3>4, <3>6, <4>1 DEF Tells
    <3> QED
      BY <3>5, <3>6
  <2> QED
    BY <2>1, <2>2
<1>2. LogInv => (Receives => \A i \in Stored : Untold(i))
  BY <1>1
<1> QED
  BY <1>2, LogAlways, PTL DEF NothingSkipped

================================================================================
