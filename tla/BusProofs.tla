-------------------------------- MODULE BusProofs --------------------------------
(***************************************************************************)
(* Bus, for any subjects, subscribers, filters and bounds: what a client   *)
(* is handed is the next its filter selects, and the picture of a client   *)
(* that was told everything is true.                                       *)
(*                                                                         *)
(* The invariant has three parts.  The queue of a subscription holds, in   *)
(* order and up to its last, every number its filter selects above what    *)
(* its client was told, and all there are while it is listed and lost      *)
(* none.  The last change the log holds of a subject that has none pending *)
(* is its record.  And a client's picture of a subject is its record,      *)
(* unless a change above what it was told says otherwise.                  *)
(***************************************************************************)
EXTENDS Bus, TLAPS

ChangeOf(n, x) == log[n] \in Changes /\ log[n].of = x

(* What the client of s is still to be told. *)
Untold(s) == (reader[s].told + 1)..Last

Ordered(s) ==
    /\ \A i \in 1..Len(sub[s].queue) :
         sub[s].queue[i] \in Untold(s) /\ SelectedBy(s, sub[s].queue[i])
    /\ \A i, j \in 1..Len(sub[s].queue) :
         i < j => sub[s].queue[i] < sub[s].queue[j]

Complete(s) ==
    /\ \A i \in 1..Len(sub[s].queue) : \A n \in Untold(s) :
         n <= sub[s].queue[i] /\ SelectedBy(s, n) =>
             \E j \in 1..i : sub[s].queue[j] = n
    /\ sub[s].listed /\ ~sub[s].lost =>
         \A n \in Untold(s) : SelectedBy(s, n) =>
             \E j \in 1..Len(sub[s].queue) : sub[s].queue[j] = n

Standing(s) ==
    /\ reader[s].told <= Last
    /\ reader[s].at = "out" =>
         sub[s].queue = <<>> /\ ~sub[s].lost /\ ~sub[s].listed
    /\ reader[s].at = "retake" => sub[s].queue = <<>> /\ sub[s].lost
    /\ reader[s].at \in {"look", "wait", "retake"} => reader[s].left = {}

QueueInv(s) == Standing(s) /\ Ordered(s) /\ Complete(s)

LogInv ==
    \A x \in Subjects \ pending : \A n \in 1..Last :
        ChangeOf(n, x) /\ (\A m \in (n + 1)..Last : ~ChangeOf(m, x)) =>
            log[n].to = record[x]

PictureInv(s) ==
    \A x \in Subjects \ pending :
        /\ reader[s].at # "out" /\ x \notin reader[s].left /\ Wholly(s, x)
        /\ \A n \in Untold(s) : ~ChangeOf(n, x)
        => reader[s].picture[x] = record[x]

Inv == BusTypeOK /\ (\A s \in Subs : QueueInv(s)) /\ LogInv
       /\ (\A s \in Subs : PictureInv(s))

--------------------------------------------------------------------------------
(* What a publication does to a subscription is offered, or nothing. *)
LEMMA OfferedType ==
    ASSUME NEW q \in Subscriptions, NEW n \in Seqs
    PROVE  Offered(q, n) \in Subscriptions
<1>1. q.queue \in Seq(Seqs) /\ Append(q.queue, n) \in Seq(Seqs)
  BY DEF Subscriptions
<1>2. [q EXCEPT !.lost = TRUE, !.wake = TRUE] \in Subscriptions
  BY DEF Subscriptions
<1>3. [q EXCEPT !.queue = Append(@, n), !.wake = TRUE] \in Subscriptions
  BY <1>1 DEF Subscriptions
<1> QED
  BY <1>2, <1>3 DEF Offered

LEMMA PublishType ==
    ASSUME BusTypeOK, NEW e \in Events, Publish(e)
    PROVE  /\ log' \in Seq(Events) /\ Len(log') <= MaxSeq
           /\ Last' = Last + 1 /\ Last + 1 \in Seqs
           /\ sub' \in [Subs -> Subscriptions]
<1>1. Last \in Nat /\ Last + 1 \in Seqs
  BY NumbersAssumption DEF BusTypeOK, Publish, Last, Seqs
<1>2. log' = Append(log, e) /\ log \in Seq(Events)
  BY DEF BusTypeOK, Publish
<1>3. log' \in Seq(Events) /\ Len(log') = Len(log) + 1
  BY <1>2
<1>4. ASSUME NEW s \in Subs PROVE Offered(sub[s], Last + 1) \in Subscriptions
  BY <1>1, OfferedType DEF BusTypeOK
<1>5. sub' \in [Subs -> Subscriptions]
  BY <1>4 DEF Publish, BusTypeOK
<1> QED
  BY <1>1, <1>3, <1>5, NumbersAssumption DEF Last, Publish

LEMMA TypeStep == ASSUME BusTypeOK, [BusNext]_busVars PROVE BusTypeOK'
<1> USE DEF BusTypeOK
<1>1. ASSUME NEW x \in Subjects, Change(x) PROVE BusTypeOK'
  BY <1>1 DEF Change
<1>2. ASSUME NEW x \in Subjects, PublishChange(x) PROVE BusTypeOK'
  <2>1. [of |-> x, to |-> record[x]] \in Events
    BY DEF Events, Changes
  <2> QED BY <1>2, <2>1, PublishType DEF PublishChange
<1>3. ASSUME NEW e \in Occurrences, Occur(e) PROVE BusTypeOK'
  BY <1>3, PublishType DEF Occur, Events
<1>4. ASSUME NEW s \in Subs, Subscribe(s) PROVE BusTypeOK'
  <2>1. Last \in SeqOrNone BY NumbersAssumption DEF Last, SeqOrNone
  <2>2. [reader[s] EXCEPT !.at = "assemble", !.told = Last, !.left = Subjects]
          \in Readers
    BY <2>1 DEF Readers
  <2>3. reader' \in [Subs -> Readers] BY <1>4, <2>2 DEF Subscribe
  <2>4. sub' \in [Subs -> Subscriptions] BY <1>4 DEF Subscribe, Subscriptions
  <2> QED BY <1>4, <2>3, <2>4 DEF Subscribe
<1>5. ASSUME NEW s \in Subs, NEW x \in Subjects, Assemble(s, x) PROVE BusTypeOK'
  BY <1>5 DEF Assemble, Readers
<1>6. ASSUME NEW s \in Subs, Send(s) \/ Ended(s) \/ NothingYet(s) \/ ClientLeaves(s)
               \/ SeesLoss(s)
      PROVE BusTypeOK'
  <2>1. PICK a \in {"look", "retake", "wait", "done"} :
          /\ reader' = [reader EXCEPT ![s].at = a]
          /\ UNCHANGED <<log, record, pending, sub>>
    BY <1>6, Zenon DEF Send, Ended, NothingYet, ClientLeaves, SeesLoss
  <2>2. [reader[s] EXCEPT !.at = a] \in Readers
    BY DEF Readers
  <2>3. reader' \in [Subs -> Readers]
    BY <2>1, <2>2
  <2> QED BY <2>1, <2>3
<1>7. ASSUME NEW s \in Subs, Deliver(s) PROVE BusTypeOK'
  <2> DEFINE n == Head(sub[s].queue)
  <2>1. sub[s].queue \in Seq(Seqs) /\ sub[s].queue # <<>>
    BY <1>7 DEF Deliver, Subscriptions
  <2>2. n \in Seqs /\ Tail(sub[s].queue) \in Seq(Seqs)
    BY <2>1
  <2>3. n \in SeqOrNone BY <2>2, NumbersAssumption DEF Seqs, SeqOrNone
  <2>4. ASSUME NEW e, NEW p \in [Subjects -> Values]
        PROVE Pictured(p, e) \in [Subjects -> Values]
    BY DEF Pictured, Changes
  <2>5. reader[s].picture \in [Subjects -> Values] BY DEF Readers
  <2>6. Pictured(reader[s].picture, log[n]) \in [Subjects -> Values]
    BY <2>4, <2>5
  <2>7. reader' \in [Subs -> Readers]
    <3> HIDE DEF n
    <3>1. [reader[s] EXCEPT !.told = n,
                            !.picture = Pictured(reader[s].picture, log[n])]
            \in Readers
      BY <2>3, <2>6 DEF Readers
    <3>2. reader' = [reader EXCEPT ![s] =
                       [reader[s] EXCEPT !.told = n,
                          !.picture = Pictured(reader[s].picture, log[n])]]
      BY <1>7 DEF Deliver, n
    <3> QED BY <3>1, <3>2
  <2>8. sub' \in [Subs -> Subscriptions]
    BY <1>7, <2>2 DEF Deliver, Subscriptions
  <2> QED BY <1>7, <2>7, <2>8 DEF Deliver
<1>8. ASSUME NEW s \in Subs, Retake(s) PROVE BusTypeOK'
  <2>1. Last \in SeqOrNone BY NumbersAssumption DEF Last, SeqOrNone
  <2>2. [reader[s] EXCEPT !.at = "assemble", !.told = Last, !.left = Subjects]
          \in Readers
    BY <2>1 DEF Readers
  <2>3. reader' \in [Subs -> Readers] BY <1>8, <2>2 DEF Retake
  <2>4. sub' \in [Subs -> Subscriptions] BY <1>8 DEF Retake, Subscriptions
  <2> QED BY <1>8, <2>3, <2>4 DEF Retake
<1>9. ASSUME NEW s \in Subs, Woken(s) PROVE BusTypeOK'
  <2>1. [reader[s] EXCEPT !.at = "look"] \in Readers BY DEF Readers
  <2>2. [sub[s] EXCEPT !.wake = FALSE] \in Subscriptions BY DEF Subscriptions
  <2>3. reader' \in [Subs -> Readers] BY <1>9, <2>1 DEF Woken
  <2>4. sub' \in [Subs -> Subscriptions] BY <1>9, <2>2 DEF Woken
  <2> QED BY <1>9, <2>3, <2>4 DEF Woken
<1>10. ASSUME NEW s \in Subs, Unlist(s) \/ MarkClosed(s) PROVE BusTypeOK'
  <2>1. /\ [sub[s] EXCEPT !.listed = FALSE] \in Subscriptions
        /\ [sub[s] EXCEPT !.closed = TRUE, !.wake = TRUE] \in Subscriptions
    BY DEF Subscriptions
  <2>2. sub' \in [Subs -> Subscriptions]
    BY <1>10, <2>1 DEF Unlist, MarkClosed
  <2> QED BY <1>10, <2>2 DEF Unlist, MarkClosed
<1>11. CASE UNCHANGED busVars
  BY <1>11 DEF busVars
<1> QED
  BY <1>2, <1>1, <1>3, <1>4, <1>5, <1>7, <1>6, <1>8, <1>9, <1>10, <1>11
     DEF BusNext, Serve

(* Every state has the type its handlers declare. *)
THEOREM TypeCorrect == BusSpec => []BusTypeOK
<1>1. BusInit => BusTypeOK
  <2>1. <<>> \in Seq(Events) /\ <<>> \in Seq(Seqs) /\ Len(<<>>) = 0 OBVIOUS
  <2> QED
    BY <2>1, NumbersAssumption
       DEF BusInit, BusTypeOK, Unopened, Subscriptions, Readers, SeqOrNone
<1> QED
  BY <1>1, TypeStep, PTL DEF BusSpec

--------------------------------------------------------------------------------
(* The queue.                                                              *)

(* Nothing of a subscription changes where neither it, its reader nor the  *)
(* log does.                                                               *)
LEMMA QueueUntouched ==
    ASSUME NEW s \in Subs, QueueInv(s), log' = log,
           sub'[s] = sub[s], reader'[s] = reader[s]
    PROVE  QueueInv(s)'
BY DEF QueueInv, Standing, Ordered, Complete, Untold, SelectedBy, Last

(* A reader that moves on, told of nothing, and no closer to a loss. *)
LEMMA QueueMoves ==
    ASSUME NEW s \in Subs, QueueInv(s), log' = log,
           sub'[s].queue = sub[s].queue, sub'[s].lost = sub[s].lost,
           sub'[s].listed => sub[s].listed,
           reader'[s].told = reader[s].told,
           reader[s].at # "out", reader'[s].at # "out",
           reader'[s].at = "retake" => sub[s].queue = <<>> /\ sub[s].lost,
           reader'[s].at \in {"look", "wait", "retake"} => reader'[s].left = {}
    PROVE  QueueInv(s)'
BY DEF QueueInv, Standing, Ordered, Complete, Untold, SelectedBy, Last

LEMMA QueuePublish ==
    ASSUME BusTypeOK, NEW e \in Events, Publish(e), UNCHANGED reader,
           NEW s \in Subs, QueueInv(s)
    PROVE  QueueInv(s)'
<1> DEFINE q == sub[s].queue
           t == reader[s].told
<1>1. /\ q \in Seq(Seqs) /\ Len(q) \in Nat
      /\ t \in Nat /\ Last \in Nat /\ Last' = Last + 1 /\ t <= Last
      /\ sub[s].lost \in BOOLEAN /\ sub[s].listed \in BOOLEAN
      /\ Last + 1 \in Seqs /\ Bound \in Nat \ {0}
  BY PublishType, NumbersAssumption
     DEF BusTypeOK, Subscriptions, Readers, SeqOrNone, QueueInv, Standing, Last
<1>2. /\ \A n \in 1..Last : log'[n] = log[n]
      /\ log'[Last + 1] = e
  BY <1>1 DEF Publish, BusTypeOK, Last
<1>3. /\ \A n \in 1..Last : log'[n] \in Selects[s] <=> SelectedBy(s, n)
      /\ log'[Last + 1] \in Selects[s] <=> e \in Selects[s]
  BY <1>2 DEF SelectedBy
<1>4. Untold(s)' = Untold(s) \cup {Last + 1} /\ Untold(s) \subseteq 1..Last
  BY <1>1 DEF Untold
<1>5. sub'[s] = IF sub[s].listed /\ e \in Selects[s]
                THEN Offered(sub[s], Last + 1) ELSE sub[s]
  BY DEF Publish
<1>6. CASE sub[s].listed /\ e \in Selects[s] /\ Len(q) < Bound /\ ~sub[s].lost
  <2> DEFINE r == Append(q, Last + 1)
  <2>1. /\ sub'[s].queue = r /\ sub'[s].lost = sub[s].lost
        /\ sub'[s].listed = sub[s].listed
    <3>1. sub'[s] = [sub[s] EXCEPT !.queue = r, !.wake = TRUE]
      BY <1>1, <1>5, <1>6 DEF Offered
    <3>2. sub[s] \in Subscriptions BY DEF BusTypeOK
    <3> QED BY <3>1, <3>2 DEF Subscriptions
  <2>2. /\ Len(r) = Len(q) + 1 /\ r[Len(q) + 1] = Last + 1
        /\ \A i \in 1..Len(q) : r[i] = q[i]
    BY <1>1
  <2>3. Standing(s)'
    BY <1>1, <1>6, <2>1 DEF QueueInv, Standing
  <2>4. Ordered(s)'
    <3>1. \A i \in 1..Len(r) : r[i] \in Untold(s)' /\ log'[r[i]] \in Selects[s]
      BY <1>1, <1>3, <1>4, <1>6, <2>2 DEF QueueInv, Ordered
    <3>2. \A i \in 1..Len(q) : q[i] <= Last
      BY <1>1, <1>4 DEF QueueInv, Ordered
    <3>3. \A i, j \in 1..Len(r) : i < j => r[i] < r[j]
      <4> SUFFICES ASSUME NEW i \in 1..Len(r), NEW j \in 1..Len(r), i < j
                   PROVE  r[i] < r[j]
        OBVIOUS
      <4>1. i \in 1..Len(q) /\ r[i] = q[i] BY <1>1, <2>2
      <4>2. CASE j \in 1..Len(q)
        <5>1. q[i] < q[j] BY <4>1, <4>2 DEF QueueInv, Ordered
        <5> QED BY <5>1, <4>1, <4>2, <2>2
      <4>3. CASE j = Len(q) + 1
        <5>1. q[i] \in Untold(s) BY <4>1 DEF QueueInv, Ordered
        <5> QED BY <5>1, <4>1, <4>3, <2>2, <3>2, <1>1 DEF Untold
      <4> QED BY <4>2, <4>3, <1>1, <2>2
    <3> QED BY <2>1, <3>1, <3>3 DEF Ordered, SelectedBy
  <2>5. \A n \in Untold(s)' : log'[n] \in Selects[s] =>
            \E j \in 1..Len(r) : r[j] = n
    <3>1. \A n \in Untold(s) : SelectedBy(s, n) =>
            \E j \in 1..Len(q) : q[j] = n
      BY <1>6 DEF QueueInv, Complete
    <3>2. SUFFICES ASSUME NEW n \in Untold(s)', log'[n] \in Selects[s]
                   PROVE  \E j \in 1..Len(r) : r[j] = n
      OBVIOUS
    <3>3. CASE n = Last + 1
      <4>1. Len(q) + 1 \in 1..Len(r) BY <1>1, <2>2
      <4> QED BY <3>3, <4>1, <2>2
    <3>4. CASE n \in Untold(s)
      <4>1. SelectedBy(s, n) BY <1>3, <1>4, <3>2, <3>4
      <4>2. PICK j \in 1..Len(q) : q[j] = n BY <3>1, <3>4, <4>1
      <4>3. j \in 1..Len(r) BY <1>1, <2>2
      <4> QED BY <4>2, <4>3, <2>2
    <3> QED BY <1>4, <3>2, <3>3, <3>4
  <2>6. ASSUME NEW i \in 1..Len(r), NEW n \in Untold(s)', n <= r[i],
               log'[n] \in Selects[s]
        PROVE  \E j \in 1..i : r[j] = n
    <3>1. PICK j \in 1..Len(r) : r[j] = n BY <2>5, <2>6
    <3>2. j <= i
      <4>1. i < j => r[i] < r[j]
        BY <2>1, <2>4 DEF Ordered
      <4>2. r[i] \in Nat /\ r[j] \in Nat
        <5>1. r \in Seq(Seqs) BY <1>1
        <5>2. r[i] \in Seqs /\ r[j] \in Seqs BY <5>1
        <5> QED BY <5>2, NumbersAssumption DEF Seqs
      <4> QED BY <2>6, <3>1, <4>1, <4>2, <2>2, <1>1
    <3> QED BY <3>1, <3>2, <2>2, <1>1
  <2>7. Complete(s)'
    BY <2>1, <2>5, <2>6 DEF Complete, SelectedBy
  <2> QED BY <2>3, <2>4, <2>7 DEF QueueInv
<1>7. CASE ~(sub[s].listed /\ e \in Selects[s] /\ Len(q) < Bound /\ ~sub[s].lost)
  <2>1. /\ sub'[s].queue = q /\ sub'[s].listed = sub[s].listed
        /\ sub[s].lost => sub'[s].lost
        /\ sub'[s].lost => sub[s].lost \/ (sub[s].listed /\ Len(q) >= Bound)
        /\ sub[s].listed /\ e \in Selects[s] => sub'[s].lost
    BY <1>1, <1>5, <1>7 DEF Offered, BusTypeOK, Subscriptions
  <2>2. \A i \in 1..Len(q) : q[i] \in Untold(s) /\ q[i] <= Last
    BY <1>1, <1>4 DEF QueueInv, Ordered
  <2>3. Standing(s)'
    BY <1>1, <2>1 DEF QueueInv, Standing
  <2>4. Ordered(s)'
    <3>1. \A i \in 1..Len(q) : q[i] \in Untold(s)' /\ log'[q[i]] \in Selects[s]
      BY <1>1, <1>3, <1>4, <2>2 DEF QueueInv, Ordered
    <3> QED BY <2>1, <3>1 DEF QueueInv, Ordered, SelectedBy
  <2>5. ASSUME NEW i \in 1..Len(q), NEW n \in Untold(s)', n <= q[i],
               log'[n] \in Selects[s]
        PROVE  \E j \in 1..i : q[j] = n
    <3>1. n \in Untold(s)
      BY <1>1, <1>4, <2>2, <2>5
    <3>2. SelectedBy(s, n)
      BY <1>3, <1>4, <2>5, <3>1
    <3> QED BY <2>5, <3>1, <3>2 DEF QueueInv, Complete
  <2>6. ASSUME sub'[s].listed, ~sub'[s].lost, NEW n \in Untold(s)',
               log'[n] \in Selects[s]
        PROVE  \E j \in 1..Len(q) : q[j] = n
    BY <1>1, <1>3, <1>4, <2>1, <2>6 DEF QueueInv, Complete
  <2>7. Complete(s)'
    BY <2>1, <2>5, <2>6 DEF Complete, SelectedBy
  <2> QED BY <2>3, <2>4, <2>7 DEF QueueInv
<1> QED BY <1>6, <1>7

LEMMA QueueDeliver ==
    ASSUME BusTypeOK, NEW s \in Subs, Deliver(s), QueueInv(s)
    PROVE  /\ QueueInv(s)'
           /\ reader'[s].told \in Untold(s)
           /\ SelectedBy(s, reader'[s].told)
           /\ \A n \in Untold(s) : n < reader'[s].told => ~SelectedBy(s, n)
<1> DEFINE q == sub[s].queue
           r == Tail(q)
<1>1. /\ q \in Seq(Seqs) /\ Len(q) \in Nat \ {0} /\ Last \in Nat
      /\ reader[s].told \in Nat
  BY DEF BusTypeOK, Deliver, Subscriptions, Readers, SeqOrNone, Last
<1>2. /\ Len(r) = Len(q) - 1 /\ r \in Seq(Seqs)
      /\ \A i \in 1..Len(r) : r[i] = q[i + 1] /\ i + 1 \in 1..Len(q)
      /\ Head(q) = q[1] /\ q[1] \in Nat
  <2>1. q[1] \in Seqs BY <1>1
  <2>2. q[1] \in Nat BY <2>1, NumbersAssumption DEF Seqs
  <2> QED BY <1>1, <2>2
<1>3. /\ reader'[s].told = q[1] /\ reader'[s].at = "look"
      /\ reader'[s].left = reader[s].left /\ reader[s].at = "look"
  BY <1>2 DEF Deliver, BusTypeOK, Readers
<1>4. /\ sub'[s].queue = r /\ sub'[s].lost = sub[s].lost
      /\ sub'[s].listed = sub[s].listed /\ log' = log
  BY DEF Deliver, BusTypeOK, Subscriptions
<1>5. q[1] \in Untold(s) /\ SelectedBy(s, q[1])
  BY <1>1 DEF QueueInv, Ordered
<1>6. \A n \in Untold(s) : n < q[1] => ~SelectedBy(s, n)
  <2> SUFFICES ASSUME NEW n \in Untold(s), n < q[1], SelectedBy(s, n)
               PROVE  FALSE
    OBVIOUS
  <2>1. n \in Nat BY <1>1 DEF Untold
  <2>2. PICK j \in 1..1 : q[j] = n
    BY <1>1, <1>2, <2>1 DEF QueueInv, Complete
  <2> QED BY <2>2, <1>2, <2>1
<1>7. Untold(s)' = {n \in Untold(s) : n > q[1]}
  BY <1>2, <1>1, <1>3, <1>4, <1>5 DEF Untold, Last
<1>8. Standing(s)'
  BY <1>2, <1>1, <1>3, <1>4, <1>5 DEF QueueInv, Standing, Untold, Last
<1>9. Ordered(s)'
  <2>1. ASSUME NEW i \in 1..Len(r)
        PROVE  r[i] \in Untold(s)' /\ SelectedBy(s, r[i])
    <3>1. q[1] < q[i + 1] /\ q[i + 1] \in Untold(s) /\ SelectedBy(s, q[i + 1])
      BY <1>1, <1>2 DEF QueueInv, Ordered
    <3> QED BY <3>1, <1>2, <1>7
  <2>2. ASSUME NEW i \in 1..Len(r), NEW j \in 1..Len(r), i < j
        PROVE  r[i] < r[j]
    <3>1. i + 1 < j + 1 /\ i + 1 \in 1..Len(q) /\ j + 1 \in 1..Len(q)
      BY <2>2, <1>1, <1>2
    <3>2. q[i + 1] < q[j + 1] BY <3>1 DEF QueueInv, Ordered
    <3> QED BY <3>2, <1>2
  <2> QED BY <1>4, <2>1, <2>2 DEF Ordered, SelectedBy
<1>10. Complete(s)'
  <2>1. ASSUME NEW i \in 1..Len(r), NEW n \in Untold(s)', n <= r[i],
               SelectedBy(s, n)
        PROVE  \E j \in 1..i : r[j] = n
    <3>1. n \in Untold(s) /\ n > q[1] /\ n <= q[i + 1] /\ i + 1 \in 1..Len(q)
      BY <2>1, <1>2, <1>7
    <3>2. PICK j \in 1..(i + 1) : q[j] = n
      BY <3>1, <2>1 DEF QueueInv, Complete
    <3>3. j # 1 BY <3>1, <3>2, <1>2
    <3>4. j - 1 \in 1..i /\ j - 1 \in 1..Len(r) /\ (j - 1) + 1 = j
      BY <3>2, <3>3, <1>1, <1>2
    <3>5. r[j - 1] = n BY <3>2, <3>4, <1>2
    <3> QED BY <3>4, <3>5
  <2>2. ASSUME sub[s].listed, ~sub[s].lost, NEW n \in Untold(s)',
               SelectedBy(s, n)
        PROVE  \E j \in 1..Len(r) : r[j] = n
    <3>1. n \in Untold(s) /\ n > q[1]
      BY <2>2, <1>7
    <3>2. PICK j \in 1..Len(q) : q[j] = n
      BY <3>1, <2>2 DEF QueueInv, Complete
    <3>3. j # 1 BY <3>1, <3>2, <1>2
    <3>4. j - 1 \in 1..Len(r) /\ (j - 1) + 1 = j
      BY <3>2, <3>3, <1>1, <1>2
    <3>5. r[j - 1] = n BY <3>2, <3>4, <1>2
    <3> QED BY <3>4, <3>5
  <2> QED BY <1>4, <2>1, <2>2 DEF Complete, SelectedBy
<1> QED
  BY <1>3, <1>5, <1>6, <1>8, <1>9, <1>10 DEF QueueInv

(* At the loss, everything published is told. *)
LEMMA QueueRetake ==
    ASSUME BusTypeOK, NEW s \in Subs, Retake(s), QueueInv(s)
    PROVE  QueueInv(s)'
<1>1. /\ log' = log /\ sub'[s].queue = <<>> /\ sub'[s].lost = FALSE
      /\ reader'[s].told = Last /\ reader'[s].at = "assemble"
  BY DEF Retake, QueueInv, Standing, BusTypeOK, Subscriptions, Readers
<1>2. Last \in Nat BY DEF BusTypeOK, Last
<1>3. Untold(s)' = {} /\ Last' = Last
  BY <1>1, <1>2 DEF Untold, Last
<1> QED
  BY <1>1, <1>3, <1>2 DEF QueueInv, Standing, Ordered, Complete

LEMMA QueueSubscribe ==
    ASSUME BusTypeOK, NEW s \in Subs, Subscribe(s), QueueInv(s)
    PROVE  QueueInv(s)'
<1>1. /\ log' = log /\ sub'[s].queue = <<>> /\ sub'[s].lost = FALSE
      /\ reader'[s].told = Last /\ reader'[s].at = "assemble"
  BY DEF Subscribe, QueueInv, Standing, BusTypeOK, Subscriptions, Readers
<1>2. Last \in Nat BY DEF BusTypeOK, Last
<1>3. Untold(s)' = {} /\ Last' = Last
  BY <1>1, <1>2 DEF Untold, Last
<1> QED
  BY <1>1, <1>3, <1>2 DEF QueueInv, Standing, Ordered, Complete

LEMMA QueueStep ==
    ASSUME BusTypeOK, [BusNext]_busVars, NEW s \in Subs, QueueInv(s)
    PROVE  QueueInv(s)'
<1>1. ASSUME NEW x \in Subjects, Change(x) PROVE QueueInv(s)'
  BY <1>1, QueueUntouched DEF Change
<1>2. ASSUME NEW x \in Subjects, PublishChange(x) PROVE QueueInv(s)'
  <2>1. [of |-> x, to |-> record[x]] \in Events
    BY DEF BusTypeOK, Events, Changes
  <2> QED BY <1>2, <2>1, QueuePublish DEF PublishChange
<1>3. ASSUME NEW e \in Occurrences, Occur(e) PROVE QueueInv(s)'
  BY <1>3, QueuePublish DEF Occur, Events
<1>4. ASSUME NEW u \in Subs, Subscribe(u) PROVE QueueInv(s)'
  <2>1. CASE u = s BY <1>4, <2>1, QueueSubscribe
  <2>2. CASE u # s BY <1>4, <2>2, QueueUntouched DEF Subscribe, BusTypeOK
  <2> QED BY <2>1, <2>2
<1>5. ASSUME NEW u \in Subs, NEW x \in Subjects, Assemble(u, x)
      PROVE  QueueInv(s)'
  <2>1. CASE u = s BY <1>5, <2>1, QueueMoves DEF Assemble, BusTypeOK, Readers
  <2>2. CASE u # s BY <1>5, <2>2, QueueUntouched DEF Assemble, BusTypeOK
  <2> QED BY <2>1, <2>2
<1>6. ASSUME NEW u \in Subs, Send(u) \/ Ended(u) \/ NothingYet(u) \/ ClientLeaves(u)
               \/ SeesLoss(u)
      PROVE  QueueInv(s)'
  <2>1. CASE u = s
    <3>1. /\ UNCHANGED <<log, sub>> /\ reader[s].at # "out"
          /\ \/ Send(s) /\ reader' = [reader EXCEPT ![s].at = "look"]
             \/ NothingYet(s) /\ reader' = [reader EXCEPT ![s].at = "wait"]
             \/ SeesLoss(s) /\ reader' = [reader EXCEPT ![s].at = "retake"]
             \/ reader' = [reader EXCEPT ![s].at = "done"]
      BY <1>6, <2>1 DEF Send, Ended, NothingYet, ClientLeaves, SeesLoss
    <3>2. /\ reader'[s].told = reader[s].told /\ reader'[s].left = reader[s].left
          /\ reader'[s].at # "out"
      BY <3>1 DEF BusTypeOK, Readers
    <3>3. reader'[s].at = "retake" => sub[s].queue = <<>> /\ sub[s].lost
      BY <3>1 DEF BusTypeOK, Readers, SeesLoss
    <3>4. reader'[s].at \in {"look", "wait", "retake"} => reader'[s].left = {}
      BY <3>1, <3>2
         DEF BusTypeOK, Readers, Send, NothingYet, SeesLoss, QueueInv, Standing
    <3> QED BY <3>2, <3>1, <3>3, <3>4, QueueMoves
  <2>2. CASE u # s
    BY <1>6, <2>2, QueueUntouched
       DEF Send, Ended, NothingYet, ClientLeaves, SeesLoss, BusTypeOK
  <2> QED BY <2>1, <2>2
<1>7. ASSUME NEW u \in Subs, Deliver(u) PROVE QueueInv(s)'
  <2>1. CASE u = s BY <1>7, <2>1, QueueDeliver
  <2>2. CASE u # s BY <1>7, <2>2, QueueUntouched DEF Deliver, BusTypeOK
  <2> QED BY <2>1, <2>2
<1>8. ASSUME NEW u \in Subs, Retake(u) PROVE QueueInv(s)'
  <2>1. CASE u = s BY <1>8, <2>1, QueueRetake
  <2>2. CASE u # s BY <1>8, <2>2, QueueUntouched DEF Retake, BusTypeOK
  <2> QED BY <2>1, <2>2
<1>9. ASSUME NEW u \in Subs, Woken(u) PROVE QueueInv(s)'
  <2>1. CASE u = s
    <3>1. /\ log' = log /\ reader'[s].at = "look" /\ reader[s].at = "wait"
          /\ reader'[s].told = reader[s].told /\ reader'[s].left = reader[s].left
          /\ sub'[s].queue = sub[s].queue /\ sub'[s].lost = sub[s].lost
          /\ sub'[s].listed = sub[s].listed
      BY <1>9, <2>1 DEF Woken, BusTypeOK, Subscriptions, Readers
    <3> QED BY <3>1, QueueMoves DEF QueueInv, Standing
  <2>2. CASE u # s BY <1>9, <2>2, QueueUntouched DEF Woken, BusTypeOK
  <2> QED BY <2>1, <2>2
<1>10. ASSUME NEW u \in Subs, Unlist(u) \/ MarkClosed(u) PROVE QueueInv(s)'
  <2>1. CASE u = s
    <3>1. /\ log' = log /\ reader' = reader /\ reader[s].at # "out"
          /\ sub'[s].queue = sub[s].queue /\ sub'[s].lost = sub[s].lost
          /\ sub'[s].listed => sub[s].listed
      <4>1. CASE Unlist(s)
        BY <4>1 DEF Unlist, BusTypeOK, Subscriptions, QueueInv, Standing
      <4>2. CASE MarkClosed(s)
        BY <4>2 DEF MarkClosed, BusTypeOK, Subscriptions
      <4> QED BY <1>10, <2>1, <4>1, <4>2
    <3> QED BY <3>1, QueueMoves DEF QueueInv, Standing
  <2>2. CASE u # s
    BY <1>10, <2>2, QueueUntouched DEF Unlist, MarkClosed, BusTypeOK
  <2> QED BY <2>1, <2>2
<1>11. CASE UNCHANGED busVars
  BY <1>11, QueueUntouched DEF busVars
<1> QED
  BY <1>2, <1>1, <1>3, <1>4, <1>5, <1>7, <1>6, <1>8, <1>9, <1>10, <1>11
     DEF BusNext, Serve

--------------------------------------------------------------------------------
(* The log and the records.                                                *)

(* A publication, for the subjects it is not of. *)
LEMMA LogOthers ==
    ASSUME BusTypeOK, LogInv, NEW e \in Events, Publish(e),
           NEW x \in Subjects \ pending, ~(e \in Changes /\ e.of = x),
           NEW n \in 1..Last', ChangeOf(n, x)',
           \A m \in (n + 1)..Last' : ~ChangeOf(m, x)'
    PROVE  log'[n].to = record[x]
<1>1. Last \in Nat /\ Last' = Last + 1
  BY PublishType DEF BusTypeOK, Last
<1>2. /\ \A m \in 1..Last : log'[m] = log[m]
      /\ log'[Last + 1] = e
  BY <1>1 DEF Publish, BusTypeOK, Last
<1>3. n \in 1..Last
  BY <1>1, <1>2 DEF ChangeOf
<1>4. ChangeOf(n, x) /\ \A m \in (n + 1)..Last : ~ChangeOf(m, x)
  BY <1>1, <1>2, <1>3 DEF ChangeOf
<1> QED
  BY <1>2, <1>3, <1>4 DEF LogInv

LEMMA LogStep ==
    ASSUME BusTypeOK, [BusNext]_busVars, LogInv PROVE LogInv'
<1>1. ASSUME UNCHANGED <<log, record, pending>> PROVE LogInv'
  BY <1>1 DEF LogInv, ChangeOf, Last
<1>2. ASSUME NEW x \in Subjects, Change(x) PROVE LogInv'
  <2>1. \A y \in Subjects \ pending' : y \notin pending /\ record'[y] = record[y]
    BY <1>2 DEF Change, BusTypeOK
  <2> QED BY <1>2, <2>1 DEF LogInv, ChangeOf, Last, Change
<1>3. ASSUME NEW x \in Subjects, PublishChange(x) PROVE LogInv'
  <2> DEFINE e == [of |-> x, to |-> record[x]]
  <2>1. e \in Events /\ e \in Changes /\ e.of = x /\ e.to = record[x]
        /\ Publish(e) /\ record' = record /\ pending' = pending \ {x}
    BY <1>3 DEF PublishChange, BusTypeOK, Events, Changes
  <2> SUFFICES ASSUME NEW y \in Subjects \ pending', NEW n \in 1..Last',
                      ChangeOf(n, y)',
                      \A m \in (n + 1)..Last' : ~ChangeOf(m, y)'
               PROVE  log'[n].to = record[y]
    BY <2>1 DEF LogInv
  <2>2. CASE y # x
    BY <2>1, <2>2, LogOthers
  <2>3. CASE y = x
    <3>1. Last \in Nat /\ Last' = Last + 1
      BY <2>1, PublishType DEF BusTypeOK, Last
    <3>2. log'[Last + 1] = e
      BY <2>1, <3>1 DEF Publish, BusTypeOK, Last
    <3>3. n = Last + 1
      BY <2>1, <2>3, <3>1, <3>2 DEF ChangeOf
    <3> QED BY <2>1, <2>3, <3>2, <3>3
  <2> QED BY <2>2, <2>3
<1>4. ASSUME NEW e \in Occurrences, Occur(e) PROVE LogInv'
  <2>1. e \in Events /\ e \notin Changes /\ Publish(e)
        /\ record' = record /\ pending' = pending
    BY <1>4, EventsAssumption DEF Occur, Events
  <2> QED BY <2>1, LogOthers DEF LogInv
<1>5. CASE UNCHANGED busVars
  BY <1>1, <1>5 DEF busVars
<1>6. ASSUME NEW s \in Subs,
             Subscribe(s) \/ Serve(s) \/ ClientLeaves(s) \/ Unlist(s) \/ MarkClosed(s)
      PROVE  UNCHANGED <<log, record, pending>>
  BY <1>6
     DEF Subscribe, Serve, ClientLeaves, Unlist, MarkClosed, Assemble, Send, Ended,
         Deliver, SeesLoss, Retake, NothingYet, Woken
<1> QED
  BY <1>2, <1>1, <1>3, <1>4, <1>5, <1>6 DEF BusNext

--------------------------------------------------------------------------------
(* The picture.                                                            *)

LEMMA PictureUntouched ==
    ASSUME NEW s \in Subs, PictureInv(s), UNCHANGED <<log, record, pending>>,
           reader'[s].picture = reader[s].picture,
           reader'[s].left = reader[s].left,
           reader'[s].told = reader[s].told,
           reader[s].at # "out" \/ reader'[s].at = "out"
    PROVE  PictureInv(s)'
BY DEF PictureInv, Untold, ChangeOf, Last

LEMMA PicturePublish ==
    ASSUME BusTypeOK, NEW s \in Subs, QueueInv(s), PictureInv(s),
           NEW e \in Events, Publish(e), UNCHANGED <<record, reader>>,
           \A x \in Subjects : x \in pending \ pending' =>
               e \in Changes /\ e.of = x
    PROVE  PictureInv(s)'
<1>1. Last \in Nat /\ Last' = Last + 1 /\ reader[s].told \in Nat
      /\ reader[s].told <= Last
  BY PublishType DEF BusTypeOK, Last, Readers, SeqOrNone, QueueInv, Standing
<1>2. /\ \A m \in 1..Last : log'[m] = log[m]
      /\ log'[Last + 1] = e
  BY <1>1 DEF Publish, BusTypeOK, Last
<1> SUFFICES ASSUME NEW x \in Subjects \ pending',
                    reader[s].at # "out", x \notin reader[s].left, Wholly(s, x),
                    \A n \in Untold(s)' : ~ChangeOf(n, x)'
             PROVE  reader[s].picture[x] = record[x]
  BY DEF PictureInv, Wholly
<1>3. ~(e \in Changes /\ e.of = x)
  BY <1>1, <1>2 DEF Untold, ChangeOf
<1>4. x \notin pending
  BY <1>3
<1>5. \A n \in Untold(s) : ~ChangeOf(n, x)
  BY <1>1, <1>2 DEF Untold, ChangeOf
<1> QED
  BY <1>4, <1>5 DEF PictureInv

LEMMA PictureDeliver ==
    ASSUME BusTypeOK, LogInv, NEW s \in Subs, QueueInv(s), PictureInv(s), Deliver(s)
    PROVE  PictureInv(s)'
<1> DEFINE n == Head(sub[s].queue)
<1>1. /\ reader'[s].told = n /\ reader'[s].left = reader[s].left
      /\ reader'[s].picture = Pictured(reader[s].picture, log[n])
      /\ reader[s].at # "out"
      /\ UNCHANGED <<log, record, pending>>
  BY DEF Deliver, BusTypeOK, Readers
<1>2. /\ n \in Untold(s) /\ SelectedBy(s, n)
      /\ \A m \in Untold(s) : m < n => ~SelectedBy(s, m)
  BY <1>1, QueueDeliver
<1>3. Last \in Nat /\ reader[s].told \in Nat /\ log \in Seq(Events)
      /\ reader[s].picture \in [Subjects -> Values]
  BY DEF BusTypeOK, Last, Readers, SeqOrNone
<1> SUFFICES ASSUME NEW x \in Subjects \ pending,
                    x \notin reader[s].left, Wholly(s, x),
                    \A m \in (n + 1)..Last : ~ChangeOf(m, x)
             PROVE  Pictured(reader[s].picture, log[n])[x] = record[x]
  BY <1>1 DEF PictureInv, Untold, ChangeOf, Last, Wholly
<1>4. n \in 1..Last /\ log[n] \in Events
  BY <1>2, <1>3 DEF Untold, Last
<1>5. CASE ChangeOf(n, x)
  <2>1. log[n].to = record[x] BY <1>4, <1>5 DEF LogInv
  <2>2. log[n].of = x /\ log[n] \in Changes BY <1>5 DEF ChangeOf
  <2> QED BY <1>3, <2>1, <2>2 DEF Pictured
<1>6. CASE ~ChangeOf(n, x)
  <2>1. Pictured(reader[s].picture, log[n])[x] = reader[s].picture[x]
    BY <1>3, <1>6 DEF Pictured, ChangeOf, Changes
  <2>2. ASSUME NEW m \in Untold(s) PROVE ~ChangeOf(m, x)
    <3>1. m \in 1..Last BY <1>3 DEF Untold
    <3>2. CASE m < n
      <4>1. log[m] \notin Selects[s] BY <1>2, <3>2 DEF SelectedBy
      <4>2. ChangeOf(m, x) => log[m] \in Selects[s]
        BY DEF ChangeOf, Wholly, Changes
      <4> QED BY <4>1, <4>2
    <3>3. CASE m = n BY <1>6, <3>3
    <3>4. CASE m > n BY <3>1, <3>4, <1>4
    <3> QED BY <3>2, <3>1, <3>3, <3>4, <1>4
  <2> QED BY <1>1, <2>1, <2>2 DEF PictureInv
<1> QED BY <1>5, <1>6

LEMMA PictureStep ==
    ASSUME BusTypeOK, [BusNext]_busVars, LogInv,
           NEW s \in Subs, QueueInv(s), PictureInv(s)
    PROVE  PictureInv(s)'
<1>1. ASSUME NEW x \in Subjects, Change(x) PROVE PictureInv(s)'
  <2>1. \A y \in Subjects \ pending' : y \notin pending /\ record'[y] = record[y]
    BY <1>1 DEF Change, BusTypeOK
  <2> QED
    BY <1>1, <2>1 DEF PictureInv, Untold, ChangeOf, Last, Change, Wholly
<1>2. ASSUME NEW x \in Subjects, PublishChange(x) PROVE PictureInv(s)'
  <2> DEFINE e == [of |-> x, to |-> record[x]]
  <2>1. e \in Events /\ e \in Changes /\ e.of = x /\ Publish(e)
        /\ pending' = pending \ {x} /\ UNCHANGED <<record, reader>>
    BY <1>2 DEF PublishChange, BusTypeOK, Events, Changes
  <2>2. \A y \in Subjects : y \in pending \ pending' =>
            e \in Changes /\ e.of = y
    BY <2>1
  <2> HIDE DEF e
  <2> QED BY <2>1, <2>2, PicturePublish
<1>3. ASSUME NEW e \in Occurrences, Occur(e) PROVE PictureInv(s)'
  <2>1. e \in Events /\ Publish(e) /\ UNCHANGED <<record, pending, reader>>
    BY <1>3 DEF Occur, Events
  <2> QED BY <2>1, PicturePublish
<1>4. ASSUME NEW u \in Subs, Subscribe(u) \/ Retake(u) PROVE PictureInv(s)'
  <2>1. CASE u = s
    <3>. DEFINE l == [reader[s] EXCEPT !.at = "assemble", !.told = Last, !.left = Subjects]
    <3>2. reader' = [reader EXCEPT ![s] = l]
      BY <1>4, <2>1 DEF Subscribe, Retake
    <3>3. reader \in [Subs -> Readers] /\ reader[s] \in Readers
      BY DEF BusTypeOK
    <3>4. l.left = Subjects
      BY <3>3 DEF Readers
    <3>. HIDE DEF l
    <3>1. reader'[s].left = Subjects
      BY <3>2, <3>3, <3>4
    <3> QED BY <3>1 DEF PictureInv
  <2>2. CASE u # s
    BY <1>4, <2>2, PictureUntouched DEF Subscribe, Retake, BusTypeOK
  <2> QED BY <2>1, <2>2
<1>5. ASSUME NEW u \in Subs, NEW x \in Subjects, Assemble(u, x)
      PROVE  PictureInv(s)'
  <2>1. CASE u = s
    <3>1. /\ UNCHANGED <<log, record, pending>>
          /\ reader'[s].told = reader[s].told /\ reader'[s].at = reader[s].at
          /\ reader'[s].left = reader[s].left \ {x}
          /\ reader'[s].picture = [reader[s].picture EXCEPT ![x] = record[x]]
          /\ reader[s].picture \in [Subjects -> Values]
      BY <1>5, <2>1 DEF Assemble, BusTypeOK, Readers
    <3>2. reader'[s].picture[x] = record[x]
          /\ \A y \in Subjects \ {x} :
               reader'[s].picture[y] = reader[s].picture[y]
      BY <3>1
    <3> QED
      BY <3>1, <3>2 DEF PictureInv, Untold, ChangeOf, Last, Wholly
  <2>2. CASE u # s
    BY <1>5, <2>2, PictureUntouched DEF Assemble, BusTypeOK
  <2> QED BY <2>1, <2>2
<1>6. ASSUME NEW u \in Subs, Deliver(u) PROVE PictureInv(s)'
  <2>1. CASE u = s BY <1>6, <2>1, PictureDeliver
  <2>2. CASE u # s BY <1>6, <2>2, PictureUntouched DEF Deliver, BusTypeOK
  <2> QED BY <2>1, <2>2
<1>7. ASSUME NEW u \in Subs,
             \/ Send(u) \/ Ended(u) \/ NothingYet(u) \/ ClientLeaves(u)
             \/ SeesLoss(u) \/ Woken(u) \/ Unlist(u) \/ MarkClosed(u)
      PROVE  PictureInv(s)'
  <2>1. /\ UNCHANGED <<log, record, pending>>
        /\ reader'[s].picture = reader[s].picture
        /\ reader'[s].left = reader[s].left
        /\ reader'[s].told = reader[s].told
        /\ reader[s].at # "out" \/ reader'[s].at = "out"
    <3>1. CASE Unlist(u) \/ MarkClosed(u)
      BY <3>1 DEF Unlist, MarkClosed, QueueInv, Standing
    <3>2. CASE Send(u) \/ Ended(u) \/ NothingYet(u)
      BY <3>2 DEF Send, Ended, NothingYet, BusTypeOK, Readers
    <3>3. CASE ClientLeaves(u) \/ SeesLoss(u) \/ Woken(u)
      BY <3>3 DEF ClientLeaves, SeesLoss, Woken, BusTypeOK, Readers
    <3> QED BY <1>7, <3>1, <3>2, <3>3
  <2> QED BY <2>1, PictureUntouched
<1>8. CASE UNCHANGED busVars
  BY <1>8, PictureUntouched DEF busVars
<1> QED
  BY <1>2, <1>1, <1>3, <1>4, <1>5, <1>7, <1>6, <1>8 DEF BusNext, Serve

--------------------------------------------------------------------------------

LEMMA InvInit == BusInit => Inv
<1> SUFFICES ASSUME BusInit PROVE Inv
  OBVIOUS
<1>1. BusTypeOK
  <2>1. <<>> \in Seq(Events) /\ <<>> \in Seq(Seqs) /\ Len(<<>>) = 0 OBVIOUS
  <2> QED
    BY <2>1, NumbersAssumption
       DEF BusInit, BusTypeOK, Unopened, Subscriptions, Readers, SeqOrNone
<1>2. Last = 0 /\ \A s \in Subs : Untold(s) = {}
  BY DEF BusInit, Last, Untold
<1>3. LogInv
  BY <1>2 DEF LogInv
<1>4. ASSUME NEW s \in Subs PROVE QueueInv(s) /\ PictureInv(s)
  <2>1. /\ sub[s].queue = <<>> /\ ~sub[s].lost /\ ~sub[s].listed
        /\ reader[s].at = "out" /\ reader[s].told = 0
    BY DEF BusInit, Unopened
  <2> QED
    BY <1>2, <2>1
       DEF QueueInv, Standing, Ordered, Complete, PictureInv
<1> QED BY <1>1, <1>3, <1>4 DEF Inv

LEMMA InvAlways == BusSpec => []Inv
<1>1. Inv /\ [BusNext]_busVars => Inv'
  <2> SUFFICES ASSUME Inv, [BusNext]_busVars PROVE Inv'
    OBVIOUS
  <2>1. BusTypeOK' /\ LogInv' BY TypeStep, LogStep DEF Inv
  <2>2. \A s \in Subs : QueueInv(s)' BY QueueStep DEF Inv
  <2>3. \A s \in Subs : PictureInv(s)' BY PictureStep DEF Inv
  <2> QED BY <2>1, <2>3, <2>2 DEF Inv
<1> QED
  BY InvInit, <1>1, PTL DEF BusSpec

(* The picture of a client with nothing queued, lost or on its way is the  *)
(* record of every subject it follows (subscribe, Next, offer).            *)
THEOREM PicturesTrue == BusSpec => []PictureIsTrue
<1>1. Inv => PictureIsTrue
  <2> SUFFICES ASSUME Inv, NEW s \in Subs,
                      reader[s].at \in {"look", "wait"}, sub[s].listed,
                      sub[s].queue = <<>>, ~sub[s].lost,
                      NEW x \in Subjects \ pending, Wholly(s, x)
               PROVE  reader[s].picture[x] = record[x]
    BY DEF PictureIsTrue
  <2>1. reader[s].left = {} /\ \A n \in Untold(s) : ~SelectedBy(s, n)
    BY DEF Inv, QueueInv, Standing, Complete
  <2>2. \A n \in Untold(s) : ~ChangeOf(n, x)
    BY <2>1 DEF SelectedBy, ChangeOf, Wholly, Changes
  <2> QED BY <2>1, <2>2 DEF Inv, PictureInv
<1> QED
  BY InvAlways, <1>1, PTL

(* Between two deliveries, nothing else tells a client that looks. *)
LEMMA OnlyDeliveryTells ==
    ASSUME BusTypeOK, BusNext, NEW s \in Subs, reader[s].at = "look",
           reader'[s].told # reader[s].told
    PROVE  Deliver(s)
<1>1. reader' # reader
  OBVIOUS
<1>2. ASSUME NEW x \in Subjects, Change(x) \/ PublishChange(x) PROVE FALSE
  BY <1>1, <1>2 DEF Change, PublishChange
<1>3. ASSUME NEW e \in Occurrences, Occur(e) PROVE FALSE
  BY <1>1, <1>3 DEF Occur
<1>4. ASSUME NEW u \in Subs, Unlist(u) \/ MarkClosed(u) PROVE FALSE
  BY <1>1, <1>4 DEF Unlist, MarkClosed
<1>5. ASSUME NEW u \in Subs, Subscribe(u) \/ Retake(u) PROVE FALSE
  <2>1. u # s BY <1>5 DEF Subscribe, Retake
  <2> QED BY <1>5, <2>1 DEF Subscribe, Retake, BusTypeOK
<1>6. ASSUME NEW u \in Subs,
             \/ Send(u) \/ Ended(u) \/ NothingYet(u) \/ ClientLeaves(u)
             \/ SeesLoss(u) \/ Woken(u) \/ \E x \in Subjects : Assemble(u, x)
      PROVE  FALSE
  <2>0. ASSUME NEW to, reader' = [reader EXCEPT ![u].at = to] PROVE FALSE
    BY <2>0 DEF BusTypeOK, Readers
  <2>1. CASE Send(u) \/ Ended(u)
    BY <2>0, <2>1 DEF Send, Ended
  <2>2. CASE ClientLeaves(u) \/ SeesLoss(u) \/ Woken(u)
    BY <2>2 DEF ClientLeaves, SeesLoss, Woken, BusTypeOK, Readers
  <2>4. CASE NothingYet(u)
    BY <2>4 DEF NothingYet, BusTypeOK, Readers
  <2>3. ASSUME NEW x \in Subjects, Assemble(u, x) PROVE FALSE
    BY <2>3 DEF Assemble, BusTypeOK, Readers
  <2> QED BY <1>6, <2>2, <2>1, <2>3, <2>4
<1>7. ASSUME NEW u \in Subs, Deliver(u), u # s PROVE FALSE
  BY <1>7 DEF Deliver, BusTypeOK
<1> QED
  BY <1>2, <1>4, <1>3, <1>5, <1>6, <1>7 DEF BusNext, Serve

(* What a client is handed is the next its filter selects (offer, Next).   *)
THEOREM HandsTheNext == BusSpec => NextIsNext
<1> DEFINE Handed ==
      \A s \in Subs :
         reader[s].at = "look" /\ reader'[s].told # reader[s].told =>
            /\ reader'[s].told > reader[s].told
            /\ SelectedBy(s, reader'[s].told)
            /\ \A n \in (reader[s].told + 1)..(reader'[s].told - 1) :
                 ~SelectedBy(s, n)
<1>1. Inv /\ [BusNext]_busVars => [Handed]_busVars
  <2> SUFFICES ASSUME Inv, BusNext, NEW s \in Subs,
                      reader[s].at = "look", reader'[s].told # reader[s].told
               PROVE  /\ reader'[s].told > reader[s].told
                      /\ SelectedBy(s, reader'[s].told)
                      /\ \A n \in (reader[s].told + 1)..(reader'[s].told - 1) :
                           ~SelectedBy(s, n)
    OBVIOUS
  <2>1. Deliver(s)
    BY OnlyDeliveryTells DEF Inv
  <2>2. /\ reader'[s].told \in Untold(s)
        /\ SelectedBy(s, reader'[s].told)
        /\ \A n \in Untold(s) : n < reader'[s].told => ~SelectedBy(s, n)
    BY <2>1, QueueDeliver DEF Inv
  <2>3. reader[s].told \in Nat /\ Last \in Nat
    BY DEF Inv, BusTypeOK, Readers, SeqOrNone, Last
  <2> QED BY <2>2, <2>3 DEF Untold
<1> QED
  BY InvAlways, <1>1, PTL DEF BusSpec, NextIsNext

================================================================================
