---------------------------------- MODULE Bus -----------------------------------
(***************************************************************************)
(* internal/core/bus, and the subscriptions the surfaces project from it   *)
(* (admin/subscribe.go, interfaces/sees.go): events numbered in one place, *)
(* a bounded queue per subscriber that never makes the publisher wait, and *)
(* a subscriber that is told its queue overflowed and given a fresh        *)
(* picture.                                                                *)
(*                                                                         *)
(* The bus has one lock and every subscription its own, taken inside it:   *)
(* what runs under them is one step.  What interleaves is a subscriber's   *)
(* goroutine between its locks and its waits, the subjects whose records   *)
(* it assembles its picture from outside every lock of the bus, and the    *)
(* close of the subscription by another goroutine.                         *)
(*                                                                         *)
(* A subject's record changes before the change is published, and no other *)
(* change of it comes between, as under the supervisor's mutex.            *)
(***************************************************************************)
EXTENDS Naturals, Sequences, FiniteSets

CONSTANTS
    Subjects,    \* what has a current value and a record
    Values,      \* the values it takes
    Occurrences, \* events that are of no level
    Subs,        \* the subscribers
    Selects,     \* the events each one's filter selects
    Bound,       \* the events a queue holds
    MaxSeq       \* BOUND: the events published

Changes == [of : Subjects, to : Values]
Events == Changes \cup Occurrences

ASSUME EventsAssumption ==
    /\ Selects \in [Subs -> SUBSET Events]
    /\ Changes \cap Occurrences = {}
ASSUME NumbersAssumption == Bound \in Nat \ {0} /\ MaxSeq \in Nat
ASSUME ValuesAssumption == Values # {}

VARIABLES
    log,     \* the events published: the place of one is its number
    record,  \* the current value of each subject
    pending, \* the subjects whose change is not published yet
    sub,     \* each subscription
    reader   \* the goroutine that serves it, and what its client was told

busVars == <<log, record, pending, sub, reader>>

Seqs == 1..MaxSeq
SeqOrNone == 0..MaxSeq
Last == Len(log)

(* A subscription: listed while the bus tells it, its queue of numbers,    *)
(* whether it lost one and was not told, whether it was closed, and the    *)
(* token in its wake channel.                                              *)
Subscriptions == [listed : BOOLEAN, queue : Seq(Seqs), lost : BOOLEAN,
                  closed : BOOLEAN, wake : BOOLEAN]

(* Its goroutine; the number up to which its client was told, by an event  *)
(* or a snapshot; the client's picture of each subject, and the subjects   *)
(* whose records are still to be read for a snapshot's.                    *)
Readers == [at : {"out", "assemble", "look", "retake", "wait", "done"},
            told : SeqOrNone, picture : [Subjects -> Values],
            left : SUBSET Subjects]

SelectedBy(s, n) == log[n] \in Selects[s]

Unopened == [listed |-> FALSE, queue |-> <<>>, lost |-> FALSE,
             closed |-> FALSE, wake |-> FALSE]

BusInit ==
    /\ log = <<>>
    /\ record \in [Subjects -> Values]
    /\ pending = {}
    /\ sub = [s \in Subs |-> Unopened]
    /\ reader = [s \in Subs |-> [at |-> "out", told |-> 0, picture |-> record,
                              left |-> {}]]

--------------------------------------------------------------------------------
(* Publishing.                                                             *)

(* Mutants of Offered: after a loss the queue takes what comes again; a    *)
(* subscriber that waits is not woken.                                     *)
OfferedAfterLoss(q, n) ==
    IF Len(q.queue) >= Bound THEN [q EXCEPT !.lost = TRUE, !.wake = TRUE]
    ELSE [q EXCEPT !.queue = Append(@, n), !.wake = TRUE]
OfferedAsleep(q, n) ==
    IF Len(q.queue) >= Bound THEN [q EXCEPT !.lost = TRUE]
    ELSE IF q.lost THEN q
    ELSE [q EXCEPT !.queue = Append(@, n)]

(* offer: queued, or lost where the queue is full; after a loss nothing    *)
(* more is queued until the subscriber was told of it.                     *)
Offered(q, n) ==
    IF Len(q.queue) >= Bound THEN [q EXCEPT !.lost = TRUE, !.wake = TRUE]
    ELSE IF q.lost THEN q
    ELSE [q EXCEPT !.queue = Append(@, n), !.wake = TRUE]

(* Publish: the next number, and every subscriber whose filter selects it. *)
Publish(e) ==
    /\ Last < MaxSeq
    /\ log' = Append(log, e)
    /\ sub' = [s \in Subs |->
                 IF sub[s].listed /\ e \in Selects[s]
                 THEN Offered(sub[s], Last + 1) ELSE sub[s]]

(* A subject's value changes, and its change is published.                 *)
Change(x) ==
    /\ x \notin pending
    /\ \E v \in Values \ {record[x]} : record' = [record EXCEPT ![x] = v]
    /\ pending' = pending \cup {x}
    /\ UNCHANGED <<log, sub, reader>>

PublishChange(x) ==
    /\ x \in pending
    /\ Publish([of |-> x, to |-> record[x]])
    /\ pending' = pending \ {x}
    /\ UNCHANGED <<record, reader>>

Occur(e) ==
    /\ Publish(e)
    /\ UNCHANGED <<record, pending, reader>>

--------------------------------------------------------------------------------
(* A subscriber: subscribe, and the loop over Next.                        *)

(* SubscribeTo: listed, and told up to the last number, at one point. *)
Subscribe(s) ==
    /\ reader[s].at = "out"
    /\ sub' = [sub EXCEPT ![s].listed = TRUE]
    /\ reader' = [reader EXCEPT ![s] = [@ EXCEPT !.at = "assemble", !.told = Last,
                                                 !.left = Subjects]]
    /\ UNCHANGED <<log, record, pending>>

(* The picture is assembled from the records, one after another, after the *)
(* subscription opened or the loss was told: what it says may be newer     *)
(* than the number it is told at.  Then it is sent.                        *)
Assemble(s, x) ==
    /\ reader[s].at = "assemble" /\ x \in reader[s].left
    /\ reader' = [reader EXCEPT ![s] =
                    [reader[s] EXCEPT !.picture[x] = record[x], !.left = @ \ {x}]]
    /\ UNCHANGED <<log, record, pending, sub>>

Send(s) ==
    /\ reader[s].at = "assemble" /\ reader[s].left = {}
    /\ reader' = [reader EXCEPT ![s].at = "look"]
    /\ UNCHANGED <<log, record, pending, sub>>

(* Next, its look at the subscription. *)
Ended(s) ==
    /\ reader[s].at = "look" /\ sub[s].closed
    /\ reader' = [reader EXCEPT ![s].at = "done"]
    /\ UNCHANGED <<log, record, pending, sub>>

Pictured(p, e) == IF e \in Changes THEN [p EXCEPT ![e.of] = e.to] ELSE p

Deliver(s) ==
    /\ reader[s].at = "look" /\ ~sub[s].closed /\ sub[s].queue # <<>>
    /\ LET n == Head(sub[s].queue)
       IN reader' = [reader EXCEPT ![s] =
                       [reader[s] EXCEPT !.told = n, !.picture = Pictured(@, log[n])]]
    /\ sub' = [sub EXCEPT ![s].queue = Tail(@)]
    /\ UNCHANGED <<log, record, pending>>

(* A loss is to be told: the lock of the subscription is let go, so that   *)
(* the bus's can be taken first.                                           *)
SeesLoss(s) ==
    /\ reader[s].at = "look"
    /\ ~sub[s].closed /\ sub[s].queue = <<>> /\ sub[s].lost
    /\ reader' = [reader EXCEPT ![s].at = "retake"]
    /\ UNCHANGED <<log, record, pending, sub>>

(* Mutant: an overflow is told, and no fresh picture comes with it. *)
RetakeAlone(s) ==
    /\ reader[s].at = "retake"
    /\ sub' = [sub EXCEPT ![s].lost = FALSE]
    /\ reader' = [reader EXCEPT ![s] = [@ EXCEPT !.at = "look", !.told = Last]]
    /\ UNCHANGED <<log, record, pending>>

(* With both locks, the fresh snapshot: at the last number.  The loss is   *)
(* still to be told, for nobody else tells it.  The surface assembles the  *)
(* records again, and sends them with the overflow.                        *)
Retake(s) ==
    /\ reader[s].at = "retake"
    /\ sub' = [sub EXCEPT ![s].lost = FALSE]
    /\ reader' = [reader EXCEPT ![s] = [@ EXCEPT !.at = "assemble", !.told = Last,
                                                 !.left = Subjects]]
    /\ UNCHANGED <<log, record, pending>>

NothingYet(s) ==
    /\ reader[s].at = "look"
    /\ ~sub[s].closed /\ sub[s].queue = <<>> /\ ~sub[s].lost
    /\ reader' = [reader EXCEPT ![s].at = "wait"]
    /\ UNCHANGED <<log, record, pending, sub>>

Woken(s) ==
    /\ reader[s].at = "wait" /\ sub[s].wake
    /\ reader' = [reader EXCEPT ![s].at = "look"]
    /\ sub' = [sub EXCEPT ![s].wake = FALSE]
    /\ UNCHANGED <<log, record, pending>>

(* Its client went away: the wait ends with its context, or what is sent   *)
(* is not taken.                                                           *)
ClientLeaves(s) ==
    /\ reader[s].at \in {"assemble", "look", "wait"}
    /\ reader' = [reader EXCEPT ![s].at = "done"]
    /\ UNCHANGED <<log, record, pending, sub>>

(* Close, by whichever goroutine: off the bus's list, marked, and whoever  *)
(* waits is woken.                                                         *)
Unlist(s) ==
    /\ sub[s].listed
    /\ sub' = [sub EXCEPT ![s].listed = FALSE]
    /\ UNCHANGED <<log, record, pending, reader>>

(* Mutant: whoever waits is left waiting. *)
MarkAlone(s) ==
    /\ reader[s].at # "out" /\ ~sub[s].listed /\ ~sub[s].closed
    /\ sub' = [sub EXCEPT ![s].closed = TRUE]
    /\ UNCHANGED <<log, record, pending, reader>>

MarkClosed(s) ==
    /\ reader[s].at # "out" /\ ~sub[s].listed /\ ~sub[s].closed
    /\ sub' = [sub EXCEPT ![s] = [@ EXCEPT !.closed = TRUE, !.wake = TRUE]]
    /\ UNCHANGED <<log, record, pending, reader>>

--------------------------------------------------------------------------------
Serve(s) ==
    \/ (\E x \in Subjects : Assemble(s, x)) \/ Send(s) \/ Ended(s)
    \/ Deliver(s) \/ SeesLoss(s) \/ Retake(s) \/ NothingYet(s) \/ Woken(s)

BusNext ==
    \/ \E x \in Subjects : Change(x) \/ PublishChange(x)
    \/ \E e \in Occurrences : Occur(e)
    \/ \E s \in Subs : \/ Subscribe(s) \/ Serve(s) \/ ClientLeaves(s)
                       \/ Unlist(s) \/ MarkClosed(s)

(* What the surfaces keep going: the goroutine of a subscription loops     *)
(* over Next while its client takes what it is sent, and closes it when it *)
(* ends (defer); a close once begun ends; a change concluded is published. *)
(* Nobody has to subscribe, to leave, or to close.                         *)
BusFairness ==
    /\ \A s \in Subs : /\ WF_busVars(Serve(s)) /\ WF_busVars(MarkClosed(s))
                      /\ WF_busVars(reader[s].at = "done" /\ Unlist(s))
    /\ \A x \in Subjects : WF_busVars(PublishChange(x))

BusSpec == BusInit /\ [][BusNext]_busVars
BusFairSpec == BusSpec /\ BusFairness

--------------------------------------------------------------------------------
(* What is promised.                                                       *)

BusTypeOK ==
    /\ log \in Seq(Events) /\ Len(log) <= MaxSeq
    /\ record \in [Subjects -> Values]
    /\ pending \subseteq Subjects
    /\ sub \in [Subs -> Subscriptions]
    /\ reader \in [Subs -> Readers]

(* The event a client is handed is the next its filter selects after what  *)
(* it was told last: nothing it selects was skipped without the overflow   *)
(* being told first, and nothing comes twice (offer, Next, SubscribeTo).   *)
NextIsNext ==
    [][\A s \in Subs :
         reader[s].at = "look" /\ reader'[s].told # reader[s].told =>
            /\ reader'[s].told > reader[s].told
            /\ SelectedBy(s, reader'[s].told)
            /\ \A n \in (reader[s].told + 1)..(reader'[s].told - 1) :
                 ~SelectedBy(s, n)
      ]_busVars

Wholly(s, x) == \A v \in Values : [of |-> x, to |-> v] \in Selects[s]

(* A client that was told everything holds the truth: with nothing queued, *)
(* lost or on its way, its picture of a subject it follows is the record,  *)
(* though the records and the events reached it by two roads (subscribe's  *)
(* order: the subscription first, the records after).                      *)
PictureIsTrue ==
    \A s \in Subs :
        /\ reader[s].at \in {"look", "wait"} /\ sub[s].listed
        /\ sub[s].queue = <<>> /\ ~sub[s].lost
        => \A x \in Subjects \ pending :
             Wholly(s, x) => reader[s].picture[x] = record[x]

(* An open subscription's client comes to be told of whatever its filter   *)
(* selects, by an event or by a snapshot, unless it leaves or is closed:   *)
(* no wakeup is lost between a look and a wait, and a full queue is        *)
(* announced (offer, Next).                                                *)
NewsArrives ==
    \A s \in Subs, n \in Seqs :
        reader[s].at # "out" /\ sub[s].listed /\ n <= Last /\ n > reader[s].told
          /\ (n <= Last => SelectedBy(s, n))
        ~> reader[s].told >= n \/ ~sub[s].listed

(* Whoever waits on a subscription that is closed is let go (Close).       *)
CloseReleases ==
    \A s \in Subs : sub[s].closed ~> reader[s].at = "done"

(* No subscriber sleeps through what it waits for: an event its filter     *)
(* selects, a loss, or its close, told between its look and its wait.      *)
NoneSleepsThrough == NewsArrives /\ CloseReleases

================================================================================
