-------------------------------- MODULE Logstore --------------------------------
(***************************************************************************)
(* internal/core/logstore, and a follow of it (admin/reads.go): entries    *)
(* are queued, written in batches by one goroutine, numbered as they are   *)
(* stored, removed by retention, and pushed to whoever follows.            *)
(*                                                                         *)
(* The store numbers a row as SQLite does an INTEGER PRIMARY KEY that is   *)
(* not AUTOINCREMENT: one above the largest there is.  What is held in     *)
(* memory is lost with the process; a transaction is whole or nothing.  A  *)
(* power cut, which may also lose the last of them, is not modelled.       *)
(*                                                                         *)
(* What is abstracted: an entry is the place it was asked to be appended   *)
(* at, and the group it belongs to; how long a batch waits; the limits of  *)
(* retention, which take any rows of a group at any moment (its age pass   *)
(* goes by the entries' own times); the filters other than the group's;    *)
(* the counter of lives and the overrides, which are rows of their own.    *)
(***************************************************************************)
EXTENDS Naturals, Sequences

CONSTANTS
    Groups,    \* the units, and what belongs to none
    Follows,   \* the groups the follower selects
    QueueCap,  \* the entries the queue holds
    BatchCap,  \* the entries of a batch
    Behind,    \* what a follow holds for a client that is slow
    TakesLast, \* whether retention may take the newest row of the store
    MaxEntries \* BOUND: the entries appended

ASSUME CapsAssumption ==
    QueueCap \in Nat \ {0} /\ BatchCap \in Nat \ {0} /\ Behind \in Nat \ {0}
ASSUME LogAssumption ==
    Follows \subseteq Groups /\ TakesLast \in BOOLEAN /\ MaxEntries \in Nat

VARIABLES
    group,   \* the group of each entry
    asked,   \* how many appends there were
    fate,    \* where each entry is
    number,  \* the number each was stored under, 0 if it was not
    core,    \* the Core, and whether its store is open
    taking,  \* the append that has the lock and not yet its place, 0 for none
    queue,   \* the entries queued
    writer,  \* the goroutine that writes them, and its batch
    follow,  \* the goroutine of the follow
    carried, \* what is on its way to the client
    client   \* what the client was told

entryVars == <<group, asked, fate, number>>
storeVars == <<core, taking, queue, writer>>
followVars == <<follow, carried, client>>
logVars == <<entryVars, storeVars, followVars>>

Entries == 1..MaxEntries
EntryOrNone == 0..MaxEntries

(* Queued or in a batch; stored; given up by a write that failed; removed  *)
(* by retention; lost with the process.                                    *)
Fates == {"unwritten", "held", "stored", "lost", "removed", "dead"}
Stored == {i \in Entries : fate[i] = "stored"}
Writers == [at : {"take", "gather", "tell", "done"}, batch : Seq(Entries)]

(* What a follow tells: an entry, or that the client is behind: the number  *)
(* it was current to, and the entry up to which it was pushed nothing more. *)
News == [behind : BOOLEAN, at : Nat, upto : EntryOrNone]
NoNews == [behind |-> FALSE, at |-> 0, upto |-> 0]

(* A follow: its cursor, the rows its query returned and it has not pushed *)
(* yet, the token of its watch, and what it waits for room to tell.        *)
Follow == [at : {"out", "watch", "query", "push", "full", "wait"},
           cursor : Nat, page : SUBSET Entries, woken : BOOLEAN,
           notice : News]
NoFollow == [at |-> "out", cursor |-> 0, page |-> {}, woken |-> FALSE,
             notice |-> NoNews]

(* The client: the number and the place of the last entry it was sent, and *)
(* the entry up to which it was told all, or told that it is behind.       *)
Clients == [at : Nat, got : EntryOrNone, told : EntryOrNone]

(* A new file, and nobody following it. *)
LogInit ==
    /\ group \in [Entries -> Groups]
    /\ asked = 0
    /\ fate = [i \in Entries |-> "unwritten"]
    /\ number = [i \in Entries |-> 0]
    /\ core = "up"
    /\ taking = 0
    /\ queue = <<>>
    /\ writer = [at |-> "take", batch |-> <<>>]
    /\ follow = NoFollow
    /\ carried = <<>>
    /\ client = [at |-> 0, got |-> 0, told |-> 0]

(* max(seq): i is the last row the store holds, or 0 where it holds none.  *)
IsLast(i) ==
    \/ Stored = {} /\ i = 0
    \/ i \in Stored /\ \A j \in Stored : number[j] <= number[i]

NumberOf(i) == IF i = 0 THEN 0 ELSE number[i]

--------------------------------------------------------------------------------
(* Append: under a lock, kept while the queue is full.                     *)

TakesLock ==
    /\ core = "up" /\ taking = 0 /\ asked < MaxEntries
    /\ asked' = asked + 1
    /\ taking' = asked + 1
    /\ UNCHANGED <<group, fate, number, core, queue, writer, followVars>>

Queued ==
    /\ taking # 0 /\ core = "up"
    /\ Len(queue) < QueueCap
    /\ queue' = Append(queue, taking)
    /\ fate' = [fate EXCEPT ![taking] = "held"]
    /\ taking' = 0
    /\ UNCHANGED <<group, asked, number, core, writer, followVars>>

--------------------------------------------------------------------------------
(* write: entries off the queue in batches.                                *)

Running == core \in {"up", "closing"}

TakeFirst ==
    /\ Running /\ writer.at = "take" /\ queue # <<>>
    /\ writer' = [at |-> "gather", batch |-> <<Head(queue)>>]
    /\ queue' = Tail(queue)
    /\ UNCHANGED <<entryVars, core, taking, followVars>>

Gather ==
    /\ Running /\ writer.at = "gather"
    /\ Len(writer.batch) < BatchCap /\ queue # <<>>
    /\ writer' = [writer EXCEPT !.batch = Append(@, Head(queue))]
    /\ queue' = Tail(queue)
    /\ UNCHANGED <<entryVars, core, taking, followVars>>

Batched == {writer.batch[k] : k \in DOMAIN writer.batch}
PlaceInBatch(i) == CHOOSE k \in DOMAIN writer.batch : writer.batch[k] = i

(* store: the batch is full, or waited long enough, and one transaction    *)
(* inserts it in order.                                                    *)
StoreBatch ==
    /\ Running /\ writer.at = "gather"
    /\ \E i \in EntryOrNone :
         /\ IsLast(i)
         /\ number' = [j \in Entries |->
                         IF j \in Batched THEN NumberOf(i) + PlaceInBatch(j)
                         ELSE number[j]]
    /\ fate' = [j \in Entries |-> IF j \in Batched THEN "stored" ELSE fate[j]]
    /\ writer' = [at |-> "tell", batch |-> <<>>]
    /\ UNCHANGED <<group, asked, core, taking, queue, followVars>>

(* It fails: the batch is reported, and given up. *)
LoseBatch ==
    /\ Running /\ writer.at = "gather"
    /\ fate' = [j \in Entries |-> IF j \in Batched THEN "lost" ELSE fate[j]]
    /\ writer' = [at |-> "tell", batch |-> <<>>]
    /\ UNCHANGED <<group, asked, number, core, taking, queue, followVars>>

Watching == follow.at \notin {"out", "watch"}

(* Mutant: the channel of a watch holds no token, and one that is not      *)
(* waited on is told nothing.                                              *)
TellWaiting ==
    /\ Running /\ writer.at = "tell"
    /\ writer' = [writer EXCEPT !.at = "take"]
    /\ follow' = [follow EXCEPT !.woken = @ \/ follow.at = "wait"]
    /\ UNCHANGED <<entryVars, core, taking, queue, carried, client>>

TellWatchers ==
    /\ Running /\ writer.at = "tell"
    /\ writer' = [writer EXCEPT !.at = "take"]
    /\ follow' = [follow EXCEPT !.woken = @ \/ Watching]
    /\ UNCHANGED <<entryVars, core, taking, queue, carried, client>>

--------------------------------------------------------------------------------
(* Close, and the life of the Core.                                        *)

CloseBegins ==
    /\ core = "up" /\ taking = 0
    /\ core' = "closing"
    /\ UNCHANGED <<entryVars, taking, queue, writer, followVars>>

(* Mutant: the file is closed under a writer that has not finished. *)
CloseAtOnce ==
    /\ core = "closing"
    /\ core' = "closed"
    /\ writer' = [writer EXCEPT !.at = "done"]
    /\ UNCHANGED <<entryVars, taking, queue, followVars>>

(* The writer finds the queue closed and empty, and then the file is. *)
CloseReturns ==
    /\ core = "closing" /\ writer.at = "take" /\ queue = <<>>
    /\ core' = "closed"
    /\ writer' = [writer EXCEPT !.at = "done"]
    /\ UNCHANGED <<entryVars, taking, queue, followVars>>

(* The process ends, having closed its store or not. *)
Dies ==
    /\ core # "down"
    /\ core' = "down"
    /\ fate' = [i \in Entries |-> IF fate[i] = "held" \/ i = taking
                                  THEN "dead" ELSE fate[i]]
    /\ taking' = 0 /\ queue' = <<>>
    /\ writer' = [at |-> "take", batch |-> <<>>]
    /\ follow' = NoFollow /\ carried' = <<>>
    /\ UNCHANGED <<group, asked, number, client>>

Opens ==
    /\ core = "down"
    /\ core' = "up"
    /\ UNCHANGED <<entryVars, taking, queue, writer, followVars>>

--------------------------------------------------------------------------------
(* Clean: one transaction for a group. *)
Clean(g) ==
    /\ Running
    /\ \E gone \in SUBSET {i \in Stored : group[i] = g} :
         /\ gone # {}
         /\ ~TakesLast => \A i \in gone : ~IsLast(i)
         /\ fate' = [i \in Entries |-> IF i \in gone THEN "removed" ELSE fate[i]]
    /\ UNCHANGED <<group, asked, number, storeVars, followVars>>

--------------------------------------------------------------------------------
(* logFollow.                                                              *)

(* A client that was told nothing yet follows what is written from now on, *)
(* and one that was, from where it was current to.                         *)
Begins ==
    /\ Running /\ follow.at = "out"
    /\ \/ /\ client.at = 0
          /\ \E i \in EntryOrNone :
               /\ IsLast(i)
               /\ follow' = [NoFollow EXCEPT !.at = "watch",
                                             !.cursor = NumberOf(i)]
               /\ client' = [client EXCEPT !.got = i, !.told = i]
       \/ /\ client.at # 0
          /\ follow' = [NoFollow EXCEPT !.at = "watch", !.cursor = client.at]
          /\ client' = [client EXCEPT !.told = client.got]
    /\ UNCHANGED <<entryVars, storeVars, carried>>

Watches ==
    /\ follow.at = "watch"
    /\ follow' = [follow EXCEPT !.at = "query"]
    /\ UNCHANGED <<entryVars, storeVars, carried, client>>

Selected == {i \in Stored : group[i] \in Follows /\ number[i] > follow.cursor}

Queries ==
    /\ Running /\ follow.at = "query"
    /\ follow' = [follow EXCEPT !.at = IF Selected = {} THEN "wait" ELSE "push",
                                !.page = Selected]
    /\ UNCHANGED <<entryVars, storeVars, carried, client>>

Foremost(i) ==
    i \in follow.page /\ \A j \in follow.page : number[i] <= number[j]

(* Mutant: what woke the follow meanwhile is taken as seen. *)
PushesAndDrains ==
    /\ follow.at = "push" /\ Len(carried) < Behind
    /\ \E i \in Entries :
         /\ Foremost(i)
         /\ carried' = Append(carried, [behind |-> FALSE, at |-> number[i], upto |-> i])
         /\ follow' = [follow EXCEPT !.page = @ \ {i}, !.cursor = number[i],
                           !.woken = FALSE,
                           !.at = IF follow.page = {i} THEN "wait" ELSE "push"]
    /\ UNCHANGED <<entryVars, storeVars, client>>

Pushes ==
    /\ follow.at = "push" /\ Len(carried) < Behind
    /\ \E i \in Entries :
         /\ Foremost(i)
         /\ carried' = Append(carried, [behind |-> FALSE, at |-> number[i], upto |-> i])
         /\ follow' = [follow EXCEPT !.page = @ \ {i}, !.cursor = number[i],
                           !.at = IF follow.page = {i} THEN "wait" ELSE "push"]
    /\ UNCHANGED <<entryVars, storeVars, client>>

(* Mutant: the number told is read after the cursor has moved on. *)
GivesUpLate ==
    /\ follow.at = "push" /\ Len(carried) = Behind
    /\ \E i \in EntryOrNone :
         /\ IsLast(i)
         /\ follow' = [follow EXCEPT
                          !.at = "full", !.page = {},
                          !.cursor = IF Running THEN NumberOf(i) ELSE @,
                          !.notice = [behind |-> TRUE, at |-> NumberOf(i),
                                      upto |-> i]]
    /\ UNCHANGED <<entryVars, storeVars, carried, client>>

(* The rest of the page is given up: the follow goes on from what is       *)
(* written next, and tells once there is room.                             *)
GivesUp ==
    /\ follow.at = "push" /\ Len(carried) = Behind
    /\ \E i \in EntryOrNone :
         /\ IsLast(i)
         /\ follow' = [follow EXCEPT
                          !.at = "full", !.page = {},
                          !.cursor = IF Running THEN NumberOf(i) ELSE @,
                          !.notice = [behind |-> TRUE, at |-> follow.cursor,
                                      upto |-> i]]
    /\ UNCHANGED <<entryVars, storeVars, carried, client>>

TellsBehind ==
    /\ follow.at = "full" /\ Len(carried) < Behind
    /\ carried' = Append(carried, follow.notice)
    /\ follow' = [follow EXCEPT !.at = "wait", !.notice = NoNews]
    /\ UNCHANGED <<entryVars, storeVars, client>>

Wakes ==
    /\ follow.at = "wait" /\ follow.woken
    /\ follow' = [follow EXCEPT !.at = "query", !.woken = FALSE]
    /\ UNCHANGED <<entryVars, storeVars, carried, client>>

(* The client goes, with what was on its way to it. *)
Leaves ==
    /\ follow.at # "out"
    /\ follow' = NoFollow /\ carried' = <<>>
    /\ UNCHANGED <<entryVars, storeVars, client>>

(* The store is closed: what was pushed is sent, and the follow ends. *)
QueryFails ==
    /\ core = "closed" /\ follow.at = "query" /\ carried = <<>>
    /\ follow' = NoFollow
    /\ UNCHANGED <<entryVars, storeVars, carried, client>>

(* send: what the client is told next. *)
Receives ==
    /\ carried # <<>>
    /\ LET news == Head(carried)
       IN client' = IF news.behind
                    THEN [client EXCEPT !.told = news.upto]
                    ELSE [at |-> news.at, got |-> news.upto, told |-> news.upto]
    /\ carried' = Tail(carried)
    /\ UNCHANGED <<entryVars, storeVars, follow>>

--------------------------------------------------------------------------------
Writes == TakeFirst \/ Gather \/ StoreBatch \/ LoseBatch \/ TellWatchers
Pages == Queries \/ QueryFails \/ Pushes \/ GivesUp \/ TellsBehind \/ Wakes

LogNext ==
    \/ TakesLock \/ Queued
    \/ Writes
    \/ CloseBegins \/ CloseReturns \/ Dies \/ Opens
    \/ \E g \in Groups : Clean(g)
    \/ Begins \/ Watches \/ Pages \/ Leaves
    \/ Receives

LogSpec == LogInit /\ [][LogNext]_logVars

(* The writer goes on while there is something to write, a gathering batch *)
(* is written in the end (its first entry waits so long and no longer),    *)
(* the goroutine of a follow goes on, and a client that stays takes what   *)
(* it is sent.  Nothing makes anyone append, follow, clean, close or die.  *)
LogFairness ==
    /\ WF_logVars(TakeFirst) /\ WF_logVars(StoreBatch \/ LoseBatch)
    /\ WF_logVars(TellWatchers)
    /\ WF_logVars(Watches) /\ WF_logVars(Pages)
    /\ WF_logVars(Receives)

LogFairSpec == LogSpec /\ LogFairness

--------------------------------------------------------------------------------
(* Every variable has its type. *)
LogTypeOK ==
    /\ group \in [Entries -> Groups]
    /\ asked \in EntryOrNone
    /\ fate \in [Entries -> Fates]
    /\ number \in [Entries -> Nat]
    /\ core \in {"up", "closing", "closed", "down"}
    /\ taking \in EntryOrNone
    /\ queue \in Seq(Entries) /\ Len(queue) <= QueueCap
    /\ writer \in Writers /\ Len(writer.batch) <= BatchCap
    /\ follow \in Follow
    /\ carried \in Seq(News) /\ Len(carried) <= Behind
    /\ client \in Clients

(* "logFollow pushes the entries a follow selects as they are written":    *)
(* a follow that waits to be woken, with nothing under way to its client,  *)
(* has told it of every entry it selects that the store holds.             *)
PushedAsWritten ==
    follow.at = "wait" /\ ~follow.woken /\ carried = <<>> /\ writer.at # "tell"
        => \A i \in Stored : group[i] \in Follows => i <= client.told

(* A client that is sent an entry had been sent every earlier one, or told *)
(* that it is behind; and one that is told it is behind is told a number   *)
(* up to which it lacks nothing it was not told about, so that the gap is  *)
(* a query away.                                                           *)
NothingSkipped ==
    [][ Receives =>
          \A i \in Stored :
             \/ group[i] \notin Follows \/ i <= client.told
             \/ IF Head(carried).behind THEN number[i] > Head(carried).at
                                       ELSE i >= client'.told ]_logVars

(* Close loses nothing that was queued: once it has returned, every entry  *)
(* was stored, or its loss reported.                                       *)
CloseKeeps ==
    core = "closed" => \A i \in Entries : fate[i] # "held"

(* What is queued while a client follows reaches it, or is reported lost,  *)
(* removed by retention, or the follow or the Core is over.                *)
FollowHears ==
    \A i \in Entries :
        fate[i] \in {"held", "stored"} /\ group[i] \in Follows
            /\ follow.at \notin {"out", "watch"}
        ~> \/ client.told >= i
           \/ fate[i] \in {"lost", "removed", "dead"}
           \/ follow.at = "out"

================================================================================
