--------------------------------- MODULE Channels ---------------------------------
(***************************************************************************)
(* The surfaces' attachments and what makes a channel hold                 *)
(* (internal/core/interfaces/attachment.go, local.go, web.go, records.go). *)
(* A surface counts its attachments whose picture is current, under its    *)
(* own lock, and tells the arbiter whether the channel holds after letting *)
(* the lock go; the arbiter decides under its lock and tells what changed  *)
(* after letting that go.  The goroutines are the one that serves an       *)
(* attachment, the watch over its confirmations, and, on the browser's     *)
(* projection, one for each control request, which finds its attachment by *)
(* a cookie and acts on it later.                                          *)
(*                                                                         *)
(* Left out: the pictures and events an attachment is sent, the checks     *)
(* that refuse a request without changing anything, the events that an     *)
(* attachment began, grew stale and ended, and deliveries (Deliveries).    *)
(* Time is not modelled: a confirmation is overdue when the watch finds so.*)
(***************************************************************************)
EXTENDS Arbiter, Integers, FiniteSets

CONSTANTS
    Attachments, \* the attachments made, each once
    ChannelOf,   \* the channel each is made on
    ClientOf,    \* the client each is made by
    Single,      \* the channels that take one client
    Confirmed,   \* the channels whose attachments must confirm
    Browser,     \* the channels of the browser's projection
    Requests     \* the control requests made, each once

ASSUME ChannelsAssumption ==
    /\ IsFiniteSet(Attachments)
    /\ ChannelOf \in [Attachments -> Channels]
    /\ Single \subseteq Channels
    /\ Confirmed \subseteq Channels
    /\ Browser \subseteq Channels

VARIABLES
    clients, \* the clients attached to each channel, in their order
    current, \* each channel's attachments whose picture is current
    stale,   \* the attachments not counted, the ones never begun included
    ended,   \* the attachments whose context has ended
    web,     \* the browser's attachments that a cookie finds
    thread,  \* each goroutine
    said     \* the verdict on each channel last published

surfaceVars == <<clients, current, stale, ended, web>>
channelVars == <<arbiterVars, surfaceVars, thread, said>>

Server(a) == <<a, "serve">>
Watch(a) == <<a, "watch">>
Threads == (Attachments \X {"serve", "watch"}) \cup (Requests \X {"control"})

(* What a goroutine is at, where it goes once it told the arbiter, the     *)
(* attachment a request found, and what is still to be told.               *)
Idle == [at |-> "out", next |-> "out", of |-> {}, holds |-> FALSE, news |-> <<>>]

ChannelsInit ==
    /\ ArbiterInit
    /\ clients = [c \in Channels |-> <<>>]
    /\ current = [c \in Channels |-> 0]
    /\ stale = Attachments
    /\ ended = {}
    /\ web = {}
    /\ thread = [t \in Threads |-> Idle]
    /\ said = [c \in Channels |-> Free]

At(t) == thread[t].at
Goes(t, at) == thread' = [thread EXCEPT ![t].at = at]

(* The attachment a goroutine is about, and its channel. *)
About(t) == IF t[2] = "control" THEN CHOOSE a \in Attachments : a \in thread[t].of
            ELSE t[1]
On(t) == ChannelOf[About(t)]

-------------------------------------------------------------------------------
(* hold, by any goroutine: the count, the arbiter, the events. *)

Holding(t, way, next) ==
    thread' = [thread EXCEPT ![t] = [@ EXCEPT !.at = way, !.next = next]]

Counts(t) ==
    /\ At(t) \in {"up", "down"}
    /\ LET now == current[On(t)] + (IF At(t) = "up" THEN 1 ELSE -1) IN
       /\ current' = [current EXCEPT ![On(t)] = now]
       /\ thread' = [thread EXCEPT ![t] = [@ EXCEPT !.at = "arbiter", !.holds = now > 0]]
    /\ UNCHANGED <<arbiterVars, clients, stale, ended, web, said>>

TellArbiter(t) ==
    /\ At(t) = "arbiter"
    /\ Hold(On(t), thread[t].holds)
    /\ thread' = [thread EXCEPT ![t] = [@ EXCEPT !.at = "tell", !.holds = FALSE, !.news = News]]
    /\ UNCHANGED <<surfaceVars, said>>

Tell(t) ==
    /\ At(t) = "tell"
    /\ said' = [c \in Channels |-> IF c \in DOMAIN thread[t].news
                                   THEN thread[t].news[c] ELSE said[c]]
    /\ thread' = [thread EXCEPT ![t] = [@ EXCEPT !.at = thread[t].next, !.next = "out",
                                                 !.news = <<>>]]
    /\ UNCHANGED <<arbiterVars, surfaceVars>>

-------------------------------------------------------------------------------
(* An attachment begins. *)

Begins(a) ==
    LET c == ChannelOf[a] IN
    /\ At(Server(a)) = "out"
    /\ c \in Single => clients[c] = <<>>
    /\ clients' = [clients EXCEPT ![c] = Append(@, ClientOf[a])]
    /\ stale' = stale \ {a}
    /\ Holding(Server(a), "up", "begun")
    /\ UNCHANGED <<arbiterVars, current, ended, web, said>>

(* The browser's connection is upgraded, and its cookie finds it. *)
Register(a) ==
    /\ At(Server(a)) = "begun"
    /\ ChannelOf[a] \in Browser
    /\ web' = web \cup {a}
    /\ Goes(Server(a), "opening")
    /\ UNCHANGED <<arbiterVars, clients, current, stale, ended, said>>

(* The opening is sent, and the watch begins where the channel confirms. *)
Start(a) ==
    /\ At(Server(a)) = IF ChannelOf[a] \in Browser THEN "opening" ELSE "begun"
    /\ thread' = [thread EXCEPT
         ![Server(a)].at = "serving",
         ![Watch(a)].at = IF ChannelOf[a] \in Confirmed THEN "watching" ELSE "out"]
    /\ UNCHANGED <<arbiterVars, surfaceVars, said>>

(* The connection ends, or is lost before the opening: the browser's is    *)
(* found by no cookie any more, and the attachment's context is ended.     *)
End(a) ==
    /\ At(Server(a)) \in {"begun", "opening", "serving"}
    /\ web' = web \ {a}
    /\ ended' = ended \cup {a}
    /\ Goes(Server(a), "ending")
    /\ UNCHANGED <<arbiterVars, clients, current, stale, said>>

(* The calls in flight and the watch have ended: the client is detached.   *)
CallsEnded(a) ==
    /\ At(Watch(a)) \in {"out", "done"}
    /\ \A t \in Requests \X {"control"} : At(t) = "streaming" => a \notin thread[t].of

Seat(a) == CHOOSE i \in DOMAIN clients[ChannelOf[a]] :
              /\ clients[ChannelOf[a]][i] = ClientOf[a]
              /\ \A j \in 1..(i - 1) : clients[ChannelOf[a]][j] # ClientOf[a]
Without(s, i) == SubSeq(s, 1, i - 1) \o SubSeq(s, i + 1, Len(s))

Detach(a) ==
    /\ At(Server(a)) = "ending"
    /\ CallsEnded(a)
    /\ clients' = [clients EXCEPT ![ChannelOf[a]] = Without(@, Seat(a))]
    /\ Goes(Server(a), "detached")
    /\ UNCHANGED <<arbiterVars, current, stale, ended, web, said>>

(* Mutant: it is counted no longer, found stale before or not. *)
UncountAnyway(a) ==
    /\ At(Server(a)) = "detached"
    /\ stale' = stale \cup {a}
    /\ Holding(Server(a), "down", "done")
    /\ UNCHANGED <<arbiterVars, clients, current, ended, web, said>>

(* It is counted no longer, unless the watch had found it stale. *)
Uncount(a) ==
    /\ At(Server(a)) = "detached"
    /\ stale' = stale \cup {a}
    /\ IF a \in stale THEN Goes(Server(a), "done")
                      ELSE Holding(Server(a), "down", "done")
    /\ UNCHANGED <<arbiterVars, clients, current, ended, web, said>>

-------------------------------------------------------------------------------
(* The watch over its confirmations. *)

FindsStale(a) ==
    /\ At(Watch(a)) = "watching"
    /\ a \notin stale
    /\ stale' = stale \cup {a}
    /\ Holding(Watch(a), "down", "watching")
    /\ UNCHANGED <<arbiterVars, clients, current, ended, web, said>>

WatchEnds(a) ==
    /\ At(Watch(a)) = "watching"
    /\ a \in ended
    /\ Goes(Watch(a), "done")
    /\ UNCHANGED <<arbiterVars, surfaceVars, said>>

-------------------------------------------------------------------------------
(* The requests: read by the goroutine that serves the attachment, or, on  *)
(* the browser's projection, by one of their own.                          *)

Finds(r, a) ==
    /\ At(<<r, "control">>) = "out"
    /\ a \in web
    /\ thread' = [thread EXCEPT ![<<r, "control">>] = [@ EXCEPT !.at = "handling",
                                                                !.of = {a}]]
    /\ UNCHANGED <<arbiterVars, surfaceVars, said>>

Handling(t) ==
    \/ t[2] = "control" /\ At(t) = "handling"
    \/ t[2] = "serve" /\ At(t) = "serving" /\ On(t) \notin Browser

Answered(t) == IF t[2] = "control" THEN "answered" ELSE "serving"

Confirm(t) ==
    /\ Handling(t)
    /\ stale' = stale \ {About(t)}
    /\ IF About(t) \in stale THEN Holding(t, "up", Answered(t))
                             ELSE Goes(t, Answered(t))
    /\ UNCHANGED <<arbiterVars, clients, current, ended, web, said>>

Reclaim(t) ==
    /\ Handling(t)
    /\ TakeBack(On(t))
    /\ thread' = [thread EXCEPT ![t] = [@ EXCEPT !.at = "tell", !.next = Answered(t),
                                                 !.news = News]]
    /\ UNCHANGED <<surfaceVars, said>>

(* A subscription, which runs on its own; the request waits for its first  *)
(* answer, which is not sent once the attachment's context has ended.      *)
Subscribe(t) ==
    /\ t[2] = "control" /\ Handling(t)
    /\ Goes(t, "streaming")
    /\ UNCHANGED <<arbiterVars, surfaceVars, said>>

FirstAnswer(t) ==
    /\ At(t) = "streaming"
    /\ Goes(t, IF About(t) \in ended THEN "unanswered" ELSE "answered")
    /\ UNCHANGED <<arbiterVars, surfaceVars, said>>

-------------------------------------------------------------------------------
Finishes(a) == Detach(a) \/ Uncount(a)
Watches(a) == FindsStale(a) \/ WatchEnds(a)
Holds(t) == Counts(t) \/ TellArbiter(t) \/ Tell(t)
Handles(t) == Confirm(t) \/ Reclaim(t) \/ Subscribe(t) \/ FirstAnswer(t)

ChannelsNext ==
    \/ \E a \in Attachments :
          \/ Begins(a) \/ Register(a) \/ Start(a) \/ End(a) \/ Finishes(a)
          \/ Watches(a)
          \/ \E r \in Requests : Finds(r, a)
    \/ \E t \in Threads : Holds(t) \/ Handles(t)

ChannelsSpec == ChannelsInit /\ [][ChannelsNext]_channelVars

-------------------------------------------------------------------------------
ChannelsTypeOK ==
    /\ clients \in [Channels -> Seq({ClientOf[a] : a \in Attachments})]
    /\ current \in [Channels -> Int]
    /\ stale \subseteq Attachments
    /\ ended \subseteq Attachments
    /\ web \subseteq Attachments
    /\ \A t \in Threads : thread[t].of \subseteq Attachments
    /\ said \in [Channels -> Verdicts]

(* Who is on a channel, who is counted, and who is about to say so. *)
Attached(c) == {a \in Attachments : /\ ChannelOf[a] = c
                                    /\ At(Server(a)) \notin {"out", "detached", "done"}
                                    /\ thread[Server(a)].next # "done"}
Counting(c, way) == {t \in Threads : At(t) = way /\ On(t) = c}

(* An attachment is counted once from its beginning, while its picture is  *)
(* current, whichever of its beginning, its watch, a confirmation and its  *)
(* end changes that and in whatever order they reach the count: none is    *)
(* counted twice or discounted twice (hold, watch, finish, confirm).       *)
CountIsExact ==
    \A c \in Channels :
       current[c] + Cardinality(Counting(c, "up"))
         = Cardinality({a \in Attachments \ stale : ChannelOf[a] = c})
           + Cardinality(Counting(c, "down"))

(* A channel that takes one client never has two, and its list of clients  *)
(* is those attached (attach, detach).                                     *)
AttachedOnce ==
    \A c \in Channels :
       /\ Len(clients[c]) = Cardinality(Attached(c))
       /\ c \in Single => Cardinality(Attached(c)) <= 1

(* "Hold says whether a channel holds: attached, and its picture current": *)
(* with no goroutine on its way to the arbiter, the arbiter has it so.  It *)
(* has not where two goroutines count in one order and tell in the other.  *)
HoldingIsCurrent ==
    \A c \in Channels :
       (\A t \in Threads : At(t) \in {"up", "down", "arbiter"} => On(t) # c)
       => (c \in holding <=> current[c] > 0)
=================================================================================
