-------------------------------- MODULE Deliveries --------------------------------
(***************************************************************************)
(* The deliveries one attachment holds of one unit's stream                *)
(* (internal/core/interfaces/delivery.go, and the feeds of                 *)
(* internal/core/streams/streams.go).  A subscription registers a feed     *)
(* with the streams and then records what releases it; the goroutine that  *)
(* reads the stream hands each frame to the feeds it found under the lock, *)
(* and a delivery whose queue is full is released by a goroutine of its    *)
(* own; the unit's end takes every feed and releases each; the attachment  *)
(* unsubscribes, or ends and releases all it holds.                        *)
(*                                                                         *)
(* One goroutine serves the attachment, as on the typed projection.  What  *)
(* carries a delivery's frames to the client (a socket, the connection) is *)
(* the goroutine that takes from its queue.  A subscription's checks, and  *)
(* the socket's creation and removal, are left out.                        *)
(***************************************************************************)
EXTENDS Naturals, Sequences, FiniteSets

CONSTANTS
    MaxDeliveries, \* bounds the deliveries subscribed to, numbered from one
    StreamReaders, \* the goroutines that read the stream, one each time it was opened
    Queued,        \* the frames a delivery holds for its client
    MaxFrame       \* bounds the frames read

ASSUME DeliveriesAssumption ==
    /\ Queued \in Nat \ {0}
    /\ MaxFrame \in Nat
    /\ MaxDeliveries \in Nat

VARIABLES
    feeds,    \* the deliveries the streams feed
    held,     \* the deliveries the attachment holds: those it can release
    server,   \* what the goroutine that serves the attachment is at
    begun,    \* the deliveries subscribed to so far
    adding,   \* the one it fed and does not hold yet
    unitAt,   \* what the one that closes the unit's streams is at
    drop,     \* the deliveries each goroutine is to drop, and the one it is releasing
    handing,  \* what each that reads the stream is handing over
    frames,   \* the frames read
    accepted, \* the frames each delivery accepted, in order
    taken,    \* how many of them its client took
    behind,   \* the deliveries that found their queue full
    darkened, \* the frames each did not carry because the channel was dark
    released, \* the deliveries released
    cut,      \* those the unit's end took
    unheard   \* those whose drop came before the attachment held them

readVars == <<handing, frames, accepted, behind, darkened>>
attachmentVars == <<server, begun, adding>>
endVars == <<cut, unheard>>
deliveryVars == <<feeds, held, attachmentVars, unitAt, drop, released,
                  endVars, readVars, taken>>

(* The goroutines that drop deliveries: the attachment's, the one that     *)
(* closes the unit's streams, and each delivery's own, when it is behind,  *)
(* which is known by the delivery's number.                                *)
Numbers == 1..MaxDeliveries
Attachment == 0
Closer == MaxDeliveries + 1
Droppers == 0..(MaxDeliveries + 1)
NoDrop == [left |-> {}, now |-> {}]
Unoccupied(p) == drop[p] = NoDrop
Hand == [to |-> 0, frame |-> 0, left |-> {}]

DeliveriesInit ==
    /\ feeds = {} /\ held = {} /\ begun = {} /\ adding = {}
    /\ behind = {} /\ released = {} /\ cut = {} /\ unheard = {}
    /\ server = "serving"
    /\ unitAt = "idle"
    /\ drop = [p \in Droppers |-> NoDrop]
    /\ handing = [r \in StreamReaders |-> Hand]
    /\ frames = 0
    /\ accepted = [d \in Numbers |-> <<>>]
    /\ taken = [d \in Numbers |-> 0]
    /\ darkened = [d \in Numbers |-> {}]

-------------------------------------------------------------------------------
(* drop: what releases a delivery is taken from the held ones under their  *)
(* lock, by one goroutine only, and called after it.  A drop of one that   *)
(* is not held yet finds nothing, and is not made again.                   *)

ToDrop(p, ds) == drop' = [drop EXCEPT ![p].left = ds]

(* Mutant: looked up, and taken once it was released. *)
FindRelease(p, d) ==
    /\ drop[p].now = {} /\ d \in drop[p].left
    /\ drop' = [drop EXCEPT ![p] = [drop[p] EXCEPT !.left = @ \ {d}, !.now = {d} \cap held]]
    /\ UNCHANGED <<held, feeds, attachmentVars, unitAt, released, endVars, readVars, taken>>

TakeRelease(p, d) ==
    /\ drop[p].now = {} /\ d \in drop[p].left
    /\ held' = held \ {d}
    /\ drop' = [drop EXCEPT ![p] = [drop[p] EXCEPT !.left = @ \ {d}, !.now = {d} \cap held]]
    /\ unheard' = unheard \cup ({d} \cap adding)
    /\ UNCHANGED <<feeds, attachmentVars, unitAt, released, cut, readVars, taken>>

Release(p) ==
    /\ drop[p].now # {}
    /\ feeds' = feeds \ drop[p].now
    /\ released' = released \cup drop[p].now
    /\ drop' = [drop EXCEPT ![p].now = {}]
    /\ UNCHANGED <<held, attachmentVars, unitAt, endVars, readVars, taken>>

-------------------------------------------------------------------------------
(* The goroutine that serves the attachment. *)

SubscribeStream(d) ==
    /\ server = "serving" /\ Unoccupied(Attachment)
    /\ d = Cardinality(begun) + 1
    /\ begun' = begun \cup {d}
    /\ feeds' = feeds \cup {d}
    /\ adding' = {d}
    /\ server' = "adding"
    /\ UNCHANGED <<held, unitAt, drop, released, endVars, readVars, taken>>

Add ==
    /\ server = "adding"
    /\ held' = held \cup adding
    /\ adding' = {}
    /\ server' = "serving"
    /\ UNCHANGED <<feeds, begun, unitAt, drop, released, endVars, readVars, taken>>

Unsubscribe(d) ==
    /\ server = "serving" /\ Unoccupied(Attachment)
    /\ d \in held
    /\ held' = held \ {d}
    /\ drop' = [drop EXCEPT ![Attachment].now = {d}]
    /\ UNCHANGED <<feeds, attachmentVars, unitAt, released, endVars, readVars, taken>>

(* The attachment ends, and drops the deliveries it holds at once. *)
Detaches ==
    /\ server = "serving" /\ Unoccupied(Attachment)
    /\ server' = "ending"
    /\ ToDrop(Attachment, held)
    /\ UNCHANGED <<feeds, held, adding, begun, unitAt, released, endVars, readVars,
                   taken>>

Detached ==
    /\ server = "ending" /\ Unoccupied(Attachment)
    /\ server' = "ended"
    /\ UNCHANGED <<feeds, held, adding, begun, unitAt, drop, released, endVars,
                   readVars, taken>>

-------------------------------------------------------------------------------
(* The unit's Session ends, or the unit does: its feeds are taken under    *)
(* the streams' lock, and each is told after it.                           *)

UnitEnds ==
    /\ unitAt = "idle" /\ Unoccupied(Closer)
    /\ unitAt' = "closed"
    /\ feeds' = {}
    /\ cut' = cut \cup feeds
    /\ ToDrop(Closer, feeds)
    /\ UNCHANGED <<held, attachmentVars, released, unheard, readVars, taken>>

-------------------------------------------------------------------------------
(* The goroutine that reads the stream: the feeds are found under the      *)
(* lock, and each is handed the frame after it.                            *)

ReadFrame(r) ==
    /\ handing[r].left = {} /\ frames < MaxFrame
    /\ frames' = frames + 1
    /\ handing' = [handing EXCEPT ![r] = [Hand EXCEPT !.frame = frames + 1, !.left = feeds]]
    /\ UNCHANGED <<feeds, held, attachmentVars, unitAt, drop, released, endVars, accepted,
                   behind, darkened, taken>>

(* carry: a delivery behind takes nothing, and nothing is carried while    *)
(* the channel is suspended dark, which the arbiter may say at any time.   *)
Skips(r, d) ==
    /\ handing[r].to = 0 /\ d \in handing[r].left
    /\ handing' = [handing EXCEPT ![r].left = @ \ {d}]
    /\ darkened' = IF d \in behind THEN darkened
                   ELSE [darkened EXCEPT ![d] = @ \cup {handing[r].frame}]
    /\ UNCHANGED <<feeds, held, attachmentVars, unitAt, drop, released, endVars,
                   frames, accepted, behind, taken>>

Carries(r, d) ==
    /\ handing[r].to = 0 /\ d \in handing[r].left
    /\ d \notin behind
    /\ handing' = [handing EXCEPT ![r].to = d]
    /\ UNCHANGED <<feeds, held, attachmentVars, unitAt, drop, released, endVars,
                   frames, accepted, behind, darkened, taken>>

Accept(d, f) ==
    /\ accepted' = [accepted EXCEPT ![d] = Append(@, f)]
    /\ UNCHANGED <<drop, behind>>

(* Mutant: it is offered what comes until it is released. *)
FallsShort(d, f) ==
    /\ drop' = [drop EXCEPT ![d].left = {d}]
    /\ UNCHANGED <<accepted, behind>>

(* Mutant: it takes nothing more, and is left to its client to drop. *)
FallsSilent(d, f) ==
    /\ behind' = behind \cup {d}
    /\ UNCHANGED <<accepted, drop>>

(* Behind: released, so the client learns it rather than meeting a gap. *)
FallsBehind(d, f) ==
    /\ behind' = behind \cup {d}
    /\ drop' = [drop EXCEPT ![d].left = {d}]
    /\ UNCHANGED accepted

Offers(r, d) ==
    /\ handing[r].to = d
    /\ IF Len(accepted[d]) - taken[d] < Queued THEN Accept(d, handing[r].frame)
                                              ELSE FallsBehind(d, handing[r].frame)
    /\ handing' = [handing EXCEPT ![r] = [handing[r] EXCEPT !.to = 0, !.left = @ \ {d}]]
    /\ UNCHANGED <<feeds, held, attachmentVars, unitAt, released, endVars, frames,
                   darkened, taken>>

-------------------------------------------------------------------------------
(* A delivery's carrier hands the client a frame.  It stops when it meets  *)
(* the release, or the client is gone: then no frame is taken any more.    *)
HandsOver(d) ==
    /\ taken[d] < Len(accepted[d])
    /\ taken' = [taken EXCEPT ![d] = @ + 1]
    /\ UNCHANGED <<feeds, held, attachmentVars, unitAt, drop, released, endVars,
                   readVars>>

-------------------------------------------------------------------------------
Drops(p) == Release(p) \/ \E d \in Numbers : TakeRelease(p, d)
Hands(r) == \E d \in Numbers : Skips(r, d) \/ Carries(r, d) \/ Offers(r, d)

DeliveriesNext ==
    \/ \E d \in Numbers : SubscribeStream(d) \/ Unsubscribe(d) \/ HandsOver(d)
    \/ Add \/ Detaches \/ Detached \/ UnitEnds
    \/ \E p \in Droppers : Drops(p)
    \/ \E r \in StreamReaders : ReadFrame(r) \/ Hands(r)

DeliveriesSpec == DeliveriesInit /\ [][DeliveriesNext]_deliveryVars

-------------------------------------------------------------------------------
DeliveriesTypeOK ==
    /\ feeds \subseteq begun /\ held \subseteq begun /\ adding \subseteq begun
    /\ behind \subseteq begun /\ released \subseteq begun
    /\ cut \subseteq begun /\ unheard \subseteq begun
    /\ begun \subseteq Numbers
    /\ drop \in [Droppers -> [left : SUBSET begun, now : SUBSET begun]]
    /\ accepted \in [Numbers -> Seq(1..MaxFrame)]
    /\ \A d \in Numbers : taken[d] \in 0..Len(accepted[d])

(* A delivery never removes a guarantee the path gave: the frames it hands *)
(* over are those read, each once and in order, with nothing missing       *)
(* between two of them but what came while the channel was dark; the first *)
(* it has no room for is the last it is offered (carry, Queued).           *)
Unbroken ==
    \A d \in Numbers : \A i \in 1..(Len(accepted[d]) - 1) :
       LET f == accepted[d][i]
           g == accepted[d][i + 1] IN
       /\ f < g
       /\ (f + 1)..(g - 1) \subseteq darkened[d]

(* A delivery that is not released is the attachment's to release: it is   *)
(* held, about to be, or being released, by one goroutine and once; none   *)
(* is fed that nobody can release, whatever drops race (deliveries.drop).  *)
Releasing == UNION {drop[p].now : p \in Droppers}
FedIsHeld ==
    /\ begun \ released \subseteq held \cup adding \cup Releasing
    /\ \A p, q \in Droppers : p # q => drop[p].now \cap drop[q].now = {}
    /\ Releasing \cap released = {}

(* Detaching leaves nothing behind: once the attachment has ended and no    *)
(* delivery is being released, every one it ever held was, and none is fed  *)
(* (deliveries.all).                                                        *)
DetachedLeavesNothing ==
    server = "ended" /\ (\A p \in Droppers : Unoccupied(p))
    => released = begun /\ feeds = {}

(* A delivery that fell behind, or that the unit's end took, is released,  *)
(* which is how its client is told where it ends, or some goroutine still  *)
(* has to drop it (Queued, carry, Feed's end).  The exception is the one   *)
(* dropped between Feed and held.add (delivery.go:211-212): the drop finds *)
(* nothing, and it is held, and silent, until its client lets it go.       *)
ToldItsEnd ==
    \A d \in behind \cup cut :
       \/ d \in released \cup Releasing \cup unheard
       \/ \E p \in Droppers : d \in drop[p].left

(* What a client attached to is handed to it whole, or it is told where it *)
(* ends, except as ToldItsEnd says; and whatever stops it, it is stopped   *)
(* once, and nothing is left that feeds nobody (carry, deliveries.drop,    *)
(* deliveries.all).                                                        *)
HandedWholeOrReleased == Unbroken /\ FedIsHeld /\ DetachedLeavesNothing /\ ToldItsEnd
=================================================================================
