---------------------------------- MODULE Ring ----------------------------------
(***************************************************************************)
(* internal/core/ring: memory shared by one producer, which never waits,   *)
(* and its readers, which never write.  A frame goes into the slot its     *)
(* number selects; a reader reads the slot's sequence before and after it  *)
(* copies the slot, and what was overwritten meanwhile, or lapped, is a    *)
(* gap it is told of.  A reader with nothing to read sleeps on one word.   *)
(*                                                                         *)
(* Each access to the shared memory is a step of its own.  A frame's data  *)
(* are Words, each of them the number of the frame it belongs to: a frame  *)
(* is torn where they differ.  The atomic accesses are as sync/atomic      *)
(* makes them; the clock, length and payload are plain memory, raced on    *)
(* between processes.  On amd64 those stay between the two accesses of the *)
(* sequence they are written between.  On arm64 (Reorders) a plain store   *)
(* may come before the store-release of zero, and a plain load after the   *)
(* load-acquire of the second check.                                       *)
(*                                                                         *)
(* The wake word counts in 32 bits; between a reader's load of it and its  *)
(* wait there are no 2^32 frames, so it is a number here.                  *)
(***************************************************************************)
EXTENDS Naturals, FiniteSets

CONSTANTS
    Slots,     \* how many frames the ring holds
    Words,     \* the plain words of a slot: its clock, its length, its payload
    Readers,   \* the readers, each at its own pace
    Reorders,  \* whether plain accesses move across the sequence's
    MaxFrames  \* BOUND: the frames the producer publishes

ASSUME SlotsAssumption == Slots \in Nat \ {0}
ASSUME FramesAssumption == MaxFrames \in Nat /\ Reorders \in BOOLEAN

VARIABLES
    sequence,  \* of each slot: the frame in it, 0 while it is being written
    word,      \* of each slot: its plain words
    published, \* the count of frames published
    wake,      \* the word readers wait on
    writer,    \* the producer, and the frame it is publishing
    reader     \* each reader

ringVars == <<sequence, word, published, wake, writer, reader>>

Places == 0..(Slots - 1)
Frames == 0..MaxFrames

(* geometry.slot: the slot of a frame. *)
Place(n) == (n - 1) % Slots

Publishing == {"fill", "count", "wake", "futex"}
InHand == {"before", "copy"}
Inside == {"wake", "published", "wait", "asleep"} \cup InHand

(* The producer publishes n: zeroed says it stored zero, left the words to *)
(* write.  A reader looks for next; wake is what it loaded of the word;    *)
(* got, left and after are of the slot of n, checked whether after was     *)
(* loaded; gap is what this call lost so far.  Of the calls before: the    *)
(* frames returned, the gaps told, and the last frame.                     *)
Writers == [at : {"idle", "gone"} \cup Publishing, n : Frames,
            zeroed : BOOLEAN, left : SUBSET Words]
ReaderStates ==
    [at : {"idle"} \cup Inside, next : Nat, wake : Nat, n : Frames,
     before : Frames, after : Frames, checked : BOOLEAN,
     got : [Words -> Frames], left : SUBSET Words, gap : Nat,
     frames : Nat, gaps : Nat, last : Frames, lastGot : [Words -> Frames]]

Blank == [w \in Words |-> 0]

(* CreateWith, OpenWriter and OpenReader: zeroed memory, nothing read. *)
Init ==
    /\ sequence = [p \in Places |-> 0]
    /\ word = [p \in Places |-> Blank]
    /\ published = 0
    /\ wake = 0
    /\ writer = [at |-> "idle", n |-> 0, zeroed |-> FALSE, left |-> {}]
    /\ reader = [r \in Readers |->
                   [at |-> "idle", next |-> 1, wake |-> 0, n |-> 0,
                    before |-> 0, after |-> 0, checked |-> FALSE, got |-> Blank,
                    left |-> {}, gap |-> 0, frames |-> 0, gaps |-> 0,
                    last |-> 0, lastGot |-> Blank]]

--------------------------------------------------------------------------------
(* Publish: the producer's steps, in the order it takes them.              *)

Begin ==
    /\ writer.at = "idle"
    /\ writer.n < MaxFrames
    /\ writer' = [at |-> "fill", n |-> writer.n + 1, zeroed |-> FALSE,
                  left |-> Words]
    /\ UNCHANGED <<sequence, word, published, wake, reader>>

Zero ==
    /\ writer.at = "fill" /\ ~writer.zeroed
    /\ sequence' = [sequence EXCEPT ![Place(writer.n)] = 0]
    /\ writer' = [writer EXCEPT !.zeroed = TRUE]
    /\ UNCHANGED <<word, published, wake, reader>>

Store(w) ==
    /\ writer.at = "fill" /\ w \in writer.left
    /\ writer.zeroed \/ Reorders
    /\ word' = [word EXCEPT ![Place(writer.n)][w] = writer.n]
    /\ writer' = [writer EXCEPT !.left = @ \ {w}]
    /\ UNCHANGED <<sequence, published, wake, reader>>

(* Mutant: the slot is numbered before its words are all stored. *)
SealAtOnce ==
    /\ writer.at = "fill" /\ writer.zeroed
    /\ sequence' = [sequence EXCEPT ![Place(writer.n)] = writer.n]
    /\ writer' = [writer EXCEPT !.at = "count"]
    /\ UNCHANGED <<word, published, wake, reader>>

Seal ==
    /\ writer.at = "fill" /\ writer.zeroed /\ writer.left = {}
    /\ sequence' = [sequence EXCEPT ![Place(writer.n)] = writer.n]
    /\ writer' = [writer EXCEPT !.at = "count"]
    /\ UNCHANGED <<word, published, wake, reader>>

Count ==
    /\ writer.at = "count"
    /\ published' = writer.n
    /\ writer' = [writer EXCEPT !.at = "wake"]
    /\ UNCHANGED <<sequence, word, wake, reader>>

Wake ==
    /\ writer.at = "wake"
    /\ wake' = wake + 1
    /\ writer' = [writer EXCEPT !.at = "futex"]
    /\ UNCHANGED <<sequence, word, published, reader>>

(* Every waiter is woken, and its call goes round its loop. *)
FutexWake ==
    /\ writer.at = "futex"
    /\ reader' = [r \in Readers |->
                    IF reader[r].at = "asleep"
                    THEN [reader[r] EXCEPT !.at = "wake"] ELSE reader[r]]
    /\ writer' = [writer EXCEPT !.at = "idle"]
    /\ UNCHANGED <<sequence, word, published, wake>>

(* The producer's process dies, wherever it is. *)
Dies ==
    /\ writer.at # "gone"
    /\ writer' = [writer EXCEPT !.at = "gone"]
    /\ UNCHANGED <<sequence, word, published, wake, reader>>

Produce ==
    Begin \/ Zero \/ (\E w \in Words : Store(w)) \/ Seal \/ Count \/ Wake
    \/ FutexWake \/ Dies

--------------------------------------------------------------------------------
(* Next: a reader's call.                                                  *)

memory == <<sequence, word, published, wake>>
Becomes(r, new) ==
    reader' = [reader EXCEPT ![r] = new] /\ UNCHANGED <<memory, writer>>

Call(r) ==
    /\ reader[r].at = "idle"
    /\ Becomes(r, [reader[r] EXCEPT !.at = "wake", !.gap = 0])

LoadWake(r) ==
    /\ reader[r].at = "wake"
    /\ Becomes(r, [reader[r] EXCEPT !.at = "published", !.wake = wake])

(* The frame taken, and what was lapped before it.  Published at least as  *)
(* often as it holds frames, the ring still holds the last of them.        *)
OldestUnsubtracted == published + 1 \* mutant: all it held is skipped
Oldest == IF published >= Slots THEN published - Slots + 1 ELSE 0

(* Mutant: the reader stays at the frame it takes. *)
TakeInPlace(r) ==
    /\ reader[r].at = "published"
    /\ published >= reader[r].next
    /\ LET rd == reader[r]
           n == IF rd.next < Oldest THEN Oldest ELSE rd.next
       IN Becomes(r, [rd EXCEPT !.at = "before", !.n = n, !.next = n,
                                !.gap = @ + (n - rd.next), !.checked = FALSE])

Take(r) ==
    /\ reader[r].at = "published"
    /\ published >= reader[r].next
    /\ LET rd == reader[r]
           n == IF rd.next < Oldest THEN Oldest ELSE rd.next
       IN Becomes(r, [rd EXCEPT !.at = "before", !.n = n, !.next = n + 1,
                                !.gap = @ + (n - rd.next), !.checked = FALSE])

(* Nothing to take, and the interval not over: the reader is to wait. *)
Nothing(r) ==
    /\ reader[r].at = "published"
    /\ published < reader[r].next
    /\ Becomes(r, [reader[r] EXCEPT !.at = "wait"])

(* What a call ends with: the gap is told, whether a frame comes with it.  *)
Told(rd) == [rd EXCEPT !.at = "idle", !.gaps = @ + rd.gap, !.gap = 0]

(* The interval is over: no frame. *)
NoFrame(r) ==
    /\ reader[r].at = "published"
    /\ published < reader[r].next
    /\ Becomes(r, Told(reader[r]))

(* Mutant: the word is not compared again before the reader sleeps. *)
SleepAnyway(r) ==
    /\ reader[r].at = "wait"
    /\ Becomes(r, [reader[r] EXCEPT !.at = "asleep"])

(* The kernel compares the word with what was loaded before it sleeps. *)
Sleep(r) ==
    /\ reader[r].at = "wait"
    /\ Becomes(r, [reader[r] EXCEPT
         !.at = IF wake = reader[r].wake THEN "asleep" ELSE "wake"])

(* The wait's own limit, or a signal. *)
WaitEnds(r) ==
    /\ reader[r].at = "asleep"
    /\ Becomes(r, [reader[r] EXCEPT !.at = "wake"])

Before(r) ==
    /\ reader[r].at = "before"
    /\ Becomes(r, [reader[r] EXCEPT !.at = "copy", !.left = Words,
                                    !.before = sequence[Place(reader[r].n)]])

Copy(r, w) ==
    /\ reader[r].at = "copy" /\ w \in reader[r].left
    /\ Becomes(r, [reader[r] EXCEPT !.left = @ \ {w},
                     !.got = [@ EXCEPT ![w] = word[Place(reader[r].n)][w]]])

After(r) ==
    /\ reader[r].at = "copy" /\ ~reader[r].checked
    /\ reader[r].left = {} \/ Reorders
    /\ Becomes(r, [reader[r] EXCEPT !.checked = TRUE,
                                    !.after = sequence[Place(reader[r].n)]])

Intact(rd) == rd.before = rd.n /\ rd.after = rd.n

Copied(rd) == rd.at = "copy" /\ rd.left = {} /\ rd.checked

Deliver(r) ==
    /\ Copied(reader[r]) /\ Intact(reader[r])
    /\ Becomes(r, [Told(reader[r]) EXCEPT !.frames = @ + 1,
                     !.last = reader[r].n, !.lastGot = reader[r].got])

Overwritten(r) ==
    /\ Copied(reader[r]) /\ ~Intact(reader[r])
    /\ Becomes(r, [reader[r] EXCEPT !.at = "wake", !.gap = @ + 1])

Read(r) ==
    \/ Call(r) \/ LoadWake(r) \/ Take(r) \/ Nothing(r) \/ NoFrame(r)
    \/ Sleep(r) \/ WaitEnds(r) \/ Before(r) \/ (\E w \in Words : Copy(r, w))
    \/ After(r) \/ Deliver(r) \/ Overwritten(r)

Next == Produce \/ \E r \in Readers : Read(r)

Spec == Init /\ [][Next]_ringVars

--------------------------------------------------------------------------------
(* What is promised.                                                       *)

TypeOK ==
    /\ sequence \in [Places -> Frames]
    /\ word \in [Places -> [Words -> Frames]]
    /\ published \in Frames
    /\ wake \in Nat
    /\ writer \in Writers
    /\ reader \in [Readers -> ReaderStates]

(* No reader is handed a torn frame: every word of the last frame it was   *)
(* given is that frame's, whatever the producer did meanwhile (Next's      *)
(* checks of the slot's sequence, before and after the copy).              *)
FrameIsWhole ==
    \A r \in Readers : reader[r].last # 0 =>
        \A w \in Words : reader[r].lastGot[w] = reader[r].last

(* Frames returned and gaps told add up to the frames passed: none is lost *)
(* without a word, none is told twice, across calls that end with a frame  *)
(* and calls that end with none (Next's gap).                              *)
Accounted ==
    \A r \in Readers :
        LET rd == reader[r]
        IN rd.frames + rd.gaps + rd.gap
             + (IF rd.at \in InHand THEN 1 ELSE 0) = rd.next - 1

(* Only what the producer had begun to overwrite is lost: a reader that    *)
(* keeps within the ring's slots misses nothing (Next's oldest).           *)
OnlyLappedLost ==
    [][\A r \in Readers :
         reader'[r].gap > reader[r].gap =>
            LET lost == IF reader[r].at = "copy" THEN reader[r].n
                        ELSE reader'[r].n - 1
            IN lost + Slots <= writer.n
      ]_ringVars

(* No reader sleeps through a publication: while it sleeps with a frame to *)
(* read, the producer is about to wake it, or died before it could, and    *)
(* the wait has a limit of its own (Next's loads, futexWait, futexWake).   *)
NoLostWakeup ==
    \A r \in Readers :
        reader[r].at = "asleep" /\ published >= reader[r].next =>
            writer.at \in {"wake", "futex", "gone"}

================================================================================
