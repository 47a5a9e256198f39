------------------------------- MODULE RingProofs -------------------------------
(***************************************************************************)
(* Ring, for every number of slots, words and readers, where plain         *)
(* accesses keep their place (amd64): no torn frame, no frame lost without *)
(* a word, none lost that was not lapped, no wakeup lost.                  *)
(*                                                                         *)
(* One inductive invariant carries all four.  Of the producer: what it is  *)
(* publishing has its number nowhere yet.  Of a slot: a number other than  *)
(* zero vouches for every word, and a frame published is in its slot until *)
(* a frame a whole ring later was begun.  Of a reader that found its frame *)
(* in the slot before copying: either it is there still and what was       *)
(* copied is of it, or it is gone and never comes back.                    *)
(***************************************************************************)
EXTENDS Ring, TLAPS

WriterInv ==
    LET n == writer.n
    IN /\ published <= n
       /\ writer.at \in {"idle", "wake", "futex"} => published = n
       /\ writer.at \in {"fill", "count"} => n = published + 1
       /\ writer.at = "fill" =>
            /\ \A p \in Places : sequence[p] # n
            /\ ~writer.zeroed => writer.left = Words
            /\ writer.zeroed =>
                 /\ sequence[Place(n)] = 0
                 /\ \A w \in Words \ writer.left : word[Place(n)][w] = n
       /\ writer.at = "count" => sequence[Place(n)] = n

SlotInv ==
    /\ \A p \in Places : sequence[p] <= writer.n
    /\ \A p \in Places : sequence[p] # 0 =>
         \A w \in Words : word[p][w] = sequence[p]
    /\ \A m \in 1..published :
         sequence[Place(m)] = m \/ m + Slots <= writer.n

Standing(rd) ==
    /\ rd.next >= 1
    /\ rd.at = "idle" => rd.gap = 0
    /\ rd.at \in InHand => rd.n \in 1..published
    /\ rd.at = "before" => ~rd.checked

(* What a reader in the middle of a copy knows of its frame. *)
Copying(rd) ==
    rd.at = "copy" =>
        /\ rd.before = rd.n \/ rd.n + Slots <= writer.n
        /\ rd.before = rd.n =>
             \/ /\ sequence[Place(rd.n)] = rd.n
                /\ \A w \in Words \ rd.left : rd.got[w] = rd.n
             \/ /\ sequence[Place(rd.n)] # rd.n
                /\ rd.n < writer.n
        /\ rd.checked =>
             /\ rd.left = {}
             /\ rd.after = rd.n \/ rd.n + Slots <= writer.n
             /\ Intact(rd) => \A w \in Words : rd.got[w] = rd.n

Waiting(rd) ==
    /\ rd.at \in {"published", "wait"} => rd.wake <= wake
    /\ rd.at = "wait" /\ rd.wake = wake /\ published >= rd.next =>
         writer.at \in {"wake", "gone"}
    /\ rd.at = "asleep" /\ published >= rd.next =>
         writer.at \in {"wake", "futex", "gone"}

Whole(rd) == rd.last # 0 => \A w \in Words : rd.lastGot[w] = rd.last

Sums(rd) ==
    rd.frames + rd.gaps + rd.gap + (IF rd.at \in InHand THEN 1 ELSE 0)
      = rd.next - 1

ReaderInv(r) ==
    LET rd == reader[r]
    IN Standing(rd) /\ Copying(rd) /\ Waiting(rd) /\ Whole(rd) /\ Sums(rd)

Inv == TypeOK /\ WriterInv /\ SlotInv /\ \A r \in Readers : ReaderInv(r)

--------------------------------------------------------------------------------
(* Every frame has a slot. *)
LEMMA PlaceOfFrame ==
    ASSUME NEW n \in Nat
    PROVE  Place(n) \in Places
  BY SlotsAssumption DEF Place, Places

(* Two frames of one slot are a whole number of rings apart. *)
LEMMA SameSlot ==
    ASSUME NEW m \in Nat, NEW n \in Nat, m >= 1, m < n, Place(m) = Place(n)
    PROVE  m + Slots <= n
<1>1. Slots \in Nat /\ Slots >= 1
  BY SlotsAssumption
<1> DEFINE a == (m - 1) \div Slots
           b == (n - 1) \div Slots
           rest == (m - 1) % Slots
<1>2. a \in Nat /\ b \in Nat /\ rest \in Nat
  BY <1>1
<1>3. m - 1 = Slots * a + rest
  BY <1>1
<1>4. n - 1 = Slots * b + rest
  BY <1>1 DEF Place
<1> HIDE DEF a, b, rest
<1>5. Slots * a < Slots * b
  BY <1>2, <1>1, <1>3, <1>4
<1>6. a < b
  BY <1>1, <1>2, <1>5
<1>7. Slots * b >= Slots * (a + 1)
  BY <1>1, <1>2, <1>6
<1>8. Slots * (a + 1) = Slots * a + Slots
  BY <1>1, <1>2
<1> QED
  BY <1>2, <1>1, <1>3, <1>4, <1>7, <1>8

--------------------------------------------------------------------------------
(* Types.                                                                  *)

LEMMA ProduceType ==
    ASSUME TypeOK, Produce
    PROVE  TypeOK'
<1> USE SlotsAssumption, FramesAssumption
<1> USE DEF TypeOK, Frames, Writers, Publishing
<1>n. writer.n \in Frames /\ Place(writer.n) \in Places
  BY PlaceOfFrame
<1>1. CASE Begin
  BY <1>1 DEF Begin
<1>2. CASE Zero
  <2>1. sequence' \in [Places -> Frames]
    BY <1>2, <1>n DEF Zero
  <2>2. writer' \in Writers
    BY <1>2 DEF Zero
  <2> QED
    BY <2>1, <2>2, <1>2 DEF Zero
<1>3. ASSUME NEW w \in Words, Store(w) PROVE TypeOK'
  <2>1. word' \in [Places -> [Words -> Frames]]
    BY <1>3, <1>n DEF Store
  <2>2. writer' \in Writers
    BY <1>3 DEF Store
  <2> QED
    BY <2>1, <2>2, <1>3 DEF Store
<1>4. CASE Seal
  BY <1>4, <1>n DEF Seal
<1>5. CASE Count
  BY <1>5, <1>n DEF Count
<1>6. CASE Wake
  BY <1>6 DEF Wake
<1>7. CASE FutexWake
  <2>1. ASSUME NEW r \in Readers PROVE [reader[r] EXCEPT !.at = "wake"] \in ReaderStates
    <3>1. reader[r] \in ReaderStates
      OBVIOUS
    <3>2. "wake" \in {"idle"} \cup Inside
      BY DEF Inside
    <3> HIDE DEF TypeOK, Frames, Writers, Publishing
    <3> QED BY <3>1, <3>2 DEF ReaderStates
  <2>2. reader' \in [Readers -> ReaderStates]
    BY <1>7, <2>1 DEF FutexWake
  <2>3. writer' \in Writers
    BY <1>7 DEF FutexWake
  <2> QED
    BY <2>2, <2>3, <1>7 DEF FutexWake
<1>8. CASE Dies
  BY <1>8 DEF Dies
<1> QED
  BY <1>2, <1>1, <1>3, <1>4, <1>5, <1>7, <1>6, <1>8 DEF Produce

LEMMA ReadType ==
    ASSUME TypeOK, NEW r \in Readers, Read(r)
    PROVE  TypeOK'
<1> DEFINE rd == reader[r]
<1>r. rd \in ReaderStates
  BY DEF TypeOK
<1>m. /\ sequence \in [Places -> Frames]
      /\ word \in [Places -> [Words -> Frames]]
      /\ published \in Frames /\ wake \in Nat
      /\ Place(rd.n) \in Places
  BY <1>r, PlaceOfFrame, FramesAssumption DEF TypeOK, ReaderStates, Frames
<1>b. ASSUME NEW new \in ReaderStates, Becomes(r, new) PROVE TypeOK'
  BY <1>b DEF Becomes, memory, TypeOK
<1> HIDE DEF rd
<1>t. Told(rd) \in ReaderStates
  <2> DEFINE told == rd.gaps + rd.gap
  <2>1. told \in Nat
    BY <1>r DEF ReaderStates
  <2> HIDE DEF told
  <2>2. [rd EXCEPT !.at = "idle", !.gaps = told, !.gap = 0] \in ReaderStates
    BY <2>1, <1>r DEF ReaderStates
  <2> QED
    BY <2>2 DEF Told, told
<1>1. CASE Call(r)
  <2>1. [rd EXCEPT !.at = "wake", !.gap = 0] \in ReaderStates
    BY <1>r DEF ReaderStates, Inside
  <2> QED
    BY <2>1, <1>1, <1>b DEF Call, rd
<1>2. CASE LoadWake(r)
  <2>1. [rd EXCEPT !.at = "published", !.wake = wake] \in ReaderStates
    BY <1>r, <1>m DEF ReaderStates, Inside
  <2> QED
    BY <2>1, <1>2, <1>b DEF LoadWake, rd
<1>3. CASE Take(r)
  <2> DEFINE n == IF rd.next < Oldest THEN Oldest ELSE rd.next
             gap == rd.gap + (n - rd.next)
             new == [rd EXCEPT !.at = "before", !.n = n, !.next = n + 1,
                               !.gap = gap, !.checked = FALSE]
  <2>1. rd.next \in Nat /\ rd.next <= published
    BY <1>3, <1>r DEF Take, rd, ReaderStates
  <2>2. n \in Frames /\ n >= rd.next
    BY <2>1, <1>m, SlotsAssumption, FramesAssumption DEF Oldest, Frames
  <2>3. n + 1 \in Nat /\ gap \in Nat
    BY <2>1, <2>2, <1>r, FramesAssumption DEF Frames, ReaderStates
  <2>4. Becomes(r, new)
    BY <1>3 DEF Take, rd
  <2>5. new \in ReaderStates
    <3> HIDE DEF gap
    <3> DEFINE next == n + 1
    <3>1. next \in Nat
      BY <2>3
    <3> HIDE DEF n, next
    <3>2. [rd EXCEPT !.at = "before", !.n = n, !.next = next,
                     !.gap = gap, !.checked = FALSE] \in ReaderStates
      BY <2>2, <2>3, <3>1, <1>r DEF ReaderStates, Inside, InHand
    <3> QED
      BY <3>2 DEF next
  <2> QED
    BY <2>4, <2>5, <1>b
<1>4. CASE Nothing(r)
  <2>1. [rd EXCEPT !.at = "wait"] \in ReaderStates
    BY <1>r DEF ReaderStates, Inside
  <2> QED
    BY <2>1, <1>4, <1>b DEF Nothing, rd
<1>5. CASE NoFrame(r)
  BY <1>t, <1>5, <1>b DEF NoFrame, rd
<1>6. CASE Sleep(r)
  <2>1. \A at \in {"asleep", "wake"} : [rd EXCEPT !.at = at] \in ReaderStates
    BY <1>r DEF ReaderStates, Inside
  <2> QED
    BY <2>1, <1>6, <1>b DEF Sleep, rd
<1>7. CASE WaitEnds(r)
  <2>1. [rd EXCEPT !.at = "wake"] \in ReaderStates
    BY <1>r DEF ReaderStates, Inside
  <2> QED
    BY <2>1, <1>7, <1>b DEF WaitEnds, rd
<1>8. CASE Before(r)
  <2>1. sequence[Place(rd.n)] \in Frames
    BY <1>m
  <2>2. [rd EXCEPT !.at = "copy", !.left = Words,
                   !.before = sequence[Place(rd.n)]] \in ReaderStates
    BY <2>1, <1>r DEF ReaderStates, Inside, InHand
  <2> QED
    BY <2>2, <1>8, <1>b DEF Before, rd
<1>9. ASSUME NEW w \in Words, Copy(r, w) PROVE TypeOK'
  <2> DEFINE got == [rd.got EXCEPT ![w] = word[Place(rd.n)][w]]
  <2>1. got \in [Words -> Frames]
    BY <1>r, <1>m DEF ReaderStates
  <2>2. Becomes(r, [rd EXCEPT !.left = @ \ {w}, !.got = got])
    BY <1>9 DEF Copy, rd
  <2> HIDE DEF got
  <2>3. [rd EXCEPT !.left = @ \ {w}, !.got = got] \in ReaderStates
    BY <2>1, <1>r DEF ReaderStates
  <2> QED
    BY <2>2, <2>3, <1>b
<1>10. CASE After(r)
  <2>1. sequence[Place(rd.n)] \in Frames
    BY <1>m
  <2>2. [rd EXCEPT !.checked = TRUE, !.after = sequence[Place(rd.n)]]
          \in ReaderStates
    BY <2>1, <1>r DEF ReaderStates
  <2> QED
    BY <2>2, <1>10, <1>b DEF After, rd
<1>11. CASE Deliver(r)
  <2> DEFINE told == Told(rd)
             frames == told.frames + 1
  <2>1. frames \in Nat
    BY <1>t DEF ReaderStates
  <2> HIDE DEF told, frames
  <2>2. told \in ReaderStates
    BY <1>t DEF told
  <2>3. [told EXCEPT !.frames = frames, !.last = rd.n, !.lastGot = rd.got]
          \in ReaderStates
    BY <2>1, <2>2, <1>r DEF ReaderStates
  <2> QED
    BY <2>3, <1>11, <1>b DEF Deliver, rd, told, frames
<1>12. CASE Overwritten(r)
  <2> DEFINE gap == rd.gap + 1
  <2>1. gap \in Nat
    BY <1>r DEF ReaderStates
  <2> HIDE DEF gap
  <2>2. [rd EXCEPT !.at = "wake", !.gap = gap] \in ReaderStates
    BY <2>1, <1>r DEF ReaderStates, Inside
  <2> QED
    BY <2>2, <1>12, <1>b DEF Overwritten, rd, gap
<1> QED
  BY <1>2, <1>1, <1>3, <1>4, <1>5, <1>7, <1>6, <1>8, <1>9, <1>11, <1>10,
     <1>12 DEF Read

LEMMA InitType == Init => TypeOK
  BY SlotsAssumption, FramesAssumption
     DEF Init, TypeOK, Frames, Writers, ReaderStates, Blank, Places

(* Every variable keeps its type, whatever moves across what: the memory   *)
(* holds frames of the bound, a reader's copy holds one value per word.    *)
THEOREM TypeCorrect == Spec => []TypeOK
<1>1. TypeOK /\ [Next]_ringVars => TypeOK'
  <2> SUFFICES ASSUME TypeOK, [Next]_ringVars PROVE TypeOK'
    OBVIOUS
  <2>1. CASE UNCHANGED ringVars
    BY <2>1 DEF TypeOK, ringVars
  <2> QED
    BY <2>1, ProduceType, ReadType DEF Next
<1> QED
  BY <1>1, InitType, PTL DEF Spec

--------------------------------------------------------------------------------
(* The producer's steps.                                                   *)

(* Naturals and places, out of the types. *)
LEMMA Known ==
    ASSUME TypeOK
    PROVE  /\ Slots \in Nat /\ Slots >= 1
           /\ published \in Nat /\ wake \in Nat
           /\ writer.n \in Nat /\ Place(writer.n) \in Places
           /\ \A p \in Places : sequence[p] \in Nat
           /\ \A r \in Readers : /\ reader[r].n \in Nat
                                 /\ Place(reader[r].n) \in Places
                                 /\ reader[r].next \in Nat
                                 /\ reader[r].wake \in Nat
  BY PlaceOfFrame, SlotsAssumption, FramesAssumption
     DEF TypeOK, Writers, ReaderStates, Frames

LEMMA ProduceWriter ==
    ASSUME Reorders = FALSE, TypeOK, WriterInv, SlotInv, Produce
    PROVE  WriterInv' /\ SlotInv'
<1> DEFINE W == writer.n
<1>k. /\ Slots \in Nat /\ Slots >= 1 /\ published \in Nat
      /\ W \in Nat /\ Place(W) \in Places
      /\ \A p \in Places : sequence[p] \in Nat
  BY Known
<1>t. /\ sequence \in [Places -> Frames]
      /\ word \in [Places -> [Words -> Frames]]
      /\ writer \in Writers
  BY DEF TypeOK
<1>m. \A m \in 1..published : m \in Nat /\ m >= 1 /\ Place(m) \in Places
  BY <1>k, PlaceOfFrame
<1>1. CASE Begin
  <2>1. /\ writer'.at = "fill" /\ writer'.n = W + 1 /\ ~writer'.zeroed
        /\ writer'.left = Words
        /\ UNCHANGED <<sequence, word, published>> /\ published = W
    BY <1>1, <1>t DEF Begin, WriterInv, Writers
  <2>2. WriterInv'
    BY <2>1, <1>k DEF WriterInv, SlotInv
  <2>3. SlotInv'
    BY <2>1, <1>k DEF SlotInv, Place
  <2> QED
    BY <2>2, <2>3
<1>2. CASE Zero
  <2>1. /\ writer.at = "fill" /\ writer'.at = "fill" /\ writer'.n = W
        /\ writer'.zeroed /\ writer'.left = writer.left /\ writer.left = Words
        /\ UNCHANGED <<word, published>> /\ W = published + 1
        /\ sequence' = [sequence EXCEPT ![Place(W)] = 0]
    BY <1>2, <1>t DEF Zero, WriterInv, Writers
  <2>2. Place(W)' = Place(W)
    BY <2>1 DEF Place
  <2>3. WriterInv'
    BY <2>1, <2>2, <1>k, <1>t DEF WriterInv
  <2>4. \A p \in Places : sequence'[p] <= W
    BY <2>1, <1>k, <1>t DEF SlotInv
  <2>5. \A p \in Places : sequence'[p] # 0 =>
          \A w \in Words : word'[p][w] = sequence'[p]
    BY <2>1, <1>t DEF SlotInv
  <2>6. ASSUME NEW m \in 1..published
        PROVE  sequence'[Place(m)] = m \/ m + Slots <= W
    <3>1. CASE Place(m) = Place(W)
      BY <3>1, <2>1, <1>k, <1>m, SameSlot
    <3>2. CASE Place(m) # Place(W)
      BY <3>2, <2>1, <1>k, <1>m, <1>t DEF SlotInv
    <3> QED
      BY <3>1, <3>2
  <2>7. SlotInv'
    BY <2>1, <2>4, <2>5, <2>6 DEF SlotInv, Place
  <2> QED
    BY <2>3, <2>7
<1>3. ASSUME NEW w \in Words, Store(w) PROVE WriterInv' /\ SlotInv'
  <2>1. /\ writer.at = "fill" /\ writer.zeroed /\ w \in writer.left
        /\ writer'.at = "fill" /\ writer'.n = W /\ writer'.zeroed
        /\ writer'.left = writer.left \ {w}
        /\ UNCHANGED <<sequence, published>> /\ W = published + 1
        /\ sequence[Place(W)] = 0
        /\ word' = [word EXCEPT ![Place(W)][w] = W]
    BY <1>3, <1>t DEF Store, WriterInv, Writers
  <2>2. Place(W)' = Place(W)
    BY <2>1 DEF Place
  <2>3. \A v \in Words \ writer'.left : word'[Place(W)][v] = W
    BY <2>1, <1>k, <1>t DEF WriterInv
  <2>4. WriterInv'
    BY <2>1, <2>2, <2>3, <1>k, <1>t DEF WriterInv
  <2>5. \A p \in Places : sequence[p] # 0 =>
          \A v \in Words : word'[p][v] = sequence[p]
    BY <2>1, <1>k, <1>t DEF SlotInv
  <2>6. SlotInv'
    BY <2>1, <2>5 DEF SlotInv, Place
  <2> QED
    BY <2>4, <2>6
<1>4. CASE Seal
  <2>1. /\ writer.at = "fill" /\ writer.zeroed /\ writer.left = {}
        /\ writer'.at = "count" /\ writer'.n = W
        /\ UNCHANGED <<word, published>> /\ W = published + 1
        /\ sequence' = [sequence EXCEPT ![Place(W)] = W]
        /\ \A w \in Words : word[Place(W)][w] = W
    BY <1>4, <1>t DEF Seal, WriterInv, Writers
  <2>2. Place(W)' = Place(W)
    BY <2>1 DEF Place
  <2>3. WriterInv'
    BY <2>1, <2>2, <1>k, <1>t DEF WriterInv
  <2>4. \A p \in Places : sequence'[p] <= W
    BY <2>1, <1>k, <1>t DEF SlotInv
  <2>5. \A p \in Places : sequence'[p] # 0 =>
          \A w \in Words : word'[p][w] = sequence'[p]
    BY <2>1, <1>t DEF SlotInv
  <2>6. ASSUME NEW m \in 1..published
        PROVE  sequence'[Place(m)] = m \/ m + Slots <= W
    <3>1. CASE Place(m) = Place(W)
      BY <3>1, <2>1, <1>k, <1>m, SameSlot
    <3>2. CASE Place(m) # Place(W)
      BY <3>2, <2>1, <1>k, <1>m, <1>t DEF SlotInv
    <3> QED
      BY <3>1, <3>2
  <2>7. SlotInv'
    BY <2>1, <2>4, <2>5, <2>6 DEF SlotInv, Place
  <2> QED
    BY <2>3, <2>7
<1>5. CASE Count
  <2>1. /\ writer'.at = "wake" /\ writer'.n = W /\ published' = W
        /\ UNCHANGED <<sequence, word>> /\ W = published + 1
        /\ sequence[Place(W)] = W
    BY <1>5, <1>t DEF Count, WriterInv, Writers
  <2>2. WriterInv'
    BY <2>1, <1>k DEF WriterInv
  <2>3. ASSUME NEW m \in 1..W
        PROVE  sequence[Place(m)] = m \/ m + Slots <= W
    <3>1. m = W \/ m \in 1..published
      BY <2>1, <1>k
    <3> QED
      BY <3>1, <2>1 DEF SlotInv
  <2>4. SlotInv'
    BY <2>1, <2>3 DEF SlotInv, Place
  <2> QED
    BY <2>2, <2>4
<1>6. ASSUME Wake \/ FutexWake \/ Dies PROVE WriterInv' /\ SlotInv'
  <2>1. /\ writer'.n = W /\ UNCHANGED <<sequence, word, published>>
        /\ writer'.at \in {"futex", "idle", "gone"}
        /\ writer'.at # "gone" => published = W
    BY <1>6, <1>t DEF Wake, FutexWake, Dies, WriterInv, Writers
  <2>2. WriterInv'
    BY <2>1 DEF WriterInv
  <2>3. SlotInv'
    BY <2>1 DEF SlotInv, Place
  <2> QED
    BY <2>2, <2>3
<1> QED
  BY <1>2, <1>1, <1>3, <1>4, <1>5, <1>6 DEF Produce

(* What a reader's record says of itself alone survives the producer. *)
LEMMA ProduceOthers ==
    ASSUME Inv, Produce, NEW r \in Readers
    PROVE  (Standing(reader[r]) /\ Whole(reader[r]) /\ Sums(reader[r]))'
<1> DEFINE rd == reader[r]
<1>k. published \in Nat /\ writer.n \in Nat /\ rd \in ReaderStates
  BY Known DEF Inv, TypeOK
<1>i. Standing(rd) /\ Whole(rd) /\ Sums(rd)
  BY DEF Inv, ReaderInv
<1>p. published' \in Nat /\ published' >= published
  <2>1. published' = published \/ published' = writer.n
    BY DEF Produce, Begin, Zero, Store, Seal, Count, Wake, FutexWake, Dies
  <2> QED
    BY <2>1, <1>k DEF Inv, WriterInv
<1>1. CASE UNCHANGED reader
  BY <1>1, <1>i, <1>k, <1>p DEF Standing, Whole, Sums
<1>2. CASE FutexWake
  <2>1. reader'[r] = rd \/ (rd.at = "asleep" /\ reader'[r] = [rd EXCEPT !.at = "wake"])
    BY <1>2 DEF FutexWake
  <2>2. CASE reader'[r] = rd
    BY <2>2, <1>i, <1>k, <1>p DEF Standing, Whole, Sums
  <2>3. CASE rd.at = "asleep" /\ reader'[r] = [rd EXCEPT !.at = "wake"]
    BY <2>3, <1>i, <1>k, <1>p DEF Standing, Whole, Sums, InHand, ReaderStates
  <2> QED
    BY <2>1, <2>3, <2>2
<1> QED
  BY <1>1, <1>2 DEF Produce, Begin, Zero, Store, Seal, Count, Wake, Dies

(* A frame being copied is there still, or has gone for ever. *)
LEMMA ProduceCopying ==
    ASSUME Reorders = FALSE, Inv, Produce, NEW r \in Readers
    PROVE  Copying(reader[r])'
<1> DEFINE rd == reader[r]
           W == writer.n
<1>k. /\ Slots \in Nat /\ published \in Nat /\ W \in Nat
      /\ rd \in ReaderStates /\ Place(W) \in Places
      /\ rd.n \in Nat /\ Place(rd.n) \in Places
      /\ sequence \in [Places -> Frames] /\ writer \in Writers
  BY Known DEF Inv, TypeOK
<1>i. Copying(rd) /\ Standing(rd)
  BY DEF Inv, ReaderInv
<1>1. CASE FutexWake
  <2>1. \/ reader'[r] = rd
        \/ reader'[r] = [rd EXCEPT !.at = "wake"]
    BY <1>1 DEF FutexWake
  <2>2. UNCHANGED sequence /\ writer'.n = W
    BY <1>1, <1>k DEF FutexWake, Writers
  <2> QED
    BY <2>1, <2>2, <1>i, <1>k DEF Copying, Place, Intact, ReaderStates
<1>2. CASE UNCHANGED reader
  <2> SUFFICES ASSUME rd.at = "copy" PROVE Copying(rd)'
    BY <1>2 DEF Copying
  <2>n. rd.n \in 1..published /\ rd.n <= W
    BY <1>i, <1>k DEF Standing, InHand, Inv, WriterInv
  <2>w. writer'.n \in Nat /\ writer'.n >= W
    BY <1>k DEF Produce, Begin, Zero, Store, Seal, Count, Wake, FutexWake,
       Dies, Writers
  <2>p. Place(rd.n)' = Place(rd.n)
    BY <1>2 DEF Place
  <2>1. CASE UNCHANGED sequence
    BY <2>1, <2>w, <2>p, <1>2, <1>i, <1>k DEF Copying, Intact
  <2>2. CASE Zero \/ Seal
    <3>1. /\ writer'.n = W /\ rd.n < W
          /\ \/ sequence' = [sequence EXCEPT ![Place(W)] = 0]
             \/ sequence' = [sequence EXCEPT ![Place(W)] = W]
      BY <2>2, <2>n, <1>k DEF Zero, Seal, Writers, Inv, WriterInv
    <3>2. sequence'[Place(rd.n)] = rd.n => sequence[Place(rd.n)] = rd.n
      BY <3>1, <2>n, <1>k
    <3> QED
      BY <3>1, <3>2, <2>p, <2>n, <1>2, <1>i, <1>k DEF Copying, Intact
  <2> QED
    BY <2>1, <2>2 DEF Produce, Begin, Store, Count, Wake, FutexWake, Dies
<1> QED
  BY <1>1, <1>2 DEF Produce, Begin, Zero, Store, Seal, Count, Wake, Dies

(* Between a frame counted and its wakeup, the producer is on its way. *)
LEMMA ProduceWaiting ==
    ASSUME Inv, Produce, NEW r \in Readers
    PROVE  Waiting(reader[r])'
<1> DEFINE rd == reader[r]
<1>k. /\ published \in Nat /\ writer.n \in Nat /\ wake \in Nat
      /\ rd \in ReaderStates /\ rd.next \in Nat /\ rd.wake \in Nat
      /\ writer \in Writers
  BY Known DEF Inv, TypeOK
<1>i. Waiting(rd)
  BY DEF Inv, ReaderInv
<1>1. CASE FutexWake
  <2>1. \/ reader'[r] = rd /\ rd.at # "asleep"
        \/ reader'[r] = [rd EXCEPT !.at = "wake"]
    BY <1>1 DEF FutexWake
  <2>2. UNCHANGED <<published, wake>> /\ writer.at = "futex"
    BY <1>1 DEF FutexWake
  <2> QED
    BY <2>1, <2>2, <1>i, <1>k DEF Waiting, ReaderStates
<1>2. CASE Begin \/ Zero \/ Seal \/ \E w \in Words : Store(w)
  <2>1. UNCHANGED <<published, wake, reader>>
        /\ writer.at \notin {"wake", "futex", "gone"}
    BY <1>2 DEF Begin, Zero, Seal, Store
  <2> QED
    BY <2>1, <1>i DEF Waiting
<1>3. CASE Count
  BY <1>3, <1>i, <1>k DEF Count, Waiting, Writers
<1>4. CASE Wake
  BY <1>4, <1>i, <1>k DEF Wake, Waiting, Writers
<1>5. CASE Dies
  BY <1>5, <1>i, <1>k DEF Dies, Waiting, Writers
<1> QED
  BY <1>2, <1>1, <1>3, <1>4, <1>5 DEF Produce

--------------------------------------------------------------------------------
(* A reader's steps: they leave the memory and the producer alone.         *)

LEMMA ReadWriter ==
    ASSUME WriterInv, SlotInv, NEW r \in Readers, NEW new, Becomes(r, new)
    PROVE  WriterInv' /\ SlotInv'
<1>1. UNCHANGED <<sequence, word, published, writer>>
  BY DEF Becomes, memory
<1>2. WriterInv'
  BY <1>1 DEF WriterInv, Place
<1>3. SlotInv'
  BY <1>1 DEF SlotInv, Place
<1> QED
  BY <1>2, <1>3

(* It is enough to look at the reader that moves. *)
LEMMA ReadOne ==
    ASSUME Inv, NEW r \in Readers, NEW new, Becomes(r, new), TypeOK',
           Standing(new), Copying(new), Waiting(new), Whole(new), Sums(new)
    PROVE  Inv'
<1>1. /\ UNCHANGED <<sequence, word, published, wake, writer>>
      /\ reader' = [reader EXCEPT ![r] = new]
      /\ reader \in [Readers -> ReaderStates]
  BY DEF Becomes, memory, Inv, TypeOK
<1>2. ASSUME NEW x \in Readers PROVE ReaderInv(x)'
  <2>1. CASE x = r
    <3>1. reader'[x] = new
      BY <1>1, <2>1
    <3> QED
      BY <1>1, <3>1 DEF ReaderInv, Standing, Copying, Waiting, Whole, Sums,
         Intact, Place
  <2>2. CASE x # r
    <3>1. reader'[x] = reader[x] /\ ReaderInv(x)
      BY <1>1, <2>2 DEF Inv
    <3> QED
      BY <1>1, <3>1 DEF ReaderInv, Standing, Copying, Waiting, Whole, Sums,
         Intact, Place
  <2> QED
    BY <2>1, <2>2
<1>3. WriterInv' /\ SlotInv'
  BY ReadWriter DEF Inv
<1> QED
  BY <1>2, <1>3 DEF Inv

LEMMA ReadInv ==
    ASSUME Reorders = FALSE, Inv, NEW r \in Readers, Read(r)
    PROVE  Inv'
<1> DEFINE rd == reader[r]
<1>k. /\ Slots \in Nat /\ Slots >= 1 /\ published \in Nat /\ writer.n \in Nat
      /\ wake \in Nat /\ rd \in ReaderStates
      /\ rd.n \in Nat /\ Place(rd.n) \in Places
      /\ rd.next \in Nat /\ rd.wake \in Nat
      /\ rd.frames \in Nat /\ rd.gaps \in Nat /\ rd.gap \in Nat
      /\ sequence \in [Places -> Frames]
      /\ \A p \in Places : sequence[p] \in Nat
  BY Known DEF Inv, TypeOK, ReaderStates
<1>i. /\ Standing(rd) /\ Copying(rd) /\ Waiting(rd) /\ Whole(rd) /\ Sums(rd)
      /\ SlotInv /\ published <= writer.n
  BY DEF Inv, ReaderInv, WriterInv
<1>t. TypeOK'
  BY ReadType DEF Inv
<1>b. ASSUME NEW new, Becomes(r, new), Standing(new), Copying(new),
             Waiting(new), Whole(new), Sums(new)
      PROVE  Inv'
  BY <1>b, <1>t, ReadOne
<1> HIDE DEF rd
<1> USE DEF InHand
<1>1. CASE Call(r)
  <2> DEFINE new == [rd EXCEPT !.at = "wake", !.gap = 0]
  <2>1. Becomes(r, new) /\ rd.at = "idle"
    BY <1>1 DEF Call, rd
  <2>2. /\ Standing(new) /\ Copying(new) /\ Waiting(new) /\ Whole(new)
        /\ Sums(new)
    BY <2>1, <1>k, <1>i DEF Standing, Copying, Waiting, Whole, Sums,
       ReaderStates
  <2> QED
    BY <2>1, <2>2, <1>b
<1>2. CASE LoadWake(r)
  <2> DEFINE new == [rd EXCEPT !.at = "published", !.wake = wake]
  <2>1. Becomes(r, new) /\ rd.at = "wake"
    BY <1>2 DEF LoadWake, rd
  <2>2. /\ Standing(new) /\ Copying(new) /\ Waiting(new) /\ Whole(new)
        /\ Sums(new)
    BY <2>1, <1>k, <1>i DEF Standing, Copying, Waiting, Whole, Sums,
       ReaderStates
  <2> QED
    BY <2>1, <2>2, <1>b
<1>3. CASE Take(r)
  <2> DEFINE n == IF rd.next < Oldest THEN Oldest ELSE rd.next
             new == [rd EXCEPT !.at = "before", !.n = n, !.next = n + 1,
                               !.gap = @ + (n - rd.next), !.checked = FALSE]
  <2>1. Becomes(r, new) /\ rd.at = "published" /\ published >= rd.next
    BY <1>3 DEF Take, rd
  <2>2. n \in Nat /\ n >= rd.next /\ n \in 1..published
    BY <2>1, <1>k, <1>i DEF Oldest, Standing
  <2> HIDE DEF n
  <2>3. Standing(new) /\ Sums(new)
    BY <2>1, <2>2, <1>k, <1>i DEF Standing, Sums, ReaderStates
  <2>4. Copying(new) /\ Waiting(new) /\ Whole(new)
    BY <2>1, <1>k, <1>i DEF Copying, Waiting, Whole, ReaderStates
  <2> QED
    BY <2>1, <2>3, <2>4, <1>b
<1>4. CASE Nothing(r)
  <2> DEFINE new == [rd EXCEPT !.at = "wait"]
  <2>1. Becomes(r, new) /\ rd.at = "published" /\ published < rd.next
    BY <1>4 DEF Nothing, rd
  <2>2. /\ Standing(new) /\ Copying(new) /\ Waiting(new) /\ Whole(new)
        /\ Sums(new)
    BY <2>1, <1>k, <1>i DEF Standing, Copying, Waiting, Whole, Sums,
       ReaderStates
  <2> QED
    BY <2>1, <2>2, <1>b
<1>5. CASE NoFrame(r)
  <2>1. Becomes(r, Told(rd)) /\ rd.at = "published"
    BY <1>5 DEF NoFrame, rd
  <2>2. /\ Standing(Told(rd)) /\ Copying(Told(rd)) /\ Waiting(Told(rd))
        /\ Whole(Told(rd)) /\ Sums(Told(rd))
    BY <2>1, <1>k, <1>i DEF Told, Standing, Copying, Waiting, Whole, Sums,
       ReaderStates
  <2> QED
    BY <2>1, <2>2, <1>b
<1>6. CASE Sleep(r)
  <2> DEFINE new == [rd EXCEPT
                       !.at = IF wake = rd.wake THEN "asleep" ELSE "wake"]
  <2>1. Becomes(r, new) /\ rd.at = "wait"
    BY <1>6 DEF Sleep, rd
  <2>2. /\ Standing(new) /\ Copying(new) /\ Waiting(new) /\ Whole(new)
        /\ Sums(new)
    BY <2>1, <1>k, <1>i DEF Standing, Copying, Waiting, Whole, Sums,
       ReaderStates
  <2> QED
    BY <2>1, <2>2, <1>b
<1>7. CASE WaitEnds(r)
  <2> DEFINE new == [rd EXCEPT !.at = "wake"]
  <2>1. Becomes(r, new) /\ rd.at = "asleep"
    BY <1>7 DEF WaitEnds, rd
  <2>2. /\ Standing(new) /\ Copying(new) /\ Waiting(new) /\ Whole(new)
        /\ Sums(new)
    BY <2>1, <1>k, <1>i DEF Standing, Copying, Waiting, Whole, Sums,
       ReaderStates
  <2> QED
    BY <2>1, <2>2, <1>b
<1>8. CASE Before(r)
  <2> DEFINE new == [rd EXCEPT !.at = "copy", !.left = Words,
                               !.before = sequence[Place(rd.n)]]
  <2>1. Becomes(r, new) /\ rd.at = "before"
    BY <1>8 DEF Before, rd
  <2>2. Standing(new) /\ Waiting(new) /\ Whole(new) /\ Sums(new)
    BY <2>1, <1>k, <1>i DEF Standing, Waiting, Whole, Sums, ReaderStates
  <2>3. sequence[Place(rd.n)] = rd.n \/ rd.n + Slots <= writer.n
    BY <2>1, <1>i DEF Standing, SlotInv
  <2>4. ~rd.checked
    BY <2>1, <1>i DEF Standing
  <2>5. Copying(new)
    BY <2>1, <2>3, <2>4, <1>k DEF Copying, ReaderStates
  <2> QED
    BY <2>1, <2>2, <2>5, <1>b
<1>9. ASSUME NEW w \in Words, Copy(r, w) PROVE Inv'
  <2> DEFINE got == [rd.got EXCEPT ![w] = word[Place(rd.n)][w]]
             new == [rd EXCEPT !.left = @ \ {w}, !.got = got]
  <2>1. Becomes(r, new) /\ rd.at = "copy" /\ w \in rd.left
    BY <1>9 DEF Copy, rd
  <2>2. Standing(new) /\ Waiting(new) /\ Whole(new) /\ Sums(new)
    BY <2>1, <1>k, <1>i DEF Standing, Waiting, Whole, Sums, ReaderStates
  <2>3. ~rd.checked
    BY <2>1, <1>i DEF Copying
  <2>4. sequence[Place(rd.n)] = rd.n => word[Place(rd.n)][w] = rd.n
    BY <2>1, <1>i, <1>k DEF SlotInv, Standing
  <2>5. Copying(new)
    BY <2>1, <2>3, <2>4, <1>i, <1>k DEF Copying, ReaderStates
  <2> QED
    BY <2>1, <2>2, <2>5, <1>b
<1>10. CASE After(r)
  <2> DEFINE new == [rd EXCEPT !.checked = TRUE,
                               !.after = sequence[Place(rd.n)]]
  <2>1. Becomes(r, new) /\ rd.at = "copy" /\ rd.left = {}
    BY <1>10 DEF After, rd
  <2>2. Standing(new) /\ Waiting(new) /\ Whole(new) /\ Sums(new)
    BY <2>1, <1>k, <1>i DEF Standing, Waiting, Whole, Sums, ReaderStates
  <2>3. sequence[Place(rd.n)] = rd.n \/ rd.n + Slots <= writer.n
    BY <2>1, <1>i DEF Standing, SlotInv
  <2>4. Copying(new)
    BY <2>1, <2>3, <1>i, <1>k DEF Copying, ReaderStates, Intact
  <2> QED
    BY <2>1, <2>2, <2>4, <1>b
<1>11. CASE Deliver(r)
  <2> DEFINE new == [Told(rd) EXCEPT !.frames = @ + 1, !.last = rd.n,
                                     !.lastGot = rd.got]
  <2>1. Becomes(r, new) /\ Copied(rd) /\ Intact(rd)
    BY <1>11 DEF Deliver, rd
  <2>2. \A w \in Words : rd.got[w] = rd.n
    BY <2>1, <1>i DEF Copying, Copied
  <2>3. Whole(new)
    BY <2>2, <1>k DEF Whole, Told, ReaderStates
  <2>4. Standing(new) /\ Copying(new) /\ Waiting(new) /\ Sums(new)
    BY <2>1, <1>k, <1>i DEF Standing, Copying, Waiting, Sums, Told,
       ReaderStates, Copied
  <2> QED
    BY <2>1, <2>3, <2>4, <1>b
<1>12. CASE Overwritten(r)
  <2> DEFINE new == [rd EXCEPT !.at = "wake", !.gap = @ + 1]
  <2>1. Becomes(r, new) /\ rd.at = "copy"
    BY <1>12 DEF Overwritten, Copied, rd
  <2>2. /\ Standing(new) /\ Copying(new) /\ Waiting(new) /\ Whole(new)
        /\ Sums(new)
    BY <2>1, <1>k, <1>i DEF Standing, Copying, Waiting, Whole, Sums,
       ReaderStates
  <2> QED
    BY <2>1, <2>2, <1>b
<1> QED
  BY <1>2, <1>1, <1>3, <1>4, <1>5, <1>7, <1>6, <1>8, <1>9, <1>11, <1>10,
     <1>12 DEF Read

--------------------------------------------------------------------------------
(* What is promised, always.                                               *)

LEMMA InitInv == Init => Inv
<1> SUFFICES ASSUME Init PROVE Inv
  OBVIOUS
<1>1. WriterInv /\ SlotInv
  BY DEF Init, WriterInv, SlotInv
<1>2. ASSUME NEW r \in Readers PROVE ReaderInv(r)
  BY DEF Init, ReaderInv, Standing, Copying, Waiting, Whole, Sums, InHand
<1> QED
  BY <1>1, <1>2, InitType DEF Inv

LEMMA NextInv ==
    ASSUME Reorders = FALSE, Inv, [Next]_ringVars
    PROVE  Inv'
<1>1. CASE Produce
  <2>1. WriterInv' /\ SlotInv' /\ TypeOK'
    BY <1>1, ProduceWriter, ProduceType DEF Inv
  <2>2. ASSUME NEW r \in Readers PROVE ReaderInv(r)'
    BY <1>1, ProduceOthers, ProduceCopying, ProduceWaiting DEF ReaderInv
  <2> QED
    BY <2>1, <2>2 DEF Inv
<1>2. CASE \E r \in Readers : Read(r)
  BY <1>2, ReadInv
<1>3. CASE UNCHANGED ringVars
  BY <1>3 DEF ringVars, Inv, TypeOK, WriterInv, SlotInv, ReaderInv, Standing,
     Copying, Waiting, Whole, Sums, Intact, Place
<1> QED
  BY <1>1, <1>3, <1>2 DEF Next

(* What the properties below follow from holds of every state.              *)
THEOREM InvAlways ==
    ASSUME Reorders = FALSE
    PROVE  Spec => []Inv
<1>1. Inv /\ [Next]_ringVars => Inv'
  BY NextInv
<1> QED
  BY <1>1, InitInv, PTL DEF Spec

(* Next hands no torn frame to anybody, however often the producer laps    *)
(* the reader while it copies.                                             *)
THEOREM NoTornFrame ==
    ASSUME Reorders = FALSE
    PROVE  Spec => []FrameIsWhole
<1>1. Inv => FrameIsWhole
  BY DEF Inv, ReaderInv, Whole, FrameIsWhole
<1> QED
  BY <1>1, InvAlways, PTL

(* Frames and gaps add up, in the middle of a call and between calls.      *)
THEOREM GapsAddUp ==
    ASSUME Reorders = FALSE
    PROVE  Spec => []Accounted
<1>1. Inv => Accounted
  BY DEF Inv, ReaderInv, Sums, Accounted
<1> QED
  BY <1>1, InvAlways, PTL

(* A sleeping reader with a frame to read is about to be woken, or its     *)
(* producer died.                                                          *)
THEOREM NoWakeupLost ==
    ASSUME Reorders = FALSE
    PROVE  Spec => []NoLostWakeup
<1>1. Inv => NoLostWakeup
  BY DEF Inv, ReaderInv, Waiting, NoLostWakeup
<1> QED
  BY <1>1, InvAlways, PTL

(* A step that tells of a loss tells of a frame the producer had begun to  *)
(* overwrite.                                                              *)
LEMMA LossIsALap ==
    ASSUME Inv, [Next]_ringVars, NEW r \in Readers,
           reader'[r].gap > reader[r].gap
    PROVE  LET lost == IF reader[r].at = "copy" THEN reader[r].n
                       ELSE reader'[r].n - 1
           IN lost + Slots <= writer.n
<1> DEFINE rd == reader[r]
<1>k. /\ Slots \in Nat /\ Slots >= 1 /\ published \in Nat /\ writer.n \in Nat
      /\ rd \in ReaderStates /\ reader \in [Readers -> ReaderStates]
      /\ rd.next \in Nat /\ rd.gap \in Nat
  BY Known DEF Inv, TypeOK, ReaderStates
<1>i. Copying(rd) /\ published <= writer.n
  BY DEF Inv, ReaderInv, WriterInv
<1>1. CASE Produce \/ UNCHANGED ringVars
  <2>1. reader'[r] = rd \/ reader'[r] = [rd EXCEPT !.at = "wake"]
    BY <1>1 DEF Produce, Begin, Zero, Store, Seal, Count, Wake, FutexWake,
       Dies, ringVars
  <2> QED
    BY <2>1, <1>k DEF ReaderStates
<1>2. ASSUME NEW x \in Readers, Read(x), x # r PROVE FALSE
  <2>1. PICK new : Becomes(x, new)
    BY <1>2 DEF Read, Call, LoadWake, Take, Nothing, NoFrame, Sleep, WaitEnds,
       Before, Copy, After, Deliver, Overwritten
  <2> QED
    BY <2>1, <1>2, <1>k DEF Becomes
<1>3. CASE Take(r)
  <2> DEFINE n == IF rd.next < Oldest THEN Oldest ELSE rd.next
  <2>1. /\ reader'[r].n = n /\ reader'[r].gap = rd.gap + (n - rd.next)
        /\ rd.at = "published"
    BY <1>3, <1>k DEF Take, Becomes, ReaderStates
  <2>2. n > rd.next
    BY <2>1, <1>k DEF Oldest
  <2>3. n = published - Slots + 1
    BY <2>2, <1>k DEF Oldest
  <2> HIDE DEF n
  <2> QED
    BY <2>1, <2>3, <1>k, <1>i
<1>4. CASE Overwritten(r)
  BY <1>4, <1>k, <1>i DEF Overwritten, Copied, Intact, Copying
<1>5. ASSUME NEW new, Becomes(r, new) PROVE reader'[r] = new
  BY <1>5, <1>k DEF Becomes
<1>6. ASSUME Call(r) \/ NoFrame(r) \/ Deliver(r) PROVE FALSE
  <2>1. reader'[r].gap = 0
    BY <1>6, <1>5, <1>k DEF Call, NoFrame, Deliver, Told, ReaderStates
  <2> QED
    BY <2>1, <1>k
<1>7. ASSUME \/ LoadWake(r) \/ Nothing(r) \/ Sleep(r) \/ WaitEnds(r)
             \/ Before(r) \/ (\E w \in Words : Copy(r, w)) \/ After(r)
      PROVE FALSE
  <2>1. reader'[r].gap = rd.gap
    BY <1>7, <1>5, <1>k DEF LoadWake, Nothing, Sleep, WaitEnds, Before, Copy,
       After, ReaderStates
  <2> QED
    BY <2>1, <1>k
<1> QED
  BY <1>2, <1>1, <1>3, <1>4, <1>6, <1>7 DEF Next, Read

(* A reader that keeps within the ring's slots loses nothing.              *)
THEOREM LossesAreLaps ==
    ASSUME Reorders = FALSE
    PROVE  Spec => OnlyLappedLost
<1>1. Inv /\ [Next]_ringVars =>
        [\A r \in Readers :
           reader'[r].gap > reader[r].gap =>
              LET lost == IF reader[r].at = "copy" THEN reader[r].n
                          ELSE reader'[r].n - 1
              IN lost + Slots <= writer.n]_ringVars
  BY LossIsALap
<1> QED
  BY <1>1, InvAlways, PTL DEF Spec, OnlyLappedLost

================================================================================
