------------------------ MODULE MultiThreadQueueProofs ------------------------
(****************************************************************************)
(* Theorems about MultiThreadQueue, for every set of threads, every set of  *)
(* elements and every initial capacity.                                     *)
(****************************************************************************)
EXTENDS MultiThreadQueue, FiniteSetTheorems, SequenceTheorems, TLAPS

(* Index arithmetic on a ring of n slots: k % n is the slot r when k is r or  *)
(* one turn past it.                                                        *)
LEMMA ModRange ==
  ASSUME NEW n \in Nat \ {0}, NEW k \in Nat
  PROVE  k % n \in 0..(n - 1)
OBVIOUS

LEMMA ModIs ==
  ASSUME NEW n \in Nat \ {0}, NEW r \in 0..(n - 1), NEW k \in {r, r + n}
  PROVE  k % n = r
OBVIOUS

(* Dropping the first of c elements moves the top and keeps the end; seen   *)
(* from the end, the dropped slot lies n - c slots ahead.                   *)
LEMMA ModDrop ==
  ASSUME NEW n \in Nat \ {0}, NEW top \in 0..(n - 1), NEW c \in 1..n
  PROVE  /\ (((top + 1) % n) + (c - 1)) % n = (top + c) % n
         /\ (((top + c) % n) + (n - c)) % n = top
<1> DEFINE a == IF top + 1 < n THEN top + 1 ELSE top + 1 - n
           b == IF top + c < n THEN top + c ELSE top + c - n
<1>1. (top + 1) % n = a
  <2>1. a \in 0..(n - 1) /\ (top + 1) \in {a, a + n}
    OBVIOUS
  <2>. QED
    BY <2>1, ModIs
<1>2. (top + c) % n = b
  <2>1. b \in 0..(n - 1) /\ (top + c) \in {b, b + n}
    OBVIOUS
  <2>. QED
    BY <2>1, ModIs
<1>3. (a + (c - 1)) % n = b
  <2>1. b \in 0..(n - 1) /\ (a + (c - 1)) \in {b, b + n}
    OBVIOUS
  <2>. HIDE DEF a, b
  <2>. QED
    BY <2>1, ModIs
<1>4. (b + (n - c)) % n = top
  <2>1. (b + (n - c)) \in {top, top + n}
    OBVIOUS
  <2>. HIDE DEF a, b
  <2>. QED
    BY <2>1, ModIs
<1>. HIDE DEF a, b
<1>. QED
  BY <1>1, <1>2, <1>3, <1>4

(* Adding one element moves the end by one. *)
LEMMA ModNext ==
  ASSUME NEW n \in Nat \ {0}, NEW top \in 0..(n - 1), NEW c \in 0..(n - 1)
  PROVE  (((top + c) % n) + 1) % n = (top + (c + 1)) % n
<1> DEFINE a == IF top + c < n THEN top + c ELSE top + c - n
           b == IF a + 1 < n THEN a + 1 ELSE a + 1 - n
<1>1. (top + c) % n = a
  <2>1. a \in 0..(n - 1) /\ (top + c) \in {a, a + n}
    OBVIOUS
  <2>. QED
    BY <2>1, ModIs
<1>2. (a + 1) % n = b /\ (top + (c + 1)) % n = b
  <2>1. /\ b \in 0..(n - 1)
        /\ (a + 1) \in {b, b + n}
        /\ (top + (c + 1)) \in {b, b + n}
    OBVIOUS
  <2>. HIDE DEF a, b
  <2>. QED
    BY <2>1, ModIs
<1>. HIDE DEF a, b
<1>. QED
  BY <1>1, <1>2

(* A slot r slots ahead of the end is another slot than the end, and r - 1  *)
(* slots ahead once the end has moved by one.                               *)
LEMMA ModAhead ==
  ASSUME NEW n \in Nat \ {0}, NEW end \in 0..(n - 1), NEW r \in 1..(n - 1)
  PROVE  /\ (end + r) % n # end
         /\ (((end + 1) % n) + (r - 1)) % n = (end + r) % n
<1> DEFINE a == IF end + r < n THEN end + r ELSE end + r - n
           b == IF end + 1 < n THEN end + 1 ELSE end + 1 - n
<1>1. (end + r) % n = a
  <2>1. a \in 0..(n - 1) /\ (end + r) \in {a, a + n}
    OBVIOUS
  <2>. QED
    BY <2>1, ModIs
<1>2. (end + 1) % n = b
  <2>1. b \in 0..(n - 1) /\ (end + 1) \in {b, b + n}
    OBVIOUS
  <2>. QED
    BY <2>1, ModIs
<1>3. (b + (r - 1)) % n = a
  <2>1. a \in 0..(n - 1) /\ (b + (r - 1)) \in {a, a + n}
    OBVIOUS
  <2>. HIDE DEF a, b
  <2>. QED
    BY <2>1, ModIs
<1>4. a # end
  OBVIOUS
<1>. HIDE DEF a, b
<1>. QED
  BY <1>1, <1>2, <1>3, <1>4

-------------------------------------------------------------------------------

(* A reference never designates an array that does not exist yet, and one   *)
(* to the present array designates a slot of it.                            *)
RefInRange ==
  \A t \in Threads :
    /\ refGen[t] <= gen
    /\ refGen[t] = gen => refSlot[t] \in 0..(size_ - 1)

(* tail_ is one past the last element, as the field's comment says. *)
TailIsEnd == tail_ = (top_ + curr_size_) % size_

(* The slot a good reference designates is the one push writes to when room *)
(* has run down to 1.                                                       *)
RoomLeadsToSlot ==
  \A t \in Threads :
    room[t] > 0 =>
      /\ room[t] <= size_ - curr_size_
      /\ refGen[t] = gen
      /\ refSlot[t] = (tail_ + (room[t] - 1)) % size_
      /\ data_[refSlot[t]] = taken[t]

PushHasElement == \A t \in Threads : pc[t] = "push" => arg[t] \in Items

IInv ==
  /\ TypeOK
  /\ RefInRange
  /\ TailIsEnd
  /\ RoomLeadsToSlot
  /\ PushHasElement

-------------------------------------------------------------------------------
(* The initial states. *)

LEMMA InitIInv == Init => IInv
<1> SUFFICES ASSUME Init PROVE IInv
  OBVIOUS
<1> USE QueueAssumption DEF Init
<1>1. TypeOK
  BY DEF TypeOK, PC
<1>2. RefInRange /\ RoomLeadsToSlot /\ PushHasElement
  BY DEF RefInRange, RoomLeadsToSlot, PushHasElement
<1>3. TailIsEnd
  BY ModIs DEF TailIsEnd
<1>. QED
  BY <1>1, <1>2, <1>3 DEF IInv

-------------------------------------------------------------------------------
(* The critical section of push. *)

(* The numeric part of the type invariant, all that index arithmetic needs. *)
RingType ==
  /\ size_ \in Nat \ {0}
  /\ curr_size_ \in 0..size_
  /\ top_ \in 0..(size_ - 1)
  /\ tail_ \in 0..(size_ - 1)

LEMMA RingTypeOK == TypeOK => RingType
BY DEF TypeOK, RingType

LEMMA ResizedType ==
  ASSUME TypeOK
  PROVE  Resized \in [0..(2 * size_ - 1) -> Items \cup {NoItem}]
<1>1. \A i \in 0..(curr_size_ - 1) : Slot(i) \in 0..(size_ - 1)
  BY ModRange DEF TypeOK, Slot
<1>. QED
  BY <1>1 DEF TypeOK, Resized

LEMMA PushStoreIInv ==
  ASSUME IInv, NEW t \in Threads, PushStore(t)
  PROVE  IInv'
<1>. USE DEF IInv
<1>1. arg[t] \in Items
  BY DEF TypeOK, PushStore, Goto, PushHasElement
<1>2. TypeOK'
  <2>1. /\ size_' \in Nat \ {0}
        /\ curr_size_' \in 0..size_'
        /\ top_' \in 0..(size_' - 1)
        /\ gen' \in Nat
    BY DEF TypeOK, PushStore, StoreInPlace, StoreResized
  <2>2. tail_' \in 0..(size_' - 1)
    <3>1. /\ size_ \in Nat \ {0} /\ 2 * size_ \in Nat \ {0}
          /\ tail_ + 1 \in Nat /\ curr_size_ + 1 \in Nat
      BY DEF TypeOK
    <3>2. /\ (tail_ + 1) % size_ \in 0..(size_ - 1)
          /\ (curr_size_ + 1) % (2 * size_) \in 0..(2 * size_ - 1)
      BY <3>1, ModRange
    <3>. QED
      BY <3>2 DEF PushStore, StoreInPlace, StoreResized
  <2>3. data_' \in [0..(size_' - 1) -> Items \cup {NoItem}]
    BY <1>1, ResizedType DEF TypeOK, PushStore, StoreInPlace, StoreResized
  <2>4. pc' \in [Threads -> PC] /\ room' \in [Threads -> Nat]
    BY DEF TypeOK, PushStore, Goto, PC
  <2>. QED
    BY <2>1, <2>2, <2>3, <2>4 DEF TypeOK, PushStore
<1>3. RefInRange'
  BY DEF TypeOK, RefInRange, PushStore, StoreInPlace, StoreResized
<1>4. TailIsEnd'
  <2>1. CASE StoreInPlace(arg[t])
    <3>1. size_ # curr_size_ /\ RingType
      BY <2>1, RingTypeOK DEF StoreInPlace
    <3>2. curr_size_ \in 0..(size_ - 1)
      BY <3>1 DEF RingType
    <3>3. (((top_ + curr_size_) % size_) + 1) % size_ = (top_ + (curr_size_ + 1)) % size_
      BY <3>1, <3>2, ModNext DEF RingType
    <3>. QED
      BY <2>1, <3>3 DEF PushStore, StoreInPlace, TailIsEnd
  <2>2. CASE StoreResized(arg[t])
    <3>1. 0 + (curr_size_ + 1) = curr_size_ + 1
      BY RingTypeOK DEF RingType
    <3>. QED
      BY <2>2, <3>1 DEF PushStore, StoreResized, TailIsEnd
  <2>. QED
    BY <2>1, <2>2 DEF PushStore
<1>5. RoomLeadsToSlot'
  <2>. SUFFICES ASSUME NEW u \in Threads, room'[u] > 0
                PROVE  /\ room'[u] <= size_' - curr_size_'
                       /\ refGen'[u] = gen'
                       /\ refSlot'[u] = (tail_' + (room'[u] - 1)) % size_'
                       /\ data_'[refSlot'[u]] = taken'[u]
    BY DEF RoomLeadsToSlot
  <2>1. room[u] \in Nat /\ room[u] > 1 /\ room'[u] = room[u] - 1
    BY DEF TypeOK, PushStore
  <2>2. /\ room[u] <= size_ - curr_size_
        /\ refGen[u] = gen
        /\ refSlot[u] = (tail_ + (room[u] - 1)) % size_
        /\ data_[refSlot[u]] = taken[u]
    BY <2>1 DEF RoomLeadsToSlot
  <2>3. StoreInPlace(arg[t])
    BY <2>1, <2>2, RingTypeOK DEF RingType, PushStore, StoreResized
  <2>4. room[u] - 1 \in 1..(size_ - 1)
    BY <2>1, <2>2, RingTypeOK DEF RingType
  <2>5. /\ refSlot[u] # tail_
        /\ (((tail_ + 1) % size_) + (room[u] - 1 - 1)) % size_ = refSlot[u]
    <3>1. size_ \in Nat \ {0} /\ tail_ \in 0..(size_ - 1)
      BY RingTypeOK DEF RingType
    <3>2. \A r \in 1..(size_ - 1) :
            /\ (tail_ + r) % size_ # tail_
            /\ (((tail_ + 1) % size_) + (r - 1)) % size_ = (tail_ + r) % size_
      BY <3>1, ModAhead
    <3>. QED
      BY <2>2, <2>4, <3>2
  <2>6. refSlot[u] \in 0..(size_ - 1)
    BY <2>2 DEF RefInRange
  <2>7. data_'[refSlot[u]] = taken[u]
    BY <2>2, <2>3, <2>5, <2>6 DEF TypeOK, StoreInPlace
  <2>8. /\ refGen'[u] = gen' /\ refSlot' = refSlot /\ taken' = taken
        /\ size_' = size_ /\ tail_' = (tail_ + 1) % size_
        /\ curr_size_' = curr_size_ + 1
    BY <2>2, <2>3 DEF PushStore, StoreInPlace
  <2>. QED
    BY <2>1, <2>2, <2>5, <2>7, <2>8, RingTypeOK DEF RingType
<1>6. PushHasElement'
  BY DEF TypeOK, PushHasElement, PushStore, Goto
<1>. QED
  BY <1>2, <1>3, <1>4, <1>5, <1>6

-------------------------------------------------------------------------------
(* The critical section of pull. *)

LEMMA PullTakeIInv ==
  ASSUME IInv, NEW t \in Threads, PullTake(t)
  PROVE  IInv'
<1>. USE DEF IInv
<1>1. TypeOK'
  <2>1. top_' \in 0..(size_' - 1)
    BY ModRange DEF TypeOK, PullTake
  <2>2. /\ curr_size_' \in 0..size_'
        /\ pc' \in [Threads -> PC]
        /\ room' \in [Threads -> Nat]
    BY DEF TypeOK, PullTake, Goto, PC
  <2>3. /\ refGen' \in [Threads -> Nat]
        /\ refSlot' \in [Threads -> Nat]
        /\ taken' \in [Threads -> Items \cup {NoItem}]
    BY DEF TypeOK, PullTake
  <2>. QED
    BY <2>1, <2>2, <2>3 DEF TypeOK, PullTake
<1>2. RefInRange'
  BY DEF TypeOK, RefInRange, PullTake
<1>3. curr_size_ \in 1..size_
  BY RingTypeOK DEF RingType, PullTake
<1>4. TailIsEnd'
  BY <1>3, ModDrop, RingTypeOK DEF RingType, TailIsEnd, PullTake
<1>5. RoomLeadsToSlot'
  <2>. SUFFICES ASSUME NEW u \in Threads, room'[u] > 0
                PROVE  /\ room'[u] <= size_' - curr_size_'
                       /\ refGen'[u] = gen'
                       /\ refSlot'[u] = (tail_' + (room'[u] - 1)) % size_'
                       /\ data_'[refSlot'[u]] = taken'[u]
    BY DEF RoomLeadsToSlot
  <2>1. CASE u = t
    <3>1. (tail_ + (size_ - curr_size_)) % size_ = top_
      BY <1>3, ModDrop, RingTypeOK DEF RingType, TailIsEnd
    <3>2. /\ room'[u] = size_ - curr_size_ + 1
          /\ refGen'[u] = gen /\ refSlot'[u] = top_ /\ taken'[u] = data_[top_]
      BY <2>1 DEF TypeOK, PullTake
    <3>3. room'[u] - 1 = size_ - curr_size_ /\ room'[u] = size_ - (curr_size_ - 1)
      BY <3>2, RingTypeOK DEF RingType
    <3>4. (tail_ + (room'[u] - 1)) % size_ = top_
      BY <3>1, <3>3
    <3>5. room'[u] <= size_ - (curr_size_ - 1)
      BY <3>2, <3>3, RingTypeOK DEF RingType
    <3>. QED
      BY <3>2, <3>4, <3>5 DEF PullTake
  <2>2. CASE u # t
    <3>1. /\ room'[u] = room[u] /\ refGen'[u] = refGen[u]
          /\ refSlot'[u] = refSlot[u] /\ taken'[u] = taken[u]
      BY <2>2 DEF TypeOK, PullTake
    <3>2. room[u] \in Nat
      BY DEF TypeOK
    <3>. QED
      BY <3>1, <3>2, RingTypeOK DEF RingType, RoomLeadsToSlot, PullTake
  <2>. QED
    BY <2>1, <2>2
<1>6. PushHasElement'
  BY DEF TypeOK, PushHasElement, PullTake, Goto
<1>. QED
  BY <1>1, <1>2, <1>4, <1>5, <1>6
-------------------------------------------------------------------------------
(* The steps outside the two critical sections leave the ring alone. *)

LEMMA QuietStepIInv ==
  ASSUME IInv, NEW t \in Threads,
         \/ \E x \in Items : PushLock(t, x)
         \/ PushUnlock(t) \/ PushNotify(t)
         \/ PullLock(t) \/ PullWait(t) \/ SpuriousWake(t) \/ PullRelock(t)
         \/ PullUnlock(t) \/ PullCopy(t)
  PROVE  IInv'
<1>. USE DEF IInv
<1>1. /\ UNCHANGED <<ringVars, refGen, refSlot, taken, room>>
      /\ m_' \in Threads \cup {NoThread}
  BY DEF TypeOK, PushLock, PushUnlock, PushNotify, PullLock, PullWait,
         SpuriousWake, PullRelock, PullUnlock, PullCopy, Lock, Unlock,
         pullVars, vars
<1>2. /\ pc' \in [Threads -> PC]
      /\ arg' \in [Threads -> Items \cup {NoItem}]
      /\ pushed' \in SUBSET Items
  BY DEF TypeOK, PushLock, PushUnlock, PushNotify, PullLock, PullWait,
         SpuriousWake, PullRelock, PullUnlock, PullCopy, Goto, At, PC
<1>3. got' \in [Threads -> Items \cup {NoItem, Garbage}]
  <2>1. CASE PullCopy(t)
    <3>1. refGen[t] = gen => data_[refSlot[t]] \in Items \cup {NoItem}
      BY DEF TypeOK, RefInRange
    <3>2. pushed \subseteq Items
      BY DEF TypeOK
    <3>. QED
      BY <2>1, <3>1, <3>2 DEF TypeOK, PullCopy
  <2>2. CASE got' = got
    BY <2>2 DEF TypeOK
  <2>. QED
    BY <2>1, <2>2 DEF PushLock, PushUnlock, PushNotify, PullLock, PullWait,
         SpuriousWake, PullRelock, PullUnlock, pullVars
<1>4. TypeOK'
  BY <1>1, <1>2, <1>3 DEF TypeOK, ringVars
<1>5. RefInRange' /\ TailIsEnd' /\ RoomLeadsToSlot'
  BY <1>1 DEF RefInRange, TailIsEnd, RoomLeadsToSlot, ringVars
<1>6. PushHasElement'
  BY DEF TypeOK, PushHasElement, PushLock, PushUnlock, PushNotify, PullLock,
         PullWait, SpuriousWake, PullRelock, PullUnlock, PullCopy, Goto, At
<1>. QED
  BY <1>4, <1>5, <1>6

LEMMA NextIInv == IInv /\ [Next]_vars => IInv'
<1> SUFFICES ASSUME IInv, [Next]_vars
             PROVE  IInv'
  OBVIOUS
<1>1. CASE UNCHANGED vars
  BY <1>1 DEF IInv, TypeOK, RefInRange, TailIsEnd, RoomLeadsToSlot,
              PushHasElement, vars, ringVars, pullVars
<1>2. ASSUME NEW t \in Threads, PushStore(t)
      PROVE  IInv'
  BY <1>2, PushStoreIInv
<1>3. ASSUME NEW t \in Threads, PullTake(t)
      PROVE  IInv'
  BY <1>3, PullTakeIInv
<1>4. ASSUME NEW t \in Threads,
             \/ \E x \in Items : PushLock(t, x)
             \/ PushUnlock(t) \/ PushNotify(t)
             \/ PullLock(t) \/ PullWait(t) \/ SpuriousWake(t) \/ PullRelock(t)
             \/ PullUnlock(t) \/ PullCopy(t)
      PROVE  IInv'
  BY <1>4, QuietStepIInv
<1>. QED
  BY <1>1, <1>2, <1>3, <1>4 DEF Next, Step

LEMMA SpecIInv == Spec => []IInv
BY InitIInv, NextIInv, PTL DEF Spec

-------------------------------------------------------------------------------

(* The fields of the queue stay within the array, in every reachable state. *)
THEOREM TypeCorrect == Spec => []TypeOK
<1>1. IInv => TypeOK
  BY DEF IInv
<1>. QED
  BY <1>1, SpecIInv, PTL

(* The reference pull returns designates the element pull took for as long  *)
(* as at most size_ - curr_size_ pushes came after it.                      *)
THEOREM ReferenceIsIntact == Spec => []ReferenceIntact
<1>1. IInv => ReferenceIntact
  BY DEF IInv, RoomLeadsToSlot, ReferenceIntact
<1>. QED
  BY <1>1, SpecIInv, PTL

-------------------------------------------------------------------------------
(* No lost wake-up. *)

LEMMA InTransitFinite == IsFiniteSet(InTransit)
BY QueueAssumption, FS_Subset DEF InTransit

(* A thread enters or leaves the set of those that will notify or test. *)
LEMMA Enters ==
  ASSUME NEW t \in Threads, t \notin InTransit, InTransit' = InTransit \cup {t}
  PROVE  Cardinality(InTransit') = Cardinality(InTransit) + 1
BY InTransitFinite, FS_AddElement

LEMMA Leaves ==
  ASSUME NEW t \in InTransit, InTransit' = InTransit \ {t}
  PROVE  Cardinality(InTransit') = Cardinality(InTransit) - 1
BY InTransitFinite, FS_RemoveElement

LEMMA NextNoLostWakeup ==
  ASSUME TypeOK, NoLostWakeup, [Next]_vars
  PROVE  NoLostWakeup'
<1>. SUFFICES ASSUME At("waiting")' # {}
              PROVE  curr_size_' <= Cardinality(InTransit')
  BY DEF NoLostWakeup
<1>1. curr_size_ \in Nat /\ Cardinality(InTransit) \in Nat
  BY InTransitFinite, FS_CardinalityType DEF TypeOK
<1>2. CASE UNCHANGED vars
  BY <1>2 DEF NoLostWakeup, At, InTransit, vars, ringVars
<1>3. ASSUME NEW t \in Threads,
             (\E x \in Items : PushLock(t, x)) \/ PushUnlock(t)
               \/ PullRelock(t) \/ PullUnlock(t) \/ PullCopy(t)
      PROVE  curr_size_' <= Cardinality(InTransit')
  <2>1. /\ At("waiting")' = At("waiting")
        /\ InTransit' = InTransit
        /\ curr_size_' = curr_size_
    BY <1>3 DEF TypeOK, PushLock, PushUnlock, PullRelock, PullUnlock, PullCopy,
                Goto, At, InTransit, ringVars
  <2>. QED
    BY <2>1 DEF NoLostWakeup
<1>4. ASSUME NEW t \in Threads, PullLock(t) \/ SpuriousWake(t)
      PROVE  curr_size_' <= Cardinality(InTransit')
  <2>1. /\ t \notin InTransit /\ InTransit' = InTransit \cup {t}
        /\ At("waiting") # {}
        /\ curr_size_' = curr_size_
    BY <1>4 DEF TypeOK, PullLock, SpuriousWake, Goto, At, InTransit, ringVars
  <2>2. Cardinality(InTransit') = Cardinality(InTransit) + 1
    BY <2>1, Enters
  <2>3. curr_size_ <= Cardinality(InTransit)
    BY <2>1 DEF NoLostWakeup
  <2>. QED
    BY <1>1, <2>1, <2>2, <2>3
<1>5. ASSUME NEW t \in Threads, PushStore(t)
      PROVE  curr_size_' <= Cardinality(InTransit')
  <2>1. /\ t \notin InTransit /\ InTransit' = InTransit \cup {t}
        /\ At("waiting") # {}
        /\ curr_size_' = curr_size_ + 1
    BY <1>5 DEF TypeOK, PushStore, Goto, At, InTransit
  <2>2. Cardinality(InTransit') = Cardinality(InTransit) + 1
    BY <2>1, Enters
  <2>3. curr_size_ <= Cardinality(InTransit)
    BY <2>1 DEF NoLostWakeup
  <2>. QED
    BY <1>1, <2>1, <2>2, <2>3
<1>6. ASSUME NEW t \in Threads, PushNotify(t)
      PROVE  curr_size_' <= Cardinality(InTransit')
  <2>1. PICK w \in At("waiting") :
          pc' = [pc EXCEPT ![t] = "idle", ![w] = "woken"]
    BY <1>6 DEF TypeOK, PushNotify, At
  <2>. DEFINE rest == InTransit \ {t}
  <2>2. /\ t \in InTransit /\ w \in Threads /\ w \notin rest
        /\ InTransit' = rest \cup {w}
        /\ curr_size_' = curr_size_
    BY <1>6, <2>1 DEF TypeOK, PushNotify, At, InTransit, ringVars
  <2>3. IsFiniteSet(rest) /\ Cardinality(rest) = Cardinality(InTransit) - 1
    BY <2>2, InTransitFinite, FS_RemoveElement
  <2>4. Cardinality(rest \cup {w}) = Cardinality(rest) + 1
    BY <2>2, <2>3, FS_AddElement
  <2>. QED
    BY <1>1, <2>1, <2>2, <2>3, <2>4 DEF NoLostWakeup
<1>7. ASSUME NEW t \in Threads, PullWait(t)
      PROVE  curr_size_' <= Cardinality(InTransit')
  <2>1. curr_size_' = 0
    BY <1>7 DEF PullWait, ringVars
  <2>2. IsFiniteSet(InTransit')
    BY QueueAssumption, FS_Subset DEF InTransit
  <2>. QED
    BY <2>1, <2>2, FS_CardinalityType
<1>8. ASSUME NEW t \in Threads, PullTake(t)
      PROVE  curr_size_' <= Cardinality(InTransit')
  <2>1. /\ t \in InTransit /\ InTransit' = InTransit \ {t}
        /\ At("waiting") # {}
        /\ curr_size_' = curr_size_ - 1
    BY <1>8 DEF TypeOK, PullTake, Goto, At, InTransit
  <2>2. Cardinality(InTransit') = Cardinality(InTransit) - 1
    BY <2>1, Leaves
  <2>3. curr_size_ <= Cardinality(InTransit)
    BY <2>1 DEF NoLostWakeup
  <2>. QED
    BY <1>1, <2>1, <2>2, <2>3
<1>. QED
  BY <1>2, <1>3, <1>4, <1>5, <1>6, <1>7, <1>8 DEF Next, Step

(* While a thread is blocked in pull, no element is left for which nobody   *)
(* is about to notify or to test the predicate.                             *)
THEOREM NoWakeupIsLost == Spec => []NoLostWakeup
<1>1. Init => NoLostWakeup
  BY DEF Init, NoLostWakeup, At
<1>2. TypeOK /\ NoLostWakeup /\ [Next]_vars => NoLostWakeup'
  BY NextNoLostWakeup
<1>. QED
  BY <1>1, <1>2, TypeCorrect, PTL DEF Spec

-------------------------------------------------------------------------------
(* The ring implements the abstract queue. *)

(* The slots of two elements, and that of the end, are different. *)
LEMMA ModDistinct ==
  ASSUME NEW n \in Nat \ {0}, NEW top \in 0..(n - 1),
         NEW c \in 0..(n - 1), NEW i \in 0..(c - 1)
  PROVE  (top + i) % n # (top + c) % n
<1> DEFINE a == IF top + i < n THEN top + i ELSE top + i - n
           b == IF top + c < n THEN top + c ELSE top + c - n
<1>1. (top + i) % n = a
  <2>1. a \in 0..(n - 1) /\ (top + i) \in {a, a + n}
    OBVIOUS
  <2>. QED
    BY <2>1, ModIs
<1>2. (top + c) % n = b
  <2>1. b \in 0..(n - 1) /\ (top + c) \in {b, b + n}
    OBVIOUS
  <2>. QED
    BY <2>1, ModIs
<1>. QED
  BY <1>1, <1>2

LEMMA PushAppends ==
  ASSUME IInv, NEW t \in Threads, PushStore(t)
  PROVE  Contents' = Append(Contents, arg[t])
<1>. USE DEF IInv
<1>0. RingType
  BY RingTypeOK
<1>1. Append(Contents, arg[t]) =
        [i \in 1..(curr_size_ + 1) |->
           IF i = curr_size_ + 1 THEN arg[t]
                                 ELSE data_[(top_ + (i - 1)) % size_]]
  <2>1. Len(Contents) = curr_size_
    BY <1>0 DEF RingType, Contents
  <2>2. \A i \in 1..(curr_size_ + 1) :
          i # curr_size_ + 1 => Contents[i] = data_[(top_ + (i - 1)) % size_]
    BY <1>0 DEF RingType, Contents, Slot
  <2>. QED
    BY <2>1, <2>2
<1>2. Contents' =
        [i \in 1..(curr_size_ + 1) |-> data_'[(top_' + (i - 1)) % size_']]
  BY DEF PushStore, Contents, Slot
<1>3. CASE StoreInPlace(arg[t])
  <2>1. curr_size_ \in 0..(size_ - 1)
    BY <1>0, <1>3 DEF RingType, StoreInPlace
  <2>2. /\ size_' = size_ /\ top_' = top_
        /\ data_' = [data_ EXCEPT ![(top_ + curr_size_) % size_] = arg[t]]
    BY <1>3 DEF StoreInPlace, TailIsEnd
  <2>3. ASSUME NEW i \in 1..(curr_size_ + 1)
        PROVE  data_'[(top_' + (i - 1)) % size_'] =
                 IF i = curr_size_ + 1 THEN arg[t]
                                       ELSE data_[(top_ + (i - 1)) % size_]
    <3>1. (top_ + (i - 1)) % size_ \in 0..(size_ - 1)
      BY <1>0, ModRange DEF RingType
    <3>2. CASE i = curr_size_ + 1
      <4>1. i - 1 = curr_size_
        BY <1>0, <3>2 DEF RingType
      <4>. QED
        BY <2>2, <3>1, <3>2, <4>1 DEF TypeOK
    <3>3. CASE i # curr_size_ + 1
      <4>1. i - 1 \in 0..(curr_size_ - 1)
        BY <1>0, <3>3 DEF RingType
      <4>2. (top_ + (i - 1)) % size_ # (top_ + curr_size_) % size_
        BY <1>0, <2>1, <4>1, ModDistinct DEF RingType
      <4>. QED
        BY <2>2, <3>1, <3>3, <4>2 DEF TypeOK
    <3>. QED
      BY <3>2, <3>3
  <2>. QED
    BY <1>1, <1>2, <2>3
<1>4. CASE StoreResized(arg[t])
  <2>1. /\ curr_size_ = size_ /\ size_' = 2 * size_ /\ top_' = 0
        /\ data_' = [Resized EXCEPT ![curr_size_] = arg[t]]
    BY <1>4 DEF StoreResized
  <2>2. ASSUME NEW i \in 1..(curr_size_ + 1)
        PROVE  data_'[(top_' + (i - 1)) % size_'] =
                 IF i = curr_size_ + 1 THEN arg[t]
                                       ELSE data_[(top_ + (i - 1)) % size_]
    <3>1. i - 1 \in 0..(2 * size_ - 1) /\ 2 * size_ \in Nat \ {0}
      BY <1>0, <2>1 DEF RingType
    <3>2. (i - 1) % (2 * size_) = i - 1
      BY <3>1, ModIs
    <3>3. (top_' + (i - 1)) % size_' = i - 1
      BY <2>1, <3>1, <3>2
    <3>4. data_'[i - 1] = IF i - 1 = curr_size_ THEN arg[t] ELSE Resized[i - 1]
      BY <2>1, <3>1 DEF Resized
    <3>5. i - 1 < curr_size_ =>
            Resized[i - 1] = data_[(top_ + (i - 1)) % size_]
      BY <3>1 DEF Resized, Slot
    <3>6. /\ i - 1 = curr_size_ <=> i = curr_size_ + 1
          /\ i - 1 < curr_size_ <=> i # curr_size_ + 1
      BY <1>0 DEF RingType
    <3>. QED
      BY <3>3, <3>4, <3>5, <3>6
  <2>. QED
    BY <1>1, <1>2, <2>2
<1>. QED
  BY <1>3, <1>4 DEF PushStore

LEMMA PullTakesFirst ==
  ASSUME IInv, NEW t \in Threads, PullTake(t)
  PROVE  /\ Contents # <<>>
         /\ Contents' = Tail(Contents)
         /\ data_[top_] = Head(Contents)
<1>. USE DEF IInv
<1>0. RingType /\ curr_size_ \in 1..size_
  BY RingTypeOK DEF RingType, PullTake
<1>1. /\ Len(Contents) = curr_size_
      /\ Contents # <<>>
      /\ Head(Contents) = data_[(top_ + 0) % size_]
      /\ Tail(Contents) =
           [i \in 1..(curr_size_ - 1) |-> data_[(top_ + i) % size_]]
  <2>1. /\ Contents \in Seq(Items \cup {NoItem}) /\ Len(Contents) = curr_size_
        /\ \A i \in 1..curr_size_ :
              Contents[i] = data_[(top_ + (i - 1)) % size_]
    <3>1. \A i \in 1..curr_size_ :
            data_[Slot(i - 1)] \in Items \cup {NoItem}
      BY <1>0, ModRange DEF RingType, TypeOK, Slot
    <3>. QED
      BY <1>0, <3>1 DEF RingType, Contents, Slot
  <2>2. Contents # <<>> /\ Head(Contents) = Contents[1]
    BY <1>0, <2>1 DEF RingType
  <2>3. /\ Tail(Contents) \in Seq(Items \cup {NoItem})
        /\ Len(Tail(Contents)) = curr_size_ - 1
        /\ \A i \in 1..(curr_size_ - 1) : Tail(Contents)[i] = Contents[i + 1]
    BY <2>1, <2>2, HeadTailProperties
  <2>4. \A i \in 1..(curr_size_ - 1) :
          i + 1 \in 1..curr_size_ /\ (i + 1) - 1 = i
    BY <1>0 DEF RingType
  <2>5. \A i \in 1..(curr_size_ - 1) :
          Contents[i + 1] = data_[(top_ + i) % size_]
    BY <2>1, <2>4
  <2>. DEFINE rest == [i \in 1..(curr_size_ - 1) |-> data_[(top_ + i) % size_]]
  <2>6. rest \in Seq(Items \cup {NoItem}) /\ Len(rest) = curr_size_ - 1
    <3>1. \A i \in 1..(curr_size_ - 1) :
            data_[(top_ + i) % size_] \in Items \cup {NoItem}
      <4>1. \A i \in 1..(curr_size_ - 1) : (top_ + i) % size_ \in 0..(size_ - 1)
        BY <1>0, ModRange DEF RingType
      <4>. QED
        BY <4>1 DEF TypeOK
    <3>. QED
      BY <1>0, <3>1 DEF RingType
  <2>7. Tail(Contents) = rest
    BY <2>3, <2>5, <2>6, SeqEqual
  <2>8. Contents[1] = data_[(top_ + 0) % size_]
    BY <1>0, <2>1 DEF RingType
  <2>. QED
    BY <2>1, <2>2, <2>7, <2>8
<1>2. (top_ + 0) % size_ = top_
  BY <1>0, ModIs DEF RingType
<1>3. ASSUME NEW i \in 1..(curr_size_ - 1)
      PROVE  (((top_ + 1) % size_) + (i - 1)) % size_ = (top_ + i) % size_
  BY <1>0, ModDrop DEF RingType
<1>4. Contents' = [i \in 1..(curr_size_ - 1) |-> data_[(top_ + i) % size_]]
  BY <1>3 DEF Contents, Slot, PullTake
<1>. QED
  BY <1>1, <1>2, <1>4

LEMMA QuietStepFifo ==
  ASSUME NEW t \in Threads,
         \/ \E x \in Items : PushLock(t, x)
         \/ PushUnlock(t) \/ PushNotify(t)
         \/ PullLock(t) \/ PullWait(t) \/ SpuriousWake(t) \/ PullRelock(t)
         \/ PullUnlock(t) \/ PullCopy(t)
  PROVE  UNCHANGED Fifo!vars
<1>1. UNCHANGED <<ringVars, taken>>
  BY DEF PushLock, PushUnlock, PushNotify, PullLock, PullWait,
         SpuriousWake, PullRelock, PullUnlock, PullCopy, pullVars
<1>. QED
  BY <1>1 DEF Fifo!vars, Contents, Slot, ringVars

(* Through wrap-around and resize, a push puts its element behind all the   *)
(* others and a pull takes the one that was pushed first.                   *)
THEOREM ImplementsFifo == Spec => RefinesFifo
<1>1. Init => Fifo!Init
  BY DEF Init, Fifo!Init, Contents
<1>2. ASSUME IInv, [Next]_vars
      PROVE  [Fifo!Next]_Fifo!vars
  <2>1. CASE UNCHANGED vars
    BY <2>1 DEF vars, ringVars, pullVars, Fifo!vars, Contents, Slot
  <2>2. ASSUME NEW t \in Threads, PushStore(t)
        PROVE  [Fifo!Next]_Fifo!vars
    <3>1. arg[t] \in Items
      BY <1>2, <2>2 DEF IInv, TypeOK, PushStore, Goto, PushHasElement
    <3>2. Fifo!Enqueue(arg[t])
      BY <1>2, <2>2, PushAppends DEF Fifo!Enqueue, PushStore
    <3>. QED
      BY <3>1, <3>2 DEF Fifo!Next
  <2>3. ASSUME NEW t \in Threads, PullTake(t)
        PROVE  [Fifo!Next]_Fifo!vars
    <3>1. Fifo!Dequeue(t)
      BY <1>2, <2>3, PullTakesFirst DEF Fifo!Dequeue, PullTake
    <3>. QED
      BY <3>1 DEF Fifo!Next
  <2>4. ASSUME NEW t \in Threads,
               \/ \E x \in Items : PushLock(t, x)
               \/ PushUnlock(t) \/ PushNotify(t)
               \/ PullLock(t) \/ PullWait(t) \/ SpuriousWake(t) \/ PullRelock(t)
               \/ PullUnlock(t) \/ PullCopy(t)
        PROVE  [Fifo!Next]_Fifo!vars
    BY <2>4, QuietStepFifo
  <2>. QED
    BY <1>2, <2>1, <2>2, <2>3, <2>4 DEF Next, Step
<1>. QED
  BY <1>1, <1>2, SpecIInv, PTL DEF Spec, RefinesFifo, Fifo!Spec
===============================================================================
