------------------------ MODULE SharedPointer_proofs ------------------------
(***************************************************************************)
(* The reference counts of shared pointers, the register and the device    *)
(* images, for any numbers of pointers, objects, values and devices and all*)
(* orders of calls.                                                        *)
(*                                                                         *)
(* Two hypotheses are needed, and runs show why.  A program clears only    *)
(* pointers that do not share their object: clear() of a shared pointer    *)
(* leaves it referring to an object it is no longer counted for.  And the  *)
(* bytes of a new data_image, which no constructor initializes, do not     *)
(* happen to equal the object: otherwise its image is never written.       *)
(***************************************************************************)
EXTENDS SharedPointer, FiniteSetTheorems, TLAPS

ClearsUnshared == "clear" \notin Calls

Addresses == Objects \union {Null}

Heaps == [Objects -> PointerData \union {Unallocated}]

Pointers == [Handles -> Addresses]

(* The pointers of b that refer to o.                                      *)
Referring(p, b, o) == {h \in b : p[h] = o}

(* The counters of heap hp are right for the pointers of b, which refer to *)
(* objects as p says.  Pointers that are being changed are not in b.       *)
Counted(hp, p, b, o) ==
  IF hp[o] = Unallocated
  THEN Referring(p, b, o) = {}
  ELSE /\ Referring(p, b, o) # {}
       /\ hp[o].counter = Cardinality(Referring(p, b, o))

Consistent(hp, p, b) ==
  /\ hp \in Heaps
  /\ p \in Pointers
  /\ b \subseteq Handles
  /\ \A o \in Objects : Counted(hp, p, b, o)

(* What a program may rely on about the memory and the device images.      *)
ImageOK(data) ==
  /\ data.data_image # Garbage => data.device = data.data_image
  /\ ~data.maybe_modified => data.data_image = data.data

(* An operation that keeps the data of all objects that it does not delete.*)
KeepsData(hp, hq) ==
  \A o \in Objects : hq[o] # Unallocated =>
    /\ hp[o] # Unallocated
    /\ hq[o].data = hp[o].data
    /\ hq[o].data_image = hp[o].data_image
    /\ hq[o].device = hp[o].device
    /\ hq[o].maybe_modified = hp[o].maybe_modified

ImagesOK(hp) == \A o \in Objects : hp[o] # Unallocated => ImageOK(hp[o])

-----------------------------------------------------------------------------
(* Referring.                                                              *)

LEMMA ReferringFinite ==
  ASSUME NEW p, NEW b \in SUBSET Handles, NEW o
  PROVE  /\ IsFiniteSet(Referring(p, b, o))
         /\ Cardinality(Referring(p, b, o)) \in Nat
         /\ Cardinality(Referring(p, b, o)) = 0 <=> Referring(p, b, o) = {}
<1>1. Referring(p, b, o) \in SUBSET Handles
  BY DEF Referring
<1>2. IsFiniteSet(Referring(p, b, o))
  BY <1>1, ConstantsAssumption, FS_Subset
<1> QED
  BY <1>2, FS_CardinalityType, FS_EmptySet

(* A pointer of an allocated object, and the counter of an object.         *)
LEMMA PointsToAllocated ==
  ASSUME NEW hp, NEW p, NEW b, Consistent(hp, p, b),
         NEW h \in b, p[h] # Null
  PROVE  /\ p[h] \in Objects
         /\ hp[p[h]] # Unallocated
         /\ hp[p[h]] \in PointerData
<1>1. h \in Handles /\ p \in Pointers
  BY DEF Consistent
<1>2. p[h] \in Objects
  BY <1>1 DEF Pointers, Addresses
<1>3. h \in Referring(p, b, p[h])
  BY DEF Referring
<1>4. Counted(hp, p, b, p[h])
  BY <1>2 DEF Consistent
<1>5. hp[p[h]] # Unallocated
  BY <1>3, <1>4 DEF Counted
<1>6. hp[p[h]] \in PointerData \union {Unallocated}
  BY <1>2 DEF Consistent, Heaps
<1> QED
  BY <1>2, <1>5, <1>6

(* The only pointer of an object whose counter is 1.                       *)
LEMMA OnlyPointer ==
  ASSUME NEW hp, NEW p, NEW b, Consistent(hp, p, b),
         NEW h \in b, p[h] # Null, hp[p[h]].counter = 1
  PROVE  Referring(p, b, p[h]) = {h}
<1>1. p[h] \in Objects /\ hp[p[h]] # Unallocated
  BY PointsToAllocated
<1>2. b \in SUBSET Handles /\ Counted(hp, p, b, p[h])
  BY <1>1 DEF Consistent
<1>3. Cardinality(Referring(p, b, p[h])) = 1
  BY <1>1, <1>2 DEF Counted
<1>4. IsFiniteSet(Referring(p, b, p[h]))
  BY <1>2, ReferringFinite
<1>5. PICK x : Referring(p, b, p[h]) = {x}
  BY <1>3, <1>4, FS_Singleton
<1>6. h \in Referring(p, b, p[h])
  BY DEF Referring
<1> QED
  BY <1>5, <1>6

(* Pointers that do not change for the pointers of b, and objects that keep*)
(* their counters.                                                         *)
LEMMA SameCounters ==
  ASSUME NEW hp, NEW p, NEW b, Consistent(hp, p, b), NEW hq \in Heaps,
         \A o \in Objects : hq[o] = Unallocated <=> hp[o] = Unallocated,
         \A o \in Objects : hp[o] # Unallocated =>
                              hq[o].counter = hp[o].counter
  PROVE  Consistent(hq, p, b)
  BY DEF Consistent, Counted

LEMMA SamePointers ==
  ASSUME NEW hp, NEW p, NEW b, Consistent(hp, p, b), NEW q \in Pointers,
         NEW c \in SUBSET Handles,
         \A o \in Objects : Referring(q, c, o) = Referring(p, b, o)
  PROVE  Consistent(hp, q, c)
  BY DEF Consistent, Counted

(* A null pointer is counted nowhere.                                      *)
LEMMA NullPointer ==
  ASSUME NEW hp, NEW p, NEW b, Consistent(hp, p, b), NEW h \in Handles
  PROVE  /\ h \notin b => Consistent(hp, [p EXCEPT ![h] = Null], b)
         /\ h \notin b => Consistent(hp, [p EXCEPT ![h] = Null], b \union {h})
         /\ p[h] = Null => Consistent(hp, p, b \union {h})
         /\ p[h] = Null => Consistent(hp, p, b \ {h})
<1> DEFINE q == [p EXCEPT ![h] = Null]
<1>1. /\ p \in Pointers /\ b \in SUBSET Handles /\ Null \notin Objects
      /\ b \union {h} \in SUBSET Handles /\ b \ {h} \in SUBSET Handles
  BY ConstantsAssumption DEF Consistent
<1>2. q \in Pointers /\ q[h] = Null /\ \A g \in Handles \ {h} : q[g] = p[g]
  BY <1>1 DEF Pointers, Addresses
<1> HIDE DEF q
<1>3. ASSUME h \notin b PROVE Consistent(hp, q, b)
  <2>1. \A o \in Objects : Referring(q, b, o) = Referring(p, b, o)
    BY <1>1, <1>2, <1>3 DEF Referring
  <2> QED
    BY <1>1, <1>2, <2>1, SamePointers
<1>4. ASSUME h \notin b PROVE Consistent(hp, q, b \union {h})
  <2>1. \A o \in Objects : Referring(q, b \union {h}, o) = Referring(p, b, o)
    BY <1>1, <1>2, <1>4 DEF Referring
  <2> QED
    BY <1>1, <1>2, <2>1, SamePointers
<1>5. ASSUME p[h] = Null PROVE Consistent(hp, p, b \union {h})
  <2>1. \A o \in Objects : Referring(p, b \union {h}, o) = Referring(p, b, o)
    BY <1>1, <1>5 DEF Referring
  <2> QED
    BY <1>1, <2>1, SamePointers
<1>6. ASSUME p[h] = Null PROVE Consistent(hp, p, b \ {h})
  <2>1. \A o \in Objects : Referring(p, b \ {h}, o) = Referring(p, b, o)
    BY <1>1, <1>6 DEF Referring
  <2> QED
    BY <1>1, <2>1, SamePointers
<1> QED
  BY <1>3, <1>4, <1>5, <1>6 DEF q

-----------------------------------------------------------------------------
(* The helpers of the operations.                                          *)

(* What free() does to the memory m = [hp, p] but for the counters: no     *)
(* other pointer and no data of an object that is kept are changed, and the*)
(* last pointer becomes null.                                              *)
FreedBy(hp, p, h, m) ==
  /\ m = [heap |-> m.heap, pd |-> m.pd]
  /\ \A g \in Handles \ {h} : m.pd[g] = p[g]
  /\ p[h] = Null \/ hp[p[h]].counter = 1 => m.pd[h] = Null
  /\ m.pd[h] # Null => m.pd[h] = p[h] /\ m.heap[p[h]] # Unallocated
  /\ KeepsData(hp, m.heap)

(* The pointer that free() is called for is counted nowhere afterwards.    *)
LEMMA FreeConsistent ==
  ASSUME NEW hp, NEW p, NEW b, Consistent(hp, p, b), NEW h \in b,
         NEW m, m = free([heap |-> hp, pd |-> p], h)
  PROVE  Consistent(m.heap, m.pd, b \ {h}) /\ FreedBy(hp, p, h, m)
<1>1. /\ h \in Handles /\ p \in Pointers /\ hp \in Heaps
      /\ b \in SUBSET Handles /\ b \ {h} \in SUBSET Handles
  BY DEF Consistent
<1>2. CASE p[h] = Null
  <2>1. m = [heap |-> hp, pd |-> p]
    BY <1>2 DEF free
  <2>2. Consistent(hp, p, b \ {h})
    BY <1>1, <1>2, NullPointer
  <2>3. m.heap = hp /\ m.pd = p
    BY <2>1
  <2> QED
    BY <1>2, <2>1, <2>2, <2>3 DEF FreedBy, KeepsData
<1>3. CASE p[h] # Null /\ hp[p[h]].counter = 1
  <2> DEFINE q == [p EXCEPT ![h] = Null]
             hq == [hp EXCEPT ![p[h]] = Unallocated]
  <2>1. m = [heap |-> hq, pd |-> q]
    BY <1>3 DEF free
  <2>2. p[h] \in Objects
    BY <1>3, PointsToAllocated
  <2>3. /\ hq \in Heaps /\ hq[p[h]] = Unallocated
        /\ \A o \in Objects \ {p[h]} : hq[o] = hp[o]
    BY <1>1, <2>2 DEF Heaps
  <2>4. q \in Pointers /\ q[h] = Null /\ \A g \in Handles \ {h} : q[g] = p[g]
    BY <1>1 DEF Pointers, Addresses
  <2> HIDE DEF q, hq
  <2>5. Referring(p, b, p[h]) = {h}
    BY <1>3, OnlyPointer
  <2>6. Referring(q, b \ {h}, p[h]) = {}
    BY <1>1, <2>4, <2>5 DEF Referring
  <2>7. \A o \in Objects \ {p[h]} :
          Referring(q, b \ {h}, o) = Referring(p, b, o)
    BY <1>1, <2>4, ConstantsAssumption DEF Referring
  <2>8. Consistent(hq, q, b \ {h})
    <3>1. ASSUME NEW o \in Objects PROVE Counted(hq, q, b \ {h}, o)
      <4>1. CASE o = p[h]
        BY <4>1, <2>3, <2>6 DEF Counted
      <4>2. CASE o # p[h]
        BY <4>2, <2>3, <2>7 DEF Counted, Consistent
      <4> QED
        BY <4>1, <4>2
    <3> QED
      BY <1>1, <2>3, <2>4, <3>1 DEF Consistent
  <2> QED
    BY <1>3, <2>1, <2>3, <2>4, <2>8 DEF FreedBy, KeepsData
<1>4. CASE p[h] # Null /\ hp[p[h]].counter # 1
  <2>1. p[h] \in Objects /\ hp[p[h]] # Unallocated /\ hp[p[h]] \in PointerData
    BY <1>4, PointsToAllocated
  <2> DEFINE d == [hp[p[h]] EXCEPT !.counter = @ - 1]
             hq == [hp EXCEPT ![p[h]] = d]
  <2>2. m = [heap |-> hq, pd |-> p]
    BY <1>4 DEF free
  <2>3. Cardinality(Referring(p, b, p[h])) = hp[p[h]].counter
    BY <2>1 DEF Consistent, Counted
  <2>4. /\ Referring(p, b \ {h}, p[h]) = Referring(p, b, p[h]) \ {h}
        /\ h \in Referring(p, b, p[h])
    BY DEF Referring
  <2> DEFINE S == Referring(p, b, p[h])
  <2>5. IsFiniteSet(S)
    BY <1>1, ReferringFinite
  <2>6. Cardinality(S \ {h}) = Cardinality(S) - 1
    BY <2>4, <2>5, FS_RemoveElement
  <2>7. Cardinality(Referring(p, b \ {h}, p[h])) = hp[p[h]].counter - 1
    BY <2>3, <2>4, <2>6
  <2>8. hp[p[h]].counter \in Nat \ {0}
    BY <2>1 DEF PointerData
  <2>9. hp[p[h]].counter - 1 # 0
    BY <1>4, <2>8
  <2>10. Referring(p, b \ {h}, p[h]) # {}
    BY <1>1, <2>7, <2>9, ReferringFinite
  <2>11. /\ d \in PointerData /\ d.counter = hp[p[h]].counter - 1
        /\ d.data = hp[p[h]].data /\ d.data_image = hp[p[h]].data_image
        /\ d.device = hp[p[h]].device
        /\ d.maybe_modified = hp[p[h]].maybe_modified
    BY <1>4, <2>1 DEF PointerData
  <2> HIDE DEF d
  <2>12. /\ hq \in Heaps /\ hq[p[h]] = d
        /\ \A o \in Objects \ {p[h]} : hq[o] = hp[o]
    BY <1>1, <2>1, <2>11 DEF Heaps
  <2> HIDE DEF hq
  <2>13. Consistent(hq, p, b \ {h})
    <3>1. ASSUME NEW o \in Objects PROVE Counted(hq, p, b \ {h}, o)
      <4>1. CASE o = p[h]
        BY <4>1, <2>7, <2>10, <2>11, <2>12, UnallocatedAssumption DEF Counted
      <4>2. CASE o # p[h]
        <5>1. Referring(p, b \ {h}, o) = Referring(p, b, o)
          BY <4>2 DEF Referring
        <5> QED
          BY <4>2, <2>12, <5>1 DEF Counted, Consistent
      <4> QED
        BY <4>1, <4>2
    <3> QED
      BY <1>1, <2>12, <3>1 DEF Consistent
  <2> QED
    BY <1>4, <2>1, <2>2, <2>11, <2>12, <2>13, UnallocatedAssumption
       DEF FreedBy, KeepsData
<1> QED
  BY <1>2, <1>3, <1>4

(* A pointer that is counted nowhere comes to refer to an object of others.*)
LEMMA ReferConsistent ==
  ASSUME NEW hp, NEW p, NEW b, Consistent(hp, p, b),
         NEW h \in Handles, h \notin b, NEW o \in Addresses,
         o # Null => hp[o] # Unallocated,
         NEW m, m = refer([heap |-> hp, pd |-> p], h, o)
  PROVE  /\ Consistent(m.heap, m.pd, b \union {h})
         /\ m.pd = [p EXCEPT ![h] = o]
         /\ KeepsData(hp, m.heap)
<1>1. /\ p \in Pointers /\ hp \in Heaps
      /\ b \in SUBSET Handles /\ b \union {h} \in SUBSET Handles
  BY DEF Consistent
<1>2. CASE o = Null
  <2> DEFINE q == [p EXCEPT ![h] = Null]
  <2>1. m = [heap |-> hp, pd |-> q]
    BY <1>2 DEF refer
  <2>2. Consistent(hp, q, b \union {h})
    BY NullPointer
  <2>3. q = [p EXCEPT ![h] = o]
    BY <1>2
  <2> HIDE DEF q
  <2>4. m.heap = hp /\ m.pd = q
    BY <2>1
  <2> QED
    BY <2>2, <2>3, <2>4 DEF KeepsData
<1>3. CASE o # Null
  <2> DEFINE q == [p EXCEPT ![h] = o]
             d == [hp[o] EXCEPT !.counter = @ + 1]
             hq == [hp EXCEPT ![o] = d]
  <2>1. m = [heap |-> hq, pd |-> q]
    BY <1>3 DEF refer
  <2>2. o \in Objects /\ hp[o] \in PointerData
    BY <1>1, <1>3 DEF Addresses, Heaps
  <2>3. /\ d \in PointerData /\ d.counter = hp[o].counter + 1
        /\ d.data = hp[o].data /\ d.data_image = hp[o].data_image
        /\ d.device = hp[o].device
        /\ d.maybe_modified = hp[o].maybe_modified
    BY <2>2 DEF PointerData
  <2> HIDE DEF d
  <2>4. /\ hq \in Heaps /\ hq[o] = d
        /\ \A a \in Objects \ {o} : hq[a] = hp[a]
    BY <1>1, <2>2, <2>3 DEF Heaps
  <2>5. q \in Pointers /\ q[h] = o /\ \A g \in Handles \ {h} : q[g] = p[g]
    BY <1>1 DEF Pointers
  <2>6. q = [p EXCEPT ![h] = o]
    OBVIOUS
  <2> HIDE DEF q, hq
  <2>7. /\ Referring(q, b \union {h}, o) = Referring(p, b, o) \union {h}
        /\ h \notin Referring(p, b, o)
    BY <1>1, <2>5 DEF Referring
  <2>8. Cardinality(Referring(p, b, o)) = hp[o].counter
    BY <1>3, <2>2 DEF Consistent, Counted
  <2>9. Cardinality(Referring(q, b \union {h}, o)) = hp[o].counter + 1
    <3> DEFINE S == Referring(p, b, o)
    <3>1. IsFiniteSet(S)
      BY <1>1, ReferringFinite
    <3> HIDE DEF S
    <3>2. h \notin S => Cardinality(S \union {h}) = Cardinality(S) + 1
      BY <3>1, FS_AddElement
    <3>. QED BY <2>7, <2>8, <3>2 DEF S
  <2>10. Consistent(hq, q, b \union {h})
    <3>1. ASSUME NEW a \in Objects PROVE Counted(hq, q, b \union {h}, a)
      <4>1. CASE a = o
        BY <4>1, <2>3, <2>4, <2>7, <2>9, UnallocatedAssumption DEF Counted
      <4>2. CASE a # o
        <5>1. Referring(q, b \union {h}, a) = Referring(p, b, a)
          BY <1>1, <4>2, <2>5 DEF Referring
        <5> QED
          BY <4>2, <2>4, <5>1 DEF Counted, Consistent
      <4> QED
        BY <4>1, <4>2
    <3> QED
      BY <1>1, <2>4, <2>5, <3>1 DEF Consistent
  <2>11. m.heap = hq /\ m.pd = q
    BY <2>1
  <2>12. m.pd = [p EXCEPT ![h] = o]
    BY <2>6, <2>11, Zenon
  <2>13. Consistent(m.heap, m.pd, b \union {h})
    BY <2>10, <2>11
  <2> QED
    BY <1>3, <2>3, <2>4, <2>11, <2>12, <2>13 DEF KeepsData
<1> QED
  BY <1>2, <1>3

(* A new object has one pointer, and its image is current unless the bytes *)
(* of data_image happened to be those of the object.                       *)
LEMMA AllocateConsistent ==
  ASSUME NEW hp, NEW p, NEW b, Consistent(hp, p, b),
         NEW h \in Handles, h \notin b,
         NEW o \in Objects, hp[o] = Unallocated,
         NEW v \in Values, NEW image \in Values \union {Garbage},
         NEW m, m = allocate([heap |-> hp, pd |-> p], h, o, v, image)
  PROVE  /\ Consistent(m.heap, m.pd, b \union {h})
         /\ \A g \in Handles \ {h} : m.pd[g] = p[g]
         /\ \A a \in Objects \ {o} : m.heap[a] = hp[a]
         /\ image = Garbage => ImageOK(m.heap[o])
<1>1. /\ p \in Pointers /\ hp \in Heaps
      /\ b \in SUBSET Handles /\ b \union {h} \in SUBSET Handles
  BY DEF Consistent
<1> DEFINE new == [data |-> v, data_image |-> image, counter |-> 1,
                   maybe_modified |-> TRUE, device |-> Garbage]
           d == synchronize(new)
           q == [p EXCEPT ![h] = o]
           hq == [hp EXCEPT ![o] = d]
<1>2. m = [heap |-> hq, pd |-> q]
  BY DEF allocate
<1>3. /\ d \in PointerData
      /\ d.counter = 1
      /\ image = Garbage => ImageOK(d)
  <2>1. CASE image # v
    <3>1. d = [data |-> v, data_image |-> v, counter |-> 1,
               maybe_modified |-> FALSE, device |-> v]
      BY <2>1 DEF synchronize, modified, set_last_sync_state
    <3> HIDE DEF d
    <3> QED
      BY <3>1 DEF PointerData, ImageOK
  <2>2. CASE image = v
    <3>1. d = new
      BY <2>2 DEF synchronize, modified
    <3>2. new \in PointerData
      BY DEF PointerData
    <3> QED
      BY <2>2, <3>1, <3>2, ConstantsAssumption
  <2> QED
    BY <2>1, <2>2
<1> HIDE DEF d
<1>4. /\ hq \in Heaps /\ hq[o] = d
      /\ \A a \in Objects \ {o} : hq[a] = hp[a]
  BY <1>1, <1>3 DEF Heaps
<1>5. q \in Pointers /\ q[h] = o /\ \A g \in Handles \ {h} : q[g] = p[g]
  BY <1>1 DEF Pointers, Addresses
<1> HIDE DEF q, hq
<1>6. Referring(q, b \union {h}, o) = {h}
  <2>1. Referring(p, b, o) = {}
    BY DEF Consistent, Counted
  <2> QED
    BY <1>1, <1>5, <2>1 DEF Referring
<1>7. Consistent(hq, q, b \union {h})
  <2>1. ASSUME NEW a \in Objects PROVE Counted(hq, q, b \union {h}, a)
    <3>1. CASE a = o
      BY <3>1, <1>3, <1>4, <1>6, FS_Singleton,
         UnallocatedAssumption DEF Counted
    <3>2. CASE a # o
      <4>1. Referring(q, b \union {h}, a) = Referring(p, b, a)
        BY <1>1, <1>5, <3>2 DEF Referring
      <4> QED
        BY <1>4, <3>2, <4>1 DEF Counted, Consistent
    <3> QED
      BY <3>1, <3>2
  <2> QED
    BY <1>1, <1>4, <1>5, <2>1 DEF Consistent
<1>8. m.heap = hq /\ m.pd = q
  BY <1>2
<1> QED
  BY <1>3, <1>4, <1>5, <1>7, <1>8

(* A pointer that is counted nowhere takes over the object of another one, *)
(* which becomes null.                                                     *)
LEMMA MoveConsistent ==
  ASSUME NEW hp, NEW p, NEW b, Consistent(hp, p, b),
         NEW h \in Handles, h \notin b, NEW g \in b, NEW q \in Pointers,
         q[h] = p[g], q[g] = Null, \A x \in Handles \ {h, g} : q[x] = p[x]
  PROVE  Consistent(hp, q, b \union {h})
<1>1. /\ p \in Pointers /\ hp \in Heaps
      /\ b \in SUBSET Handles /\ b \union {h} \in SUBSET Handles
  BY DEF Consistent
<1>2. ASSUME NEW o \in Objects PROVE Counted(hp, q, b \union {h}, o)
  <2> DEFINE S == Referring(p, b, o)
             T == Referring(q, b \union {h}, o)
  <2>1. CASE o = p[g]
    <3>1. T = (S \ {g}) \union {h} /\ g \in S /\ h \notin S
      BY <1>1, <2>1, ConstantsAssumption DEF Referring
    <3>2. IsFiniteSet(S) /\ Cardinality(S) \in Nat
      BY <1>1, ReferringFinite
    <3> HIDE DEF S, T
    <3>3. IsFiniteSet(S \ {g}) /\ Cardinality(S \ {g}) = Cardinality(S) - 1
      BY <3>1, <3>2, FS_RemoveElement
    <3>4. Cardinality(T) = Cardinality(S \ {g}) + 1
      BY <3>1, <3>3, FS_AddElement
    <3>5. Cardinality(T) = Cardinality(S) /\ T # {} /\ S # {}
      BY <3>1, <3>2, <3>3, <3>4
    <3> QED
      BY <3>5 DEF Counted, Consistent, S, T
  <2>2. CASE o # p[g]
    <3>1. T = S
      BY <1>1, <2>2, ConstantsAssumption DEF Referring
    <3> QED
      BY <3>1 DEF Counted, Consistent
  <2> QED
    BY <2>1, <2>2
<1> QED
  BY <1>1, <1>2 DEF Consistent

(* Two pointers exchange their objects.                                    *)
LEMMA SwapConsistent ==
  ASSUME NEW hp, NEW p, NEW b, Consistent(hp, p, b),
         NEW h \in b, NEW g \in b, h # g, NEW q \in Pointers,
         q[h] = p[g], q[g] = p[h], \A x \in Handles \ {h, g} : q[x] = p[x]
  PROVE  Consistent(hp, q, b)
<1>1. /\ p \in Pointers /\ hp \in Heaps /\ b \in SUBSET Handles
  BY DEF Consistent
<1>2. ASSUME NEW o \in Objects PROVE Counted(hp, q, b, o)
  <2> DEFINE S == Referring(p, b, o)
             T == Referring(q, b, o)
  <2>1. IsFiniteSet(S) /\ Cardinality(S) \in Nat
    BY <1>1, ReferringFinite
  <2>2. ASSUME NEW x, NEW y, T = (S \ {x}) \union {y}, x \in S, y \notin S
        PROVE  Counted(hp, q, b, o)
    <3> HIDE DEF S, T
    <3>1. IsFiniteSet(S \ {x}) /\ Cardinality(S \ {x}) = Cardinality(S) - 1
      BY <2>1, <2>2, FS_RemoveElement
    <3>2. Cardinality(T) = Cardinality(S \ {x}) + 1
      BY <2>2, <3>1, FS_AddElement
    <3>3. Cardinality(T) = Cardinality(S) /\ T # {} /\ S # {}
      BY <2>1, <2>2, <3>1, <3>2
    <3> QED
      BY <3>3 DEF Counted, Consistent, S, T
  <2>3. CASE o = p[h] /\ o # p[g]
    <3>1. T = (S \ {h}) \union {g} /\ h \in S /\ g \notin S
      BY <1>1, <2>3 DEF Referring
    <3> QED
      BY <2>2, <3>1
  <2>4. CASE o = p[g] /\ o # p[h]
    <3>1. T = (S \ {g}) \union {h} /\ g \in S /\ h \notin S
      BY <1>1, <2>4 DEF Referring
    <3> QED
      BY <2>2, <3>1
  <2>5. CASE (o = p[g]) = (o = p[h])
    <3>1. T = S
      BY <1>1, <2>5 DEF Referring
    <3> QED
      BY <3>1 DEF Counted, Consistent
  <2> QED
    BY <2>3, <2>4, <2>5
<1> QED
  BY <1>1, <1>2 DEF Consistent

-----------------------------------------------------------------------------
(* The operations of the pointers.                                         *)

MemoryOK ==
  /\ Consistent(heap, pd, built)
  /\ ~ReusedMemory => ImagesOK(heap)

LEMMA ImagesKept ==
  ASSUME NEW hp, NEW hq, KeepsData(hp, hq), ImagesOK(hp)
  PROVE  ImagesOK(hq)
  BY DEF KeepsData, ImagesOK, ImageOK

(* Whatever a new object's image may be: it is garbage, or the program runs*)
(* in memory that is used again.                                           *)
LEMMA NewImage ==
  ASSUME NEW v \in Values, NEW image \in Uninitialized(v)
  PROVE  /\ image \in Values \union {Garbage}
         /\ ~ReusedMemory => image = Garbage
  BY DEF Uninitialized

(* The state after free() of a pointer that exists.                        *)
LEMMA Freed ==
  ASSUME MemoryOK, NEW h \in built, NEW m, m = free(Memory, h)
  PROVE  /\ Consistent(m.heap, m.pd, built \ {h})
         /\ ~ReusedMemory => ImagesOK(m.heap)
         /\ FreedBy(heap, pd, h, m)
<1>1. m = free([heap |-> heap, pd |-> pd], h)
  BY DEF Memory
<1>2. Consistent(heap, pd, built) /\ (~ReusedMemory => ImagesOK(heap))
  BY DEF MemoryOK
<1>3. Consistent(m.heap, m.pd, built \ {h}) /\ FreedBy(heap, pd, h, m)
  BY <1>1, <1>2, FreeConsistent
<1>4. ~ReusedMemory => ImagesOK(m.heap)
  BY <1>2, <1>3, ImagesKept DEF FreedBy
<1> QED
  BY <1>3, <1>4

(* A new object for a pointer that is counted nowhere.                     *)
LEMMA Allocated ==
  ASSUME NEW hp, NEW p, NEW b, Consistent(hp, p, b),
         ~ReusedMemory => ImagesOK(hp),
         NEW h \in Handles, h \notin b,
         NEW o \in Objects, hp[o] = Unallocated,
         NEW v \in Values, NEW image \in Uninitialized(v),
         NEW m, m = allocate([heap |-> hp, pd |-> p], h, o, v, image)
  PROVE  /\ Consistent(m.heap, m.pd, b \union {h})
         /\ ~ReusedMemory => ImagesOK(m.heap)
         /\ \A g \in Handles \ {h} : m.pd[g] = p[g]
         /\ \A a \in Objects \ {o} : m.heap[a] = hp[a]
<1>1. /\ image \in Values \union {Garbage}
      /\ ~ReusedMemory => image = Garbage
  BY NewImage
<1>2. /\ Consistent(m.heap, m.pd, b \union {h})
      /\ \A g \in Handles \ {h} : m.pd[g] = p[g]
      /\ \A a \in Objects \ {o} : m.heap[a] = hp[a]
      /\ image = Garbage => ImageOK(m.heap[o])
  BY <1>1, AllocateConsistent
<1>3. ~ReusedMemory => ImagesOK(m.heap)
  BY <1>1, <1>2 DEF ImagesOK
<1> QED
  BY <1>2, <1>3

LEMMA ConstructStep ==
  ASSUME MemoryOK, NEW h \in Handles,
         Construct(h) \/ ConstructNull(h)
  PROVE  MemoryOK'
<1>1. Consistent(heap, pd, built) /\ (~ReusedMemory => ImagesOK(heap))
  BY DEF MemoryOK
<1>2. CASE Construct(h)
  <2>1. PICK o \in Objects, v \in Values :
          /\ heap[o] = Unallocated
          /\ \E image \in Uninitialized(v) :
               SetMemory(allocate(Memory, h, o, v, image))
    BY <1>2 DEF Construct
  <2>2. PICK image \in Uninitialized(v) :
          SetMemory(allocate(Memory, h, o, v, image))
    BY <2>1
  <2> DEFINE m == allocate([heap |-> heap, pd |-> pd], h, o, v, image)
  <2>3. heap' = m.heap /\ pd' = m.pd /\ h \notin built
        /\ built' = built \union {h}
    BY <1>2, <2>2 DEF SetMemory, Memory, Construct
  <2> HIDE DEF m
  <2>4. /\ Consistent(m.heap, m.pd, built \union {h})
        /\ ~ReusedMemory => ImagesOK(m.heap)
    BY <1>1, <2>1, <2>3, Allocated DEF m
  <2> QED
    BY <2>3, <2>4 DEF MemoryOK
<1>3. CASE ConstructNull(h)
  <2>1. /\ heap' = heap /\ pd' = [pd EXCEPT ![h] = Null]
        /\ built' = built \union {h} /\ h \notin built
    BY <1>3 DEF ConstructNull
  <2>2. Consistent(heap, [pd EXCEPT ![h] = Null], built \union {h})
    BY <1>1, <2>1, NullPointer
  <2>3. Consistent(heap, pd, built)'
    BY <2>1, <2>2, Zenon
  <2> QED
    BY <1>1, <2>1, <2>3 DEF MemoryOK
<1> QED
  BY <1>2, <1>3

LEMMA CopyStep ==
  ASSUME MemoryOK, NEW h \in Handles, NEW ptr \in Handles,
         CopyConstruct(h, ptr) \/ CopyAssign(h, ptr)
  PROVE  MemoryOK'
<1>1. Consistent(heap, pd, built) /\ (~ReusedMemory => ImagesOK(heap))
  BY DEF MemoryOK
<1>2. ASSUME NEW m, m = [heap |-> m.heap, pd |-> m.pd],
             NEW b, Consistent(m.heap, m.pd, b), h \notin b,
             ~ReusedMemory => ImagesOK(m.heap),
             NEW o \in Addresses, o # Null => m.heap[o] # Unallocated,
             SetMemory(refer(m, h, o)), built' = b \union {h}
      PROVE  MemoryOK'
  <2> DEFINE r == refer([heap |-> m.heap, pd |-> m.pd], h, o)
  <2>1. heap' = r.heap /\ pd' = r.pd
    BY <1>2 DEF SetMemory
  <2> HIDE DEF r
  <2>2. Consistent(r.heap, r.pd, b \union {h}) /\ KeepsData(m.heap, r.heap)
    BY <1>2, ReferConsistent DEF r
  <2>3. ~ReusedMemory => ImagesOK(r.heap)
    BY <1>2, <2>2, ImagesKept
  <2> QED
    BY <1>2, <2>1, <2>2, <2>3 DEF MemoryOK
<1>3. CASE CopyConstruct(h, ptr)
  <2>1. /\ SetMemory(refer(Memory, h, pd[ptr]))
        /\ h \notin built /\ built' = built \union {h}
        /\ ptr \in built /\ pd[ptr] # Null
    BY <1>3 DEF CopyConstruct
  <2>2. pd[ptr] \in Objects /\ heap[pd[ptr]] # Unallocated
    BY <1>1, <2>1, PointsToAllocated
  <2>3. pd[ptr] \in Addresses
    BY <2>2 DEF Addresses
  <2>4. /\ Memory = [heap |-> Memory.heap, pd |-> Memory.pd]
        /\ Memory.heap = heap /\ Memory.pd = pd
    BY DEF Memory
  <2> QED
    BY <1>1, <1>2, <2>1, <2>2, <2>3, <2>4
<1>4. CASE CopyAssign(h, ptr)
  <2> DEFINE freed == free(Memory, h)
  <2>1. /\ SetMemory(refer(freed, h, freed.pd[ptr]))
        /\ h \in built /\ ptr \in built /\ built' = built
    BY <1>4 DEF CopyAssign
  <2>6. /\ Consistent(freed.heap, freed.pd, built \ {h})
        /\ ~ReusedMemory => ImagesOK(freed.heap)
        /\ FreedBy(heap, pd, h, freed)
    BY <2>1, Freed
  <2> HIDE DEF freed
  <2>2. /\ freed = [heap |-> freed.heap, pd |-> freed.pd]
        /\ freed.pd[h] # Null => /\ freed.pd[h] = pd[h]
                                 /\ freed.heap[pd[h]] # Unallocated
    BY <2>6 DEF FreedBy
  <2>3. freed.pd[ptr] \in Addresses
    BY <2>6 DEF Consistent, Pointers
  <2>4. freed.pd[ptr] # Null => freed.heap[freed.pd[ptr]] # Unallocated
    <3>1. CASE ptr = h
      BY <2>2, <3>1
    <3>2. CASE ptr # h
      BY <2>1, <2>6, <3>2, PointsToAllocated
    <3> QED
      BY <3>1, <3>2
  <2>5. h \notin built \ {h} /\ built' = (built \ {h}) \union {h}
    BY <2>1
  <2> QED
    BY <1>2, <2>1, <2>6, <2>2, <2>3, <2>4, <2>5
<1> QED
  BY <1>3, <1>4

LEMMA MoveStep ==
  ASSUME MemoryOK, NEW h \in Handles, NEW ptr \in Handles,
         MoveConstruct(h, ptr) \/ MoveAssign(h, ptr) \/ Swap(h, ptr)
  PROVE  MemoryOK'
<1>1. /\ Consistent(heap, pd, built) /\ (~ReusedMemory => ImagesOK(heap))
      /\ pd \in Pointers
  BY DEF MemoryOK, Consistent
<1>2. CASE MoveConstruct(h, ptr)
  <2>1. /\ heap' = heap /\ built' = built \union {h}
        /\ h \notin built /\ ptr \in built
        /\ pd' = [pd EXCEPT ![h] = pd[ptr], ![ptr] = Null]
    BY <1>2 DEF MoveConstruct
  <2>2. /\ pd' \in Pointers /\ pd'[h] = pd[ptr] /\ pd'[ptr] = Null
        /\ \A x \in Handles \ {h, ptr} : pd'[x] = pd[x]
    BY <1>1, <2>1 DEF Pointers, Addresses
  <2>3. Consistent(heap, pd', built \union {h})
    BY <1>1, <2>1, <2>2, MoveConsistent
  <2> QED
    BY <1>1, <2>1, <2>3 DEF MemoryOK
<1>3. CASE MoveAssign(h, ptr)
  <2> DEFINE freed == free(Memory, h)
  <2>1. /\ heap' = freed.heap /\ built' = built
        /\ pd' = [freed.pd EXCEPT ![h] = freed.pd[ptr], ![ptr] = Null]
        /\ h \in built /\ ptr \in built
    BY <1>3 DEF MoveAssign
  <2>2. /\ Consistent(freed.heap, freed.pd, built \ {h})
        /\ ~ReusedMemory => ImagesOK(freed.heap)
    BY <2>1, Freed
  <2> HIDE DEF freed
  <2>3. freed.pd \in Pointers /\ built = (built \ {h}) \union {h}
    BY <2>1, <2>2 DEF Consistent
  <2>4. CASE h = ptr
    <3>1. pd' = [freed.pd EXCEPT ![h] = Null]
      BY <2>1, <2>3, <2>4 DEF Pointers
    <3>2. Consistent(freed.heap, [freed.pd EXCEPT ![h] = Null], built)
      BY <2>2, <2>3, NullPointer
    <3>3. Consistent(heap, pd, built)'
      BY <2>1, <3>1, <3>2, Zenon
    <3> QED
      BY <2>1, <2>2, <3>3 DEF MemoryOK
  <2>5. CASE h # ptr
    <3>1. /\ pd' \in Pointers /\ pd'[h] = freed.pd[ptr] /\ pd'[ptr] = Null
          /\ \A x \in Handles \ {h, ptr} : pd'[x] = freed.pd[x]
      BY <2>1, <2>3, <2>5 DEF Pointers, Addresses
    <3>2. ptr \in built \ {h} /\ h \notin built \ {h}
      BY <2>1, <2>5
    <3>3. Consistent(freed.heap, pd', built)
      BY <2>2, <2>3, <3>1, <3>2, MoveConsistent
    <3> QED
      BY <2>1, <2>2, <3>3 DEF MemoryOK
  <2> QED
    BY <2>4, <2>5
<1>4. CASE Swap(h, ptr)
  <2>1. /\ heap' = heap /\ built' = built /\ h \in built /\ ptr \in built
        /\ pd' = [pd EXCEPT ![h] = pd[ptr], ![ptr] = pd[h]]
    BY <1>4 DEF Swap
  <2>2. /\ pd' \in Pointers /\ pd'[h] = pd[ptr] /\ pd'[ptr] = pd[h]
        /\ \A x \in Handles \ {h, ptr} : pd'[x] = pd[x]
    BY <1>1, <2>1 DEF Pointers, Addresses
  <2>3. Consistent(heap, pd', built)
    <3>1. CASE h = ptr
      <4>1. pd' = pd
        BY <1>1, <2>1, <3>1 DEF Pointers
      <4> QED
        BY <1>1, <4>1
    <3>2. CASE h # ptr
      <4>1. Consistent(heap, pd, built) /\ h \in built /\ ptr \in built
        BY <1>1, <2>1
      <4>2. pd' \in Pointers /\ pd'[h] = pd[ptr] /\ pd'[ptr] = pd[h]
        BY <2>2
      <4>3. \A x \in Handles \ {h, ptr} : pd'[x] = pd[x]
        BY <2>2
      <4> QED
        BY <3>2, <4>1, <4>2, <4>3, SwapConsistent
    <3> QED
      BY <3>1, <3>2
  <2> QED
    BY <1>1, <2>1, <2>3 DEF MemoryOK
<1> QED
  BY <1>2, <1>3, <1>4

LEMMA ReleaseStep ==
  ASSUME ClearsUnshared, MemoryOK, NEW h \in Handles,
         Clear(h) \/ Destroy(h)
  PROVE  MemoryOK'
<1> DEFINE freed == free(Memory, h)
<1>1. /\ Consistent(heap, pd, built)
      /\ h \in built /\ built \subseteq Handles
  BY DEF MemoryOK, Clear, Destroy, Consistent
<1>2. /\ Consistent(freed.heap, freed.pd, built \ {h})
      /\ ~ReusedMemory => ImagesOK(freed.heap)
      /\ FreedBy(heap, pd, h, freed)
  BY <1>1, Freed
<1>3. CASE Clear(h)
  <2>1. heap' = freed.heap /\ pd' = freed.pd /\ built' = built /\ ~Shared(h)
    BY <1>3 DEF Clear, SetMemory, CanCall, ClearsUnshared
  <2> HIDE DEF freed
  <2>2. freed.pd[h] = Null
    <3>1. CASE pd[h] = Null
      BY <1>2, <3>1 DEF FreedBy
    <3>2. CASE pd[h] # Null
      <4>1. heap[pd[h]].counter \in Nat \ {0}
        BY <1>1, <3>2, PointsToAllocated DEF PointerData
      <4>2. heap[pd[h]].counter = 1
        BY <2>1, <3>2, <4>1 DEF Shared
      <4> QED
        BY <1>2, <4>2 DEF FreedBy
    <3> QED
      BY <3>1, <3>2
  <2>3. (built \ {h}) \union {h} = built
    BY <1>1
  <2>4. Consistent(freed.heap, freed.pd, (built \ {h}) \union {h})
    BY <1>2, <2>2, NullPointer
  <2> QED
    BY <1>2, <2>1, <2>3, <2>4 DEF MemoryOK
<1>4. CASE Destroy(h)
  <2> DEFINE q == [freed.pd EXCEPT ![h] = Null]
  <2>1. built' = built \ {h} /\ SetMemory([freed EXCEPT !.pd[h] = Null])
    BY <1>4 DEF Destroy
  <2>2. freed = [heap |-> freed.heap, pd |-> freed.pd]
    BY <1>2 DEF FreedBy
  <2> HIDE DEF freed
  <2>3. heap' = freed.heap /\ pd' = q
    BY <2>1, <2>2 DEF SetMemory
  <2>4. Consistent(freed.heap, q, built \ {h})
    BY <1>2, NullPointer
  <2> QED
    BY <1>2, <2>1, <2>3, <2>4 DEF MemoryOK
<1> QED
  BY <1>3, <1>4

LEMMA RecreateStep ==
  ASSUME MemoryOK, NEW h \in Handles, Recreate(h)
  PROVE  MemoryOK'
<1> DEFINE freed == free(Memory, h)
<1>1. /\ Consistent(heap, pd, built)
      /\ ~ReusedMemory => ImagesOK(heap)
      /\ h \in built /\ built \subseteq Handles
      /\ heap \in Heaps
  BY DEF MemoryOK, Recreate, Consistent
<1>2. PICK v \in Values :
       IF pd[h] # Null /\ ~Shared(h)
       THEN /\ heap' = [heap EXCEPT ![pd[h]] =
                 set_last_sync_state([@ EXCEPT !.data = v, !.device = v])]
            /\ UNCHANGED pd
       ELSE \E o \in Objects, image \in Uninitialized(v) :
              /\ freed.heap[o] = Unallocated
              /\ SetMemory(allocate(freed, h, o, v, image))
  BY DEF Recreate
<1>3. built' = built
  BY DEF Recreate
<1>4. CASE pd[h] # Null /\ ~Shared(h)
  <2> DEFINE o == pd[h]
             d == set_last_sync_state([heap[o] EXCEPT !.data = v,
                                                      !.device = v])
  <2>1. o \in Objects /\ heap[o] # Unallocated /\ heap[o] \in PointerData
    BY <1>1, <1>4, PointsToAllocated
  <2>2. heap' = [heap EXCEPT ![o] = d] /\ pd' = pd
    BY <1>2, <1>4
  <2> HIDE DEF o
  <2>3. d \in PointerData /\ d.counter = heap[o].counter /\ ImageOK(d)
    BY <2>1 DEF set_last_sync_state, PointerData, ImageOK
  <2> HIDE DEF d
  <2>4. /\ heap' \in Heaps /\ heap'[o] = d
        /\ \A a \in Objects \ {o} : heap'[a] = heap[a]
    BY <1>1, <2>1, <2>2, <2>3 DEF Heaps
  <2>5. Consistent(heap', pd, built)
    BY <1>1, <2>1, <2>3, <2>4, SameCounters, UnallocatedAssumption
  <2>6. ~ReusedMemory => ImagesOK(heap')
    BY <1>1, <2>3, <2>4 DEF ImagesOK
  <2> QED
    BY <1>3, <2>2, <2>5, <2>6 DEF MemoryOK
<1>5. CASE ~(pd[h] # Null /\ ~Shared(h))
  <2>1. PICK o \in Objects, image \in Uninitialized(v) :
              /\ freed.heap[o] = Unallocated
              /\ SetMemory(allocate(freed, h, o, v, image))
    BY <1>2, <1>5
  <2>2. /\ Consistent(freed.heap, freed.pd, built \ {h})
        /\ ~ReusedMemory => ImagesOK(freed.heap)
        /\ FreedBy(heap, pd, h, freed)
    BY <1>1, Freed
  <2> HIDE DEF freed
  <2> DEFINE m == allocate([heap |-> freed.heap, pd |-> freed.pd], h, o, v,
                           image)
  <2>3. heap' = m.heap /\ pd' = m.pd
    BY <2>1, <2>2 DEF SetMemory, FreedBy
  <2> HIDE DEF m
  <2>4. /\ Consistent(m.heap, m.pd, (built \ {h}) \union {h})
        /\ ~ReusedMemory => ImagesOK(m.heap)
    <3>1. h \notin built \ {h}
      OBVIOUS
    <3> QED
      BY <2>1, <2>2, <3>1, Allocated DEF m
  <2>5. (built \ {h}) \union {h} = built
    BY <1>1
  <2> QED
    BY <1>3, <2>3, <2>4, <2>5 DEF MemoryOK
<1> QED
  BY <1>4, <1>5

LEMMA ModifyStep ==
  ASSUME MemoryOK, NEW h \in Handles, Modify(h)
  PROVE  MemoryOK'
<1> DEFINE o == pd[h]
<1>1. /\ Consistent(heap, pd, built)
      /\ ~ReusedMemory => ImagesOK(heap)
      /\ h \in built /\ heap \in Heaps /\ pd[h] # Null
      /\ pd' = pd /\ built' = built
  BY DEF MemoryOK, Modify, Consistent
<1>2. PICK v \in Values :
        heap' = [heap EXCEPT ![o].data = v, ![o].maybe_modified = TRUE]
  BY DEF Modify
<1>3. o \in Objects /\ heap[o] # Unallocated /\ heap[o] \in PointerData
  BY <1>1, PointsToAllocated
<1> HIDE DEF o
<1> DEFINE d == [heap[o] EXCEPT !.data = v, !.maybe_modified = TRUE]
<1>4. heap' = [heap EXCEPT ![o] = d]
  BY <1>1, <1>2, <1>3 DEF Heaps
<1>5. /\ d \in PointerData /\ d.counter = heap[o].counter
      /\ ImageOK(heap[o]) => ImageOK(d)
  BY <1>3 DEF PointerData, ImageOK
<1> HIDE DEF d
<1>6. /\ heap' \in Heaps /\ heap'[o] = d
      /\ \A a \in Objects \ {o} : heap'[a] = heap[a]
  BY <1>1, <1>3, <1>4, <1>5 DEF Heaps
<1>7. Consistent(heap', pd, built)
  BY <1>1, <1>3, <1>5, <1>6, SameCounters, UnallocatedAssumption
<1>8. ~ReusedMemory => ImagesOK(heap')
  BY <1>1, <1>3, <1>5, <1>6 DEF ImagesOK
<1> QED
  BY <1>1, <1>7, <1>8 DEF MemoryOK

(* synchronize() of one object.                                            *)
LEMMA SynchronizeData ==
  ASSUME NEW d \in PointerData
  PROVE  /\ synchronize(d) \in PointerData
         /\ synchronize(d).counter = d.counter
         /\ synchronize(d).data = d.data
         /\ ImageOK(d) => /\ ImageOK(synchronize(d))
                          /\ synchronize(d).device = d.data
<1>1. CASE modified(d)
  <2>1. synchronize(d) = [data |-> d.data, data_image |-> d.data,
                          counter |-> d.counter, maybe_modified |-> FALSE,
                          device |-> d.data]
    BY <1>1 DEF synchronize, set_last_sync_state, PointerData
  <2> QED
    BY <2>1 DEF PointerData, ImageOK
<1>2. CASE ~modified(d)
  <2>1. synchronize(d) = d
    BY <1>2 DEF synchronize
  <2>2. d.data # Garbage
    BY ConstantsAssumption DEF PointerData
  <2> QED
    BY <1>2, <2>1, <2>2 DEF ImageOK, modified, PointerData
<1> QED
  BY <1>1, <1>2

(* Pointers that do not exist may be left in the register: they are null.  *)
NullUnlessBuilt == \A h \in Handles \ built : pd[h] = Null

LEMMA Synchronizing ==
  ASSUME MemoryOK, NullUnlessBuilt,
         pointersOnDevices[active] \subseteq Handles,
         NEW o \in Objects
  PROVE  /\ heap[o] = Unallocated => synchronizeDevice[o] = Unallocated
         /\ heap[o] # Unallocated =>
              /\ heap[o] \in PointerData
              /\ synchronizeDevice[o] \in {heap[o], synchronize(heap[o])}
<1>1. heap \in Heaps /\ pd \in Pointers /\ Counted(heap, pd, built, o)
  BY DEF MemoryOK, Consistent
<1>2. synchronizeDevice[o] = IF \E h \in pointersOnDevices[active] : pd[h] = o
                             THEN synchronize(heap[o])
                             ELSE heap[o]
  BY DEF synchronizeDevice
<1>3. CASE heap[o] = Unallocated
  <2>1. ASSUME NEW h \in pointersOnDevices[active] PROVE pd[h] # o
    <3>1. CASE h \in built
      BY <1>1, <1>3, <3>1 DEF Counted, Referring
    <3>2. CASE h \notin built
      BY <3>2, ConstantsAssumption DEF NullUnlessBuilt
    <3> QED
      BY <3>1, <3>2
  <2> QED
    BY <1>2, <1>3, <2>1
<1>4. CASE heap[o] # Unallocated
  BY <1>1, <1>2, <1>4 DEF Heaps
<1> QED
  BY <1>3, <1>4

LEMMA SynchronizeStep ==
  ASSUME MemoryOK, NullUnlessBuilt,
         pointersOnDevices[active] \subseteq Handles,
         SynchronizeDevice
  PROVE  MemoryOK'
<1>1. /\ Consistent(heap, pd, built) /\ (~ReusedMemory => ImagesOK(heap))
      /\ heap' = synchronizeDevice /\ pd' = pd /\ built' = built
  BY DEF MemoryOK, SynchronizeDevice
<1>2. ASSUME NEW o \in Objects
      PROVE  /\ heap'[o] = Unallocated <=> heap[o] = Unallocated
             /\ heap'[o] \in PointerData \union {Unallocated}
             /\ heap[o] # Unallocated =>
                  /\ heap'[o].counter = heap[o].counter
                  /\ ImageOK(heap[o]) => ImageOK(heap'[o])
  <2>1. CASE heap[o] = Unallocated
    BY <1>1, <2>1, Synchronizing
  <2>2. CASE heap[o] # Unallocated
    <3>1. heap[o] \in PointerData
      BY <2>2, Synchronizing
    <3>2. heap'[o] = heap[o] \/ heap'[o] = synchronize(heap[o])
      BY <1>1, <2>2, Synchronizing
    <3>3. CASE heap'[o] = heap[o]
      BY <2>2, <3>1, <3>3
    <3>4. CASE heap'[o] = synchronize(heap[o])
      BY <2>2, <3>1, <3>4, SynchronizeData, UnallocatedAssumption
    <3> QED
      BY <3>2, <3>3, <3>4
  <2> QED
    BY <2>1, <2>2
<1>3. heap' \in Heaps
  BY <1>1, <1>2 DEF synchronizeDevice, Heaps
<1>4. Consistent(heap', pd, built)
  BY <1>1, <1>2, <1>3, SameCounters
<1>5. ~ReusedMemory => ImagesOK(heap')
  BY <1>1, <1>2 DEF ImagesOK
<1> QED
  BY <1>1, <1>4, <1>5 DEF MemoryOK

-----------------------------------------------------------------------------
(* The register.                                                           *)

RegisterTypes ==
  /\ built \subseteq Handles
  /\ pointersOnDevices \in [Devices -> SUBSET Handles]
  /\ known \subseteq Devices
  /\ IsFiniteSet(known)
  /\ active \in Devices
  /\ terminated \in BOOLEAN

(* Only known devices have entries, and with one device a pointer leaves   *)
(* the set it is in.                                                       *)
OneDevice == \A d, e \in known : d = e

RegisterOK ==
  /\ \A d \in Devices \ known : pointersOnDevices[d] = {}
  /\ OneDevice /\ ~terminated =>
       \A d \in Devices : pointersOnDevices[d] \subseteq built

RegisterInv == RegisterTypes /\ NullUnlessBuilt /\ RegisterOK

(* An operation that inserts and removes nothing.                          *)
LEMMA RegisterKept ==
  ASSUME RegisterInv, UNCHANGED register,
         built \subseteq built', built' \subseteq Handles,
         active' \in Devices, terminated' = terminated, NullUnlessBuilt'
  PROVE  RegisterInv'
<1>1. RegisterTypes'
  BY DEF RegisterInv, RegisterTypes, register
<1>2. RegisterOK'
  BY DEF RegisterInv, RegisterOK, OneDevice, register
<1> QED
  BY <1>1, <1>2 DEF RegisterInv

(* A pointer with a new object is inserted.                                *)
LEMMA RegisterInsert ==
  ASSUME RegisterInv, NEW h \in Handles, insert(h), built' = built \union {h},
         active' = active, terminated' = terminated, NullUnlessBuilt'
  PROVE  RegisterInv'
<1>1. /\ known' = known \union {active} /\ active \in Devices
      /\ pointersOnDevices' =
           [pointersOnDevices EXCEPT ![active] = @ \union {h}]
      /\ pointersOnDevices \in [Devices -> SUBSET Handles]
      /\ built \subseteq Handles
  BY DEF RegisterInv, RegisterTypes, insert
<1>2. /\ pointersOnDevices' \in [Devices -> SUBSET Handles]
      /\ pointersOnDevices'[active] = pointersOnDevices[active] \union {h}
      /\ \A d \in Devices \ {active} :
           pointersOnDevices'[d] = pointersOnDevices[d]
  BY <1>1
<1>3. RegisterTypes'
  BY <1>1, <1>2, FS_AddElement DEF RegisterInv, RegisterTypes
<1>4. RegisterOK'
  <2>1. \A d \in Devices \ known' : pointersOnDevices'[d] = {}
    BY <1>1, <1>2 DEF RegisterInv, RegisterOK
  <2>2. ASSUME OneDevice', ~terminated', NEW d \in Devices
        PROVE  pointersOnDevices'[d] \subseteq built'
    <3>1. OneDevice
      BY <1>1, <2>2 DEF OneDevice
    <3>2. pointersOnDevices[d] \subseteq built
      BY <2>2, <3>1 DEF RegisterInv, RegisterOK
    <3> QED
      BY <1>2, <3>2
  <2> QED
    BY <2>1, <2>2 DEF RegisterOK
<1> QED
  BY <1>3, <1>4 DEF RegisterInv

(* A destroyed pointer is removed, from the set of the active device.      *)
LEMMA RegisterRemove ==
  ASSUME RegisterInv, NEW h \in Handles, Destroy(h), NullUnlessBuilt'
  PROVE  RegisterInv'
<1>1. /\ known' = known /\ active' = active /\ built' = built \ {h}
      /\ ~terminated /\ active \in Devices
      /\ pointersOnDevices' = [pointersOnDevices EXCEPT ![active] = @ \ {h}]
      /\ pointersOnDevices \in [Devices -> SUBSET Handles]
      /\ built \subseteq Handles
      /\ terminated' = (active \notin known)
  BY DEF RegisterInv, RegisterTypes, Destroy
<1>2. /\ pointersOnDevices' \in [Devices -> SUBSET Handles]
      /\ pointersOnDevices'[active] = pointersOnDevices[active] \ {h}
      /\ \A d \in Devices \ {active} :
           pointersOnDevices'[d] = pointersOnDevices[d]
  BY <1>1
<1>3. RegisterTypes'
  <2>1. terminated' \in BOOLEAN
    BY <1>1
  <2> QED
    BY <1>1, <1>2, <2>1 DEF RegisterInv, RegisterTypes
<1>4. RegisterOK'
  <2>1. \A d \in Devices \ known' : pointersOnDevices'[d] = {}
    BY <1>1, <1>2 DEF RegisterInv, RegisterOK
  <2>2. ASSUME OneDevice', ~terminated', NEW d \in Devices
        PROVE  pointersOnDevices'[d] \subseteq built'
    <3>1. OneDevice /\ active \in known
      BY <1>1, <2>2 DEF OneDevice
    <3>2. pointersOnDevices[d] \subseteq built
      BY <1>1, <3>1 DEF RegisterInv, RegisterOK
    <3>3. CASE d = active
      BY <1>1, <1>2, <3>2, <3>3
    <3>4. CASE d # active
      <4>1. pointersOnDevices[d] = {}
        BY <3>1, <3>4 DEF RegisterInv, RegisterOK, OneDevice
      <4> QED
        BY <1>2, <3>4, <4>1
    <3> QED
      BY <3>3, <3>4
  <2> QED
    BY <2>1, <2>2 DEF RegisterOK
<1> QED
  BY <1>3, <1>4 DEF RegisterInv

(* The pointers that do not exist: only Destroy adds one, and makes it null*)
LEMMA NullStep ==
  ASSUME MemoryOK, RegisterInv,
         \/ built' = built /\ pd' \in Pointers
              /\ \A g \in Handles \ built : pd'[g] = pd[g]
         \/ \E h \in Handles :
              /\ built' = built \union {h}
              /\ \A g \in Handles \ (built \union {h}) : pd'[g] = pd[g]
         \/ \E h \in Handles :
              /\ built' = built \ {h} /\ pd'[h] = Null
              /\ \A g \in Handles \ (built \union {h}) : pd'[g] = pd[g]
  PROVE  NullUnlessBuilt'
  BY DEF NullUnlessBuilt, RegisterInv

-----------------------------------------------------------------------------
(* The inductive invariant.                                                *)

IndInv == MemoryOK /\ RegisterInv

LEMMA InitIndInv == Init => IndInv
<1> SUFFICES ASSUME Init PROVE IndInv
  OBVIOUS
<1>1. MemoryOK
  <2>1. heap \in Heaps /\ pd \in Pointers /\ built = {}
        /\ \A o \in Objects : heap[o] = Unallocated
    BY DEF Init, Heaps, Pointers, Addresses
  <2>2. \A o \in Objects : Counted(heap, pd, built, o)
    BY <2>1 DEF Counted, Referring
  <2> QED
    BY <2>1, <2>2 DEF MemoryOK, Consistent, ImagesOK
<1>2. RegisterTypes
  <2>1. terminated \in BOOLEAN
    BY DEF Init
  <2> QED
    BY <2>1, FS_EmptySet DEF Init, RegisterTypes
<1>3. NullUnlessBuilt /\ RegisterOK
  BY DEF Init, NullUnlessBuilt, RegisterOK
<1> QED
  BY <1>1, <1>2, <1>3 DEF IndInv, RegisterInv

(* What one operation of a pointer does.                                   *)
LEMMA HandleStep ==
  ASSUME ClearsUnshared, IndInv, NEW h \in Handles,
         \/ Construct(h) \/ ConstructNull(h) \/ Clear(h) \/ Recreate(h)
         \/ Modify(h) \/ Destroy(h)
  PROVE  IndInv'
<1>1. /\ MemoryOK /\ RegisterInv /\ built \subseteq Handles
      /\ active \in Devices /\ pd \in Pointers /\ NullUnlessBuilt
  BY DEF IndInv, RegisterInv, RegisterTypes, MemoryOK, Consistent
<1>2. MemoryOK'
  BY <1>1, ConstructStep, ReleaseStep, RecreateStep, ModifyStep
<1>3. pd' \in Pointers /\ built' \subseteq Handles
  BY <1>2 DEF MemoryOK, Consistent
<1>4. CASE Construct(h)
  <2>1. /\ built' = built \union {h} /\ insert(h)
        /\ active' = active /\ terminated' = terminated
    BY <1>4 DEF Construct
  <2>2. \A g \in Handles \ {h} : pd'[g] = pd[g]
    <3>1. PICK o \in Objects, v \in Values, image \in Values \union {Garbage} :
            SetMemory(allocate(Memory, h, o, v, image))
      BY <1>4, NewImage DEF Construct
    <3>2. pd' = [pd EXCEPT ![h] = o]
      BY <3>1 DEF SetMemory, allocate, Memory
    <3> QED
      BY <1>1, <3>2 DEF Pointers
  <2>3. NullUnlessBuilt'
    BY <1>1, <2>1, <2>2 DEF NullUnlessBuilt
  <2> QED
    BY <1>1, <1>2, <2>1, <2>3, RegisterInsert DEF IndInv
<1>5. CASE ConstructNull(h)
  <2>1. /\ built' = built \union {h} /\ UNCHANGED register
        /\ active' = active /\ terminated' = terminated
        /\ pd' = [pd EXCEPT ![h] = Null]
    BY <1>5 DEF ConstructNull
  <2>2. NullUnlessBuilt'
    BY <1>1, <2>1 DEF NullUnlessBuilt, Pointers
  <2>3. built \subseteq built' /\ active' \in Devices
    BY <1>1, <2>1
  <2> QED
    BY <1>1, <1>2, <1>3, <2>1, <2>2, <2>3, RegisterKept DEF IndInv
<1>6. CASE Clear(h)
  <2>1. /\ built' = built /\ h \in built /\ UNCHANGED register
        /\ active' = active /\ terminated' = terminated
        /\ pd' = free(Memory, h).pd
    BY <1>6 DEF Clear, SetMemory
  <2>2. FreedBy(heap, pd, h, free(Memory, h))
    BY <1>1, <2>1, Freed
  <2>3. NullUnlessBuilt'
    BY <1>1, <2>1, <2>2 DEF NullUnlessBuilt, FreedBy
  <2>4. built \subseteq built' /\ active' \in Devices
    BY <1>1, <2>1
  <2> QED
    BY <1>1, <1>2, <1>3, <2>1, <2>3, <2>4, RegisterKept DEF IndInv
<1>7. CASE Recreate(h)
  <2> DEFINE freed == free(Memory, h)
  <2>1. /\ built' = built /\ h \in built /\ built' = built \union {h}
        /\ active' = active /\ terminated' = terminated
    BY <1>1, <1>7 DEF Recreate
  <2>2. \/ UNCHANGED <<pd, register>>
        \/ \E o \in Objects, v \in Values, image \in Values \union {Garbage} :
             /\ SetMemory(allocate(freed, h, o, v, image))
             /\ insert(h)
    BY <1>7, NewImage DEF Recreate
  <2>3. CASE UNCHANGED <<pd, register>>
    <3>1. NullUnlessBuilt'
      BY <1>1, <2>1, <2>3 DEF NullUnlessBuilt
    <3>2. built \subseteq built' /\ active' \in Devices /\ UNCHANGED register
      BY <1>1, <2>1, <2>3
    <3> QED
      BY <1>1, <1>2, <1>3, <2>1, <3>1, <3>2, RegisterKept DEF IndInv
  <2>4. ASSUME NEW o \in Objects, NEW v \in Values,
               NEW image \in Values \union {Garbage},
               SetMemory(allocate(freed, h, o, v, image)), insert(h)
        PROVE  IndInv'
    <3>1. /\ FreedBy(heap, pd, h, freed)
          /\ Consistent(freed.heap, freed.pd, built \ {h})
      BY <1>1, <2>1, Freed
    <3> HIDE DEF freed
    <3>2. pd' = [freed.pd EXCEPT ![h] = o]
      BY <2>4 DEF SetMemory, allocate
    <3>3. \A g \in Handles \ {h} : pd'[g] = pd[g]
      BY <3>1, <3>2 DEF FreedBy, Consistent, Pointers
    <3>4. NullUnlessBuilt'
      BY <1>1, <2>1, <3>3 DEF NullUnlessBuilt
    <3> QED
      BY <1>1, <1>2, <2>1, <2>4, <3>4, RegisterInsert DEF IndInv
  <2> QED
    BY <2>2, <2>3, <2>4
<1>8. CASE Modify(h)
  <2>1. /\ built' = built /\ pd' = pd /\ UNCHANGED register
        /\ active' = active /\ terminated' = terminated
    BY <1>8 DEF Modify
  <2>2. NullUnlessBuilt' /\ built \subseteq built' /\ active' \in Devices
    BY <1>1, <2>1 DEF NullUnlessBuilt
  <2> QED
    BY <1>1, <1>2, <1>3, <2>1, <2>2, RegisterKept DEF IndInv
<1>9. CASE Destroy(h)
  <2> DEFINE freed == free(Memory, h)
             q == [freed.pd EXCEPT ![h] = Null]
  <2>1. /\ built' = built \ {h} /\ h \in built
        /\ SetMemory([freed EXCEPT !.pd[h] = Null])
    BY <1>9 DEF Destroy
  <2>2. /\ FreedBy(heap, pd, h, freed)
        /\ Consistent(freed.heap, freed.pd, built \ {h})
    BY <1>1, <2>1, Freed
  <2>3. freed = [heap |-> freed.heap, pd |-> freed.pd]
    BY <2>2 DEF FreedBy
  <2> HIDE DEF freed
  <2>4. pd' = q
    BY <2>1, <2>3 DEF SetMemory
  <2>5. pd'[h] = Null /\ \A g \in Handles \ {h} : pd'[g] = pd[g]
    BY <2>2, <2>4 DEF FreedBy, Consistent, Pointers, Addresses
  <2>6. NullUnlessBuilt'
    BY <1>1, <2>1, <2>5 DEF NullUnlessBuilt
  <2> QED
    BY <1>1, <1>2, <1>9, <2>6, RegisterRemove DEF IndInv
<1> QED
  BY <1>4, <1>5, <1>6, <1>7, <1>8, <1>9

(* What one operation of two pointers does.                                *)
LEMMA TwoHandlesStep ==
  ASSUME IndInv, NEW h \in Handles, NEW ptr \in Handles,
         \/ CopyConstruct(h, ptr) \/ MoveConstruct(h, ptr)
         \/ CopyAssign(h, ptr) \/ MoveAssign(h, ptr) \/ Swap(h, ptr)
  PROVE  IndInv'
<1>1. /\ MemoryOK /\ RegisterInv /\ built \subseteq Handles
      /\ active \in Devices /\ pd \in Pointers /\ NullUnlessBuilt
  BY DEF IndInv, RegisterInv, RegisterTypes, MemoryOK, Consistent
<1>2. MemoryOK'
  BY <1>1, CopyStep, MoveStep
<1>3. /\ UNCHANGED register /\ active' = active /\ terminated' = terminated
      /\ built' = built \union {h}
      /\ {h, ptr} \subseteq built'
  BY <1>1 DEF CopyConstruct, MoveConstruct, CopyAssign, MoveAssign, Swap
<1>4. \A g \in Handles \ {h, ptr} : pd'[g] = pd[g]
  <2> DEFINE freed == free(Memory, h)
  <2>1. CASE CopyConstruct(h, ptr)
    <3>1. pd' = [pd EXCEPT ![h] = pd[ptr]]
      BY <2>1 DEF CopyConstruct, SetMemory, refer, Memory
    <3> QED
      BY <1>1, <3>1 DEF Pointers
  <2>2. CASE MoveConstruct(h, ptr) \/ Swap(h, ptr)
    BY <1>1, <2>2 DEF MoveConstruct, Swap, Pointers
  <2>3. CASE CopyAssign(h, ptr) \/ MoveAssign(h, ptr)
    <3>1. h \in built /\ \/ pd' = [freed.pd EXCEPT ![h] = freed.pd[ptr]]
                         \/ pd' = [freed.pd EXCEPT ![h] = freed.pd[ptr],
                                                   ![ptr] = Null]
      BY <2>3 DEF CopyAssign, MoveAssign, SetMemory, refer
    <3>2. /\ FreedBy(heap, pd, h, freed)
          /\ Consistent(freed.heap, freed.pd, built \ {h})
      BY <1>1, <3>1, Freed
    <3> HIDE DEF freed
    <3> QED
      BY <3>1, <3>2 DEF FreedBy, Consistent, Pointers
  <2> QED
    BY <2>1, <2>2, <2>3
<1>5. NullUnlessBuilt'
  BY <1>1, <1>3, <1>4 DEF NullUnlessBuilt
<1>6. built \subseteq built' /\ built' \subseteq Handles /\ active' \in Devices
  BY <1>1, <1>3
<1> QED
  BY <1>1, <1>2, <1>3, <1>5, <1>6, RegisterKept DEF IndInv

LEMMA NextIndInv ==
  ASSUME ClearsUnshared, IndInv, [Next]_vars
  PROVE  IndInv'
<1>1. /\ MemoryOK /\ RegisterInv /\ built \subseteq Handles
      /\ active \in Devices /\ NullUnlessBuilt
      /\ pointersOnDevices[active] \subseteq Handles
  BY DEF IndInv, RegisterInv, RegisterTypes
<1>2. CASE SynchronizeDevice
  <2>1. MemoryOK'
    BY <1>1, <1>2, SynchronizeStep
  <2>2. /\ built' = built /\ pd' = pd /\ UNCHANGED register
        /\ active' = active /\ terminated' = terminated
    BY <1>2 DEF SynchronizeDevice
  <2>3. NullUnlessBuilt' /\ built \subseteq built' /\ built' \subseteq Handles
        /\ active' \in Devices
    BY <1>1, <2>2 DEF NullUnlessBuilt
  <2> QED
    BY <1>1, <2>1, <2>2, <2>3, RegisterKept DEF IndInv
<1>3. CASE SetDevice \/ UNCHANGED vars
  <2>1. /\ built' = built /\ pd' = pd /\ heap' = heap /\ UNCHANGED register
        /\ active' \in Devices /\ terminated' = terminated
    BY <1>1, <1>3 DEF SetDevice, vars, register
  <2>2. NullUnlessBuilt' /\ MemoryOK' /\ built \subseteq built'
        /\ built' \subseteq Handles
    BY <1>1, <2>1 DEF NullUnlessBuilt, MemoryOK
  <2> QED
    BY <1>1, <2>1, <2>2, RegisterKept DEF IndInv
<1>4. CASE \E h \in Handles :
            \/ Construct(h) \/ ConstructNull(h) \/ Clear(h) \/ Recreate(h)
            \/ Modify(h) \/ Destroy(h)
  BY <1>4, HandleStep
<1>5. CASE \E h, ptr \in Handles :
            \/ CopyConstruct(h, ptr) \/ MoveConstruct(h, ptr)
            \/ CopyAssign(h, ptr) \/ MoveAssign(h, ptr) \/ Swap(h, ptr)
  BY <1>5, TwoHandlesStep
<1> QED
  BY <1>2, <1>3, <1>4, <1>5 DEF Next, Terminated

LEMMA SpecIndInv == ASSUME ClearsUnshared PROVE Spec => []IndInv
<1>1. IndInv /\ [Next]_vars => IndInv'
  BY NextIndInv
<1> QED
  BY <1>1, InitIndInv, PTL DEF Spec

-----------------------------------------------------------------------------
(* Theorems.                                                               *)

(* Types: every object that is not deleted has a positive counter.         *)
THEOREM TypeCorrect == ASSUME ClearsUnshared PROVE Spec => []TypeOK
<1>1. IndInv => TypeOK
  BY DEF IndInv, MemoryOK, Consistent, Heaps, Pointers, Addresses,
         RegisterInv, RegisterTypes, TypeOK
<1> QED
  BY <1>1, SpecIndInv, PTL

(* The counter of an object is the number of its owners, so that free()    *)
(* deletes it exactly when the last one lets it go, for every order of     *)
(* copies, moves, assignments (also of a pointer to itself), swaps and     *)
(* destructors.                                                            *)
THEOREM CountersMatch == ASSUME ClearsUnshared PROVE Spec => []CounterMatches
<1>1. IndInv => CounterMatches
  BY DEF IndInv, MemoryOK, Consistent, Counted, Referring, CounterMatches,
         Owners
<1> QED
  BY <1>1, SpecIndInv, PTL

(* No pointer refers to a deleted object.                                  *)
THEOREM NeverDangling == ASSUME ClearsUnshared PROVE Spec => []NoDangling
<1>1. IndInv => NoDangling
  BY PointsToAllocated DEF IndInv, MemoryOK, NoDangling
<1> QED
  BY <1>1, SpecIndInv, PTL

LEMMA OneKnown ==
  ASSUME NEW S, IsFiniteSet(S), Cardinality(S) <= 1, NEW d \in S, NEW e \in S
  PROVE  d = e
<1>1. IsFiniteSet({d}) /\ Cardinality({d}) = 1
  BY FS_Singleton
<1>2. Cardinality({d}) <= Cardinality(S) /\ (Cardinality(S) = 1 => S = {d})
  BY <1>1, FS_Subset
<1>3. Cardinality(S) \in Nat
  BY FS_CardinalityType
<1>4. S = {d}
  BY <1>1, <1>2, <1>3
<1> QED
  BY <1>4

(* As long as one device is in use, the register holds living pointers     *)
(* only: synchronizeDevice does not use a destroyed one.                   *)
THEOREM RegisterAlive == ASSUME ClearsUnshared PROVE Spec => []RegisteredAlive
<1>1. IndInv => RegisteredAlive
  <2> SUFFICES ASSUME IndInv, Cardinality(known) <= 1, ~terminated
               PROVE  \A d \in Devices : pointersOnDevices[d] \subseteq built
    BY DEF RegisteredAlive
  <2>1. IsFiniteSet(known)
    BY DEF IndInv, RegisterInv, RegisterTypes
  <2>2. OneDevice
    BY <2>1, OneKnown DEF OneDevice
  <2> QED
    BY <2>2 DEF IndInv, RegisterInv, RegisterOK
<1> QED
  BY <1>1, SpecIndInv, PTL

(* After a synchronization the device image of every object with an owner  *)
(* in the register is that of the host, whoever modified or replaced it.   *)
THEOREM SynchronizedImages ==
  ASSUME ClearsUnshared, ~ReusedMemory
  PROVE  Spec => []RegisteredSynchronized
<1>1. IndInv => RegisteredSynchronized
  <2> SUFFICES ASSUME IndInv,
                      NEW h \in built \intersect pointersOnDevices[active],
                      pd[h] # Null
               PROVE  synchronizeDevice[pd[h]].device =
                        synchronizeDevice[pd[h]].data
    BY DEF RegisteredSynchronized, Synchronized
  <2>1. Consistent(heap, pd, built) /\ ImagesOK(heap)
    BY DEF IndInv, MemoryOK
  <2>2. /\ pd[h] \in Objects /\ heap[pd[h]] # Unallocated
        /\ heap[pd[h]] \in PointerData
    BY <2>1, PointsToAllocated
  <2>3. ImageOK(heap[pd[h]])
    BY <2>1, <2>2 DEF ImagesOK
  <2>4. synchronizeDevice[pd[h]] = synchronize(heap[pd[h]])
    BY <2>2 DEF synchronizeDevice
  <2> QED
    BY <2>2, <2>3, <2>4, SynchronizeData
<1> QED
  BY <1>1, SpecIndInv, PTL

(* recreate() of a pointer that shares its object changes nothing for the  *)
(* pointers it was sharing it with; one that owns it alone has it in place.*)
LEMMA RecreateStaysApart ==
  ASSUME IndInv, NEW h \in Handles, Recreate(h), NEW g \in built \ {h}
  PROVE  /\ pd'[g] = pd[g]
         /\ pd[g] # Null => heap'[pd[g]].data = heap[pd[g]].data
<1> DEFINE freed == free(Memory, h)
<1>1. /\ MemoryOK /\ Consistent(heap, pd, built) /\ heap \in Heaps
      /\ h \in built /\ g \in Handles
  BY DEF IndInv, MemoryOK, Recreate, Consistent
<1>2. PICK v \in Values :
       IF pd[h] # Null /\ ~Shared(h)
       THEN /\ heap' = [heap EXCEPT ![pd[h]] =
                 set_last_sync_state([@ EXCEPT !.data = v, !.device = v])]
            /\ UNCHANGED pd
       ELSE \E o \in Objects, image \in Uninitialized(v) :
              /\ freed.heap[o] = Unallocated
              /\ SetMemory(allocate(freed, h, o, v, image))
  BY DEF Recreate
<1>3. CASE pd[h] # Null /\ ~Shared(h)
  <2>1. heap[pd[h]].counter \in Nat \ {0} /\ pd[h] \in Objects
    BY <1>1, <1>3, PointsToAllocated DEF PointerData
  <2>2. heap[pd[h]].counter = 1
    BY <1>3, <2>1 DEF Shared
  <2>3. Referring(pd, built, pd[h]) = {h}
    BY <1>1, <1>3, <2>2, OnlyPointer
  <2>4. pd[g] # pd[h]
    BY <2>3 DEF Referring
  <2>5. pd[g] # Null => pd[g] \in Objects
    BY <1>1, PointsToAllocated
  <2>6. pd' = pd /\ \A a \in Objects \ {pd[h]} : heap'[a] = heap[a]
    BY <1>1, <1>2, <1>3, <2>1 DEF Heaps
  <2> QED
    BY <2>4, <2>5, <2>6
<1>4. CASE ~(pd[h] # Null /\ ~Shared(h))
  <2>1. PICK o \in Objects, image \in Uninitialized(v) :
              /\ freed.heap[o] = Unallocated
              /\ SetMemory(allocate(freed, h, o, v, image))
    BY <1>2, <1>4
  <2>2. /\ Consistent(freed.heap, freed.pd, built \ {h})
        /\ FreedBy(heap, pd, h, freed)
        /\ ~ReusedMemory => ImagesOK(freed.heap)
    BY <1>1, Freed
  <2> HIDE DEF freed
  <2> DEFINE m == allocate([heap |-> freed.heap, pd |-> freed.pd], h, o, v,
                           image)
  <2>3. heap' = m.heap /\ pd' = m.pd
    BY <2>1, <2>2 DEF SetMemory, FreedBy
  <2> HIDE DEF m
  <2>4. /\ \A x \in Handles \ {h} : m.pd[x] = freed.pd[x]
        /\ \A a \in Objects \ {o} : m.heap[a] = freed.heap[a]
    <3>1. h \notin built \ {h}
      OBVIOUS
    <3>2. /\ Consistent(m.heap, m.pd, (built \ {h}) \union {h})
          /\ ~ReusedMemory => ImagesOK(m.heap)
          /\ \A x \in Handles \ {h} : m.pd[x] = freed.pd[x]
          /\ \A a \in Objects \ {o} : m.heap[a] = freed.heap[a]
      BY <2>1, <2>2, <3>1, Allocated DEF m
    <3> QED
      BY <3>2
  <2>5. freed.pd[g] = pd[g]
    BY <1>1, <2>2 DEF FreedBy
  <2>6. pd'[g] = pd[g]
    BY <1>1, <2>3, <2>4, <2>5
  <2>7. ASSUME pd[g] # Null PROVE heap'[pd[g]].data = heap[pd[g]].data
    <3>1. pd[g] \in Objects /\ freed.heap[pd[g]] # Unallocated
      BY <2>2, <2>5, <2>7, PointsToAllocated
    <3>2. freed.heap[pd[g]].data = heap[pd[g]].data
      BY <2>2, <3>1 DEF FreedBy, KeepsData
    <3> QED
      BY <2>1, <2>3, <2>4, <3>1, <3>2
  <2> QED
    BY <2>6, <2>7
<1> QED
  BY <1>3, <1>4

(* recreate() of a shared pointer gives it an object of its own: the other *)
(* pointers keep theirs, with the data it had.                             *)
THEOREM RecreatedApart == ASSUME ClearsUnshared PROVE Spec => RecreateIsolates
<1>1. IndInv /\ [Next]_vars =>
        [\A h \in Handles : Recreate(h) =>
           \A g \in built \ {h} :
             /\ pd'[g] = pd[g]
             /\ pd[g] # Null => heap'[pd[g]].data = heap[pd[g]].data]_vars
  BY RecreateStaysApart
<1> QED
  BY <1>1, SpecIndInv, PTL DEF Spec, RecreateIsolates
=============================================================================
