----------------------------- MODULE VariantProofs -----------------------------
(***************************************************************************)
(* Theorems about who owns what a Variant holds, for any number of         *)
(* Variants, pointers and blocks and any contents.                         *)
(***************************************************************************)
EXTENDS VariantStore, TLAPS

\* What an operation assumes of the tables it reads.
Shape ==
    /\ data \in [Variants -> Blocks \cup {NoBlock}]
    /\ pointer \in [Pointers -> Blocks \cup {NoBlock}]
    /\ DOMAIN type = Variants /\ DOMAIN copier = Variants
    /\ DOMAIN heap = Blocks

\* No Variant and no pointer refers to a free block, and a Variant without a
\* block is empty in all of its parts; more only if no element is assigned to
\* the Variant that contains it.
Holding(d, t, f, h) ==
    \A v \in Variants :
        /\ d[v] # NoBlock => h[d[v]].type # NoType
        /\ d[v] = NoBlock => t[v] = NoType /\ f[v] = NoType
        /\ ~AssignsOwnElements =>
              f[v] = t[v] /\ (d[v] # NoBlock => h[d[v]].type = t[v])

PointersHold == \A p \in Pointers : pointer[p] # NoBlock => heap[pointer[p]].type # NoType

StoreInv ==
    Shape /\ Holding(data, type, copier, heap) /\ OwnStorage /\ PointersHold

LEMMA NoBlockIsNone == NoBlock \notin Blocks
BY StoreAssumption DEF NoBlock

LEMMA FreeHasNoType == Free.type = NoType
BY DEF Free

\* The block of something new is one that nothing refers to.
LEMMA SpareIsUnused ==
    ASSUME StoreInv, HasSpare
    PROVE  /\ Spare \in Blocks /\ Spare # NoBlock
           /\ \A v \in Variants : data[v] # Spare
           /\ \A p \in Pointers : pointer[p] # Spare
<1>1. Spare \in Blocks /\ heap[Spare] = Free
  BY DEF HasSpare, Spare
<1>2. Spare # NoBlock
  BY <1>1, NoBlockIsNone
<1>3. heap[Spare].type = NoType
  BY <1>1, FreeHasNoType
<1>4. ASSUME NEW v \in Variants, data[v] = Spare PROVE FALSE
  BY <1>2, <1>3, <1>4 DEF StoreInv, Holding
<1>5. ASSUME NEW p \in Pointers, pointer[p] = Spare PROVE FALSE
  BY <1>2, <1>3, <1>5 DEF StoreInv, PointersHold
<1> QED
  BY <1>1, <1>2, <1>4, <1>5

\* What is referred to afterwards is what it was, or what is stored.
LEMMA StoreKeeps ==
    ASSUME NEW b, NEW c, Store(b, c)
    PROVE  /\ DOMAIN heap' = Blocks
           /\ \A v \in Variants : data'[v] \in Blocks =>
                 heap'[data'[v]] = IF data'[v] = b THEN c ELSE heap[data'[v]]
           /\ \A p \in Pointers : pointer'[p] \in Blocks =>
                 heap'[pointer'[p]] = IF pointer'[p] = b THEN c ELSE heap[pointer'[p]]
BY DEF Store

-----------------------------------------------------------------------------
LEMMA StoreInit == Init => StoreInv
<1> SUFFICES ASSUME Init PROVE StoreInv
  OBVIOUS
<1>1. Shape
  BY DEF Init, Shape
<1>2. Holding(data, type, copier, heap)
  BY DEF Init, Holding
<1>3. OwnStorage /\ PointersHold
  BY DEF Init, OwnStorage, PointersHold
<1> QED
  BY <1>1, <1>2, <1>3 DEF StoreInv

\* A Variant that refers to a block of its own, or to none.
LEMMA BecomeKeeps ==
    ASSUME StoreInv, NEW v \in Variants, NEW b, NEW t, NEW f, NEW c,
           Become(v, b, t, f), Store(b, c), UNCHANGED pointer,
           \/ b = NoBlock /\ t = NoType /\ f = NoType
           \/ /\ HasSpare /\ b = Spare /\ c.type # NoType
              /\ ~AssignsOwnElements => t = c.type /\ f = c.type
    PROVE  StoreInv'
<1>0. /\ Shape /\ OwnStorage /\ PointersHold
      /\ Holding(data, type, copier, heap)
  BY DEF StoreInv
<1>1. \/ b = NoBlock
      \/ b \in Blocks /\ b # NoBlock /\ (\A w \in Variants : data[w] # b)
         /\ (\A p \in Pointers : pointer[p] # b)
  BY SpareIsUnused
<1>2. Shape'
  BY <1>0, <1>1, StoreKeeps DEF Shape, Become
<1>3. /\ data'[v] = b /\ type'[v] = t /\ copier'[v] = f
      /\ \A w \in Variants \ {v} :
            data'[w] = data[w] /\ type'[w] = type[w] /\ copier'[w] = copier[w]
  BY <1>0 DEF Shape, Become
<1>4. Holding(data', type', copier', heap')
  <2> SUFFICES ASSUME NEW w \in Variants
               PROVE  /\ data'[w] # NoBlock => heap'[data'[w]].type # NoType
                      /\ data'[w] = NoBlock => type'[w] = NoType /\ copier'[w] = NoType
                      /\ ~AssignsOwnElements =>
                            /\ copier'[w] = type'[w]
                            /\ data'[w] # NoBlock => heap'[data'[w]].type = type'[w]
    BY DEF Holding
  <2>1. CASE w = v
    <3>1. CASE b = NoBlock /\ t = NoType /\ f = NoType
      BY <1>3, <2>1, <3>1
    <3>2. CASE /\ HasSpare /\ b = Spare /\ c.type # NoType
               /\ ~AssignsOwnElements => t = c.type /\ f = c.type
      <4>1. b \in Blocks /\ b # NoBlock
        BY <3>2, SpareIsUnused
      <4>2. heap'[b] = c
        BY <1>3, <4>1, StoreKeeps
      <4> QED
        BY <1>3, <2>1, <3>2, <4>1, <4>2
    <3> QED
      BY <3>1, <3>2
  <2>2. CASE w # v
    <3>1. data[w] # b \/ data[w] = NoBlock
      BY <1>1
    <3>2. data[w] # NoBlock => heap'[data'[w]] = heap[data[w]]
      BY <1>0, <1>3, <2>2, <3>1, StoreKeeps DEF Shape
    <3> QED
      BY <1>0, <1>3, <2>2, <3>2 DEF Holding
  <2> QED
    BY <2>1, <2>2
<1>5. OwnStorage'
  BY <1>0, <1>1, <1>3 DEF OwnStorage
<1>6. PointersHold'
  <2> SUFFICES ASSUME NEW p \in Pointers, pointer[p] # NoBlock
               PROVE  heap'[pointer[p]].type # NoType
    BY DEF PointersHold
  <2>1. heap'[pointer[p]] = heap[pointer[p]]
    BY <1>0, <1>1, StoreKeeps DEF Shape
  <2> QED
    BY <1>0, <2>1 DEF PointersHold
<1> QED
  BY <1>2, <1>4, <1>5, <1>6 DEF StoreInv

LEMMA MoveKeeps ==
    ASSUME StoreInv, NEW v \in Variants, NEW w \in Variants, MoveAssign(v, w)
    PROVE  StoreInv'
<1>0. /\ Shape /\ OwnStorage /\ PointersHold
      /\ Holding(data, type, copier, heap)
  BY DEF StoreInv
<1>1. Shape'
  BY <1>0, StoreKeeps DEF Shape, MoveAssign
<1>2. /\ data'[w] = NoBlock /\ type'[w] = NoType /\ copier'[w] = NoType
      /\ v # w => data'[v] = data[w] /\ type'[v] = type[w] /\ copier'[v] = copier[w]
      /\ \A x \in Variants \ {v, w} :
            data'[x] = data[x] /\ type'[x] = type[x] /\ copier'[x] = copier[x]
  BY <1>0 DEF Shape, MoveAssign
<1>3. \A x \in Variants : data'[x] # NoBlock => heap'[data'[x]] = heap[data'[x]]
  BY <1>1, StoreKeeps, NoBlockIsNone DEF MoveAssign, Shape
<1>4. Holding(data', type', copier', heap')
  BY <1>0, <1>2, <1>3 DEF Holding
<1>5. OwnStorage'
  BY <1>0, <1>2 DEF OwnStorage
<1>6. PointersHold'
  <2> SUFFICES ASSUME NEW p \in Pointers, pointer'[p] # NoBlock
               PROVE  heap'[pointer'[p]].type # NoType
    BY DEF PointersHold
  <2>1. pointer' = pointer /\ heap'[pointer'[p]] = heap[pointer'[p]]
    BY <1>0, StoreKeeps, NoBlockIsNone DEF MoveAssign, Shape
  <2> QED
    BY <1>0, <2>1 DEF PointersHold
<1> QED
  BY <1>1, <1>4, <1>5, <1>6 DEF StoreInv

\* A pointer that is set to the block of a Variant, or to none.
LEMMA PointKeeps ==
    ASSUME StoreInv, NEW p \in Pointers, NEW b,
           b = NoBlock \/ \E v \in Variants : b = data[v],
           pointer' = [pointer EXCEPT ![p] = b],
           UNCHANGED <<type, data, copier>>, Store(NoBlock, Free)
    PROVE  StoreInv'
<1>0. /\ Shape /\ OwnStorage /\ PointersHold
      /\ Holding(data, type, copier, heap)
  BY DEF StoreInv
<1>1. Shape'
  BY <1>0, StoreKeeps DEF Shape
<1>2. \A x \in Variants : data[x] # NoBlock => heap'[data[x]] = heap[data[x]]
  BY <1>0, StoreKeeps DEF Shape
<1>3. Holding(data', type', copier', heap')
  BY <1>0, <1>2 DEF Holding
<1>4. OwnStorage'
  BY <1>0 DEF OwnStorage
<1>5. PointersHold'
  <2> SUFFICES ASSUME NEW q \in Pointers, pointer'[q] # NoBlock
               PROVE  heap'[pointer'[q]].type # NoType
    BY DEF PointersHold
  <2>1. heap'[pointer'[q]] = heap[pointer'[q]]
    BY <1>1, StoreKeeps DEF Shape
  <2>2. heap[pointer'[q]].type # NoType
    <3>1. CASE q = p
      BY <1>0, <3>1 DEF Shape, Holding
    <3>2. CASE q # p
      BY <1>0, <3>2 DEF Shape, PointersHold
    <3> QED
      BY <3>1, <3>2
  <2> QED
    BY <2>1, <2>2
<1> QED
  BY <1>1, <1>3, <1>4, <1>5 DEF StoreInv

LEMMA WriteKeeps ==
    ASSUME StoreInv, NEW p \in Pointers, NEW c \in Contents, WriteThrough(p, c)
    PROVE  StoreInv'
<1>0. /\ Shape /\ OwnStorage /\ PointersHold
      /\ Holding(data, type, copier, heap)
  BY DEF StoreInv
<1>1. Shape'
  BY <1>0 DEF Shape, WriteThrough
<1>2. \A b \in Blocks : heap'[b].type = heap[b].type
  BY <1>0 DEF Shape, WriteThrough
<1>3. Holding(data', type', copier', heap')
  BY <1>0, <1>2 DEF Holding, Shape, WriteThrough
<1>4. OwnStorage'
  BY <1>0 DEF OwnStorage, WriteThrough
<1>5. PointersHold'
  BY <1>0, <1>2 DEF PointersHold, Shape, WriteThrough
<1> QED
  BY <1>1, <1>3, <1>4, <1>5 DEF StoreInv

-----------------------------------------------------------------------------
LEMMA StoreNext == StoreInv /\ [Next]_vars => StoreInv'
<1> SUFFICES ASSUME StoreInv, [Next]_vars PROVE StoreInv'
  OBVIOUS
<1>0. Shape /\ Holding(data, type, copier, heap)
  BY DEF StoreInv
<1>1. ASSUME NEW v \in Variants, Clear(v) PROVE StoreInv'
  BY <1>1, BecomeKeeps DEF Clear, FreeMemory
<1>2. ASSUME NEW v \in Variants, NEW c \in Contents, Assign(v, c) PROVE StoreInv'
  BY <1>2, BecomeKeeps, StoreAssumption DEF Assign
<1>3. ASSUME NEW v \in Variants, NEW w \in Variants, CopyAssign(v, w) PROVE StoreInv'
  <2>1. CASE type[w] # NoType /\ copier[w] # NoType
    <3>1. /\ heap[data[w]].type # NoType
          /\ ~AssignsOwnElements => heap[data[w]].type = type[w] /\ copier[w] = type[w]
      BY <1>0, <2>1 DEF Holding
    <3> QED
      BY <1>3, <2>1, <3>1, BecomeKeeps DEF CopyAssign
  <2>2. CASE ~ (type[w] # NoType /\ copier[w] # NoType)
    <3>1. FreeMemory(v) /\ Store(NoBlock, Free) /\ UNCHANGED pointer
      BY <1>3, <2>2 DEF CopyAssign
    <3> QED
      BY <3>1, BecomeKeeps DEF FreeMemory
  <2> QED
    BY <2>1, <2>2
<1>4. ASSUME NEW v \in Variants, NEW w \in Variants, MoveAssign(v, w) PROVE StoreInv'
  BY <1>4, MoveKeeps
<1>5. ASSUME NEW p \in Pointers, NEW v \in Variants, NEW t \in SharedTypes,
             GetContent(p, v, t)
      PROVE  StoreInv'
  BY <1>5, PointKeeps DEF GetContent
<1>6. ASSUME NEW p \in Pointers, DropPointer(p) PROVE StoreInv'
  BY <1>6, PointKeeps DEF DropPointer
<1>7. ASSUME NEW p \in Pointers, NEW c \in Contents, WriteThrough(p, c) PROVE StoreInv'
  BY <1>7, WriteKeeps
<1>8. ASSUME NEW v \in Variants, NEW element \in Elements(ValueOf(v)),
             AssignElement(v, element)
      PROVE  StoreInv'
  <2>1. CASE element.type # NoType
    <3>1. PICK t \in Remains(v, element), f \in Remains(v, element) :
             Become(v, Spare, t, f)
      BY <1>8, <2>1 DEF AssignElement
    <3>2. HasSpare /\ Store(Spare, element) /\ UNCHANGED pointer
      BY <1>8, <2>1 DEF AssignElement
    <3>3. ~AssignsOwnElements => t = element.type /\ f = element.type
      BY <1>8, <3>1 DEF AssignElement
    <3> QED
      BY <2>1, <3>1, <3>2, <3>3, BecomeKeeps
  <2>2. CASE element.type = NoType
    BY <1>8, <2>2, BecomeKeeps DEF AssignElement, FreeMemory
  <2> QED
    BY <2>1, <2>2
<1>9. CASE UNCHANGED vars
  BY <1>9 DEF vars, StoreInv, Shape, Holding, OwnStorage, PointersHold
<1> QED
  BY <1>1, <1>2, <1>3, <1>4, <1>5, <1>6, <1>7, <1>8, <1>9 DEF Next

LEMMA StoreAlways == Spec => []StoreInv
BY StoreInit, StoreNext, PTL DEF Spec

-----------------------------------------------------------------------------
\* A Variant's type, its copier and the content of its block agree, after any
\* assignments, moves and writes through pointers (variant.cpp:132-159), unless a
\* client assigns an element to the Variant that alone keeps it.
THEOREM ContentHasItsType == ~AssignsOwnElements => (Spec => []TypeMatchesContent)
<1> SUFFICES ASSUME ~AssignsOwnElements PROVE Spec => []TypeMatchesContent
  OBVIOUS
<1>1. StoreInv => TypeMatchesContent
  BY FreeHasNoType DEF StoreInv, Shape, Holding, TypeMatchesContent, ValueOf
<1> QED
  BY StoreAlways, <1>1, PTL

\* No block is shared by two Variants: a copy is deep (variant.cpp:132-145).
THEOREM CopiesAreDeep == Spec => []OwnStorage
<1>1. StoreInv => OwnStorage
  BY DEF StoreInv
<1> QED
  BY StoreAlways, <1>1, PTL

-----------------------------------------------------------------------------
(* What a step changes *)

OnlyChanges(v) == \A x \in Variants \ {v} : ValueOf(x)' = ValueOf(x)

\* A Variant that keeps its block keeps its value, unless the block is written.
LEMMA KeptBlock ==
    ASSUME StoreInv, NEW x \in Variants, data'[x] = data[x], Shape',
           NEW b, NEW c, Store(b, c), data[x] # b \/ data[x] = NoBlock
    PROVE  ValueOf(x)' = ValueOf(x)
<1>1. data[x] \in Blocks \cup {NoBlock}
  BY DEF StoreInv, Shape
<1>2. data[x] # NoBlock => heap'[data'[x]] = heap[data[x]]
  BY <1>1, StoreKeeps
<1> QED
  BY <1>2 DEF ValueOf

LEMMA BecomeIsLocal ==
    ASSUME StoreInv, StoreInv', NEW v \in Variants, NEW b, NEW t, NEW f, NEW c,
           Become(v, b, t, f), Store(b, c),
           b = NoBlock \/ (HasSpare /\ b = Spare)
    PROVE  OnlyChanges(v)
<1> SUFFICES ASSUME NEW x \in Variants \ {v} PROVE ValueOf(x)' = ValueOf(x)
  BY DEF OnlyChanges
<1>1. data'[x] = data[x]
  BY DEF Become, StoreInv, Shape
<1>2. data[x] # b \/ data[x] = NoBlock
  BY SpareIsUnused
<1> QED
  BY <1>1, <1>2, KeptBlock DEF StoreInv

\* A step changes one Variant, or moves the value of one to another.
LEMMA StepIsLocal ==
    ASSUME StoreInv, StoreInv', [Next]_vars
    PROVE  \/ \A x \in Variants : ValueOf(x)' = ValueOf(x)
           \/ \E v \in Variants : OnlyChanges(v)
           \/ \E v, w \in Variants :
                 /\ ValueOf(v)' = ValueOf(w) /\ type'[w] = NoType
                 /\ \A x \in Variants \ {v, w} : ValueOf(x)' = ValueOf(x)
<1>0. Shape /\ Shape' /\ OwnStorage
  BY DEF StoreInv
<1>1. ASSUME NEW v \in Variants, Clear(v) PROVE OnlyChanges(v)
  BY <1>1, BecomeIsLocal DEF Clear, FreeMemory
<1>2. ASSUME NEW v \in Variants, NEW c \in Contents, Assign(v, c) PROVE OnlyChanges(v)
  BY <1>2, BecomeIsLocal DEF Assign
<1>3. ASSUME NEW v \in Variants, NEW w \in Variants, CopyAssign(v, w)
      PROVE  OnlyChanges(v)
  <2>1. CASE type[w] # NoType /\ copier[w] # NoType
    <3>1. HasSpare /\ Become(v, Spare, type[w], copier[w]) /\ Store(Spare, heap[data[w]])
      BY <1>3, <2>1 DEF CopyAssign
    <3> QED
      BY <3>1, BecomeIsLocal
  <2>2. CASE ~ (type[w] # NoType /\ copier[w] # NoType)
    BY <1>3, <2>2, BecomeIsLocal DEF CopyAssign, FreeMemory
  <2> QED
    BY <2>1, <2>2
<1>4. ASSUME NEW v \in Variants, NEW w \in Variants, MoveAssign(v, w)
      PROVE  /\ ValueOf(v)' = ValueOf(w) /\ type'[w] = NoType
             /\ \A x \in Variants \ {v, w} : ValueOf(x)' = ValueOf(x)
  <2>1. type'[w] = NoType /\ Store(NoBlock, Free)
    BY <1>0, <1>4 DEF MoveAssign, Shape
  <2>2. \A x \in Variants \ {v, w} : data'[x] = data[x]
    BY <1>0, <1>4 DEF MoveAssign, Shape
  <2>3. \A x \in Variants \ {v, w} : ValueOf(x)' = ValueOf(x)
    BY <2>1, <2>2, <1>0, KeptBlock
  <2>4. ValueOf(v)' = ValueOf(w)
    <3>1. CASE v = w
      <4>1. data[v] = NoBlock /\ data'[v] = NoBlock
        BY <1>0, <1>4, <3>1 DEF MoveAssign, IsSameObject, Shape
      <4> QED
        BY <3>1, <4>1 DEF ValueOf
    <3>2. CASE v # w
      <4>1. data'[v] = data[w]
        BY <1>0, <1>4, <3>2 DEF MoveAssign, Shape
      <4>2. data[w] \in Blocks => heap'[data'[v]] = heap[data[w]]
        BY <2>1, <4>1, StoreKeeps, NoBlockIsNone
      <4> QED
        BY <1>0, <4>1, <4>2 DEF ValueOf, Shape
    <3> QED
      BY <3>1, <3>2
  <2> QED
    BY <2>1, <2>3, <2>4
<1>5. ASSUME UNCHANGED <<type, data, copier>>, Store(NoBlock, Free)
      PROVE  \A x \in Variants : ValueOf(x)' = ValueOf(x)
  BY <1>0, <1>5, KeptBlock
<1>6. ASSUME NEW p \in Pointers, NEW c \in Contents, WriteThrough(p, c)
      PROVE  \/ \A x \in Variants : ValueOf(x)' = ValueOf(x)
             \/ \E v \in Variants : OnlyChanges(v)
  <2>1. ASSUME NEW x \in Variants, data[x] # pointer[p] PROVE ValueOf(x)' = ValueOf(x)
    BY <1>0, <1>6, <2>1 DEF WriteThrough, ValueOf, Shape
  <2>2. CASE \E v \in Variants : data[v] = pointer[p]
    <3>1. PICK v \in Variants : data[v] = pointer[p]
      BY <2>2
    <3>2. \A x \in Variants \ {v} : data[x] # pointer[p]
      BY <1>0, <1>6, <3>1 DEF OwnStorage, WriteThrough
    <3> QED
      BY <2>1, <3>2 DEF OnlyChanges
  <2> QED
    BY <2>1, <2>2
<1>7. ASSUME NEW v \in Variants, NEW element \in Elements(ValueOf(v)),
             AssignElement(v, element)
      PROVE  OnlyChanges(v)
  BY <1>7, BecomeIsLocal DEF AssignElement, FreeMemory
<1>8. CASE UNCHANGED vars
  BY <1>8 DEF vars, ValueOf
<1> QED
  BY <1>1, <1>2, <1>3, <1>4, <1>5, <1>6, <1>7, <1>8 DEF Next, GetContent, DropPointer

\* Assigning to a Variant, or writing through a pointer, changes no other one:
\* only a move changes two, and it empties one of them (variant.cpp:147-159).
THEOREM OthersStayAsTheyAre == Spec => ChangesStayLocal
<1>1. StoreInv /\ StoreInv' /\ [Next]_vars =>
        [\A v, w \in Variants :
           v # w /\ ValueOf(v)' # ValueOf(v) /\ ValueOf(w)' # ValueOf(w) =>
             \/ ValueOf(v)' = ValueOf(w) /\ type'[w] = NoType
             \/ ValueOf(w)' = ValueOf(v) /\ type'[v] = NoType]_vars
  BY StepIsLocal DEF OnlyChanges
<1> QED
  BY <1>1, StoreAlways, PTL DEF Spec, ChangesStayLocal
=============================================================================
