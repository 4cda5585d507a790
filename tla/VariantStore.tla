------------------------------- MODULE VariantStore -------------------------------
(* Who owns what a hsmcpp::Variant holds (variant.cpp, variant.hpp).            *)
(*                                                                              *)
(* A Variant refers to a block of memory through a std::shared_ptr, together    *)
(* with its type and with the copier and comparer made for that type            *)
(* (memoryAllocator, compareOperator).  Only getVector() and its like share a   *)
(* block: with the client, who may keep it and write through it.  A block is    *)
(* freed when nobody refers to it.  The elements of a container are part of the *)
(* value in its block; an element is an object of its own where one is assigned *)
(* to the Variant that contains it.                                             *)
EXTENDS Integers, Sequences

CONSTANTS
    Variants,   \* the Variant objects of the client
    Pointers,   \* the std::shared_ptr it got from getVector() and its like
    Blocks,     \* the memory: natural numbers but 0, which stands for nullptr
    Contents,   \* what the client stores: records with a type and with items
    AssignsOwnElements  \* whether the client assigns to a Variant an element of its own
                        \* value that nothing but this Variant keeps

NoBlock == 0
NoType == "UNKNOWN"
Free == [type |-> NoType, n |-> 0, items |-> << >>]

ASSUME StoreAssumption ==
    /\ Blocks \subseteq Nat \ {0}
    /\ \A c \in Contents : c.type # NoType
    /\ AssignsOwnElements \in BOOLEAN

VARIABLES
    type,       \* of each Variant
    data,       \* the block it refers to
    copier,     \* the type its memoryAllocator and compareOperator are made for
    heap,       \* what is in each block, Free when nothing is
    pointer     \* the block each pointer of the client refers to

vars == <<type, data, copier, heap, pointer>>

Init ==
    /\ type = [v \in Variants |-> NoType]
    /\ data = [v \in Variants |-> NoBlock]
    /\ copier = [v \in Variants |-> NoType]
    /\ heap = [b \in Blocks |-> Free]
    /\ pointer = [p \in Pointers |-> NoBlock]

(* What a Variant holds *)
ValueOf(v) == IF data[v] = NoBlock THEN Free ELSE heap[data[v]]

(* A block for something new; bound: there are Blocks so many.  One for each    *)
(* object and pointer, and one for a copy under way, are enough.                *)
HasSpare == \E b \in Blocks : heap[b] = Free
Spare == CHOOSE b \in Blocks : heap[b] = Free

(* The memory with content c in block b.  std::shared_ptr, as the code uses it, *)
(* frees what neither a Variant nor a pointer refers to any more.               *)
Store(b, c) ==
    heap' = [x \in Blocks |->
                IF x \notin {data'[v] : v \in Variants} \cup {pointer'[p] : p \in Pointers} THEN Free
                ELSE IF x = b THEN c ELSE heap[x]]

Become(v, b, t, f) ==
    /\ data' = [data EXCEPT ![v] = b]
    /\ type' = [type EXCEPT ![v] = t]
    /\ copier' = [copier EXCEPT ![v] = f]

(* clear(), and the destructor *)
FreeMemory(v) == Become(v, NoBlock, NoType, NoType)

-------------------------------------------------------------------------------
(* assign(): constructors, assignments and make() of a plain value *)
Assign(v, c) ==
    /\ HasSpare
    /\ Become(v, Spare, c.type, c.type)
    /\ UNCHANGED pointer /\ Store(Spare, c)

Clear(v) ==
    /\ FreeMemory(v) /\ UNCHANGED pointer /\ Store(NoBlock, Free)

IsSameObject(v, w) == data[v] = data[w] /\ data[v] # NoBlock

ShareAssign(v, w) ==
    /\ ~IsSameObject(v, w) /\ UNCHANGED pointer
    /\ IF type[w] # NoType /\ copier[w] # NoType
       THEN Become(v, data[w], type[w], copier[w]) /\ Store(data[w], heap[data[w]])
       ELSE FreeMemory(v) /\ Store(NoBlock, Free)

(* operator=(const Variant&): a copy in a block of its own *)
CopyAssign(v, w) ==
    /\ ~IsSameObject(v, w) /\ UNCHANGED pointer
    /\ IF type[w] # NoType /\ copier[w] # NoType
       THEN HasSpare /\ Become(v, Spare, type[w], copier[w]) /\ Store(Spare, heap[data[w]])
       ELSE FreeMemory(v) /\ Store(NoBlock, Free)

(* operator=(Variant&&): w loses its block, and its type *)
MoveAssignKeepingType(v, w) ==
    /\ ~IsSameObject(v, w) /\ v # w
    /\ data' = [data EXCEPT ![v] = data[w], ![w] = NoBlock]
    /\ type' = [type EXCEPT ![v] = type[w]]
    /\ copier' = [copier EXCEPT ![v] = copier[w], ![w] = NoType]
    /\ UNCHANGED pointer /\ Store(NoBlock, Free)

MoveAssign(v, w) ==
    /\ ~IsSameObject(v, w)
    /\ data' = [data EXCEPT ![v] = data[w], ![w] = NoBlock]
    /\ type' = [type EXCEPT ![v] = type[w], ![w] = NoType]
    /\ copier' = [copier EXCEPT ![v] = copier[w], ![w] = NoType]
    /\ UNCHANGED pointer /\ Store(NoBlock, Free)

-------------------------------------------------------------------------------
(* getVector(), getList(), getMap(), getPair(), getByteArray(), getCustomType():*)
(* nullptr when the type is another.  Nothing else is shared with the client.   *)
SharedTypes == {"VECTOR", "LIST", "MAP", "PAIR", "BYTEARRAY", "CUSTOM"}
GetContent(p, v, t) ==
    /\ pointer' = [pointer EXCEPT ![p] = IF type[v] = t THEN data[v] ELSE NoBlock]
    /\ UNCHANGED <<type, data, copier>> /\ Store(NoBlock, Free)

DropPointer(p) ==
    /\ pointer[p] # NoBlock
    /\ pointer' = [pointer EXCEPT ![p] = NoBlock]
    /\ UNCHANGED <<type, data, copier>> /\ Store(NoBlock, Free)

(* The client writes a value of the same C++ type through its pointer *)
WriteThrough(p, c) ==
    /\ pointer[p] # NoBlock /\ heap[pointer[p]].type = c.type
    /\ heap' = [heap EXCEPT ![pointer[p]] = c]
    /\ UNCHANGED <<type, data, copier, pointer>>

(* The Variants that are part of a value *)
Elements(c) ==
    CASE c.type \in {"VECTOR", "LIST", "PAIR"} -> {c.items[i] : i \in DOMAIN c.items}
      [] c.type = "MAP" -> UNION {{c.items[i].items[j] : j \in {1, 2}} : i \in DOMAIN c.items}
      [] OTHER -> {}

(* v = element, where the element is part of what v holds.  The assignment of   *)
(* the copy frees v's block, with the element in it, and then goes on reading   *)
(* the element, which is undefined: what it reads is what the element was, or   *)
(* what its destructor has left.  A pointer of the client keeps the block.      *)
Remains(v, element) ==
    IF \E p \in Pointers : pointer[p] = data[v] THEN {element.type}
                                                ELSE {element.type, NoType}

AssignElement(v, element) ==
    /\ AssignsOwnElements \/ Remains(v, element) = {element.type}
    /\ UNCHANGED pointer
    /\ IF element.type # NoType
       THEN /\ HasSpare
            /\ \E t, f \in Remains(v, element) : Become(v, Spare, t, f)
            /\ Store(Spare, element)
       ELSE FreeMemory(v) /\ Store(NoBlock, Free)

Next ==
    \/ \E v \in Variants : Clear(v)
    \/ \E v \in Variants, c \in Contents : Assign(v, c)
    \/ \E v, w \in Variants : CopyAssign(v, w)
    \/ \E v, w \in Variants : MoveAssign(v, w)
    \/ \E p \in Pointers, v \in Variants, t \in SharedTypes : GetContent(p, v, t)
    \/ \E p \in Pointers : DropPointer(p)
    \/ \E p \in Pointers, c \in Contents : WriteThrough(p, c)
    \/ \E v \in Variants : \E element \in Elements(ValueOf(v)) : AssignElement(v, element)

Spec == Init /\ [][Next]_vars
-------------------------------------------------------------------------------
(* A Variant is empty in all of its parts or in none: its type, its copier and  *)
(* what is in its block are of one type, and the block is allocated.  (A client *)
(* that AssignsOwnElements loses this.)                                         *)
TypeMatchesContent ==
    \A v \in Variants :
        /\ data[v] \in Blocks \cup {NoBlock}
        /\ copier[v] = type[v] /\ ValueOf(v).type = type[v]
        /\ data[v] = NoBlock <=> type[v] = NoType

(* No two Variants share a block: a copy is a copy. *)
OwnStorage ==
    \A v, w \in Variants : data[v] = data[w] /\ data[v] # NoBlock => v = w

(* A write through a pointer of the client is seen in no Variant but the one    *)
(* that the pointer was taken from, and in that one only while it has not been  *)
(* given another value; every other change of a value is an operation of its    *)
(* own Variant.  So at most two Variants change in a step, and two only in a    *)
(* move, which leaves one of them empty.                                        *)
ChangesStayLocal ==
    [][\A v, w \in Variants :
         v # w /\ ValueOf(v)' # ValueOf(v) /\ ValueOf(w)' # ValueOf(w) =>
             \/ ValueOf(v)' = ValueOf(w) /\ type'[w] = NoType
             \/ ValueOf(w)' = ValueOf(v) /\ type'[v] = NoType]_vars
===============================================================================
