---------------------------- MODULE SwiftObjects ----------------------------
(***************************************************************************)
(* The classes of the Swift binding.  A Transaction, TransactionOutput,    *)
(* ScriptPubkey or BtcKError frees in its deinit the library's object that *)
(* it has the pointer of; a TransactionRef, TransactionOutputRef or        *)
(* ScriptPubkeyRef has the pointer of a part of one, and frees nothing.    *)
(*                                                                         *)
(* Instances are counted by the language.  A Ref has no reference on the   *)
(* instance that owns what it points into: the program has to keep that.   *)
(* What an object stands for is a value that never changes; its parts live *)
(* as long as it does.                                                     *)
(***************************************************************************)
EXTENDS Integers, FiniteSets

CONSTANTS
  Inst,    \* cells for instances
  Obj,     \* cells for objects of the library, errors among them
  Value,   \* what transactions, outputs and scripts can stand for
  Type,    \* [Value -> Class], of which class an object with a value is
  PartOf,  \* [Value -> SUBSET Value], what the parts of an object stand for
  Raw,     \* the values that the program has the bytes of
  MaxHeld, \* bound on the references that the program has on one instance
  Null, Garbage

Class == {"Transaction", "TransactionOutput", "ScriptPubkey"}
Owner == Class \cup {"BtcKError"}
Ref == [Transaction |-> "TransactionRef", TransactionOutput |-> "TransactionOutputRef",
        ScriptPubkey |-> "ScriptPubkeyRef"]
RefClass == {Ref[c] : c \in Class}

ASSUME ValueAssumption ==
  /\ Type \in [Value -> Class]
  /\ PartOf \in [Value -> SUBSET Value]
  /\ Raw \subseteq Value
  /\ Garbage \notin Value
ASSUME MaxHeldAssumption == MaxHeld \in Nat \ {0}
ASSUME NullAssumption == Null \notin Obj

VARIABLES
  class,  \* of an instance, "none" if the cell is free
  ptr,    \* [obj, value]: the object that it points at or into, and what is there
  held,   \* the references that the program has on it
  live    \* the objects of the library that are allocated

vars == <<class, ptr, held, live>>

NullPtr == [obj |-> Null, value |-> Garbage]

\* Of a class or its Ref, which share a protocol.
Is(i, c) == class[i] \in {c, Ref[c]}

\* What a program may use: it keeps the owner of what a Ref points into.
Usable(i) == class[i] # "none" /\ ptr[i].obj \in live

\* A cell is used again when no Ref points into what it held.
Fresh == {o \in Obj \ live : \A i \in Inst : ptr[i].obj # o}

-----------------------------------------------------------------------------
(* Instances begin.                                                        *)

\* init(ptr:), and the reference that the program gets.
Make(i, c, p) ==
  /\ class[i] = "none"
  /\ class' = [class EXCEPT ![i] = c]
  /\ ptr' = [ptr EXCEPT ![i] = p]
  /\ held' = [held EXCEPT ![i] = 1]

\* The library makes an object and the instance of a class keeps it, or it makes an
\* error, which the program gets in a BtcKError in place of the instance.
MakeOrThrow(i, c, values) ==
  \E o \in Fresh :
    /\ live' = live \cup {o}
    /\ \/ \E x \in values : Type[x] = c /\ Make(i, c, [obj |-> o, value |-> x])
       \/ Make(i, "BtcKError", [obj |-> o, value |-> Garbage])

NewTransaction(i) == MakeOrThrow(i, "Transaction", Raw)

NewScriptPubkey(i) == MakeOrThrow(i, "ScriptPubkey", Raw)

\* The output has a copy of the script.
NewTransactionOutput(i, s) ==
  /\ class[s] = "ScriptPubkey"
  /\ MakeOrThrow(i, "TransactionOutput", {x \in Value : ptr[s].value \in PartOf[x]})

\* A part of what j is or refers to.
Refer(i, j, c, part) ==
  /\ Usable(j) /\ Is(j, c)
  /\ \E x \in PartOf[ptr[j].value] : Make(i, Ref[part], [obj |-> ptr[j].obj, value |-> x])
  /\ UNCHANGED live

Subscript(i, j) == Refer(i, j, "Transaction", "TransactionOutput")
ScriptPubkey(i, j) == Refer(i, j, "TransactionOutput", "ScriptPubkey")

\* The fault has an owner made of the pointer of what is copied.
CopyFault(i, j) ==
  /\ Usable(j) /\ Is(j, "ScriptPubkey")
  /\ Make(i, "ScriptPubkey", ptr[j])
  /\ UNCHANGED live

Copy(i, j) ==
  /\ Usable(j) /\ Is(j, "ScriptPubkey")
  /\ MakeOrThrow(i, "ScriptPubkey", {ptr[j].value})

-----------------------------------------------------------------------------
(* References, and how instances end.                                      *)

Retain(i) ==
  /\ held[i] \in 1..(MaxHeld - 1)
  /\ held' = [held EXCEPT ![i] = @ + 1]
  /\ UNCHANGED <<class, ptr, live>>

\* deinit, if the class has one.
Deinit(i, classes) == live' = IF class[i] \in classes THEN live \ {ptr[i].obj} ELSE live

Drop(i, classes) ==
  /\ held[i] > 0
  /\ held' = [held EXCEPT ![i] = @ - 1]
  /\ IF held[i] > 1 THEN UNCHANGED <<class, ptr, live>>
     ELSE /\ Deinit(i, classes)
          /\ class' = [class EXCEPT ![i] = "none"]
          /\ ptr' = [ptr EXCEPT ![i] = NullPtr]

\* The fault: errors are not freed.
ReleaseFault(i) == Drop(i, Class)
Release(i) == Drop(i, Owner)

-----------------------------------------------------------------------------
Init ==
  /\ class = [i \in Inst |-> "none"]
  /\ ptr = [i \in Inst |-> NullPtr]
  /\ held = [i \in Inst |-> 0]
  /\ live = {}

Next ==
  \/ \E i \in Inst : NewTransaction(i) \/ NewScriptPubkey(i) \/ Retain(i) \/ Release(i)
  \/ \E i, j \in Inst :
       NewTransactionOutput(i, j) \/ Subscript(i, j) \/ ScriptPubkey(i, j) \/ Copy(i, j)

Spec == Init /\ [][Next]_vars

-----------------------------------------------------------------------------
(* Properties.                                                             *)

TypeOK ==
  /\ class \in [Inst -> Owner \cup RefClass \cup {"none"}]
  /\ ptr \in [Inst -> [obj : Obj \cup {Null}, value : Value \cup {Garbage}]]
  /\ held \in [Inst -> 0..MaxHeld]
  /\ \A i \in Inst : class[i] = "none" <=> held[i] = 0
  /\ live \subseteq Obj

OwnersOf(o) == {i \in Inst : class[i] \in Owner /\ ptr[i].obj = o}

\* An object of the library that is allocated, also the error of a constructor that
\* has thrown, has one instance that will free it, and what an instance owns is
\* allocated: a discarded error does not leak, and no Ref frees what it points into.
OneOwner ==
  /\ \A o \in live : Cardinality(OwnersOf(o)) = 1
  /\ \A i \in Inst : class[i] \in Owner => ptr[i].obj \in live

\* What an instance stands for.
Meaning(i) == IF class[i] \in Class /\ ptr[i].obj \in live THEN ptr[i].value ELSE Garbage

valBar == [i \in Inst |-> Meaning(i)]

Values == INSTANCE OwnedValues WITH Name <- Inst, Nothing <- Garbage, val <- valBar

\* Owning instances are values: what one stands for does not change when others
\* end, a script copied out of a Ref of a Ref outlives both and the transaction they
\* point into, and an error that is thrown touches none.
ImplementsOwnedValues == Values!Spec

-----------------------------------------------------------------------------
(* The inductive invariant behind TypeOK, OneOwner and                     *)
(* ImplementsOwnedValues.                                                  *)

Owns(i) == class[i] \in Owner
StandsFor(i) == class[i] \in Class \cup RefClass

\* What an instance of class c may stand for when it points into an object of value x.
Reach(x, c) ==
  CASE c \in {"Transaction", Ref["Transaction"]} -> {x}
    [] c \in {"TransactionOutput", Ref["TransactionOutput"]} -> Values!WithParts({x})
    [] c \in {"ScriptPubkey", Ref["ScriptPubkey"]} -> Values!WithParts(Values!WithParts({x}))

\* Free cells have no pointer; instances have one, of a value unless it is an error's.
PointerShape ==
  /\ TypeOK
  /\ \A i \in Inst : class[i] = "none" => ptr[i] = NullPtr
  /\ \A i \in Inst : class[i] # "none" => ptr[i].obj # Null
  /\ \A i \in Inst : StandsFor(i) => ptr[i].value \in Value

\* Allocated objects are those that one instance owns.
OwnerShape ==
  /\ \A i \in Inst : Owns(i) => ptr[i].obj \in live
  /\ \A i, j \in Inst : Owns(i) /\ Owns(j) /\ ptr[i].obj = ptr[j].obj => i = j
  /\ \A o \in live : \E i \in Inst : Owns(i) /\ ptr[i].obj = o

\* What an instance stands for is in what the owner stands for; nothing points into an
\* error.
ViewShape ==
  \A i, j \in Inst : (Owns(j) /\ StandsFor(i) /\ ptr[i].obj = ptr[j].obj) =>
    class[j] \in Class /\ ptr[i].value \in Reach(ptr[j].value, class[i])

IInv ==
  /\ PointerShape
  /\ OwnerShape
  /\ ViewShape
=============================================================================
