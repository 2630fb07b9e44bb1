---------------------------- MODULE CppWrapper ----------------------------
(***************************************************************************)
(* The wrappers of btck.hpp: variables of a C++ program that own an object *)
(* of the C API, or that view one, or a part of one, that another variable *)
(* owns.  They are made, copied, moved, converted, assigned and destroyed  *)
(* in any order in which a program may do it.                              *)
(*                                                                         *)
(* A part of an object (a transaction of a block, an output of that, its   *)
(* script) lives as long as the object; api::copy of a part makes an       *)
(* object of its own.  What an object stands for is a value that never     *)
(* changes.                                                                *)
(***************************************************************************)
EXTENDS Integers, FiniteSets

CONSTANTS
  Var,     \* cells for variables, temporaries among them
  Obj,     \* cells for objects
  Value,   \* what objects can stand for
  Type,    \* [Value -> Class], of which class an object with a value is
  PartOf,  \* [Value -> SUBSET Value], what the parts of an object stand for
  Raw,     \* the values that the program has the bytes of
  Null, Garbage

Class == {"block", "transaction", "transaction_output", "script_pubkey"}

\* A range is an unowned wrapper of what it is a range of.
Ranges == [block |-> "block_transactions", transaction |-> "transaction_outputs"]
RangeClass == {Ranges[c] : c \in DOMAIN Ranges}

ASSUME ValueAssumption ==
  /\ Type \in [Value -> Class]
  /\ PartOf \in [Value -> SUBSET Value]
  /\ Raw \subseteq Value
  /\ Garbage \notin Value
ASSUME NullAssumption == Null \notin Obj

VARIABLES
  policy,  \* of a variable: "owned", "unowned", or "none" before and after its life
  class,   \* what it wraps
  ptr,     \* what it points at: [obj, value, whole]; obj is Null for a null pointer
  live,    \* the objects that are allocated
  threw    \* the last operation has thrown

vars == <<policy, class, ptr, live, threw>>

Pointer == [obj : Obj \cup {Null}, value : Value \cup {Garbage}, whole : BOOLEAN]
NullPtr == [obj |-> Null, value |-> Garbage, whole |-> TRUE]

Dead(v) == policy[v] = "none"

\* What a program may use a variable for, other than assigning to it or letting it
\* go: it has not been moved from, and what it views is still there.
Usable(v) == ~Dead(v) /\ ptr[v].obj \in live

\* A cell is used again when no view refers to what it held: a program does not use
\* a view after its object, so it cannot tell.
Fresh == {o \in Obj \ live : \A v \in Var : ptr[v].obj # o}

-----------------------------------------------------------------------------
(* The traits of the two policies.                                         *)

\* c_api_traits<T>::copy calls _Copy of the C API.  The fault shares the object.
OwnedCopyFault(p, q, alive) == q = p /\ alive = live

OwnedCopy(p, q, alive) ==
  \E o \in Fresh :
    /\ q = [obj |-> o, value |-> p.value, whole |-> TRUE]
    /\ alive = live \cup {o}

UnownedCopy(p, q, alive) == q = p /\ alive = live

\* c_api_traits<T>::free; the C API ignores a null pointer.  unowned_policy::free
\* does nothing.
Freed(v) == IF policy[v] = "owned" THEN {ptr[v].obj} ELSE {}

-----------------------------------------------------------------------------
(* Constructors.                                                           *)

\* A variable begins its life with policy pol, class c and pointer p.
Construct(v, pol, c, p) ==
  /\ policy' = [policy EXCEPT ![v] = pol]
  /\ class' = [class EXCEPT ![v] = c]
  /\ ptr' = [ptr EXCEPT ![v] = p]
  /\ threw' = FALSE

\* A constructor that throws makes no variable.
Throw ==
  /\ threw' = TRUE
  /\ UNCHANGED <<policy, class, ptr, live>>

\* A constructor that has the library make an object with one of the values vs.
Owner(v, c, vs) ==
  /\ Dead(v)
  /\ \/ \E o \in Fresh, x \in vs :
          /\ Type[x] = c
          /\ Construct(v, "owned", c, [obj |-> o, value |-> x, whole |-> TRUE])
          /\ live' = live \cup {o}
     \/ Throw

NewBlock(v) == Owner(v, "block", Raw)
NewTransaction(v) == Owner(v, "transaction", Raw)
NewScriptPubkey(v) == Owner(v, "script_pubkey", Raw)

\* The output has a copy of the script.
NewTransactionOutput(v, w) ==
  /\ Usable(w) /\ class[w] = "script_pubkey"
  /\ Owner(v, "transaction_output", {x \in Value : ptr[w].value \in PartOf[x]})

\* v is made a range of what w owns or views.
RangeOf(v, w, c) ==
  /\ Dead(v) /\ Usable(w) /\ class[w] = c
  /\ Construct(v, "unowned", Ranges[c], [ptr[w] EXCEPT !.whole = FALSE])
  /\ UNCHANGED live

Transactions(v, w) == RangeOf(v, w, "block")
Outputs(v, w) == RangeOf(v, w, "transaction")

\* v views a part of what w owns or views, or is a range of.  The fault hands it out
\* as one to own.
LendFault(v, w, c, part) ==
  /\ Dead(v) /\ Usable(w) /\ class[w] = c
  /\ \E x \in PartOf[ptr[w].value] :
       Construct(v, "owned", part, [obj |-> ptr[w].obj, value |-> x, whole |-> FALSE])
  /\ UNCHANGED live

Lend(v, w, c, part) ==
  /\ Dead(v) /\ Usable(w) /\ class[w] = c
  /\ \E x \in PartOf[ptr[w].value] :
       Construct(v, "unowned", part, [obj |-> ptr[w].obj, value |-> x, whole |-> FALSE])
  /\ UNCHANGED live

\* r[i], front(), back(), and *i or i-> of an iterator of r.
TransactionAt(v, r) == Lend(v, r, Ranges["block"], "transaction")
OutputAt(v, r) == Lend(v, r, Ranges["transaction"], "transaction_output")

ScriptPubkey(v, w) == Lend(v, w, "transaction_output", "script_pubkey")

\* The copy constructor for the policy of w, and the converting constructor for
\* the other one.  Nothing copies what a range is of.
CopyConstruct(v, w, pol) ==
  /\ Dead(v) /\ Usable(w)
  /\ pol = "owned" => class[w] \in Class
  /\ \/ \E q \in Pointer :
          /\ IF pol = "owned" THEN OwnedCopy(ptr[w], q, live') ELSE UnownedCopy(ptr[w], q, live')
          /\ Construct(v, pol, class[w], q)
     \/ pol = "owned" /\ Throw

MoveConstruct(v, w) ==
  /\ Dead(v) /\ Usable(w)
  /\ policy' = [policy EXCEPT ![v] = policy[w]]
  /\ class' = [class EXCEPT ![v] = class[w]]
  /\ ptr' = [ptr EXCEPT ![v] = ptr[w], ![w] = NullPtr]
  /\ threw' = FALSE
  /\ UNCHANGED live

-----------------------------------------------------------------------------
(* Assignment and the end of a life.                                       *)

\* v = std::move(w), also of a temporary w that the program destroys next.  Copy
\* assignment cannot be compiled (std::swap with a temporary), so a program copies
\* into a temporary first.  A program does not assign a variable to itself, which
\* would free what it keeps.
Assignable(v, w) == ~Dead(v) /\ v # w /\ policy[v] = policy[w] /\ class[v] = class[w]

\* The fault does not free what v has owned.
MoveAssignFault(v, w) ==
  /\ Assignable(v, w)
  /\ ptr' = [ptr EXCEPT ![v] = ptr[w], ![w] = NullPtr]
  /\ threw' = FALSE
  /\ UNCHANGED <<policy, class, live>>

MoveAssign(v, w) ==
  /\ Assignable(v, w)
  /\ live' = live \ Freed(v)
  /\ ptr' = [ptr EXCEPT ![v] = ptr[w], ![w] = NullPtr]
  /\ threw' = FALSE
  /\ UNCHANGED <<policy, class>>

Destroy(v) ==
  /\ ~Dead(v)
  /\ live' = live \ Freed(v)
  /\ policy' = [policy EXCEPT ![v] = "none"]
  /\ class' = [class EXCEPT ![v] = "none"]
  /\ ptr' = [ptr EXCEPT ![v] = NullPtr]
  /\ threw' = FALSE

-----------------------------------------------------------------------------
Init ==
  /\ policy = [v \in Var |-> "none"]
  /\ class = [v \in Var |-> "none"]
  /\ ptr = [v \in Var |-> NullPtr]
  /\ live = {}
  /\ threw = FALSE

Next ==
  \/ \E v \in Var : NewBlock(v) \/ NewTransaction(v) \/ NewScriptPubkey(v) \/ Destroy(v)
  \/ \E v, w \in Var :
       \/ NewTransactionOutput(v, w)
       \/ Transactions(v, w) \/ TransactionAt(v, w)
       \/ Outputs(v, w) \/ OutputAt(v, w)
       \/ ScriptPubkey(v, w)
       \/ MoveConstruct(v, w) \/ MoveAssign(v, w)
       \/ \E pol \in {"owned", "unowned"} : CopyConstruct(v, w, pol)

Spec == Init /\ [][Next]_vars

-----------------------------------------------------------------------------
(* Properties.                                                             *)

TypeOK ==
  /\ policy \in [Var -> {"owned", "unowned", "none"}]
  /\ class \in [Var -> Class \cup RangeClass \cup {"none"}]
  /\ ptr \in [Var -> Pointer]
  /\ \A v \in Var : policy[v] = "owned" => ptr[v].whole
  /\ live \subseteq Obj
  /\ threw \in BOOLEAN

Owners(o) == {v \in Var : policy[v] = "owned" /\ ptr[v].obj = o}

\* An allocated object has one owner, which will free it, whatever was copied,
\* moved or thrown on the way, and what a variable owns is allocated: none leaks,
\* none is freed twice, and no view and no range frees what it looks at.
OneOwner ==
  /\ \A o \in live : Cardinality(Owners(o)) = 1
  /\ \A v \in Var : (policy[v] = "owned" /\ ptr[v].obj # Null) => ptr[v].obj \in live

\* What a variable stands for.
Meaning(v) ==
  IF policy[v] = "owned" /\ ptr[v].obj \in live THEN ptr[v].value ELSE Garbage

valBar == [v \in Var |-> Meaning(v)]

Values == INSTANCE OwnedValues WITH Name <- Var, Nothing <- Garbage, val <- valBar

\* Owning variables are values: no step changes what another variable stands for,
\* what a copy stands for is somewhere in what another variable owns, also when it is
\* made of a view of a view, and a move takes a value from one variable to another.
ImplementsOwnedValues == Values!Spec

-----------------------------------------------------------------------------
(* The inductive invariant behind TypeOK, OneOwner and                     *)
(* ImplementsOwnedValues.                                                  *)

\* What a variable of class c may stand for when it looks at something of value x.
Reach(x, c) ==
  CASE c \in {"block", Ranges["block"]} -> {x}
    [] c \in {"transaction", Ranges["transaction"]} -> Values!WithParts({x})
    [] c = "transaction_output" -> Values!WithParts(Values!WithParts({x}))
    [] c = "script_pubkey" -> Values!Inside(x)

Owns(v) == policy[v] = "owned" /\ ptr[v].obj # Null

\* Pointers are null or at a value, and variables that are not alive have none.
PointerShape ==
  /\ TypeOK
  /\ \A v \in Var : Dead(v) => ptr[v] = NullPtr
  /\ \A v \in Var : ~Dead(v) => class[v] # "none"
  /\ \A v \in Var : ptr[v].obj # Null => ptr[v].value \in Value

\* Allocated objects are those that one variable owns.
OwnerShape ==
  /\ \A v \in Var : Owns(v) => ptr[v].obj \in live
  /\ \A v, w \in Var : Owns(v) /\ Owns(w) /\ ptr[v].obj = ptr[w].obj => v = w
  /\ \A o \in live : \E v \in Var : policy[v] = "owned" /\ ptr[v].obj = o

\* What a variable stands for is in what the owner stands for.
ViewShape ==
  \A v, w \in Var :
    Owns(w) /\ ~Dead(v) /\ ptr[v].obj = ptr[w].obj => ptr[v].value \in Reach(ptr[w].value, class[v])

IInv ==
  /\ PointerShape
  /\ OwnerShape
  /\ ViewShape
=============================================================================
