----------------------------- MODULE PyObjects -----------------------------
(***************************************************************************)
(* Python objects that wrap objects of the C API: who owns what, and what  *)
(* keeps it alive.                                                         *)
(*                                                                         *)
(* An object is a cell with a reference count.  A Block, Transaction,      *)
(* TransactionOutput or ScriptPubkey owns the object of the library that   *)
(* its impl points at; a slice has a reference on the object that it is a  *)
(* slice of.  The program holds references too.  The binding runs under    *)
(* the interpreter's lock, one call at a time; a destructor runs inside    *)
(* the call or the statement that drops the last reference.                *)
(***************************************************************************)
EXTENDS Integers, FiniteSets

CONSTANTS
  Obj,      \* cells for Python objects
  Impl,     \* cells for objects of the library
  MaxHeld,  \* bound on the references that the program holds on one object
  MaxPins,  \* bound on the constructor calls with one object's bytes
  NoObj, NoImpl

ASSUME MaxHeldAssumption == MaxHeld \in Nat \ {0}
ASSUME MaxPinsAssumption == MaxPins \in Nat
ASSUME NullAssumption == NoObj \notin Obj /\ NoImpl \notin Impl
ASSUME FiniteAssumption == IsFiniteSet(Obj)

VARIABLES
  pc,      \* "run" while the program runs, "item" while an item is looked up, "wrap"
           \* when a call has got something that it has to wrap, "crashed" after the
           \* library has been given a null pointer
  type,    \* of a cell, "none" if it is free
  count,   \* its reference count
  impl,    \* what it wraps, or NoImpl
  base,    \* what it is a slice of, or NoObj
  held,    \* the references that the program has on it
  pinned,  \* the views of its bytes that constructors have made
  live,    \* the objects of the library that are allocated
  at,      \* the object whose item is being looked up
  got      \* [type, impl]: what a call has got from the library

references == <<count, held, pinned>>
cells == <<type, impl, base, references>>
vars == <<pc, cells, live, at, got>>

Wrapper == {"Block", "Transaction", "TransactionOutput", "ScriptPubkey"}

\* Values, which own nothing.  The bytes of the first two can be given to a constructor.
Exporter == {"bytes", "BlockHash"}
PlainValue == Exporter \cup {"VerificationFlags"}

\* What the items of an object are, or what its getter gives.
Part == [Block |-> "Transaction", Transaction |-> "TransactionOutput",
         TransactionOutput |-> "ScriptPubkey"]
HasItems == {"Block", "Transaction"}

Nothing == [type |-> "none", impl |-> NoImpl]

IsWrapper(o) == type[o] \in Wrapper
IsSlice(o) == type[o] = "Slice"
SlicesOf(o) == {s \in Obj : IsSlice(s) /\ base[s] = o}

\* Objects whose last reference is gone: their destructors run first.
Unreferenced == {o \in Obj : type[o] # "none" /\ count[o] = 0}

\* The program runs, or calls a function with an object that it holds.
Running == pc = "run" /\ Unreferenced = {}
Calls(o) == Running /\ held[o] > 0

More(c, o) == [c EXCEPT ![o] = @ + 1]
Less(c, o) == [c EXCEPT ![o] = @ - 1]

-----------------------------------------------------------------------------
(* How calls end.                                                          *)

Crash ==
  /\ pc' = "crashed"
  /\ UNCHANGED <<cells, live, at, got>>

\* NULL, with an exception.
Fail ==
  /\ pc' = "run"
  /\ got' = Nothing
  /\ at' = NoObj

\* PyObject_New: a cell with one reference, which the program gets.
Make(o, ty, im, b, counts) ==
  /\ type[o] = "none"
  /\ type' = [type EXCEPT ![o] = ty]
  /\ impl' = [impl EXCEPT ![o] = im]
  /\ base' = [base EXCEPT ![o] = b]
  /\ count' = [counts EXCEPT ![o] = 1]
  /\ held' = [held EXCEPT ![o] = 1]
  /\ pc' = "run"
  /\ got' = Nothing
  /\ at' = NoObj

\* A new value, or no memory for it.
MakeValue(ty) ==
  /\ (\E o \in Obj : Make(o, ty, NoImpl, NoObj, count) /\ UNCHANGED pinned)
     \/ (Fail /\ UNCHANGED cells)
  /\ UNCHANGED live

\* The library has made an object, which goes on to Block_New, Transaction_New,
\* TransactionOutput_New or ScriptPubkey_New of the binding.
Got(ty) ==
  /\ \E im \in Impl \ live :
       /\ live' = live \cup {im}
       /\ got' = [type |-> ty, impl |-> im]
  /\ pc' = "wrap"
  /\ UNCHANGED at

\* A null pointer goes on in the same way.
GotNull(ty) ==
  /\ got' = [type |-> ty, impl |-> NoImpl]
  /\ pc' = "wrap"
  /\ UNCHANGED <<live, at>>

Failed == Fail /\ UNCHANGED live

-----------------------------------------------------------------------------
(* Constructors.                                                           *)

\* The program has bytes from elsewhere, a file for one.
ReadBytes == Running /\ MakeValue("bytes")

\* The arguments do not parse.
BadArguments == Running /\ Fail /\ UNCHANGED <<cells, live>>

\* "y*": a view of the bytes of the argument has a reference on it.  No constructor
\* releases the view, however it ends.
View(e) ==
  /\ type[e] \in Exporter /\ Calls(e)
  /\ pinned[e] < MaxPins
  /\ pinned' = More(pinned, e)

ViewAnd(Then) ==
  /\ \E e \in Obj : View(e) /\ count' = More(count, e)
  /\ UNCHANGED <<type, impl, base, held>>
  /\ Then

NewBlock == ViewAnd(Got("Block") \/ GotNull("Block"))

NewTransaction == ViewAnd(Got("Transaction") \/ GotNull("Transaction"))

\* SetError.
NewScriptPubkey == ViewAnd(Got("ScriptPubkey") \/ Failed)

\* The bytes are copied into the object, if they are of the right length.
NewBlockHash ==
  \/ ViewAnd(Failed)
  \/ /\ \E e, o \in Obj : View(e) /\ Make(o, "BlockHash", NoImpl, NoObj, More(count, e))
     /\ UNCHANGED live

\* The type that the script is checked against is passed by value where a pointer
\* is expected: what is read in its place is no type that the script has, if it
\* can be read.
NewTransactionOutput ==
  /\ \E o \in Obj : type[o] = "ScriptPubkey" /\ Calls(o)
  /\ Crash \/ (Failed /\ UNCHANGED cells)

-----------------------------------------------------------------------------
(* Block_New, Transaction_New, TransactionOutput_New, ScriptPubkey_New.    *)

Wrap ==
  /\ pc = "wrap"
  /\ \E o \in Obj : Make(o, got.type, got.impl, NoObj, count)
  /\ UNCHANGED <<pinned, live>>

\* Without memory for the object, what it was for is freed.  The fault forgets it.
WrapFailsFault ==
  /\ pc = "wrap"
  /\ Failed
  /\ UNCHANGED cells

WrapFails ==
  /\ pc = "wrap"
  /\ live' = live \ {got.impl}
  /\ Fail
  /\ UNCHANGED cells

-----------------------------------------------------------------------------
(* Slices and items.                                                       *)

\* A slice is made of an object, Py_NewRef.  The fault only borrows it.
SliceFault(b) == UNCHANGED pinned /\ \E o \in Obj : Make(o, "Slice", NoImpl, b, count)
NewSlice(b) == UNCHANGED pinned /\ \E o \in Obj : Make(o, "Slice", NoImpl, b, More(count, b))

\* transactions, outputs: the number of items is asked for first.
GetItems ==
  \E b \in Obj :
    /\ type[b] \in HasItems /\ Calls(b)
    /\ IF impl[b] = NoImpl THEN Crash
       ELSE (NewSlice(b) \/ (Fail /\ UNCHANGED cells)) /\ UNCHANGED live

\* A slice of a slice.
GetSlice ==
  \E b \in Obj :
    /\ IsSlice(b) /\ Calls(b)
    /\ NewSlice(b) \/ (Fail /\ UNCHANGED cells)
    /\ UNCHANGED live

\* An index, or a step of an iteration.
GetItem ==
  \E s \in Obj :
    /\ IsSlice(s) /\ Calls(s)
    /\ pc' = "item"
    /\ at' = s
    /\ UNCHANGED <<cells, live, got>>

Below ==
  /\ pc = "item"
  /\ IsSlice(at)
  /\ at' = base[at]
  /\ UNCHANGED <<pc, cells, live, got>>

OutOfRange ==
  /\ pc = "item"
  /\ IsSlice(at)
  /\ Fail
  /\ UNCHANGED <<cells, live>>

\* transactions_item, outputs_item: a copy of what the library lends.
CopyItem ==
  /\ pc = "item"
  /\ type[at] \in HasItems
  /\ Got(Part[type[at]]) \/ Failed
  /\ UNCHANGED cells

\* A method of an object that the program holds; a null pointer in it ends the process.
Method(types, Then) ==
  \E o \in Obj :
    /\ type[o] \in types /\ Calls(o)
    /\ IF IsWrapper(o) /\ impl[o] = NoImpl THEN Crash ELSE Then

\* get_script_pubkey.
GetScriptPubkey ==
  Method({"TransactionOutput"}, (Got("ScriptPubkey") \/ Failed) /\ UNCHANGED cells)

GetHash == Method({"Block"}, MakeValue("BlockHash"))

\* bytes()
ToBytes == Method({"Block", "Transaction", "ScriptPubkey", "BlockHash"}, MakeValue("bytes"))

\* |, &, ^ and ~ of flags, which are always at hand: VerificationFlags.ALL and its like
\* are static.
CombineFlags == Running /\ MakeValue("VerificationFlags")

\* str(), amount, ==, verify: they read the object of the library.
Read == Method(Wrapper, UNCHANGED vars)

-----------------------------------------------------------------------------
(* References.                                                             *)

Assign ==
  /\ Running
  /\ \E o \in Obj :
       /\ held[o] \in 1..(MaxHeld - 1)
       /\ held' = More(held, o)
       /\ count' = More(count, o)
  /\ UNCHANGED <<pc, type, impl, base, pinned, live, at, got>>

\* del, or the end of a variable's scope.
Forget ==
  /\ Running
  /\ \E o \in Obj :
       /\ held[o] > 0
       /\ held' = Less(held, o)
       /\ count' = Less(count, o)
  /\ UNCHANGED <<pc, type, impl, base, pinned, live, at, got>>

\* The destructors: _Free of what is wrapped, Py_DECREF of what is sliced.
Freed(o, counts) ==
  /\ type' = [type EXCEPT ![o] = "none"]
  /\ impl' = [impl EXCEPT ![o] = NoImpl]
  /\ base' = [base EXCEPT ![o] = NoObj]
  /\ count' = counts

\* Values have no destructor of their own.
DeallocWrapper ==
  \E o \in Unreferenced \ {s \in Obj : IsSlice(s)} :
    /\ live' = live \ {impl[o]}
    /\ Freed(o, count)
    /\ UNCHANGED <<pc, held, pinned, at, got>>

\* The fault keeps the reference on the base.
DeallocFault ==
  \E o \in Unreferenced :
    /\ IsSlice(o)
    /\ Freed(o, count)
    /\ UNCHANGED <<pc, held, pinned, live, at, got>>

DeallocSlice ==
  \E o \in Unreferenced :
    /\ IsSlice(o)
    /\ Freed(o, Less(count, base[o]))
    /\ UNCHANGED <<pc, held, pinned, live, at, got>>

-----------------------------------------------------------------------------
Init ==
  /\ pc = "run"
  /\ type = [o \in Obj |-> "none"]
  /\ count = [o \in Obj |-> 0]
  /\ impl = [o \in Obj |-> NoImpl]
  /\ base = [o \in Obj |-> NoObj]
  /\ held = [o \in Obj |-> 0]
  /\ pinned = [o \in Obj |-> 0]
  /\ live = {}
  /\ at = NoObj
  /\ got = Nothing

Dealloc == DeallocWrapper \/ DeallocSlice

Next ==
  \/ ReadBytes \/ BadArguments
  \/ NewBlock \/ NewTransaction \/ NewScriptPubkey \/ NewBlockHash \/ NewTransactionOutput
  \/ Wrap \/ WrapFails
  \/ GetItems \/ GetSlice \/ GetItem \/ Below \/ OutOfRange \/ CopyItem
  \/ GetScriptPubkey \/ GetHash \/ ToBytes \/ CombineFlags \/ Read
  \/ Assign \/ Forget \/ Dealloc

Spec == Init /\ [][Next]_vars

-----------------------------------------------------------------------------
(* Properties.                                                             *)

TypeOK ==
  /\ pc \in {"run", "item", "wrap", "crashed"}
  /\ type \in [Obj -> Wrapper \cup PlainValue \cup {"Slice", "none"}]
  /\ count \in [Obj -> Nat]
  /\ impl \in [Obj -> Impl \cup {NoImpl}]
  /\ base \in [Obj -> Obj \cup {NoObj}]
  /\ held \in [Obj -> 0..MaxHeld]
  /\ pinned \in [Obj -> 0..MaxPins]
  /\ live \subseteq Impl
  /\ at \in Obj \cup {NoObj}
  /\ got \in [type : Wrapper \cup {"none"}, impl : Impl \cup {NoImpl}]

\* A reference count is the number of references: the program's, one for each slice
\* that is still there, also while a chain of slices is being torn down, and one for
\* each view of its bytes.
Counts == \A o \in Obj : count[o] = held[o] + Cardinality(SlicesOf(o)) + pinned[o]

\* An object of the library that is allocated belongs to one object of Python's, or
\* to the call that is about to wrap it: none leaks when a call fails half way or a
\* destructor runs, none is freed twice, and what an object wraps is allocated.
OneOwner ==
  /\ \A o \in Obj : impl[o] # NoImpl => IsWrapper(o) /\ impl[o] \in live
  /\ \A im \in live :
       /\ got.impl = im \/ \E o \in Obj : impl[o] = im
       /\ \A o \in Obj : impl[o] = im =>
            got.impl # im /\ \A q \in Obj \ {o} : impl[q] # im

\* A slice keeps what it is a slice of, and with it what that wraps, when the
\* program has long forgotten both: an item can always be looked up.
KeepsAlive ==
  /\ \A s \in Obj : IsSlice(s) =>
       /\ base[s] # NoObj /\ base[s] # s
       /\ type[base[s]] \in HasItems \cup {"Slice"}
       /\ type[base[s]] \in HasItems => impl[base[s]] \in live
  /\ pc = "item" => type[at] \in HasItems \cup {"Slice"}

\* Objects that the program cannot reach: it has no name for any of them, nor for a
\* slice of one.
Unreachable(S) ==
  \A o \in S : type[o] # "none" /\ held[o] = 0 /\ SlicesOf(o) \subseteq S

\* When the destructors have run, all that is there out of the program's reach are the
\* bytes and hashes that constructors have been given: the views of them, which are
\* never released, keep them for good.  Everything else is gone, and with OneOwner
\* what it has wrapped: a chain of slices goes as a whole, however many names there
\* were for its links and in whatever order they were forgotten.
OnlyViewedStay ==
  Running => \A S \in SUBSET Obj : Unreachable(S) =>
               \A o \in S : type[o] \in Exporter /\ pinned[o] > 0

-----------------------------------------------------------------------------
(* The inductive invariant behind TypeOK, Counts, OneOwner and KeepsAlive. *)

\* A free cell is empty; wrappers wrap, slices have a base.
CellShape ==
  /\ type \in [Obj -> Wrapper \cup PlainValue \cup {"Slice", "none"}]
  /\ count \in [Obj -> Nat]
  /\ impl \in [Obj -> Impl \cup {NoImpl}]
  /\ base \in [Obj -> Obj \cup {NoObj}]
  /\ held \in [Obj -> 0..MaxHeld]
  /\ pinned \in [Obj -> 0..MaxPins]
  /\ \A o \in Obj : type[o] = "none" => count[o] = 0 /\ held[o] = 0 /\ pinned[o] = 0
  /\ \A o \in Obj : impl[o] # NoImpl => IsWrapper(o)
  /\ \A o \in Obj : IsSlice(o) <=> base[o] # NoObj

\* A base is another object, with items, and wraps something or is a slice itself.
SliceShape ==
  \A s \in Obj : IsSlice(s) =>
    /\ base[s] # s
    /\ type[base[s]] \in HasItems \cup {"Slice"}
    /\ type[base[s]] \in HasItems => impl[base[s]] # NoImpl

\* Destructors run between calls, and only a call that has to wrap something has got it.
CallShape ==
  /\ pc \in {"run", "item", "wrap", "crashed"}
  /\ at \in Obj \cup {NoObj}
  /\ pc # "run" => Unreferenced = {}
  /\ pc = "item" => at \in Obj /\ type[at] \in HasItems \cup {"Slice"}
  /\ IF pc = "wrap" THEN got.type \in Wrapper ELSE got = Nothing

\* What is allocated is what is wrapped or has just been got, and all of that differs.
OwnerShape ==
  /\ live \subseteq Impl
  /\ got \in [type : Wrapper \cup {"none"}, impl : Impl \cup {NoImpl}]
  /\ \A im \in Impl : im \in live <=> got.impl = im \/ \E o \in Obj : impl[o] = im
  /\ \A o, q \in Obj : impl[o] # NoImpl /\ impl[o] = impl[q] => o = q
  /\ \A o \in Obj : impl[o] # NoImpl => got.impl # impl[o]

IInv ==
  /\ CellShape
  /\ SliceShape
  /\ CallShape
  /\ OwnerShape
  /\ Counts

\* Behind OnlyViewedStay: slices of slices do not run in circles.  Whichever objects one
\* takes, one of them has no slice among them.
Founded == \A S \in SUBSET Obj : S # {} => \E o \in S : SlicesOf(o) \cap S = {}
=============================================================================
