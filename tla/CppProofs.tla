------------------------------ MODULE CppProofs ------------------------------
(***************************************************************************)
(* Proofs about the C++ wrapper.  CppWrapper, for any variables, objects   *)
(* and values: an allocated object has one owner, and owning variables are *)
(* values.  Chain, for any chain that an int can count and any width of    *)
(* size_t: iterators are where they were moved to, a null index entry is   *)
(* read of an empty chain only, loops see the blocks in order and end, and *)
(* differences have their sign.                                            *)
(***************************************************************************)
EXTENDS CppWrapper, Chain, FiniteSetTheorems, SequenceTheorems, TLAPS

-----------------------------------------------------------------------------
(* What is inside of a value.                                              *)

LEMMA WithPartsHas ==
  ASSUME NEW S
  PROVE  S \subseteq Values!WithParts(S) /\ \A y \in S : PartOf[y] \subseteq Values!WithParts(S)
BY DEF Values!WithParts

LEMMA PartsOfReach ==
  ASSUME NEW x
  PROVE  /\ \A c \in Class \cup RangeClass : x \in Reach(x, c) /\ Reach(x, c) \subseteq Values!Inside(x)
         /\ \A y \in Reach(x, Ranges["block"]) : PartOf[y] \subseteq Reach(x, "transaction")
         /\ \A y \in Reach(x, Ranges["transaction"]) : PartOf[y] \subseteq Reach(x, "transaction_output")
         /\ \A y \in Reach(x, "transaction_output") : PartOf[y] \subseteq Reach(x, "script_pubkey")
         /\ Reach(x, Ranges["block"]) = Reach(x, "block")
         /\ Reach(x, Ranges["transaction"]) = Reach(x, "transaction")
<1> DEFINE A == {x}
           B == Values!WithParts(A)
           C == Values!WithParts(B)
           D == Values!WithParts(C)
<1>1. /\ A \subseteq B /\ B \subseteq C /\ C \subseteq D
      /\ \A y \in A : PartOf[y] \subseteq B
      /\ \A y \in B : PartOf[y] \subseteq C
      /\ \A y \in C : PartOf[y] \subseteq D
  BY WithPartsHas
<1>2. /\ Ranges["block"] = "block_transactions" /\ Ranges["transaction"] = "transaction_outputs"
      /\ RangeClass = {"block_transactions", "transaction_outputs"}
  BY DEF Ranges, RangeClass
<1>3. Values!Inside(x) = D
  BY DEF Values!Inside
<1>4. /\ Reach(x, "block") = A /\ Reach(x, "block_transactions") = A
      /\ Reach(x, "transaction") = B /\ Reach(x, "transaction_outputs") = B
      /\ Reach(x, "transaction_output") = C /\ Reach(x, "script_pubkey") = D
  <2> HIDE DEF D
  <2> QED
    BY <1>2, <1>3 DEF Reach
<1> HIDE DEF A, B, C, D
<1>5. x \in A
  BY DEF A
<1> QED
  BY <1>1, <1>2, <1>3, <1>4, <1>5 DEF Class

-----------------------------------------------------------------------------
(* Steps.                                                                  *)

LEMMA InitInv == Init => IInv
<1> SUFFICES ASSUME Init PROVE IInv
  OBVIOUS
<1> USE DEF Init
<1>1. NullPtr \in Pointer /\ NullPtr.whole /\ NullPtr.obj = Null
  BY DEF NullPtr, Pointer
<1>2. PointerShape
  BY <1>1 DEF PointerShape, TypeOK, Dead
<1>3. OwnerShape /\ ViewShape
  BY DEF OwnerShape, ViewShape, Owns
<1> QED
  BY <1>2, <1>3 DEF IInv

\* A variable becomes the owner of a new object.
LEMMA MakeInv ==
  ASSUME IInv, NEW v \in Var, Dead(v), NEW o \in Fresh, NEW x \in Value, NEW c \in Class,
         Construct(v, "owned", c, [obj |-> o, value |-> x, whole |-> TRUE]),
         live' = live \cup {o}
  PROVE  IInv'
<1> DEFINE p == [obj |-> o, value |-> x, whole |-> TRUE]
<1>1. /\ policy \in [Var -> {"owned", "unowned", "none"}]
      /\ class \in [Var -> Class \cup RangeClass \cup {"none"}]
      /\ ptr \in [Var -> Pointer] /\ live \subseteq Obj
      /\ \A u \in Var : policy[u] = "owned" => ptr[u].whole
  BY DEF IInv, PointerShape, TypeOK
<1>2. o \in Obj /\ o \notin live /\ o # Null /\ \A u \in Var : ptr[u].obj # o
  BY NullAssumption DEF Fresh
<1>3. p \in Pointer /\ p.obj = o /\ p.value = x /\ p.whole
  BY <1>2 DEF Pointer
<1> HIDE DEF p
<1>4. /\ policy' = [policy EXCEPT ![v] = "owned"] /\ class' = [class EXCEPT ![v] = c]
      /\ ptr' = [ptr EXCEPT ![v] = p] /\ threw' = FALSE
  BY DEF Construct, p
<1>5. /\ policy'[v] = "owned" /\ class'[v] = c /\ ptr'[v] = p
      /\ \A u \in Var \ {v} : policy'[u] = policy[u] /\ class'[u] = class[u] /\ ptr'[u] = ptr[u]
  BY <1>1, <1>4
<1>6. PointerShape'
  <2>1. TypeOK'
    BY <1>1, <1>2, <1>3, <1>4, <1>5 DEF TypeOK
  <2> QED
    BY <1>3, <1>5, <2>1 DEF IInv, PointerShape, Dead, Class
<1>7. OwnerShape'
  BY <1>2, <1>3, <1>5 DEF IInv, OwnerShape, PointerShape, Owns, Dead
<1>8. ViewShape'
  BY <1>2, <1>3, <1>5, PartsOfReach DEF IInv, ViewShape, Owns, Dead
<1> QED
  BY <1>6, <1>7, <1>8 DEF IInv

\* A variable becomes a view of what another one owns or views.
LEMMA ViewInv ==
  ASSUME IInv, NEW v \in Var, Dead(v), NEW w \in Var, Usable(w),
         NEW p \in Pointer, p.obj = ptr[w].obj, p.value \in Value, NEW c \in Class \cup RangeClass,
         \A u \in Var : Owns(u) /\ ptr[u].obj = p.obj => p.value \in Reach(ptr[u].value, c),
         Construct(v, "unowned", c, p), UNCHANGED live
  PROVE  IInv'
<1>1. /\ policy \in [Var -> {"owned", "unowned", "none"}]
      /\ class \in [Var -> Class \cup RangeClass \cup {"none"}]
      /\ ptr \in [Var -> Pointer] /\ live \subseteq Obj
      /\ \A u \in Var : policy[u] = "owned" => ptr[u].whole
  BY DEF IInv, PointerShape, TypeOK
<1>2. c # "none"
  BY DEF Class, RangeClass, Ranges
<1>3. policy[v] = "none" /\ ptr[v].obj = Null
  BY DEF IInv, PointerShape, Dead, NullPtr
<1>4. /\ policy'[v] = "unowned" /\ class'[v] = c /\ ptr'[v] = p
      /\ \A u \in Var \ {v} : policy'[u] = policy[u] /\ class'[u] = class[u] /\ ptr'[u] = ptr[u]
  BY <1>1 DEF Construct
<1>5. PointerShape'
  <2>1. TypeOK'
    BY <1>1, <1>4 DEF TypeOK, Construct
  <2> QED
    BY <1>2, <1>4, <2>1 DEF IInv, PointerShape, Dead
<1>6. OwnerShape'
  BY <1>3, <1>4 DEF IInv, OwnerShape, Owns
<1>7. ViewShape'
  BY <1>3, <1>4 DEF IInv, ViewShape, Owns, Dead
<1> QED
  BY <1>5, <1>6, <1>7 DEF IInv

LEMMA StutterInv ==
  ASSUME IInv, UNCHANGED <<policy, class, ptr, live>>, threw' \in BOOLEAN PROVE IInv'
BY DEF IInv, PointerShape, OwnerShape, ViewShape, TypeOK, Owns, Dead

LEMMA OwnerInv ==
  ASSUME IInv, NEW v \in Var, NEW c \in Class, NEW vs \in SUBSET Value, Owner(v, c, vs)
  PROVE  IInv'
<1>1. CASE Throw
  BY <1>1, StutterInv DEF Throw
<1>2. CASE ~Throw
  <2>1. PICK o \in Fresh, x \in vs :
          /\ Construct(v, "owned", c, [obj |-> o, value |-> x, whole |-> TRUE])
          /\ live' = live \cup {o}
    BY <1>2 DEF Owner
  <2> QED
    BY <2>1, MakeInv DEF Owner
<1> QED
  BY <1>1, <1>2

\* What a usable variable looks at.
LEMMA UsableFacts ==
  ASSUME IInv, NEW w \in Var, Usable(w)
  PROVE  /\ ptr[w] \in Pointer /\ ptr[w].obj \in Obj /\ ptr[w].obj # Null /\ ptr[w].obj \in live
         /\ ptr[w].value \in Value
         /\ class[w] \in Class \cup RangeClass \cup {"none"}
         /\ policy[w] \in {"owned", "unowned"}
         /\ \A u \in Var : Owns(u) /\ ptr[u].obj = ptr[w].obj => ptr[w].value \in Reach(ptr[u].value, class[w])
<1>1. /\ ptr[w] \in Pointer /\ live \subseteq Obj
      /\ class[w] \in Class \cup RangeClass \cup {"none"}
      /\ policy[w] \in {"owned", "unowned", "none"}
  BY DEF IInv, PointerShape, TypeOK
<1>2. ptr[w].obj \in live /\ policy[w] # "none"
  BY DEF Usable, Dead
<1>3. ptr[w].obj \in Obj /\ ptr[w].obj # Null
  BY <1>1, <1>2, NullAssumption
<1>4. ptr[w].value \in Value
  BY <1>3 DEF IInv, PointerShape
<1>5. \A u \in Var : Owns(u) /\ ptr[u].obj = ptr[w].obj => ptr[w].value \in Reach(ptr[u].value, class[w])
  BY <1>2 DEF IInv, ViewShape, Dead
<1> QED
  BY <1>1, <1>2, <1>3, <1>4, <1>5

LEMMA RangeInv ==
  ASSUME IInv, NEW v \in Var, NEW w \in Var, Transactions(v, w) \/ Outputs(v, w) PROVE IInv'
<1>1. PICK c \in {"block", "transaction"} : RangeOf(v, w, c)
  BY DEF Transactions, Outputs
<1> DEFINE p == [ptr[w] EXCEPT !.whole = FALSE]
<1>2. Dead(v) /\ Usable(w) /\ class[w] = c /\ Construct(v, "unowned", Ranges[c], p) /\ UNCHANGED live
  BY <1>1 DEF RangeOf
<1>3. p \in Pointer /\ p.obj = ptr[w].obj /\ p.value = ptr[w].value /\ p.value \in Value
  BY <1>2, UsableFacts DEF Pointer
<1>4. Ranges[c] \in Class \cup RangeClass /\ \A x : Reach(x, Ranges[c]) = Reach(x, c)
  BY PartsOfReach DEF RangeClass, Ranges
<1>5. \A u \in Var : Owns(u) /\ ptr[u].obj = p.obj => p.value \in Reach(ptr[u].value, Ranges[c])
  BY <1>2, <1>3, <1>4, UsableFacts
<1> HIDE DEF p
<1> QED
  BY <1>2, <1>3, <1>4, <1>5, ViewInv

LEMMA LendInv ==
  ASSUME IInv, NEW v \in Var, NEW w \in Var,
         TransactionAt(v, w) \/ OutputAt(v, w) \/ ScriptPubkey(v, w)
  PROVE  IInv'
<1>1. PICK c \in Class \cup RangeClass, part \in Class :
        /\ Lend(v, w, c, part)
        /\ \A x : \A y \in Reach(x, c) : PartOf[y] \subseteq Reach(x, part)
  BY PartsOfReach DEF TransactionAt, OutputAt, ScriptPubkey, Class, RangeClass, Ranges
<1>2. PICK x \in PartOf[ptr[w].value] :
        Construct(v, "unowned", part, [obj |-> ptr[w].obj, value |-> x, whole |-> FALSE])
  BY <1>1 DEF Lend
<1> DEFINE p == [obj |-> ptr[w].obj, value |-> x, whole |-> FALSE]
<1>3. Dead(v) /\ Usable(w) /\ class[w] = c /\ UNCHANGED live
  BY <1>1 DEF Lend
<1>4. p \in Pointer /\ p.obj = ptr[w].obj /\ p.value = x /\ x \in Value
  BY <1>2, <1>3, UsableFacts, ValueAssumption DEF Pointer
<1>5. \A u \in Var : Owns(u) /\ ptr[u].obj = p.obj => p.value \in Reach(ptr[u].value, part)
  BY <1>1, <1>2, <1>3, <1>4, UsableFacts
<1>6. Construct(v, "unowned", part, p)
  BY <1>2
<1> HIDE DEF p
<1> QED
  BY <1>1, <1>3, <1>4, <1>5, <1>6, ViewInv

LEMMA CopyInv ==
  ASSUME IInv, NEW v \in Var, NEW w \in Var, NEW pol \in {"owned", "unowned"},
         CopyConstruct(v, w, pol)
  PROVE  IInv'
<1>1. Dead(v) /\ Usable(w)
  BY DEF CopyConstruct
<1>2. CASE Throw
  BY <1>2, StutterInv DEF Throw
<1>3. CASE ~Throw /\ pol = "owned"
  <2>1. PICK q \in Pointer : OwnedCopy(ptr[w], q, live') /\ Construct(v, pol, class[w], q)
    BY <1>3 DEF CopyConstruct
  <2>2. PICK o \in Fresh : q = [obj |-> o, value |-> ptr[w].value, whole |-> TRUE] /\ live' = live \cup {o}
    BY <2>1 DEF OwnedCopy
  <2>3. class[w] \in Class /\ ptr[w].value \in Value
    BY <1>1, <1>3, UsableFacts DEF CopyConstruct
  <2> QED
    BY <1>1, <1>3, <2>1, <2>2, <2>3, MakeInv
<1>4. CASE ~Throw /\ pol = "unowned"
  <2>1. PICK q \in Pointer : UnownedCopy(ptr[w], q, live') /\ Construct(v, pol, class[w], q)
    BY <1>4 DEF CopyConstruct
  <2>2. q = ptr[w] /\ live' = live
    BY <2>1 DEF UnownedCopy
  <2>3. class[w] \in Class \cup RangeClass
    BY <1>1, UsableFacts DEF IInv, PointerShape, Usable
  <2> QED
    BY <1>1, <1>4, <2>1, <2>2, <2>3, UsableFacts, ViewInv
<1> QED
  BY <1>2, <1>3, <1>4

\* An object is freed when its owner goes or gets another one.
LEMMA FreedFacts ==
  ASSUME IInv, NEW v \in Var
  PROVE  /\ Freed(v) \subseteq Obj \cup {Null}
         /\ \A u \in Var : Owns(u) /\ u # v => ptr[u].obj \notin Freed(v)
         /\ \A o \in live : o \notin Freed(v) => ~(policy[v] = "owned" /\ ptr[v].obj = o)
<1>1. ptr[v] \in Pointer
  BY DEF IInv, PointerShape, TypeOK
<1> QED
  BY <1>1 DEF IInv, OwnerShape, Owns, Freed, Pointer

\* What w points at goes to v, and w has nothing.
LEMMA MovedInv ==
  ASSUME IInv, NEW v \in Var, NEW w \in Var, v # w, ~Dead(w),
         policy' = [policy EXCEPT ![v] = policy[w]], class' = [class EXCEPT ![v] = class[w]],
         ptr' = [ptr EXCEPT ![v] = ptr[w], ![w] = NullPtr],
         live' = live \ Freed(v), threw' = FALSE
  PROVE  IInv'
<1> DEFINE old(u) == IF u = v THEN w ELSE u
<1>1. /\ policy \in [Var -> {"owned", "unowned", "none"}]
      /\ class \in [Var -> Class \cup RangeClass \cup {"none"}]
      /\ ptr \in [Var -> Pointer] /\ live \subseteq Obj
      /\ \A u \in Var : policy[u] = "owned" => ptr[u].whole
  BY DEF IInv, PointerShape, TypeOK
<1>2. NullPtr \in Pointer /\ NullPtr.obj = Null /\ NullPtr.whole
  BY DEF NullPtr, Pointer
<1>3. /\ policy'[v] = policy[w] /\ class'[v] = class[w] /\ ptr'[v] = ptr[w]
      /\ policy'[w] = policy[w] /\ class'[w] = class[w] /\ ptr'[w] = NullPtr
      /\ \A u \in Var \ {v, w} : policy'[u] = policy[u] /\ class'[u] = class[u] /\ ptr'[u] = ptr[u]
  BY <1>1
<1>4. \A u \in Var : u # w => /\ old(u) \in Var /\ policy'[u] = policy[old(u)]
                            /\ class'[u] = class[old(u)] /\ ptr'[u] = ptr[old(u)]
  BY <1>3
<1>5. \A u, t \in Var : u # w /\ t # w /\ old(u) = old(t) => u = t
  OBVIOUS
<1>6. \A u \in Var : u # w => old(u) # v
  OBVIOUS
<1> HIDE DEF old
<1>7. \A u \in Var : Owns(u)' => u # w /\ Owns(old(u))
  BY <1>2, <1>3, <1>4 DEF Owns
<1>8. PointerShape'
  <2>1. TypeOK'
    BY <1>1, <1>2, <1>3 DEF TypeOK
  <2>2. ASSUME NEW u \in Var
        PROVE  /\ Dead(u)' => ptr'[u] = NullPtr
               /\ ~Dead(u)' => class'[u] # "none"
               /\ ptr'[u].obj # Null => ptr'[u].value \in Value
    <3>1. CASE u = w
      BY <1>2, <1>3, <3>1 DEF IInv, PointerShape, Dead
    <3>2. CASE u # w
      <4>1. old(u) \in Var
        BY <1>4, <3>2
      <4>2. /\ policy[old(u)] = "none" => ptr[old(u)] = NullPtr
            /\ policy[old(u)] # "none" => class[old(u)] # "none"
            /\ ptr[old(u)].obj # Null => ptr[old(u)].value \in Value
        BY <4>1 DEF IInv, PointerShape, Dead
      <4>3. policy'[u] = policy[old(u)] /\ class'[u] = class[old(u)] /\ ptr'[u] = ptr[old(u)]
        BY <1>4, <3>2
      <4> QED
        BY ONLY <4>2, <4>3 DEF Dead
    <3> QED
      BY <3>1, <3>2
  <2> QED
    BY <2>1, <2>2 DEF PointerShape
<1>9. OwnerShape'
  <2>1. ASSUME NEW u \in Var, Owns(u)' PROVE ptr'[u].obj \in live'
    <3>1. u # w /\ Owns(old(u)) /\ old(u) \in Var /\ old(u) # v /\ ptr'[u] = ptr[old(u)]
      BY <1>4, <1>6, <1>7, <2>1
    <3>2. ptr[old(u)].obj \in live
      BY <3>1 DEF IInv, OwnerShape
    <3>3. ptr[old(u)].obj \notin Freed(v)
      BY <3>1, FreedFacts
    <3> QED
      BY <3>1, <3>2, <3>3
  <2>2. ASSUME NEW u \in Var, NEW t \in Var, Owns(u)', Owns(t)', ptr'[u].obj = ptr'[t].obj
        PROVE  u = t
    BY <1>4, <1>5, <1>7, <2>2 DEF IInv, OwnerShape
  <2>3. ASSUME NEW o \in live' PROVE \E u \in Var : policy'[u] = "owned" /\ ptr'[u].obj = o
    <3>1. o \in live /\ o \notin Freed(v)
      BY <2>3
    <3>2. PICK u \in Var : policy[u] = "owned" /\ ptr[u].obj = o
      BY <3>1 DEF IInv, OwnerShape
    <3>3. u # v
      BY <3>1, <3>2, FreedFacts
    <3>4. CASE u = w
      BY <1>3, <3>2, <3>4
    <3>5. CASE u # w
      BY <1>3, <3>2, <3>3, <3>5
    <3> QED
      BY <3>4, <3>5
  <2> QED
    BY <2>1, <2>2, <2>3 DEF OwnerShape
<1>10. ViewShape'
  <2> SUFFICES ASSUME NEW u \in Var, NEW t \in Var, Owns(t)', ~Dead(u)', ptr'[u].obj = ptr'[t].obj
               PROVE  ptr'[u].value \in Reach(ptr'[t].value, class'[u])
    BY DEF ViewShape, Reach
  <2>1. t # w /\ Owns(old(t)) /\ u # w
    BY <1>2, <1>3, <1>7 DEF Owns
  <2>2. ~Dead(old(u)) /\ ptr[old(u)].obj = ptr[old(t)].obj
    BY <1>4, <2>1 DEF Dead
  <2>3. old(t) \in Var /\ old(u) \in Var
    BY <1>4, <2>1
  <2>4. ptr[old(u)].value \in Reach(ptr[old(t)].value, class[old(u)])
    BY <2>1, <2>2, <2>3 DEF IInv, ViewShape
  <2>5. ptr'[u] = ptr[old(u)] /\ ptr'[t] = ptr[old(t)] /\ class'[u] = class[old(u)]
    BY <1>4, <2>1
  <2> QED
    BY ONLY <2>4, <2>5
<1> QED
  BY <1>8, <1>9, <1>10 DEF IInv

LEMMA MoveInv ==
  ASSUME IInv, NEW v \in Var, NEW w \in Var, MoveConstruct(v, w) \/ MoveAssign(v, w) PROVE IInv'
<1>1. policy \in [Var -> {"owned", "unowned", "none"}] /\ class \in [Var -> Class \cup RangeClass \cup {"none"}]
  BY DEF IInv, PointerShape, TypeOK
<1>2. CASE MoveConstruct(v, w)
  <2>1. v # w /\ ~Dead(w) /\ live' = live \ Freed(v)
    BY <1>2 DEF MoveConstruct, Usable, Dead, Freed
  <2> QED
    BY <1>2, <2>1, MovedInv DEF MoveConstruct
<1>3. CASE MoveAssign(v, w)
  <2>1. v # w /\ ~Dead(w) /\ policy[v] = policy[w] /\ class[v] = class[w]
    BY <1>3 DEF MoveAssign, Assignable, Dead
  <2>2. policy' = [policy EXCEPT ![v] = policy[w]] /\ class' = [class EXCEPT ![v] = class[w]]
    BY <1>1, <1>3, <2>1 DEF MoveAssign
  <2> QED
    BY <1>3, <2>1, <2>2, MovedInv DEF MoveAssign
<1> QED
  BY <1>2, <1>3

LEMMA DestroyInv == ASSUME IInv, NEW v \in Var, Destroy(v) PROVE IInv'
<1> USE DEF Destroy
<1>1. /\ policy \in [Var -> {"owned", "unowned", "none"}]
      /\ class \in [Var -> Class \cup RangeClass \cup {"none"}]
      /\ ptr \in [Var -> Pointer] /\ live \subseteq Obj
      /\ \A u \in Var : policy[u] = "owned" => ptr[u].whole
  BY DEF IInv, PointerShape, TypeOK
<1>2. NullPtr \in Pointer /\ NullPtr.obj = Null /\ NullPtr.whole
  BY DEF NullPtr, Pointer
<1>3. /\ policy'[v] = "none" /\ class'[v] = "none" /\ ptr'[v] = NullPtr
      /\ \A u \in Var \ {v} : policy'[u] = policy[u] /\ class'[u] = class[u] /\ ptr'[u] = ptr[u]
  BY <1>1
<1>4. PointerShape'
  <2>1. TypeOK'
    BY <1>1, <1>2, <1>3 DEF TypeOK
  <2> QED
    BY <1>2, <1>3, <2>1 DEF IInv, PointerShape, Dead
<1>5. OwnerShape'
  <2>1. \A u \in Var : Owns(u)' => Owns(u) /\ u # v /\ ptr'[u].obj = ptr[u].obj
    BY <1>3 DEF Owns
  <2>2. \A u \in Var : Owns(u)' => ptr'[u].obj \in live'
    BY <2>1, FreedFacts DEF IInv, OwnerShape
  <2>3. ASSUME NEW o \in live' PROVE \E u \in Var : policy'[u] = "owned" /\ ptr'[u].obj = o
    BY <1>3, <2>3, FreedFacts DEF IInv, OwnerShape
  <2>4. \A u, t \in Var : Owns(u)' /\ Owns(t)' /\ ptr'[u].obj = ptr'[t].obj => u = t
    BY <2>1 DEF IInv, OwnerShape
  <2> QED
    BY <2>2, <2>3, <2>4 DEF OwnerShape
<1>6. ViewShape'
  BY <1>2, <1>3 DEF IInv, ViewShape, Owns, Dead
<1> QED
  BY <1>4, <1>5, <1>6 DEF IInv

LEMMA NextInv == ASSUME IInv, [Next]_vars PROVE IInv'
<1>1. ASSUME NEW v \in Var, NewBlock(v) \/ NewTransaction(v) \/ NewScriptPubkey(v) PROVE IInv'
  BY <1>1, OwnerInv, ValueAssumption DEF NewBlock, NewTransaction, NewScriptPubkey, Class
<1>2. ASSUME NEW v \in Var, NEW w \in Var, NewTransactionOutput(v, w) PROVE IInv'
  <2>1. {x \in Value : ptr[w].value \in PartOf[x]} \in SUBSET Value /\ "transaction_output" \in Class
    BY DEF Class
  <2> QED
    BY <1>2, <2>1, OwnerInv DEF NewTransactionOutput
<1>3. CASE UNCHANGED vars
  BY <1>3, StutterInv DEF vars, IInv, PointerShape, TypeOK
<1> QED
  BY <1>1, <1>2, <1>3, RangeInv, LendInv, CopyInv, MoveInv, DestroyInv DEF Next

\* The strengthened invariant holds in every state (all of CppWrapper).
THEOREM Invariance == Spec => []IInv
<1>1. Init => IInv
  BY InitInv
<1>2. IInv /\ [Next]_vars => IInv'
  BY NextInv
<1> QED
  BY <1>1, <1>2, PTL DEF Spec

-----------------------------------------------------------------------------
(* The properties.                                                         *)

\* Every state is well-typed; only whole objects are owned (btck.hpp).
THEOREM TypeCorrect == Spec => []TypeOK
<1>1. IInv => TypeOK
  BY DEF IInv, PointerShape
<1> QED
  BY <1>1, Invariance, PTL

\* However a program copies, moves, assigns and destroys, an allocated object has one
\* owner (owned_policy and unowned_policy of btck.hpp).
THEOREM ObjectsHaveOneOwner == Spec => []OneOwner
<1>1. IInv => OneOwner
  <2> SUFFICES ASSUME IInv PROVE OneOwner
    OBVIOUS
  <2>1. live \subseteq Obj
    BY DEF IInv, PointerShape, TypeOK
  <2>2. ASSUME NEW o \in live PROVE Cardinality(Owners(o)) = 1
    <3>1. PICK v \in Var : policy[v] = "owned" /\ ptr[v].obj = o
      BY DEF IInv, OwnerShape
    <3>2. o # Null
      BY <2>1, NullAssumption
    <3>3. Owners(o) = {v}
      BY <3>1, <3>2 DEF IInv, OwnerShape, Owns, Owners
    <3> QED
      BY <3>3, FS_Singleton
  <2> QED
    BY <2>2 DEF IInv, OwnerShape, Owns, OneOwner
<1> QED
  BY <1>1, Invariance, PTL

-----------------------------------------------------------------------------
(* CppWrapper implements OwnedValues.                                      *)

LEMMA MeaningFacts ==
  ASSUME IInv, NEW v \in Var
  PROVE  /\ Owns(v) => Meaning(v) = ptr[v].value /\ Meaning(v) \in Value
         /\ ~Owns(v) => Meaning(v) = Garbage
         /\ Meaning(v) # Garbage => Owns(v)
<1>1. Null \notin live
  BY NullAssumption DEF IInv, PointerShape, TypeOK
<1> QED
  BY <1>1, ValueAssumption DEF IInv, OwnerShape, PointerShape, Owns, Meaning

\* What a variable that can be used looks at is in what some variable stands for.
LEMMA UsablePresent ==
  ASSUME IInv, NEW w \in Var, Usable(w)
  PROVE  ptr[w].value \in Values!Present
<1>1. PICK u \in Var : policy[u] = "owned" /\ ptr[u].obj = ptr[w].obj
  BY UsableFacts DEF IInv, OwnerShape
<1>2. Owns(u) /\ Meaning(u) = ptr[u].value /\ Meaning(u) # Garbage
  BY <1>1, UsableFacts, MeaningFacts, ValueAssumption DEF Owns
<1>3. class[w] \in Class \cup RangeClass
  BY UsableFacts DEF IInv, PointerShape, Usable
<1>4. ptr[w].value \in Reach(ptr[u].value, class[w])
  BY <1>1, <1>2, UsableFacts
<1>5. ptr[w].value \in Values!Inside(Meaning(u))
  BY <1>2, <1>3, <1>4, PartsOfReach
<1>6. valBar[u] = Meaning(u)
  BY DEF valBar
<1> QED
  BY <1>2, <1>5, <1>6 DEF Values!Present, valBar

\* A new owner stands for its value, and nothing else changes.
LEMMA MakeIsMake ==
  ASSUME IInv, NEW v \in Var, Dead(v), NEW o \in Fresh, NEW x \in Value, NEW c,
         Construct(v, "owned", c, [obj |-> o, value |-> x, whole |-> TRUE]),
         live' = live \cup {o}
  PROVE  Values!Make(v, x)
<1>1. policy \in [Var -> {"owned", "unowned", "none"}] /\ ptr \in [Var -> Pointer]
  BY DEF IInv, PointerShape, TypeOK
<1>2. /\ policy'[v] = "owned" /\ ptr'[v].obj = o /\ ptr'[v].value = x
      /\ \A u \in Var \ {v} : policy'[u] = policy[u] /\ ptr'[u] = ptr[u]
  BY <1>1 DEF Construct
<1>3. \A u \in Var : ptr[u].obj # o
  BY DEF Fresh
<1>4. Meaning(v) = Garbage /\ Meaning(v)' = x
  BY <1>2 DEF Meaning, Dead
<1>5. \A u \in Var \ {v} : Meaning(u)' = Meaning(u)
  BY <1>2, <1>3 DEF Meaning
<1> QED
  BY <1>4, <1>5 DEF Values!Make, valBar

LEMMA SameMeaning ==
  ASSUME \A u \in Var : Meaning(u)' = Meaning(u)
  PROVE  UNCHANGED valBar
BY DEF valBar

LEMMA ViewIsNothing ==
  ASSUME IInv, NEW v \in Var, Dead(v), NEW c, NEW p, Construct(v, "unowned", c, p), UNCHANGED live
  PROVE  UNCHANGED valBar
<1>1. policy \in [Var -> {"owned", "unowned", "none"}] /\ ptr \in [Var -> Pointer]
  BY DEF IInv, PointerShape, TypeOK
<1>2. /\ policy'[v] = "unowned"
      /\ \A u \in Var \ {v} : policy'[u] = policy[u] /\ ptr'[u] = ptr[u]
  BY <1>1 DEF Construct
<1>3. \A u \in Var : Meaning(u)' = Meaning(u)
  BY <1>2 DEF Meaning, Dead
<1> QED
  BY <1>3, SameMeaning

\* What is freed is what v has stood for.
LEMMA FreedMeaning ==
  ASSUME IInv, NEW v \in Var, live' = live \ Freed(v)
  PROVE  \A u \in Var \ {v} : Owns(u) => ptr[u].obj \in live'
BY FreedFacts DEF IInv, OwnerShape

LEMMA MovedIsMove ==
  ASSUME IInv, NEW v \in Var, NEW w \in Var, v # w, ~Dead(w),
         policy' = [policy EXCEPT ![v] = policy[w]],
         policy[v] = "none" \/ policy[v] = policy[w],
         ptr' = [ptr EXCEPT ![v] = ptr[w], ![w] = NullPtr],
         live' = live \ Freed(v)
  PROVE  Values!Move(v, w) \/ UNCHANGED valBar
<1>1. /\ policy \in [Var -> {"owned", "unowned", "none"}] /\ ptr \in [Var -> Pointer]
      /\ live \subseteq Obj /\ Null \notin live
  BY NullAssumption DEF IInv, PointerShape, TypeOK
<1>2. /\ policy'[v] = policy[w] /\ ptr'[v] = ptr[w] /\ policy'[w] = policy[w] /\ ptr'[w].obj = Null
      /\ \A u \in Var \ {v, w} : policy'[u] = policy[u] /\ ptr'[u] = ptr[u]
  BY <1>1 DEF NullPtr
<1>3. \A u \in Var \ {v, w} : Meaning(u)' = Meaning(u)
  <2> SUFFICES ASSUME NEW u \in Var \ {v, w} PROVE Meaning(u)' = Meaning(u)
    OBVIOUS
  <2>1. CASE Owns(u)
    <3>1. ptr[u].obj \in live /\ ptr[u].obj \in live'
      BY <2>1, FreedMeaning DEF IInv, OwnerShape
    <3>2. policy'[u] = policy[u] /\ ptr'[u] = ptr[u]
      BY <1>2
    <3> QED
      BY <3>1, <3>2 DEF Meaning
  <2>2. CASE ~Owns(u)
    BY <1>1, <1>2, <2>2 DEF Meaning, Owns
  <2> QED
    BY <2>1, <2>2
<1>4. Meaning(w)' = Garbage
  BY <1>1, <1>2 DEF Meaning
<1>5. CASE policy[w] = "owned"
  <2>1. Meaning(v)' = Meaning(w)
    <3>1. CASE Owns(w)
      <4>1. ptr[w].obj \in live /\ ptr[w].obj \in live'
        BY <3>1, FreedMeaning DEF IInv, OwnerShape
      <4> QED
        BY <1>2, <1>5, <4>1 DEF Meaning
    <3>2. CASE ~Owns(w)
      BY <1>1, <1>2, <1>5, <3>2 DEF Meaning, Owns
    <3> QED
      BY <3>1, <3>2
  <2> QED
    BY <1>3, <1>4, <2>1 DEF Values!Move, valBar
<1>6. CASE policy[w] # "owned"
  <2>1. Meaning(v) = Garbage /\ Meaning(v)' = Garbage /\ Meaning(w) = Garbage
    BY <1>2, <1>6 DEF Meaning
  <2> QED
    BY <1>3, <1>4, <2>1, SameMeaning
<1> QED
  BY <1>5, <1>6

LEMMA DestroyIsForget ==
  ASSUME IInv, NEW v \in Var, Destroy(v) PROVE Values!Forget(v)
<1>1. /\ policy \in [Var -> {"owned", "unowned", "none"}] /\ ptr \in [Var -> Pointer]
      /\ live \subseteq Obj /\ Null \notin live
  BY NullAssumption DEF IInv, PointerShape, TypeOK
<1>2. /\ policy'[v] = "none" /\ live' = live \ Freed(v)
      /\ \A u \in Var \ {v} : policy'[u] = policy[u] /\ ptr'[u] = ptr[u]
  BY <1>1 DEF Destroy
<1>3. Meaning(v)' = Garbage
  BY <1>2 DEF Meaning
<1>4. ASSUME NEW u \in Var \ {v} PROVE Meaning(u)' = Meaning(u)
  <2>1. CASE Owns(u)
    <3>1. ptr[u].obj \in live /\ ptr[u].obj \in live'
      BY <1>2, <2>1, FreedMeaning DEF IInv, OwnerShape
    <3>2. policy'[u] = policy[u] /\ ptr'[u] = ptr[u]
      BY <1>2
    <3> QED
      BY <3>1, <3>2 DEF Meaning
  <2>2. CASE ~Owns(u)
    BY <1>1, <1>2, <2>2 DEF Meaning, Owns
  <2> QED
    BY <2>1, <2>2
<1> QED
  BY <1>3, <1>4 DEF Values!Forget, valBar

\* Every step is a step of the plain values, or changes none of them.
LEMMA NextIsValues ==
  ASSUME IInv, [Next]_vars
  PROVE  Values!Next \/ UNCHANGED valBar
<1> DEFINE Same == UNCHANGED valBar
<1>1. ASSUME UNCHANGED <<policy, ptr, live>> PROVE Same
  <2>1. \A u \in Var : Meaning(u)' = Meaning(u)
    BY <1>1 DEF Meaning
  <2> QED
    BY <2>1, SameMeaning
<1>2. ASSUME NEW v \in Var, NewBlock(v) \/ NewTransaction(v) \/ NewScriptPubkey(v)
      PROVE  Values!Next \/ Same
  <2>1. CASE Throw
    BY <1>1, <2>1 DEF Throw
  <2>2. CASE ~Throw
    <3>1. PICK c \in Class, o \in Fresh, x \in Raw :
            /\ Dead(v)
            /\ Construct(v, "owned", c, [obj |-> o, value |-> x, whole |-> TRUE])
            /\ live' = live \cup {o}
      BY <1>2, <2>2 DEF NewBlock, NewTransaction, NewScriptPubkey, Owner, Class
    <3>2. Values!Make(v, x)
      BY <3>1, MakeIsMake, ValueAssumption
    <3> QED
      BY <3>2 DEF Values!Next, Values!New
  <2> QED
    BY <2>1, <2>2
<1>3. ASSUME NEW v \in Var, NEW w \in Var, NewTransactionOutput(v, w)
      PROVE  Values!Next \/ Same
  <2>1. CASE Throw
    BY <1>1, <2>1 DEF Throw
  <2>2. CASE ~Throw
    <3>1. PICK o \in Fresh, x \in Value :
            /\ ptr[w].value \in PartOf[x]
            /\ Dead(v) /\ Usable(w)
            /\ Construct(v, "owned", "transaction_output", [obj |-> o, value |-> x, whole |-> TRUE])
            /\ live' = live \cup {o}
      BY <1>3, <2>2 DEF NewTransactionOutput, Owner
    <3>2. Values!Make(v, x)
      BY <3>1, MakeIsMake
    <3>3. PartOf[x] \cap Values!Present # {}
      BY <3>1, UsablePresent
    <3> QED
      BY <3>2, <3>3 DEF Values!Next, Values!NewAround
  <2> QED
    BY <2>1, <2>2
<1>4. ASSUME NEW v \in Var, NEW w \in Var, Transactions(v, w) \/ Outputs(v, w)
      PROVE  Same
  <2>1. PICK c \in {"block", "transaction"} : RangeOf(v, w, c)
    BY <1>4 DEF Transactions, Outputs
  <2> QED
    BY <2>1, ViewIsNothing DEF RangeOf
<1>5. ASSUME NEW v \in Var, NEW w \in Var, TransactionAt(v, w) \/ OutputAt(v, w) \/ ScriptPubkey(v, w)
      PROVE  Same
  <2>1. PICK c \in Class \cup RangeClass, part \in Class : Lend(v, w, c, part)
    BY <1>5 DEF TransactionAt, OutputAt, ScriptPubkey, Class, RangeClass, Ranges
  <2> QED
    BY <2>1, ViewIsNothing DEF Lend
<1>6. ASSUME NEW v \in Var, NEW w \in Var, NEW pol \in {"owned", "unowned"}, CopyConstruct(v, w, pol)
      PROVE  Values!Next \/ Same
  <2>1. Dead(v) /\ Usable(w)
    BY <1>6 DEF CopyConstruct
  <2>2. CASE Throw
    BY <1>1, <2>2 DEF Throw
  <2>3. CASE ~Throw /\ pol = "owned"
    <3>1. PICK q \in Pointer : OwnedCopy(ptr[w], q, live') /\ Construct(v, pol, class[w], q)
      BY <1>6, <2>3 DEF CopyConstruct
    <3>2. PICK o \in Fresh : q = [obj |-> o, value |-> ptr[w].value, whole |-> TRUE] /\ live' = live \cup {o}
      BY <3>1 DEF OwnedCopy
    <3>3. ptr[w].value \in Value /\ ptr[w].value \in Values!Present
      BY <2>1, UsableFacts, UsablePresent
    <3>4. Values!Make(v, ptr[w].value)
      BY <2>1, <2>3, <3>1, <3>2, <3>3, MakeIsMake
    <3> QED
      BY <3>3, <3>4 DEF Values!Next, Values!Copy
  <2>4. CASE ~Throw /\ pol = "unowned"
    <3>1. PICK q \in Pointer : UnownedCopy(ptr[w], q, live') /\ Construct(v, pol, class[w], q)
      BY <1>6, <2>4 DEF CopyConstruct
    <3> QED
      BY <2>1, <2>4, <3>1, ViewIsNothing DEF UnownedCopy
  <2> QED
    BY <2>2, <2>3, <2>4
<1>7. ASSUME NEW v \in Var, NEW w \in Var, MoveConstruct(v, w) \/ MoveAssign(v, w)
      PROVE  Values!Next \/ Same
  <2>1. policy \in [Var -> {"owned", "unowned", "none"}]
    BY DEF IInv, PointerShape, TypeOK
  <2>2. /\ v # w /\ ~Dead(w)
        /\ policy' = [policy EXCEPT ![v] = policy[w]]
        /\ policy[v] = "none" \/ policy[v] = policy[w]
        /\ ptr' = [ptr EXCEPT ![v] = ptr[w], ![w] = NullPtr]
        /\ live' = live \ Freed(v)
    BY <1>7, <2>1 DEF MoveConstruct, MoveAssign, Assignable, Usable, Dead, Freed
  <2>3. Values!Move(v, w) \/ Same
    BY <2>2, MovedIsMove
  <2> QED
    BY <2>3 DEF Values!Next
<1>8. ASSUME NEW v \in Var, Destroy(v) PROVE Values!Next
  BY <1>8, DestroyIsForget DEF Values!Next
<1>9. CASE UNCHANGED vars
  BY <1>1, <1>9 DEF vars
<1> QED
  BY <1>2, <1>3, <1>4, <1>5, <1>6, <1>7, <1>8, <1>9 DEF Next

\* Owning variables of btck.hpp are values, for any variables, objects and values: no
\* step changes what another variable stands for, and a copy, also one of a view of a
\* view, stands for something inside of what a variable stands for.
THEOREM Refinement == Spec => ImplementsOwnedValues
<1>1. Init => Values!Init
  BY DEF Init, Values!Init, valBar, Meaning
<1>2. IInv /\ [Next]_vars => [Values!Next]_valBar
  BY NextIsValues
<1>3. Spec => []IInv
  BY Invariance
<1> QED
  BY <1>1, <1>2, <1>3, PTL DEF Spec, ImplementsOwnedValues, Values!Spec

-----------------------------------------------------------------------------
(* Chain: numbers that an int can count.                                   *)

LEMMA NumbersStay ==
  ASSUME NEW n \in 0..(IntHalf - 1)
  PROVE  ToSize(n) = n /\ ToInt(n) = n /\ ToDiff(n) = n
<1>1. IntHalf \in Nat /\ SizeHalf \in Nat /\ n < SizeHalf /\ n < IntHalf
  BY ParametersAssumption
<1>2. n % (2 * SizeHalf) = n
  BY <1>1
<1>3. n % (2 * IntHalf) = n
  BY <1>1
<1> QED BY <1>1, <1>2, <1>3 DEF ToSize, SizeMax, ToInt, ToDiff, Narrow

\* A negative step is a large unsigned number, which wraps around to where it goes.
LEMMA StepsAdd ==
  ASSUME NEW a \in 0..(IntHalf - 1), NEW n \in Int, a + n \in 0..(IntHalf - 1)
  PROVE  Plus(a, n) = a + n
<1> DEFINE S == 2 * SizeHalf
<1>1. IntHalf \in Nat /\ SizeHalf \in Nat /\ IntHalf < SizeHalf
  BY ParametersAssumption
<1>2. S \in Nat /\ a + n < S /\ n < S /\ -S <= n
  BY <1>1
<1>3. Plus(a, n) = (a + (n % S)) % S
  BY DEF Plus, ToSize, SizeMax
<1> HIDE DEF S
<1>4. CASE n >= 0
  <2>1. n % S = n /\ (a + n) % S = a + n
    BY <1>2, <1>4
  <2> QED BY <1>3, <2>1
<1>5. CASE n < 0
  <2>1. n % S = n + S
    BY <1>2, <1>5
  <2>2. a + (n + S) = (a + n) + S
    BY <1>2
  <2> DEFINE m == (a + n) + S
  <2>3. S <= m /\ m < 2 * S /\ m \in Int
    BY <1>2
  <2>4. m % S = m - S
    <3> HIDE DEF m
    <3> QED BY <1>2, <2>3
  <2>5. m - S = a + n
    BY <1>2
  <2> QED BY <1>3, <2>1, <2>2, <2>4, <2>5
<1> QED BY <1>4, <1>5

\* A difference of sizes is wrapped around, and turned back into a signed one.
LEMMA StepsSubtract ==
  ASSUME NEW a \in 0..(IntHalf - 1), NEW b \in 0..(IntHalf - 1)
  PROVE  Minus(a, b) = a - b
<1> DEFINE S == 2 * SizeHalf
           d == a - b
           m == d % S
<1>1. IntHalf \in Nat /\ SizeHalf \in Nat /\ IntHalf < SizeHalf
  BY ParametersAssumption
<1>2. S \in Nat /\ d \in Int /\ d < SizeHalf /\ -SizeHalf < d
  BY <1>1
<1>3. Minus(a, b) = IF m % S < SizeHalf THEN m % S ELSE (m % S) - S
  BY DEF Minus, ToDiff, ToSize, SizeMax, Narrow
<1>4. CASE d >= 0
  <2>1. m = d
    <3> HIDE DEF d
    <3> QED BY <1>1, <1>2, <1>4
  <2> HIDE DEF m
  <2>2. d % S = d
    <3> HIDE DEF d
    <3> QED BY <1>1, <1>2, <1>4
  <2>3. m % S = d
    BY <2>1, <2>2
  <2> QED BY <1>2, <1>3, <2>3
<1>5. CASE d < 0
  <2>1. m = d + S
    <3> HIDE DEF d
    <3> QED BY <1>1, <1>2, <1>5
  <2> HIDE DEF m, d
  <2>2. m \in Int /\ 0 <= m /\ m < S /\ m >= SizeHalf
    BY <1>1, <1>2, <1>5, <2>1
  <2>3. m % S = m
    BY <1>1, <1>2, <2>2
  <2>4. Minus(a, b) = m - S
    BY <1>1, <1>2, <1>3, <2>2, <2>3
  <2>5. m - S = d
    BY <1>1, <1>2, <2>1
  <2> QED BY <2>4, <2>5 DEF d
<1> QED BY <1>2, <1>4, <1>5

-----------------------------------------------------------------------------
(* The chain and its blocks.                                               *)

LEMMA ChainShape ==
  ASSUME chain \in Chains
  PROVE  /\ chain \in Seq(Block)
         /\ Len(chain) \in 0..IntHalf
         /\ DOMAIN chain = 1..Len(chain)
         /\ Height = Len(chain) - 1
         /\ Height \in (-1)..(IntHalf - 1)
         /\ (chain = <<>> <=> Height = -1)
<1>1. IntHalf \in Nat
  BY ParametersAssumption
<1>2. PICK n \in 0..IntHalf : chain \in [1..n -> Block]
  BY DEF Chains
<1>3. n \in Nat /\ chain \in Seq(Block) /\ Len(chain) = n /\ DOMAIN chain = 1..n
  BY <1>1, <1>2
<1>4. chain = <<>> <=> Len(chain) = 0
  BY <1>3
<1> QED BY <1>1, <1>3, <1>4 DEF Height

LEMMA BlocksAreThere ==
  ASSUME chain \in Chains, NEW h \in 0..Height
  PROVE  /\ h \in 0..(IntHalf - 1)
         /\ At(h) = chain[h + 1] /\ At(h) \in Block /\ At(h) # Other
         /\ \A r : GetBlock(h, r) => r \in {Got(chain[h + 1]), Outcome("error")}
<1>1. IntHalf \in Nat /\ Other \notin Block
  BY ParametersAssumption
<1>2. /\ chain \in Seq(Block) /\ Height = Len(chain) - 1 /\ Len(chain) \in Nat
      /\ Height \in (-1)..(IntHalf - 1)
  BY <1>1, ChainShape
<1>3. h \in 0..(IntHalf - 1) /\ h + 1 \in 1..Len(chain)
  BY <1>1, <1>2
<1>4. chain[h + 1] \in Block
  BY <1>2, <1>3, ElementOfSeq
<1>5. At(h) = chain[h + 1] /\ At(h) # Other
  BY <1>1, <1>4 DEF At
<1>6. ToInt(h) = h
  BY <1>3, NumbersStay
<1>7. \A r : GetBlock(h, r) => r \in {Got(chain[h + 1]), Outcome("error")}
  BY <1>5, <1>6 DEF GetBlock
<1> QED BY <1>3, <1>4, <1>5, <1>7

LEMMA CountIsHeight ==
  ASSUME chain \in Chains, chain # <<>>
  PROVE  CountBlocks = Height /\ Height \in 0..(IntHalf - 1)
<1>1. Height \in 0..(IntHalf - 1)
  BY ChainShape, ParametersAssumption
<1> QED BY <1>1, NumbersStay DEF CountBlocks

\* The height of an empty chain is the largest size, and there is no block to read.
LEMMA EmptyChain ==
  ASSUME chain = <<>>
  PROVE  /\ Height = -1 /\ CountBlocks = SizeMax - 1
         /\ CountBlocks = ToSize(-1) /\ CountBlocks # 0
         /\ \A idx, r : GetBlock(idx, r) => r = Outcome("null")
<1>1. SizeMax \in Nat /\ SizeMax > 1
  BY ParametersAssumption DEF SizeMax
<1>2. Height = -1
  <2>1. Len(chain) = 0
    OBVIOUS
  <2> QED BY <2>1 DEF Height
<1>3. (-1) % SizeMax = SizeMax - 1
  BY <1>1
<1>4. \A h : At(h) = Other
  BY <1>2 DEF At
<1> QED BY <1>1, <1>2, <1>3, <1>4 DEF CountBlocks, ToSize, GetBlock

\* What is read at an index that a program may use.
LEMMA ReadsBlock ==
  ASSUME chain \in Chains, NEW idx, NEW r, GetBlock(idx, r), chain = <<>> \/ idx \in 0..Height
  PROVE  IF chain = <<>> THEN r.kind = "null" ELSE r.kind \in {"block", "error"}
<1>1. CASE chain = <<>>
  BY <1>1, EmptyChain DEF Outcome
<1>2. CASE chain # <<>>
  BY <1>2, BlocksAreThere DEF Got, Outcome
<1> QED BY <1>1, <1>2

LEMMA FoundInChain ==
  ASSUME chain \in Chains, NEW b
  PROVE  IF b # Other /\ Contains(b)
         THEN FindBlock(b) = HeightOf(b) /\ HeightOf(b) \in 0..Height
         ELSE FindBlock(b) = -1
BY DEF FindBlock, Contains, HeightOf

-----------------------------------------------------------------------------
(* The steps.                                                              *)

LEMMA ChainAtFirst ==
  ASSUME ChainInit
  PROVE  ChainIInv
<1>1. chain \in Chains /\ visited = <<>> /\ loop = Off /\ result = Outcome("none")
  BY DEF ChainInit
<1>2. /\ chain \in Seq(Block) /\ Len(chain) \in Nat /\ Height \in Int
      /\ IntHalf \in Nat /\ SizeHalf \in Nat /\ SizeHalf > 0
  BY <1>1, ChainShape, ParametersAssumption
<1>3. ChainTypeOK
  BY <1>1, <1>2 DEF ChainInit, ChainTypeOK, Off, Outcome, Begin, SizeMax
<1>4. InPlace /\ NullMeansEmpty
  <2>1. 0 % SizeMax = 0
    BY <1>2 DEF SizeMax
  <2> QED BY <1>1, <2>1 DEF ChainInit, InPlace, ToSize, NullMeansEmpty, Begin, Outcome
<1>5. SubSeq(chain, 1, 0) = <<>>
  BY <1>2
<1>6. InLoop
  BY <1>1, <1>2, <1>5 DEF InLoop, Off, Outcome
<1> QED BY <1>3, <1>4, <1>6 DEF ChainIInv

\* The index of an iterator at a position.
IndexOf(p) == IF chain = <<>> THEN ToSize(p) ELSE p

\* An iterator is set, and nothing else.
LEMMA IteratorSteps ==
  ASSUME ChainIInv, NEW i \in Iterator, NEW p \in (0..Height) \cup {0, Height},
         it' = [it EXCEPT ![i] = IndexOf(p)], pos' = [pos EXCEPT ![i] = p],
         UNCHANGED <<chain, visited, loop, result>>
  PROVE  ChainIInv'
<1>1. ChainTypeOK /\ InPlace /\ NullMeansEmpty /\ InLoop
  BY DEF ChainIInv
<1>2. /\ Height \in (-1)..(IntHalf - 1) /\ (chain = <<>> <=> Height = -1)
      /\ IntHalf \in Nat /\ SizeHalf \in Nat /\ IntHalf < SizeHalf
  BY <1>1, ChainShape, ParametersAssumption DEF ChainTypeOK
<1>3. IndexOf(p) \in 0..(SizeMax - 1)
  <2>1. CASE chain = <<>>
    <3>1. p \in Int /\ SizeMax \in Nat /\ SizeMax > 0
      BY <1>2 DEF SizeMax
    <3>2. p % SizeMax \in 0..(SizeMax - 1)
      BY <3>1
    <3> QED BY <2>1, <3>2 DEF IndexOf, ToSize
  <2>2. CASE chain # <<>>
    BY <1>2, <2>2 DEF IndexOf, SizeMax
  <2> QED BY <2>1, <2>2
<1>4. Height' = Height
  BY DEF Height
<1>5. /\ it' \in [Iterator -> 0..(SizeMax - 1)]
      /\ pos' \in [Iterator -> (0..Height) \cup {0, Height}]
  BY <1>1, <1>3 DEF ChainTypeOK
<1>6. \A j \in Iterator : it'[j] = IF chain = <<>> THEN ToSize(pos'[j]) ELSE pos'[j]
  BY <1>1 DEF ChainTypeOK, InPlace, IndexOf
<1>7. ChainTypeOK'
  BY <1>1, <1>4, <1>5 DEF ChainTypeOK, Chains, SizeMax
<1>8. InPlace'
  BY <1>6 DEF InPlace, ToSize, SizeMax
<1>9. NullMeansEmpty' /\ InLoop'
  BY <1>1, <1>4 DEF NullMeansEmpty, InLoop, CountBlocks, ToSize, SizeMax
<1> QED BY <1>7, <1>8, <1>9 DEF ChainIInv

\* Outside of a loop a call returns, and changes nothing else.
LEMMA ResultSteps ==
  ASSUME ChainIInv, Walking, Unmoved, UNCHANGED <<chain, visited, loop>>,
         result'.kind \in {"block", "number", "error", "null", "found", "index", "ValueError"},
         IF chain = <<>> THEN result'.kind \notin {"block", "error"} ELSE result'.kind # "null"
  PROVE  ChainIInv'
<1>1. ChainTypeOK /\ InPlace /\ NullMeansEmpty /\ InLoop
  BY DEF ChainIInv
<1>2. Height' = Height
  BY DEF Height
<1>3. ChainTypeOK'
  BY <1>1, <1>2 DEF ChainTypeOK, Chains, SizeMax, Unmoved
<1>4. InPlace' /\ NullMeansEmpty'
  BY <1>1 DEF InPlace, NullMeansEmpty, Unmoved, ToSize, SizeMax
<1>5. InLoop'
  BY <1>1, <1>2 DEF InLoop, Walking
<1> QED BY <1>3, <1>4, <1>5 DEF ChainIInv

\* What a loop over a chain with a block does: its iterators and what it has seen change.
LEMMA LoopSteps ==
  ASSUME ChainIInv, chain # <<>>,
         LoopStart \/ LoopBody \/ LoopEnd
  PROVE  ChainIInv'
<1>1. ChainTypeOK /\ InPlace /\ NullMeansEmpty /\ InLoop
  BY DEF ChainIInv
<1>2. UNCHANGED <<chain, it, pos>>
  BY DEF LoopStart, LoopBody, LoopEnd, Unmoved
<1>3. Height' = Height /\ chain \in Chains
  BY <1>1, <1>2 DEF Height, ChainTypeOK
<1>4. /\ Height \in 0..(IntHalf - 1) /\ CountBlocks = Height
      /\ chain \in Seq(Block) /\ Len(chain) \in Nat /\ Height = Len(chain) - 1
      /\ IntHalf \in Nat /\ SizeHalf \in Nat /\ IntHalf < SizeHalf
  BY <1>3, ChainShape, CountIsHeight, ParametersAssumption
<1>5. InPlace' /\ CountBlocks' = Height
  BY <1>1, <1>2, <1>4 DEF InPlace, CountBlocks, Height, ToSize, SizeMax
<1>6. /\ chain' \in Chains' /\ it' \in [Iterator -> 0..(SizeMax - 1)]
      /\ pos' \in [Iterator -> (0..Height) \cup {0, Height}]
  BY <1>1, <1>2 DEF ChainTypeOK, Chains
<1>7. SUFFICES /\ visited' \in Seq(Block)
               /\ loop' \in [on : BOOLEAN, idx : 0..(SizeMax - 1), end : 0..(SizeMax - 1)]
               /\ result'.kind \in {"none", "block", "error", "looped"}
               /\ InLoop'
  BY <1>2, <1>3, <1>5, <1>6 DEF ChainIInv, ChainTypeOK, NullMeansEmpty, SizeMax
<1>8. \A n \in 0..Height : n \in 0..(SizeMax - 1)
  BY <1>4 DEF SizeMax
<1>9. CASE LoopStart
  <2>1. /\ visited' = <<>> /\ result' = Outcome("none")
        /\ loop' = [on |-> TRUE, idx |-> 0, end |-> Height]
    BY <1>4, <1>9 DEF LoopStart, Begin, End
  <2>2. SubSeq(chain', 1, 0) = <<>>
    BY <1>2, <1>4
  <2>3. InLoop'
    BY <1>3, <1>4, <1>5, <2>1, <2>2 DEF InLoop, Outcome
  <2> QED BY <1>4, <1>8, <2>1, <2>3 DEF Outcome
<1>10. CASE LoopEnd
  <2>1. /\ loop.on /\ loop.idx = loop.end /\ loop' = Off /\ visited' = visited
        /\ result' = Outcome("looped")
    BY <1>10 DEF LoopEnd, More
  <2>2. Len(visited) = Height
    BY <1>1, <1>4, <2>1 DEF InLoop
  <2>3. InLoop'
    BY <1>1, <1>2, <1>3, <2>1, <2>2 DEF InLoop, Off, Outcome
  <2>4. 0 \in 0..Height
    BY <1>4
  <2> QED BY <1>1, <1>8, <2>1, <2>3, <2>4 DEF ChainTypeOK, Off, Outcome
<1>11. CASE LoopBody
  <2> DEFINE k == Len(visited)
  <2>1. k \in Nat /\ visited \in Seq(Block)
    BY <1>1 DEF ChainTypeOK
  <2>2. k <= Height
    <3>1. CASE visited = <<>>
      <4>1. k = 0
        BY <3>1
      <4> QED BY <1>4, <4>1
    <3> QED BY <1>1, <3>1 DEF InLoop
  <2>3. loop.on /\ loop.idx = k /\ loop.end = Height /\ k # Height
    BY <1>1, <1>4, <1>11 DEF LoopBody, More, InLoop
  <2>4. k \in 0..Height /\ k + 1 \in 0..Height /\ k + 1 \in 1..Len(chain)
    BY <1>4, <2>1, <2>2, <2>3
  <2>5. result' \in {Got(chain[k + 1]), Outcome("error")}
    BY <1>3, <1>11, <2>3, <2>4, BlocksAreThere DEF LoopBody
  <2>6. CASE result' = Outcome("error")
    <3>1. loop' = Off /\ visited' = visited
      BY <1>11, <2>6 DEF LoopBody, Outcome
    <3>2. InLoop'
      BY <1>1, <1>2, <1>3, <2>6, <3>1 DEF InLoop, Off, Outcome
    <3>3. 0 \in 0..Height
      BY <1>4
    <3> QED BY <1>1, <1>8, <2>6, <3>1, <3>2, <3>3 DEF ChainTypeOK, Off, Outcome
  <2>7. CASE result' = Got(chain[k + 1])
    <3>1. visited' = Append(visited, chain[k + 1]) /\ loop' = [loop EXCEPT !.idx = Plus(k, 1)]
      BY <1>11, <2>3, <2>7 DEF LoopBody, Got
    <3>2. Plus(k, 1) = k + 1
      <4>1. k \in 0..(IntHalf - 1) /\ k + 1 \in 0..(IntHalf - 1)
        BY <1>4, <2>4
      <4> HIDE DEF k
      <4> QED BY <4>1, StepsAdd
    <3>3. chain[k + 1] \in Block
      BY <1>4, <2>4, ElementOfSeq
    <3>4. visited' \in Seq(Block) /\ Len(visited') = k + 1
      BY <2>1, <3>1, <3>3
    <3>5. loop'.on /\ loop'.idx = k + 1 /\ loop'.end = Height
      BY <1>1, <2>3, <3>1, <3>2 DEF ChainTypeOK
    <3>6. loop' \in [on : BOOLEAN, idx : 0..(SizeMax - 1), end : 0..(SizeMax - 1)]
      BY <1>1, <1>8, <2>4, <3>1, <3>2 DEF ChainTypeOK
    <3>7. visited = SubSeq(chain, 1, k)
      BY <1>1 DEF InLoop
    <3>8. Append(SubSeq(chain, 1, k), chain[k + 1]) = SubSeq(chain, 1, k + 1)
      BY <1>4, <2>1, <2>4
    <3>9. visited' = SubSeq(chain', 1, Len(visited'))
      BY <1>2, <3>1, <3>4, <3>7, <3>8
    <3>10. InLoop'
      BY <1>3, <1>4, <1>5, <2>4, <2>7, <3>4, <3>5, <3>9 DEF InLoop, Got
    <3> QED BY <2>7, <3>4, <3>6, <3>10 DEF Got
  <2> QED BY <2>5, <2>6, <2>7
<1> QED BY <1>9, <1>10, <1>11

\* What a loop over an empty chain does: it reads a null entry at once.
LEMMA EmptyLoopSteps ==
  ASSUME ChainIInv, chain = <<>>,
         LoopStart \/ LoopBody \/ LoopEnd
  PROVE  ChainIInv'
<1>1. ChainTypeOK /\ InPlace /\ NullMeansEmpty /\ InLoop
  BY DEF ChainIInv
<1>2. UNCHANGED <<chain, it, pos>>
  BY DEF LoopStart, LoopBody, LoopEnd, Unmoved
<1>3. Height = -1 /\ CountBlocks = SizeMax - 1 /\ SizeMax \in Nat /\ SizeMax > 1
  BY EmptyChain, ParametersAssumption DEF SizeMax
<1>4. Height' = Height /\ CountBlocks' = CountBlocks
  BY <1>2 DEF Height, CountBlocks, ToSize, SizeMax
<1>5. visited = <<>>
  <2>1. Len(visited) \in Nat
    BY <1>1 DEF ChainTypeOK
  <2> QED BY <1>1, <1>3, <2>1 DEF InLoop
<1>6. SubSeq(chain', 1, 0) = <<>> /\ Len(<<>>) = 0
  BY <1>2
<1>7. InPlace'
  BY <1>1, <1>2 DEF InPlace, ToSize, SizeMax
<1>8. \/ /\ loop' = [on |-> TRUE, idx |-> 0, end |-> SizeMax - 1]
         /\ visited' = <<>> /\ result' = Outcome("none")
      \/ loop' = Off /\ visited' = <<>> /\ result' = Outcome("null")
  <2>1. CASE LoopStart
    BY <1>3, <2>1 DEF LoopStart, Begin, End
  <2>2. CASE LoopBody
    <3>1. result' = Outcome("null")
      BY <2>2, EmptyChain DEF LoopBody
    <3> QED BY <1>5, <2>2, <3>1 DEF LoopBody, Outcome
  <2>3. ~LoopEnd
    <3>1. loop.on => loop.idx = 0 /\ loop.end = SizeMax - 1
      BY <1>1, <1>3, <1>5, <1>6 DEF InLoop
    <3> QED BY <1>3, <3>1 DEF LoopEnd, More
  <2> QED BY <2>1, <2>2, <2>3
<1>9. /\ visited' = <<>> /\ result'.kind \in {"none", "null"}
      /\ loop'.on => result'.kind = "none" /\ loop'.idx = 0 /\ loop'.end = SizeMax - 1
      /\ loop' \in [on : BOOLEAN, idx : 0..(SizeMax - 1), end : 0..(SizeMax - 1)]
  <2>1. 0 \in 0..(SizeMax - 1) /\ SizeMax - 1 \in 0..(SizeMax - 1)
    BY <1>3
  <2>2. CASE loop' = Off /\ visited' = <<>> /\ result' = Outcome("null")
    BY <2>1, <2>2 DEF Off, Outcome
  <2>3. CASE /\ loop' = [on |-> TRUE, idx |-> 0, end |-> SizeMax - 1]
             /\ visited' = <<>> /\ result' = Outcome("none")
    BY <2>1, <2>3 DEF Outcome
  <2> QED BY <1>8, <2>2, <2>3
<1>10. ChainTypeOK'
  <2>1. visited' \in Seq(Block)
    BY <1>9
  <2> QED BY <1>1, <1>2, <1>4, <1>9, <2>1 DEF ChainTypeOK, Chains, SizeMax
<1>11. NullMeansEmpty'
  BY <1>2, <1>9 DEF NullMeansEmpty
<1>12. InLoop'
  BY <1>3, <1>4, <1>6, <1>9 DEF InLoop
<1> QED BY <1>7, <1>10, <1>11, <1>12 DEF ChainIInv

LEMMA ChainStep ==
  ASSUME ChainIInv, [ChainNext]_chainVars
  PROVE  ChainIInv'
<1>1. ChainTypeOK /\ InPlace /\ chain \in Chains
  BY DEF ChainIInv, ChainTypeOK
<1>2. /\ Height \in (-1)..(IntHalf - 1) /\ (chain = <<>> <=> Height = -1)
      /\ IntHalf \in Nat
  BY <1>1, ChainShape, ParametersAssumption
<1>3. \A j \in Iterator : it[j] = IndexOf(pos[j]) /\ pos[j] \in (0..Height) \cup {0, Height}
  BY <1>1 DEF ChainTypeOK, InPlace, IndexOf
<1>4. IndexOf(0) = 0 /\ IndexOf(Height) = CountBlocks
  <2>1. SizeMax \in Nat /\ SizeMax > 0
    BY ParametersAssumption DEF SizeMax
  <2>2. 0 % SizeMax = 0
    BY <2>1
  <2>3. CASE chain = <<>>
    BY <2>2, <2>3, EmptyChain DEF IndexOf, ToSize
  <2>4. CASE chain # <<>>
    BY <1>1, <2>4, CountIsHeight DEF IndexOf
  <2> QED BY <2>3, <2>4
<1>5. ASSUME NEW idx, chain = <<>> \/ idx \in 0..Height, GetBlock(idx, result'),
             Walking, Unmoved, UNCHANGED <<chain, visited, loop>>
      PROVE  ChainIInv'
  <2>1. IF chain = <<>> THEN result'.kind = "null" ELSE result'.kind \in {"block", "error"}
    BY <1>1, <1>5, ReadsBlock
  <2> QED BY <1>5, <2>1, ResultSteps
<1>6. ASSUME NEW i \in Iterator, SetBegin(i) PROVE ChainIInv'
  <2>1. it' = [it EXCEPT ![i] = IndexOf(0)] /\ pos' = [pos EXCEPT ![i] = 0]
    BY <1>4, <1>6 DEF SetBegin, Begin
  <2>2. UNCHANGED <<chain, visited, loop, result>>
    BY <1>6 DEF SetBegin
  <2> QED BY <2>1, <2>2, IteratorSteps
<1>7. ASSUME NEW i \in Iterator, SetEnd(i) PROVE ChainIInv'
  <2>1. it' = [it EXCEPT ![i] = IndexOf(Height)] /\ pos' = [pos EXCEPT ![i] = Height]
    BY <1>4, <1>7 DEF SetEnd, End
  <2>2. UNCHANGED <<chain, visited, loop, result>>
    BY <1>7 DEF SetEnd
  <2> QED BY <2>1, <2>2, IteratorSteps
<1>8. ASSUME NEW i \in Iterator, NEW b, Find(i, b) PROVE ChainIInv'
  <2>1. CASE b # Other /\ Contains(b)
    <3> DEFINE h == HeightOf(b)
    <3>1. FindBlock(b) = h /\ h \in 0..Height
      BY <1>1, <2>1, FoundInChain
    <3>2. /\ h # -1 /\ h \in Int /\ 0 + h = h /\ h \in 0..(IntHalf - 1)
          /\ 0 \in 0..(IntHalf - 1) /\ chain # <<>>
      BY <1>2, <3>1
    <3>3. Plus(0, h) = h
      <4> HIDE DEF h
      <4> QED BY <3>2, StepsAdd
    <3>4. it' = [it EXCEPT ![i] = IndexOf(h)] /\ pos' = [pos EXCEPT ![i] = h]
      BY <1>8, <2>1, <3>1, <3>2, <3>3 DEF Find, Begin, IndexOf
    <3> QED BY <1>8, <3>1, <3>4, IteratorSteps DEF Find
  <2>2. CASE ~(b # Other /\ Contains(b))
    <3>1. FindBlock(b) = -1
      BY <1>1, <2>2, FoundInChain
    <3>2. it' = [it EXCEPT ![i] = IndexOf(Height)] /\ pos' = [pos EXCEPT ![i] = Height]
      BY <1>4, <1>8, <2>2, <3>1 DEF Find, End
    <3> QED BY <1>8, <3>2, IteratorSteps DEF Find
  <2> QED BY <2>1, <2>2
<1>9. ASSUME NEW i \in Iterator, NEW n \in Distance, Advance(i, n) PROVE ChainIInv'
  <2>1. n \in Int /\ pos[i] + n \in 0..Height
    BY <1>2, <1>9 DEF Distance, Advance
  <2>2. chain # <<>> /\ 0 \in 0..Height /\ Height \in 0..Height
    BY <1>2, <1>3, <2>1
  <2>3. pos[i] \in 0..(IntHalf - 1) /\ pos[i] + n \in 0..(IntHalf - 1)
    BY <1>2, <1>3, <2>1, <2>2
  <2>4. Plus(it[i], n) = IndexOf(pos[i] + n)
    BY <1>3, <2>1, <2>2, <2>3, StepsAdd DEF IndexOf
  <2>5. it' = [it EXCEPT ![i] = IndexOf(pos[i] + n)] /\ pos' = [pos EXCEPT ![i] = pos[i] + n]
    BY <1>9, <2>4 DEF Advance, Move
  <2>6. UNCHANGED <<chain, visited, loop, result>>
    BY <1>9 DEF Advance
  <2> QED BY <2>1, <2>5, <2>6, IteratorSteps
<1>10. ASSUME NEW i \in Iterator, Dereference(i) PROVE ChainIInv'
  <2>1. CASE chain # <<>>
    <3>1. 0 \in 0..Height /\ Height \in 0..Height
      BY <1>2, <2>1
    <3>2. it[i] \in 0..Height
      BY <1>3, <2>1, <3>1 DEF IndexOf
    <3> QED BY <1>5, <1>10, <3>2 DEF Dereference
  <2> QED BY <1>5, <1>10, <2>1 DEF Dereference
<1>11. ASSUME NEW i \in Iterator, NEW j \in Iterator, Difference(i, j) PROVE ChainIInv'
  <2>1. result'.kind = "number"
    BY <1>11 DEF Difference, Number
  <2> QED BY <1>11, <2>1, ResultSteps DEF Difference
<1>12. CASE FrontAndBack
  <2>1. PICK idx \in {0, ToSize(CountBlocks - 1)} : GetBlock(idx, result')
    BY <1>12 DEF FrontAndBack
  <2>2. CASE chain # <<>>
    <3>1. CountBlocks = Height /\ Height # 0
      BY <1>1, <1>12, <2>2, CountIsHeight DEF FrontAndBack
    <3>2. 0 \in 0..Height /\ Height - 1 \in 0..Height /\ Height - 1 \in 0..(IntHalf - 1)
      BY <1>2, <2>2, <3>1
    <3>3. ToSize(CountBlocks - 1) = Height - 1
      BY <3>1, <3>2, NumbersStay
    <3> QED BY <1>5, <1>12, <2>1, <3>2, <3>3 DEF FrontAndBack
  <2> QED BY <1>5, <1>12, <2>1, <2>2 DEF FrontAndBack
<1>13. CASE LoopStart \/ LoopBody \/ LoopEnd
  BY <1>13, LoopSteps, EmptyLoopSteps
<1>14. ASSUME NEW n \in 0..Height, PyItem(n) PROVE ChainIInv'
  <2>1. n \in 0..(IntHalf - 1)
    BY <1>2
  <2>2. ToSize(n) = n
    BY <2>1, NumbersStay
  <2>3. GetBlock(n, result') /\ Walking /\ Unmoved /\ UNCHANGED <<chain, visited, loop>>
    BY <1>14, <2>2 DEF PyItem, Return
  <2> QED BY <1>5, <2>3
<1>15. ASSUME NEW b, PyFind(b) \/ PyIndex(b) PROVE ChainIInv'
  <2>1. result'.kind \in {"found", "index", "ValueError"}
    BY <1>15 DEF PyFind, PyIndex, Return, Outcome
  <2>2. Walking /\ Unmoved /\ UNCHANGED <<chain, visited, loop>>
    BY <1>15 DEF PyFind, PyIndex, Return
  <2> QED BY <2>1, <2>2, ResultSteps
<1>16. CASE UNCHANGED chainVars
  BY <1>16 DEF chainVars, ChainIInv, ChainTypeOK, InPlace, NullMeansEmpty, InLoop, Chains,
     SizeMax, Height, CountBlocks, ToSize
<1> QED
  BY <1>6, <1>7, <1>8, <1>9, <1>10, <1>11, <1>12, <1>13, <1>14, <1>15, <1>16 DEF ChainNext

-----------------------------------------------------------------------------
\* What every step keeps (range, range_iterator, chain.cpp and chain.c).
THEOREM ChainInvariance == ChainSpec => []ChainIInv
<1>1. ChainInit => ChainIInv
  BY ChainAtFirst
<1>2. ChainIInv /\ [ChainNext]_chainVars => ChainIInv'
  BY ChainStep
<1> QED BY <1>1, <1>2, PTL DEF ChainSpec

\* The variables of Chain keep their types: an unsigned index stays below the size of
\* its type (range_iterator, BtcK_Chain_GetBlock).
THEOREM ChainTypeCorrect == ChainSpec => []ChainTypeOK
<1>1. ChainIInv => ChainTypeOK
  BY DEF ChainIInv
<1> QED BY <1>1, ChainInvariance, PTL

\* An iterator is where the program has moved it, whatever the width of size_t is: the
\* unsigned index takes negative steps (range_iterator::operator+=).
THEOREM IteratorsInPlace == ChainSpec => []InPlace
<1>1. ChainIInv => InPlace
  BY DEF ChainIInv
<1> QED BY <1>1, ChainInvariance, PTL

\* A null index entry is read of an empty chain only, whatever the widths are: no index
\* that a program may use is beyond the tip of a chain that has one.  An empty chain,
\* whose height is the largest size, gives nothing else, and no loop gets to its end
\* (BtcK_Chain_CountBlocks, BtcK_Chain_GetBlock).
THEOREM NullReadMeansEmpty == ChainSpec => []NullMeansEmpty
<1>1. ChainIInv => NullMeansEmpty
  BY DEF ChainIInv
<1> QED BY <1>1, ChainInvariance, PTL

\* A loop sees the blocks in the order of the chain, and when it has ended all but the
\* tip (range::begin and end, operator==).
THEOREM LoopsInOrder == ChainSpec => []LoopInOrder
<1>1. ChainIInv => LoopInOrder
  BY ChainShape DEF ChainIInv, InLoop, LoopInOrder, ChainTypeOK
<1> QED BY <1>1, ChainInvariance, PTL

\* The beginning of an empty chain, 0, and its end, the largest size, differ by 1.
LEMMA EmptyDifferences ==
  ASSUME NEW a \in {0, -1}, NEW b \in {0, -1}
  PROVE  Minus(ToSize(b), ToSize(a)) = b - a
<1> DEFINE S == 2 * SizeHalf
<1>1. SizeHalf \in Nat /\ SizeHalf > 1 /\ S \in Nat
  BY ParametersAssumption
<1>2. /\ 0 % S = 0 /\ (-1) % S = S - 1 /\ 1 % S = 1
      /\ (S - 1) % S = S - 1 /\ (0 - (S - 1)) % S = 1
  BY <1>1
<1>3. \A n : ToSize(n) = n % S /\ ToDiff(n) = IF n % S < SizeHalf THEN n % S ELSE (n % S) - S
  BY DEF ToSize, ToDiff, Narrow, SizeMax
<1>4. /\ 0 - 0 = 0 /\ (S - 1) - (S - 1) = 0 /\ (S - 1) - 0 = S - 1
  BY <1>1
<1>5. ToDiff(0) = 0 /\ ToDiff(1) = 1 /\ ToDiff(S - 1) = -1
  BY <1>1, <1>2, <1>3
<1>6. ToSize(0) = 0 /\ ToSize(-1) = S - 1 /\ ToSize(S - 1) = S - 1 /\ ToSize(0 - (S - 1)) = 1
  BY <1>2, <1>3
<1> HIDE DEF S
<1>7. CASE a = 0 /\ b = 0
  BY <1>5, <1>6, <1>7 DEF Minus
<1>8. CASE a = -1 /\ b = -1
  BY <1>4, <1>5, <1>6, <1>8 DEF Minus
<1>9. CASE a = 0 /\ b = -1
  BY <1>4, <1>5, <1>6, <1>9 DEF Minus
<1>10. CASE a = -1 /\ b = 0
  BY <1>5, <1>6, <1>10 DEF Minus
<1> QED BY <1>7, <1>8, <1>9, <1>10

\* j - i is the signed difference of their positions (operator- of range_iterator).
THEOREM DifferencesSigned == ChainSpec => Differences
<1> DEFINE D == \A i, j \in Iterator : Difference(i, j) => result'.value = pos[j] - pos[i]
<1>1. ChainIInv /\ [ChainNext]_chainVars => [D]_chainVars
  <2> SUFFICES ASSUME ChainIInv, NEW i \in Iterator, NEW j \in Iterator, Difference(i, j)
               PROVE  result'.value = pos[j] - pos[i]
    OBVIOUS
  <2>1. /\ it[i] = IndexOf(pos[i]) /\ pos[i] \in (0..Height) \cup {0, Height}
        /\ it[j] = IndexOf(pos[j]) /\ pos[j] \in (0..Height) \cup {0, Height}
        /\ Height \in (-1)..(IntHalf - 1) /\ (chain = <<>> <=> Height = -1) /\ IntHalf \in Nat
    BY ChainShape, ParametersAssumption DEF ChainIInv, ChainTypeOK, InPlace, IndexOf
  <2>2. Minus(it[j], it[i]) = pos[j] - pos[i]
    <3>1. CASE chain = <<>>
      BY <2>1, <3>1, EmptyDifferences DEF IndexOf
    <3>2. CASE chain # <<>>
      <4>1. pos[i] \in 0..(IntHalf - 1) /\ pos[j] \in 0..(IntHalf - 1)
        BY <2>1, <3>2
      <4> QED BY <2>1, <3>2, <4>1, StepsSubtract DEF IndexOf
    <3> QED BY <3>1, <3>2
  <2> QED BY <2>2 DEF Difference, Number
<1>2. ChainSpec => [][ChainNext]_chainVars
  BY DEF ChainSpec
<1>3. ChainSpec => [][D]_chainVars
  BY <1>1, <1>2, ChainInvariance, PTL
<1> QED BY <1>3 DEF Differences

\* What find and index give for a block of the active chain leads back to it through the
\* conversions of get_block; a block that is known but not in the chain is not found, nor
\* is any that follows the tip (BtcK_Chain_FindBlock, BtcK_Chain_GetBlock).
THEOREM FoundLeadsBack ==
  ChainSpec => [](\A b \in Hash :
                    IF \E h \in 0..Height : chain[h + 1] = b
                    THEN /\ chain[FindBlock(b) + 1] = b
                         /\ \A r : GetBlock(ToSize(FindBlock(b)), r) => r \in {Got(b), Outcome("error")}
                    ELSE FindBlock(b) = -1)
<1> DEFINE Back(b) ==
      IF \E h \in 0..Height : chain[h + 1] = b
      THEN /\ chain[FindBlock(b) + 1] = b
           /\ \A r : GetBlock(ToSize(FindBlock(b)), r) => r \in {Got(b), Outcome("error")}
      ELSE FindBlock(b) = -1
<1>1. ASSUME ChainIInv, NEW b \in Hash PROVE Back(b)
  <2>1. chain \in Chains
    BY <1>1 DEF ChainIInv, ChainTypeOK
  <2>2. \A h \in 0..Height : At(h) = chain[h + 1] /\ At(h) # Other
    BY <2>1, BlocksAreThere
  <2>3. CASE \E h \in 0..Height : chain[h + 1] = b
    <3> DEFINE i == HeightOf(b)
    <3>1. b # Other /\ Contains(b)
      BY <2>2, <2>3 DEF Contains
    <3>2. FindBlock(b) = i /\ i \in 0..Height
      BY <2>1, <3>1, FoundInChain
    <3>3. At(i) = b
      BY <3>1 DEF Contains, HeightOf
    <3>4. i \in 0..(IntHalf - 1) /\ \A r : GetBlock(i, r) => r \in {Got(chain[i + 1]), Outcome("error")}
      BY <2>1, <3>2, BlocksAreThere
    <3>5. ToSize(i) = i
      BY <3>4, NumbersStay
    <3>6. chain[i + 1] = b
      BY <2>2, <3>2, <3>3
    <3> QED BY <2>3, <3>2, <3>4, <3>5, <3>6
  <2>4. CASE ~\E h \in 0..Height : chain[h + 1] = b
    <3>1. ~Contains(b)
      BY <2>2, <2>4 DEF Contains
    <3>2. FindBlock(b) = -1
      BY <3>1 DEF FindBlock
    <3> QED BY <2>4, <3>2
  <2> QED BY <2>3, <2>4
<1>2. ChainIInv => \A b \in Hash : Back(b)
  BY <1>1
<1> HIDE DEF Back
<1>3. ChainSpec => [](\A b \in Hash : Back(b))
  BY <1>2, ChainInvariance, PTL
<1> QED BY <1>3 DEF Back

\* How many blocks a loop may still see, and its end: also one over an empty chain,
\* which ends at its first index.
Left == IF loop.on THEN Len(chain) - Len(visited) + 1 ELSE 0

\* A loop ends, though it goes on until its unsigned index equals the end: once it runs,
\* every step takes it nearer (operator== of range_iterator).
THEOREM LoopsEnd == ChainSpec => [][loop.on => Left' \in Nat /\ Left' < Left]_chainVars
<1>1. ChainIInv /\ ChainIInv' /\ [ChainNext]_chainVars
        => [loop.on => Left' \in Nat /\ Left' < Left]_chainVars
  <2> SUFFICES ASSUME ChainIInv, ChainIInv', ChainNext, loop.on
               PROVE  Left' \in Nat /\ Left' < Left
    OBVIOUS
  <2>1. LoopBody \/ LoopEnd
    BY DEF ChainNext, Walking, SetBegin, SetEnd, Dereference, Find, Advance, Difference,
       FrontAndBack, LoopStart, PyItem, PyFind, PyIndex, Return
  <2>2. /\ Len(chain) \in Nat /\ Len(chain') = Len(chain)
        /\ Len(visited) \in 0..Len(chain) /\ Len(visited') \in 0..Len(chain)
    <3>1. Len(chain) \in Nat
      BY ChainShape, ParametersAssumption DEF ChainIInv, ChainTypeOK
    <3>2. Len(chain') = Len(chain)
      BY <2>1 DEF LoopBody, LoopEnd
    <3>3. Len(<<>>) = 0
      OBVIOUS
    <3>4. Len(visited) \in Nat /\ (Len(visited) <= Len(chain) - 1 \/ Len(visited) = 0)
      BY <3>3 DEF ChainIInv, ChainTypeOK, InLoop, Height
    <3>5. Len(visited') \in Nat /\ (Len(visited') <= Len(chain') - 1 \/ Len(visited') = 0)
      BY <3>3 DEF ChainIInv, ChainTypeOK, InLoop, Height
    <3> QED BY <3>1, <3>2, <3>4, <3>5
  <2>3. Left = Len(chain) - Len(visited) + 1
    BY DEF Left
  <2>4. CASE ~loop'.on
    <3>1. Left' = 0
      BY <2>4 DEF Left
    <3> QED BY <2>2, <2>3, <3>1
  <2>5. CASE loop'.on
    <3>1. Len(visited') = Len(visited) + 1
      <4>1. \E x : visited' = Append(visited, x)
        BY <2>1, <2>5 DEF LoopBody, LoopEnd, Off
      <4>2. visited \in Seq(Block)
        BY DEF ChainIInv, ChainTypeOK
      <4> QED BY <4>1, <4>2
    <3>2. Left' = Len(chain) - Len(visited') + 1
      BY <2>2, <2>5 DEF Left
    <3> QED BY <2>2, <2>3, <3>1, <3>2
  <2> QED BY <2>4, <2>5
<1>2. ChainSpec => [][ChainNext]_chainVars
  BY DEF ChainSpec
<1> QED BY <1>1, <1>2, ChainInvariance, PTL
=============================================================================
