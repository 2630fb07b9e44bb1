------------------------- MODULE SwiftObjectsProofs -------------------------
(***************************************************************************)
(* Proofs about SwiftObjects, for any instances, objects and values: an    *)
(* object of the library, errors among them, has one instance that frees   *)
(* it, and instances that own are values.                                  *)
(***************************************************************************)
EXTENDS SwiftObjects, FiniteSetTheorems, TLAPS

-----------------------------------------------------------------------------
(* Classes, and what is inside of a value.                                 *)

LEMMA Classes ==
  /\ Owner = {"Transaction", "TransactionOutput", "ScriptPubkey", "BtcKError"}
  /\ RefClass = {"TransactionRef", "TransactionOutputRef", "ScriptPubkeyRef"}
  /\ "none" \notin Owner \cup RefClass /\ "BtcKError" \notin Class
  /\ \A c \in RefClass : c \notin Owner
BY DEF Owner, RefClass, Ref, Class

LEMMA WithPartsHas ==
  ASSUME NEW S
  PROVE  S \subseteq Values!WithParts(S) /\ \A y \in S : PartOf[y] \subseteq Values!WithParts(S)
BY DEF Values!WithParts

LEMMA ReachFacts ==
  ASSUME NEW x
  PROVE  /\ \A c \in Class \cup RefClass : x \in Reach(x, c) /\ Reach(x, c) \subseteq Values!Inside(x)
         /\ \A c \in Class : Reach(x, Ref[c]) = Reach(x, c)
         /\ \A y \in Reach(x, "Transaction") : PartOf[y] \subseteq Reach(x, "TransactionOutput")
         /\ \A y \in Reach(x, "TransactionOutput") : PartOf[y] \subseteq Reach(x, "ScriptPubkey")
<1> DEFINE A == {x}
           B == Values!WithParts(A)
           C == Values!WithParts(B)
<1>1. /\ A \subseteq B /\ B \subseteq C /\ C \subseteq Values!Inside(x)
      /\ \A y \in A : PartOf[y] \subseteq B
      /\ \A y \in B : PartOf[y] \subseteq C
  <2> HIDE DEF A
  <2>1. Values!Inside(x) = Values!WithParts(C)
    BY DEF Values!Inside, A
  <2> QED
    BY <2>1, WithPartsHas
<1>2. /\ Reach(x, "Transaction") = A /\ Reach(x, Ref["Transaction"]) = A
      /\ Reach(x, "TransactionOutput") = B /\ Reach(x, Ref["TransactionOutput"]) = B
      /\ Reach(x, "ScriptPubkey") = C /\ Reach(x, Ref["ScriptPubkey"]) = C
  BY DEF Reach, Ref
<1>3. \A c \in Class \cup RefClass :
        c \in {"Transaction", "TransactionOutput", "ScriptPubkey", Ref["Transaction"],
               Ref["TransactionOutput"], Ref["ScriptPubkey"]}
  BY DEF Class, RefClass
<1>4. x \in A
  OBVIOUS
<1> HIDE DEF A, B, C
<1>5. \A c \in Class \cup RefClass : x \in Reach(x, c) /\ Reach(x, c) \subseteq Values!Inside(x)
  BY <1>1, <1>2, <1>3, <1>4
<1> QED
  BY <1>1, <1>2, <1>5 DEF Class

-----------------------------------------------------------------------------
(* Steps.                                                                  *)

LEMMA Types ==
  ASSUME IInv
  PROVE  /\ class \in [Inst -> Owner \cup RefClass \cup {"none"}]
         /\ ptr \in [Inst -> [obj : Obj \cup {Null}, value : Value \cup {Garbage}]]
         /\ held \in [Inst -> 0..MaxHeld]
         /\ live \subseteq Obj
         /\ \A i \in Inst : class[i] = "none" <=> held[i] = 0
BY DEF IInv, PointerShape, TypeOK

LEMMA InitInv == Init => IInv
<1> SUFFICES ASSUME Init PROVE IInv
  OBVIOUS
<1> USE DEF Init
<1>1. PointerShape
  BY MaxHeldAssumption, Classes DEF PointerShape, TypeOK, NullPtr, StandsFor, Class
<1>2. OwnerShape /\ ViewShape
  BY Classes DEF OwnerShape, ViewShape, Owns, StandsFor
<1> QED
  BY <1>1, <1>2 DEF IInv

\* What Make writes.
LEMMA Made ==
  ASSUME IInv, NEW i \in Inst, NEW c \in Owner \cup RefClass,
         NEW p \in [obj : Obj, value : Value \cup {Garbage}],
         c \in Class \cup RefClass => p.value \in Value,
         NEW L \in SUBSET Obj, Make(i, c, p), live' = L
  PROVE  /\ PointerShape'
         /\ class[i] = "none" /\ ptr[i].obj = Null /\ p.obj # Null
         /\ class'[i] = c /\ ptr'[i] = p
         /\ \A j \in Inst \ {i} : class'[j] = class[j] /\ ptr'[j] = ptr[j]
<1>1. /\ class'[i] = c /\ ptr'[i] = p /\ held'[i] = 1
      /\ \A j \in Inst \ {i} : class'[j] = class[j] /\ ptr'[j] = ptr[j] /\ held'[j] = held[j]
  BY Types DEF Make
<1>2. class[i] = "none" /\ ptr[i].obj = Null /\ p.obj # Null
  BY NullAssumption DEF IInv, PointerShape, Make, NullPtr
<1>3. TypeOK'
  <2>1. p \in [obj : Obj \cup {Null}, value : Value \cup {Garbage}]
    OBVIOUS
  <2>2. /\ class' \in [Inst -> Owner \cup RefClass \cup {"none"}]
        /\ ptr' \in [Inst -> [obj : Obj \cup {Null}, value : Value \cup {Garbage}]]
        /\ held' \in [Inst -> 0..MaxHeld]
    BY Types, <2>1, MaxHeldAssumption DEF Make
  <2>3. \A j \in Inst : class'[j] = "none" <=> held'[j] = 0
    BY <1>1, Types, Classes
  <2> QED
    BY <2>2, <2>3 DEF TypeOK
<1> QED
  BY <1>1, <1>2, <1>3, Classes DEF IInv, PointerShape, StandsFor

\* An instance begins with a new object.
LEMMA OwnInv ==
  ASSUME IInv, NEW i \in Inst, NEW c \in Owner, NEW o \in Fresh, NEW x \in Value \cup {Garbage},
         c \in Class => x \in Value,
         Make(i, c, [obj |-> o, value |-> x]), live' = live \cup {o}
  PROVE  IInv'
<1> DEFINE p == [obj |-> o, value |-> x]
<1>1. o \in Obj /\ o \notin live /\ \A j \in Inst : ptr[j].obj # o
  BY DEF Fresh
<1>2. p \in [obj : Obj, value : Value \cup {Garbage}] /\ p.obj = o /\ p.value = x
  BY <1>1
<1>3. c \in Class \cup RefClass => p.value \in Value
  BY <1>2, Classes
<1>4. live \cup {o} \in SUBSET Obj
  BY <1>1, Types
<1>5. Make(i, c, p)
  OBVIOUS
<1> HIDE DEF p
<1>6. /\ PointerShape'
      /\ class[i] = "none" /\ class'[i] = c /\ ptr'[i] = p
      /\ \A j \in Inst \ {i} : class'[j] = class[j] /\ ptr'[j] = ptr[j]
  BY <1>2, <1>3, <1>4, <1>5, Made
<1>7. OwnerShape'
  BY <1>1, <1>2, <1>6, Classes DEF IInv, OwnerShape, Owns
<1>8. ViewShape'
  <2> SUFFICES ASSUME NEW j \in Inst, NEW k \in Inst, Owns(k)', StandsFor(j)', ptr'[j].obj = ptr'[k].obj
               PROVE  class'[k] \in Class /\ ptr'[j].value \in Reach(ptr'[k].value, class'[j])
    BY DEF ViewShape, Reach
  <2>1. CASE j = i
    <3>1. k = i
      BY <1>1, <1>2, <1>6, <2>1
    <3>2. c \in Class
      BY <1>6, <2>1, Classes DEF StandsFor, Owner
    <3> QED
      BY <1>6, <2>1, <3>1, <3>2, ReachFacts
  <2>2. CASE j # i
    <3>1. k # i
      BY <1>1, <1>2, <1>6, <2>2
    <3> QED
      BY <1>6, <2>2, <3>1 DEF IInv, ViewShape, Owns, StandsFor
  <2> QED
    BY <2>1, <2>2
<1> QED
  BY <1>6, <1>7, <1>8 DEF IInv

LEMMA MakeOrThrowInv ==
  ASSUME IInv, NEW i \in Inst, NEW c \in Class, NEW values \in SUBSET Value,
         MakeOrThrow(i, c, values)
  PROVE  IInv'
<1>1. PICK o \in Fresh :
        /\ live' = live \cup {o}
        /\ \/ \E x \in values : Make(i, c, [obj |-> o, value |-> x])
           \/ Make(i, "BtcKError", [obj |-> o, value |-> Garbage])
  BY DEF MakeOrThrow
<1>2. c \in Owner /\ "BtcKError" \in Owner /\ "BtcKError" \notin Class
  BY Classes DEF Owner
<1> QED
  BY <1>1, <1>2, OwnInv

\* A Ref begins with the pointer of what is used.
LEMMA ReferInv ==
  ASSUME IInv, NEW i \in Inst, NEW j \in Inst, Subscript(i, j) \/ ScriptPubkey(i, j)
  PROVE  IInv'
<1>1. PICK c \in {"Transaction", "TransactionOutput"}, part \in Class :
        /\ Refer(i, j, c, part)
        /\ \A x : \A y \in Reach(x, c) : PartOf[y] \subseteq Reach(x, part)
  BY ReachFacts DEF Subscript, ScriptPubkey, Class
<1>2. PICK x \in PartOf[ptr[j].value] : Make(i, Ref[part], [obj |-> ptr[j].obj, value |-> x])
  BY <1>1 DEF Refer
<1> DEFINE p == [obj |-> ptr[j].obj, value |-> x]
<1>3. c \in Class /\ class[j] \in {c, Ref[c]} /\ ptr[j].obj \in live /\ live' = live
  BY <1>1 DEF Refer, Is, Usable, Class
<1>4. StandsFor(j) /\ ptr[j].value \in Value /\ class[j] \notin {"none", "BtcKError"}
  BY <1>3, Classes DEF IInv, PointerShape, StandsFor, RefClass, Class
<1>5. p \in [obj : Obj, value : Value \cup {Garbage}] /\ p.obj = ptr[j].obj /\ p.value = x /\ x \in Value
  BY <1>2, <1>3, <1>4, Types, ValueAssumption
<1>6. Ref[part] \in RefClass /\ Ref[part] \in Owner \cup RefClass /\ Ref[part] \notin Owner
  BY Classes DEF RefClass
<1>7. Make(i, Ref[part], p) /\ live \in SUBSET Obj
  BY <1>2, Types
<1> HIDE DEF p
<1>8. /\ PointerShape'
      /\ class[i] = "none" /\ class'[i] = Ref[part] /\ ptr'[i] = p
      /\ \A k \in Inst \ {i} : class'[k] = class[k] /\ ptr'[k] = ptr[k]
  BY <1>3, <1>5, <1>6, <1>7, Made
<1>9. OwnerShape'
  BY <1>3, <1>6, <1>8, Classes DEF IInv, OwnerShape, Owns
<1>10. ViewShape'
  <2> SUFFICES ASSUME NEW l \in Inst, NEW k \in Inst, Owns(k)', StandsFor(l)', ptr'[l].obj = ptr'[k].obj
               PROVE  class'[k] \in Class /\ ptr'[l].value \in Reach(ptr'[k].value, class'[l])
    BY DEF ViewShape, Reach
  <2>1. k # i /\ Owns(k) /\ ptr'[k] = ptr[k] /\ class'[k] = class[k]
    BY <1>6, <1>8 DEF Owns
  <2>2. CASE l = i
    <3>1. ptr[j].obj = ptr[k].obj
      BY <1>5, <1>8, <2>1, <2>2
    <3>2. class[k] \in Class /\ ptr[j].value \in Reach(ptr[k].value, class[j])
      BY <1>4, <2>1, <3>1 DEF IInv, ViewShape
    <3>3. Reach(ptr[k].value, class[j]) = Reach(ptr[k].value, c)
      BY <1>3, ReachFacts
    <3>4. x \in Reach(ptr[k].value, part)
      BY <1>1, <1>2, <3>2, <3>3
    <3>5. Reach(ptr[k].value, Ref[part]) = Reach(ptr[k].value, part)
      BY ReachFacts
    <3> QED
      BY <1>5, <1>8, <2>1, <2>2, <3>2, <3>4, <3>5
  <2>3. CASE l # i
    BY <1>8, <2>1, <2>3 DEF IInv, ViewShape, StandsFor
  <2> QED
    BY <2>2, <2>3
<1> QED
  BY <1>8, <1>9, <1>10 DEF IInv

LEMMA CopyInv ==
  ASSUME IInv, NEW i \in Inst, NEW j \in Inst, Copy(i, j) PROVE IInv'
<1>1. StandsFor(j)
  BY DEF Copy, Is, StandsFor, Class, RefClass
<1>2. {ptr[j].value} \in SUBSET Value /\ "ScriptPubkey" \in Class
  BY <1>1 DEF IInv, PointerShape, Class
<1> QED
  BY <1>2, MakeOrThrowInv DEF Copy

\* References come and go without anything else.
LEMMA HeldInv ==
  ASSUME IInv, UNCHANGED <<class, ptr, live>>, held' \in [Inst -> 0..MaxHeld],
         \A i \in Inst : held'[i] = 0 <=> held[i] = 0
  PROVE  IInv'
<1>1. PointerShape'
  BY DEF IInv, PointerShape, TypeOK, StandsFor
<1>2. OwnerShape' /\ ViewShape'
  BY DEF IInv, OwnerShape, ViewShape, Owns, StandsFor
<1> QED
  BY <1>1, <1>2 DEF IInv

\* The last reference goes: i is gone, and with it what it owned.
LEMMA EndInv ==
  ASSUME IInv, NEW i \in Inst, held[i] = 1,
         held' = [held EXCEPT ![i] = @ - 1], Deinit(i, Owner),
         class' = [class EXCEPT ![i] = "none"], ptr' = [ptr EXCEPT ![i] = NullPtr]
  PROVE  IInv'
<1>1. /\ class'[i] = "none" /\ ptr'[i] = NullPtr /\ held'[i] = 0
      /\ \A j \in Inst \ {i} : class'[j] = class[j] /\ ptr'[j] = ptr[j] /\ held'[j] = held[j]
  BY Types
<1>2. live' = IF Owns(i) THEN live \ {ptr[i].obj} ELSE live
  BY DEF Deinit, Owns
<1>3. PointerShape'
  <2>1. held' \in [Inst -> 0..MaxHeld]
    BY Types, MaxHeldAssumption
  <2>2. TypeOK'
    BY <1>1, <1>2, <2>1, Types DEF TypeOK, NullPtr
  <2> QED
    BY <1>1, <2>2, Classes DEF IInv, PointerShape, StandsFor, Class
<1>4. OwnerShape'
  BY <1>1, <1>2, Classes DEF IInv, OwnerShape, Owns
<1>5. ViewShape'
  BY <1>1, Classes DEF IInv, ViewShape, Owns, StandsFor, Class
<1> QED
  BY <1>3, <1>4, <1>5 DEF IInv

LEMMA CountInv ==
  ASSUME IInv, NEW i \in Inst, Retain(i) \/ Release(i) PROVE IInv'
<1>1. CASE Retain(i)
  <2>1. held' \in [Inst -> 0..MaxHeld] /\ \A j \in Inst : held'[j] = 0 <=> held[j] = 0
    BY <1>1, Types, MaxHeldAssumption DEF Retain
  <2> QED
    BY <1>1, <2>1, HeldInv DEF Retain
<1>2. CASE Release(i) /\ held[i] > 1
  <2>1. held' \in [Inst -> 0..MaxHeld] /\ \A j \in Inst : held'[j] = 0 <=> held[j] = 0
    BY <1>2, Types, MaxHeldAssumption DEF Release, Drop
  <2> QED
    BY <1>2, <2>1, HeldInv DEF Release, Drop
<1>3. CASE Release(i) /\ ~(held[i] > 1)
  <2>1. held[i] = 1
    BY <1>3, Types, MaxHeldAssumption DEF Release, Drop
  <2> QED
    BY <1>3, <2>1, EndInv DEF Release, Drop
<1> QED
  BY <1>1, <1>2, <1>3

LEMMA NextInv == ASSUME IInv, [Next]_vars PROVE IInv'
<1>1. ASSUME NEW i \in Inst, NewTransaction(i) \/ NewScriptPubkey(i) PROVE IInv'
  BY <1>1, MakeOrThrowInv, ValueAssumption DEF NewTransaction, NewScriptPubkey, Class
<1>2. ASSUME NEW i \in Inst, NEW j \in Inst, NewTransactionOutput(i, j) PROVE IInv'
  <2>1. {x \in Value : ptr[j].value \in PartOf[x]} \in SUBSET Value /\ "TransactionOutput" \in Class
    BY DEF Class
  <2> QED
    BY <1>2, <2>1, MakeOrThrowInv DEF NewTransactionOutput
<1>3. CASE UNCHANGED vars
  BY <1>3, HeldInv, Types DEF vars
<1> QED
  BY <1>1, <1>2, <1>3, ReferInv, CopyInv, CountInv DEF Next

\* The strengthened invariant holds in every state (all of SwiftObjects).
THEOREM Invariance == Spec => []IInv
<1>1. Init => IInv
  BY InitInv
<1>2. IInv /\ [Next]_vars => IInv'
  BY NextInv
<1> QED
  BY <1>1, <1>2, PTL DEF Spec

-----------------------------------------------------------------------------
(* The properties.                                                         *)

\* Every state is well-typed; an instance is there as long as it is referred to (ARC,
\* init and deinit of the classes).
THEOREM TypeCorrect == Spec => []TypeOK
<1>1. IInv => TypeOK
  BY DEF IInv, PointerShape
<1> QED
  BY <1>1, Invariance, PTL

\* Whatever a program makes, copies, refers to and lets go, and whatever throws, what
\* the library has allocated has one instance that frees it (deinit of the classes).
THEOREM ObjectsHaveOneOwner == Spec => []OneOwner
<1>1. IInv => OneOwner
  <2> SUFFICES ASSUME IInv PROVE OneOwner
    OBVIOUS
  <2>1. ASSUME NEW o \in live PROVE Cardinality(OwnersOf(o)) = 1
    <3>1. PICK i \in Inst : Owns(i) /\ ptr[i].obj = o
      BY DEF IInv, OwnerShape
    <3>2. OwnersOf(o) = {i}
      BY <3>1 DEF IInv, OwnerShape, OwnersOf, Owns
    <3> QED
      BY <3>2, FS_Singleton
  <2>2. \A i \in Inst : class[i] \in Owner => ptr[i].obj \in live
    BY DEF IInv, OwnerShape, Owns
  <2> QED
    BY <2>1, <2>2 DEF OneOwner
<1> QED
  BY <1>1, Invariance, PTL

-----------------------------------------------------------------------------
(* SwiftObjects implements OwnedValues.                                    *)

LEMMA MeaningFacts ==
  ASSUME IInv, NEW i \in Inst
  PROVE  /\ class[i] \in Class => Meaning(i) = ptr[i].value /\ Meaning(i) \in Value
         /\ class[i] \notin Class => Meaning(i) = Garbage
         /\ Meaning(i) = Garbage <=> class[i] \notin Class
<1>1. class[i] \in Class => ptr[i].obj \in live /\ ptr[i].value \in Value
  BY DEF IInv, OwnerShape, PointerShape, Owns, StandsFor, Owner
<1> QED
  BY <1>1, ValueAssumption DEF Meaning

\* What an instance that may be used points at is in what some instance stands for.
LEMMA UsablePresent ==
  ASSUME IInv, NEW j \in Inst, StandsFor(j), ptr[j].obj \in live
  PROVE  ptr[j].value \in Values!Present
<1>1. PICK k \in Inst : Owns(k) /\ ptr[k].obj = ptr[j].obj
  BY DEF IInv, OwnerShape
<1>2. class[k] \in Class /\ ptr[j].value \in Reach(ptr[k].value, class[j])
  BY <1>1 DEF IInv, ViewShape
<1>3. Meaning(k) = ptr[k].value /\ Meaning(k) # Garbage
  BY <1>2, MeaningFacts
<1>4. ptr[j].value \in Values!Inside(Meaning(k))
  BY <1>2, <1>3, ReachFacts DEF StandsFor
<1>5. valBar[k] = Meaning(k)
  BY DEF valBar
<1> QED
  BY <1>3, <1>4, <1>5 DEF Values!Present

LEMMA SameMeaning ==
  ASSUME \A i \in Inst : Meaning(i)' = Meaning(i)
  PROVE  UNCHANGED valBar
BY DEF valBar

\* A new instance stands for its value, or for none if it is an error or a Ref, and
\* the others for what they have stood for.
LEMMA MakeMeaning ==
  ASSUME IInv, IInv', NEW i \in Inst, NEW c, NEW p, Make(i, c, p)
  PROVE  /\ c \in Class => Values!Make(i, p.value)
         /\ c \notin Class => UNCHANGED valBar
<1>1. /\ class[i] = "none" /\ class'[i] = c /\ ptr'[i] = p
      /\ \A j \in Inst \ {i} : class'[j] = class[j] /\ ptr'[j] = ptr[j]
  BY Types DEF Make
<1>2. \A j \in Inst : /\ class'[j] \in Class => Meaning(j)' = ptr'[j].value
                      /\ class'[j] \notin Class => Meaning(j)' = Garbage
  BY DEF IInv, OwnerShape, Owns, Owner, Meaning
<1>3. \A j \in Inst \ {i} : Meaning(j)' = Meaning(j)
  BY <1>1, <1>2, MeaningFacts
<1>4. Meaning(i) = Garbage
  BY <1>1, MeaningFacts DEF Class
<1>5. c \in Class => Meaning(i)' = p.value
  BY <1>1, <1>2
<1>6. c \notin Class => Meaning(i)' = Garbage
  BY <1>1, <1>2
<1>7. ASSUME c \in Class PROVE Values!Make(i, p.value)
  BY <1>3, <1>4, <1>5, <1>7 DEF Values!Make, valBar
<1>8. ASSUME c \notin Class PROVE UNCHANGED valBar
  BY <1>3, <1>4, <1>6, <1>8, SameMeaning
<1> QED
  BY <1>7, <1>8

\* A constructor makes one of the values, or changes none.
LEMMA MakeOrThrowMeaning ==
  ASSUME IInv, NEW i \in Inst, NEW c \in Class, NEW values \in SUBSET Value,
         MakeOrThrow(i, c, values)
  PROVE  (\E x \in values : Values!Make(i, x)) \/ UNCHANGED valBar
<1>1. PICK o \in Fresh :
        \/ \E x \in values : Make(i, c, [obj |-> o, value |-> x])
        \/ Make(i, "BtcKError", [obj |-> o, value |-> Garbage])
  BY DEF MakeOrThrow
<1>2. IInv'
  BY MakeOrThrowInv
<1>3. "BtcKError" \notin Class
  BY Classes
<1>4. ASSUME NEW x \in values, Make(i, c, [obj |-> o, value |-> x]) PROVE Values!Make(i, x)
  BY <1>2, <1>4, MakeMeaning
<1>5. ASSUME Make(i, "BtcKError", [obj |-> o, value |-> Garbage]) PROVE UNCHANGED valBar
  BY <1>2, <1>3, <1>5, MakeMeaning
<1> QED
  BY <1>1, <1>4, <1>5

LEMMA ReleaseIsForget ==
  ASSUME IInv, NEW i \in Inst, Release(i) PROVE Values!Forget(i) \/ UNCHANGED valBar
<1>1. IInv'
  BY CountInv
<1>2. CASE held[i] > 1
  BY <1>2, SameMeaning DEF Release, Drop, Meaning
<1>3. CASE ~(held[i] > 1)
  <2>1. class'[i] = "none" /\ \A j \in Inst \ {i} : class'[j] = class[j] /\ ptr'[j] = ptr[j]
    BY <1>3, Types DEF Release, Drop
  <2>2. \A j \in Inst : /\ class'[j] \in Class => Meaning(j)' = ptr'[j].value
                        /\ class'[j] \notin Class => Meaning(j)' = Garbage
    BY <1>1 DEF IInv, OwnerShape, Owns, Owner, Meaning
  <2>3. Meaning(i)' = Garbage
    BY <2>1, <2>2 DEF Class
  <2>4. \A j \in Inst \ {i} : Meaning(j)' = Meaning(j)
    BY <2>1, <2>2, MeaningFacts
  <2> QED
    BY <2>3, <2>4 DEF Values!Forget, valBar
<1> QED
  BY <1>2, <1>3

\* Every step is a step of the plain values, or changes none of them.
LEMMA NextIsValues ==
  ASSUME IInv, [Next]_vars
  PROVE  Values!Next \/ UNCHANGED valBar
<1>1. ASSUME NEW i \in Inst, NewTransaction(i) \/ NewScriptPubkey(i)
      PROVE  Values!Next \/ UNCHANGED valBar
  <2>1. (\E x \in Raw : Values!Make(i, x)) \/ UNCHANGED valBar
    BY <1>1, MakeOrThrowMeaning, ValueAssumption DEF NewTransaction, NewScriptPubkey, Class
  <2> QED
    BY <2>1 DEF Values!Next, Values!New
<1>2. ASSUME NEW i \in Inst, NEW s \in Inst, NewTransactionOutput(i, s)
      PROVE  Values!Next \/ UNCHANGED valBar
  <2> DEFINE around == {x \in Value : ptr[s].value \in PartOf[x]}
  <2>1. around \in SUBSET Value /\ "TransactionOutput" \in Class
    BY DEF Class
  <2>2. MakeOrThrow(i, "TransactionOutput", around)
    BY <1>2 DEF NewTransactionOutput
  <2>3. ptr[s].value \in Values!Present
    <3>1. StandsFor(s) /\ ptr[s].obj \in live
      BY <1>2 DEF NewTransactionOutput, StandsFor, Class, IInv, OwnerShape, Owns, Owner
    <3> QED
      BY <3>1, UsablePresent
  <2> HIDE DEF around
  <2>4. (\E x \in around : Values!Make(i, x)) \/ UNCHANGED valBar
    BY <2>1, <2>2, MakeOrThrowMeaning
  <2>5. \A x \in around : x \in Value /\ PartOf[x] \cap Values!Present # {}
    BY <2>3 DEF around
  <2> QED
    BY <2>4, <2>5 DEF Values!Next, Values!NewAround
<1>3. ASSUME NEW i \in Inst, NEW j \in Inst, Subscript(i, j) \/ ScriptPubkey(i, j)
      PROVE  UNCHANGED valBar
  <2>1. PICK part \in Class : \E p : Make(i, Ref[part], p)
    BY <1>3 DEF Subscript, ScriptPubkey, Refer, Class
  <2>2. Ref[part] \notin Class
    BY DEF Ref, Class
  <2>3. IInv'
    BY <1>3, ReferInv
  <2> QED
    BY <2>1, <2>2, <2>3, MakeMeaning
<1>4. ASSUME NEW i \in Inst, NEW j \in Inst, Copy(i, j)
      PROVE  Values!Next \/ UNCHANGED valBar
  <2>1. StandsFor(j) /\ ptr[j].obj \in live
    BY <1>4 DEF Copy, Is, Usable, StandsFor, Class, RefClass
  <2>2. ptr[j].value \in Values!Present /\ {ptr[j].value} \in SUBSET Value /\ "ScriptPubkey" \in Class
    BY <2>1, UsablePresent DEF IInv, PointerShape, Class
  <2>3. (\E x \in {ptr[j].value} : Values!Make(i, x)) \/ UNCHANGED valBar
    BY <1>4, <2>2, MakeOrThrowMeaning DEF Copy
  <2> QED
    BY <2>2, <2>3 DEF Values!Next, Values!Copy
<1>5. ASSUME NEW i \in Inst, Retain(i) PROVE UNCHANGED valBar
  BY <1>5, SameMeaning DEF Retain, Meaning
<1>6. ASSUME NEW i \in Inst, Release(i) PROVE Values!Next \/ UNCHANGED valBar
  BY <1>6, ReleaseIsForget DEF Values!Next
<1>7. CASE UNCHANGED vars
  BY <1>7, SameMeaning DEF vars, Meaning
<1> QED
  BY <1>1, <1>2, <1>3, <1>4, <1>5, <1>6, <1>7 DEF Next

\* Instances that own are values, for any instances, objects and values: neither the
\* end of another instance nor an error changes what one stands for, and a script
\* copied out of a Ref is inside of what some instance stands for.
THEOREM Refinement == Spec => ImplementsOwnedValues
<1>1. Init => Values!Init
  BY DEF Init, Values!Init, valBar, Meaning, Class
<1>2. IInv /\ [Next]_vars => [Values!Next]_valBar
  BY NextIsValues
<1>3. Spec => []IInv
  BY Invariance
<1> QED
  BY <1>1, <1>2, <1>3, PTL DEF Spec, ImplementsOwnedValues, Values!Spec
=============================================================================
