---------------------------- MODULE PythonProofs ----------------------------
(***************************************************************************)
(* Proofs about the Python binding.  PyObjects, for any number of objects, *)
(* names and views: reference counts are exact, objects of the library     *)
(* have one owner, what is sliced is there, and out of reach there is only *)
(* what a view keeps.  Slices, for any lengths, bounds and steps: an item  *)
(* of slices of slices is the item of the list that is sliced in the same  *)
(* way.                                                                    *)
(***************************************************************************)
EXTENDS PyObjects, Slices, FiniteSetTheorems, SequenceTheorems, TLAPS

-----------------------------------------------------------------------------
(* Slices of an object.                                                    *)

LEMMA SlicesFinite ==
  ASSUME NEW o PROVE IsFiniteSet(SlicesOf(o)) /\ Cardinality(SlicesOf(o)) \in Nat
<1>1. SlicesOf(o) \subseteq Obj
  BY DEF SlicesOf
<1>2. IsFiniteSet(SlicesOf(o))
  BY <1>1, FiniteAssumption, FS_Subset
<1> QED
  BY <1>2, FS_CardinalityType

\* The numbers of slices stay, if slices do.
LEMMA SlicesStay ==
  ASSUME \A s \in Obj : IsSlice(s)' <=> IsSlice(s),
         \A s \in Obj : IsSlice(s) => base'[s] = base[s],
         NEW o
  PROVE  SlicesOf(o)' = SlicesOf(o)
BY DEF SlicesOf

\* An object that nothing refers to has no slices.
LEMMA NoSlices ==
  ASSUME IInv, NEW o \in Obj, count[o] = 0
  PROVE  SlicesOf(o) = {} /\ held[o] = 0 /\ pinned[o] = 0
<1>1. /\ count[o] = held[o] + Cardinality(SlicesOf(o)) + pinned[o]
      /\ held[o] \in Nat /\ pinned[o] \in Nat
  BY MaxHeldAssumption, MaxPinsAssumption DEF IInv, Counts, CellShape
<1>2. Cardinality(SlicesOf(o)) = 0 /\ held[o] = 0 /\ pinned[o] = 0
  BY <1>1, SlicesFinite
<1> QED
  BY <1>2, SlicesFinite, FS_EmptySet

-----------------------------------------------------------------------------
(* Steps.                                                                  *)

LEMMA InitInv == Init => IInv
<1> SUFFICES ASSUME Init PROVE IInv
  OBVIOUS
<1> USE DEF Init
<1>1. CellShape
  BY MaxHeldAssumption, MaxPinsAssumption DEF CellShape, IsSlice, IsWrapper
<1>2. SliceShape /\ CallShape
  BY DEF SliceShape, IsSlice, CallShape, Unreferenced
<1>3. OwnerShape
  BY NullAssumption DEF OwnerShape, Nothing
<1>4. Counts
  <2> SUFFICES ASSUME NEW o \in Obj PROVE Cardinality(SlicesOf(o)) = 0
    BY DEF Counts
  <2>1. SlicesOf(o) = {}
    BY DEF SlicesOf, IsSlice
  <2> QED
    BY <2>1, FS_EmptySet
<1> QED
  BY <1>1, <1>2, <1>3, <1>4 DEF IInv

\* While cells stay as they are, so do their parts of the invariant.
LEMMA CellsStay ==
  ASSUME IInv, UNCHANGED cells PROVE CellShape' /\ SliceShape' /\ Counts'
<1> USE DEF cells, references
<1>1. CellShape' /\ SliceShape'
  BY DEF IInv, CellShape, SliceShape, IsSlice, IsWrapper
<1>2. Counts'
  BY SlicesStay DEF IInv, Counts, IsSlice
<1> QED
  BY <1>1, <1>2

\* How a call may go on that has got something of the library, or nothing.
LEMMA CallGoesOn ==
  ASSUME IInv, pc # "wrap", Unreferenced' = {}, UNCHANGED impl,
         NEW ty \in Wrapper, Got(ty) \/ GotNull(ty) \/ Failed
  PROVE  CallShape' /\ OwnerShape'
<1>1. got = Nothing /\ NoImpl \notin Impl /\ NoImpl \notin live
  BY NullAssumption DEF IInv, CallShape, OwnerShape
<1>2. CASE Got(ty)
  <2>1. PICK im \in Impl \ live : live' = live \cup {im} /\ got' = [type |-> ty, impl |-> im]
    BY <1>2 DEF Got
  <2>2. pc' = "wrap" /\ at' = at
    BY <1>2 DEF Got
  <2>3. CallShape'
    BY <2>1, <2>2 DEF IInv, CallShape
  <2>4. OwnerShape'
    BY <1>1, <2>1 DEF IInv, OwnerShape, Nothing
  <2> QED
    BY <2>3, <2>4
<1>3. CASE GotNull(ty)
  <2>1. CallShape'
    BY <1>3 DEF GotNull, IInv, CallShape
  <2>2. OwnerShape'
    BY <1>1, <1>3 DEF GotNull, IInv, OwnerShape, Nothing
  <2> QED
    BY <2>1, <2>2
<1>4. CASE Failed
  <2>1. CallShape'
    BY <1>4 DEF Failed, Fail, CallShape
  <2>2. OwnerShape'
    BY <1>1, <1>4 DEF Failed, Fail, IInv, OwnerShape
  <2> QED
    BY <2>1, <2>2
<1> QED
  BY <1>2, <1>3, <1>4

LEMMA CrashInv == ASSUME IInv, Running, Crash PROVE IInv'
<1>1. CellShape' /\ SliceShape' /\ Counts'
  BY CellsStay DEF Crash
<1>2. CallShape' /\ OwnerShape'
  BY DEF Crash, Running, IInv, CallShape, OwnerShape, cells, references, Unreferenced
<1> QED
  BY <1>1, <1>2 DEF IInv

\* Nothing changes but what the call has got.
LEMMA CallInv ==
  ASSUME IInv, pc # "wrap", Unreferenced = {}, UNCHANGED cells,
         NEW ty \in Wrapper, Got(ty) \/ GotNull(ty) \/ Failed
  PROVE  IInv'
<1>1. CellShape' /\ SliceShape' /\ Counts'
  BY CellsStay
<1>2. Unreferenced' = {} /\ UNCHANGED impl
  BY DEF Unreferenced, cells, references
<1>3. CallShape' /\ OwnerShape'
  BY <1>2, CallGoesOn
<1> QED
  BY <1>1, <1>3 DEF IInv

LEMMA FailedInv ==
  ASSUME IInv, pc # "wrap", Unreferenced = {}, UNCHANGED cells, Failed PROVE IInv'
<1>1. "Block" \in Wrapper
  BY DEF Wrapper
<1> QED
  BY <1>1, CallInv

\* A view counts as a reference.
LEMMA ViewCells ==
  ASSUME IInv, NEW e \in Obj, View(e), count' = More(count, e), UNCHANGED <<type, impl, base, held>>
  PROVE  CellShape' /\ SliceShape' /\ Counts' /\ Unreferenced' = {}
<1>1. /\ type[e] \in Exporter /\ Running /\ pinned[e] < MaxPins
      /\ pinned' = More(pinned, e)
  BY DEF View, Calls
<1>2. /\ count \in [Obj -> Nat] /\ pinned \in [Obj -> 0..MaxPins]
      /\ \A o \in Obj : held[o] \in Nat
  BY MaxHeldAssumption DEF IInv, CellShape
<1>3. /\ \A o \in Obj : count'[o] = IF o = e THEN count[o] + 1 ELSE count[o]
      /\ \A o \in Obj : pinned'[o] = IF o = e THEN pinned[o] + 1 ELSE pinned[o]
      /\ count' \in [Obj -> Nat] /\ pinned' \in [Obj -> 0..MaxPins]
  BY <1>1, <1>2, MaxPinsAssumption DEF More
<1>4. type[e] # "none"
  BY <1>1 DEF Exporter
<1>5. CellShape'
  BY <1>3, <1>4 DEF IInv, CellShape, IsSlice, IsWrapper
<1>6. SliceShape'
  BY DEF IInv, SliceShape, IsSlice
<1>7. Counts'
  <2> SUFFICES ASSUME NEW o \in Obj
               PROVE  count'[o] = held'[o] + Cardinality(SlicesOf(o)') + pinned'[o]
    BY DEF Counts
  <2>1. SlicesOf(o)' = SlicesOf(o) /\ Cardinality(SlicesOf(o)) \in Nat
    BY SlicesStay, SlicesFinite DEF IsSlice
  <2>2. count[o] = held[o] + Cardinality(SlicesOf(o)) + pinned[o]
    BY DEF IInv, Counts
  <2> QED
    BY <1>2, <1>3, <2>1, <2>2, MaxPinsAssumption
<1>8. Unreferenced' = {}
  BY <1>1, <1>2, <1>3 DEF Running, Unreferenced
<1> QED
  BY <1>5, <1>6, <1>7, <1>8

LEMMA ConstructorInv ==
  ASSUME IInv, NewBlock \/ NewTransaction \/ NewScriptPubkey \/ ViewAnd(Failed) PROVE IInv'
<1>1. PICK ty \in Wrapper : ViewAnd(Got(ty) \/ GotNull(ty)) \/ ViewAnd(Got(ty) \/ Failed) \/ ViewAnd(Failed)
  BY DEF NewBlock, NewTransaction, NewScriptPubkey, Wrapper
<1>2. PICK e \in Obj : View(e) /\ count' = More(count, e)
  BY <1>1 DEF ViewAnd
<1>3. UNCHANGED <<type, impl, base, held>> /\ (Got(ty) \/ GotNull(ty) \/ Failed)
  BY <1>1 DEF ViewAnd
<1>4. pc # "wrap"
  BY <1>2 DEF View, Calls, Running
<1>5. CellShape' /\ SliceShape' /\ Counts' /\ Unreferenced' = {}
  BY <1>2, <1>3, ViewCells
<1>6. CallShape' /\ OwnerShape'
  BY <1>3, <1>4, <1>5, CallGoesOn
<1> QED
  BY <1>5, <1>6 DEF IInv

\* A new object that is no slice.  What has just been got goes into it, if anything.
LEMMA MakeInv ==
  ASSUME IInv, Unreferenced = {}, pc \in {"run", "wrap"}, NEW o \in Obj,
         NEW ty \in Wrapper \cup PlainValue, got.impl # NoImpl => ty \in Wrapper,
         NEW counts \in [Obj -> Nat],
         Make(o, ty, got.impl, NoObj, counts), UNCHANGED live,
         pinned' \in [Obj -> 0..MaxPins], pinned'[o] = 0,
         \A q \in Obj : type[q] = "none" => counts[q] = count[q] /\ pinned'[q] = pinned[q],
         \A q \in Obj : counts[q] >= count[q] /\ counts[q] - count[q] = pinned'[q] - pinned[q]
  PROVE  IInv'
<1>1. /\ type \in [Obj -> Wrapper \cup PlainValue \cup {"Slice", "none"}]
      /\ count \in [Obj -> Nat] /\ impl \in [Obj -> Impl \cup {NoImpl}]
      /\ base \in [Obj -> Obj \cup {NoObj}] /\ held \in [Obj -> 0..MaxHeld]
      /\ pinned \in [Obj -> 0..MaxPins] /\ live \subseteq Impl
      /\ got.impl \in Impl \cup {NoImpl} /\ NoImpl \notin Impl
  BY NullAssumption DEF IInv, CellShape, OwnerShape
<1>2. type[o] = "none" /\ ty \notin {"none", "Slice"}
  BY DEF Make, Wrapper, PlainValue, Exporter
<1>3. /\ type'[o] = ty /\ impl'[o] = got.impl /\ base'[o] = NoObj /\ count'[o] = 1 /\ held'[o] = 1
      /\ \A q \in Obj \ {o} : /\ type'[q] = type[q] /\ impl'[q] = impl[q] /\ base'[q] = base[q]
                             /\ count'[q] = counts[q] /\ held'[q] = held[q]
      /\ pc' = "run" /\ got' = Nothing /\ at' = NoObj
  BY <1>1 DEF Make
<1>4. impl[o] = NoImpl /\ base[o] = NoObj /\ count[o] = 0
  BY <1>2 DEF IInv, CellShape, IsWrapper, IsSlice, Wrapper
<1>5. \A q \in Obj : IsSlice(q)' <=> IsSlice(q)
  BY <1>2, <1>3 DEF IsSlice
<1>6. CellShape'
  <2>1. /\ type' \in [Obj -> Wrapper \cup PlainValue \cup {"Slice", "none"}]
        /\ count' \in [Obj -> Nat] /\ impl' \in [Obj -> Impl \cup {NoImpl}]
        /\ base' \in [Obj -> Obj \cup {NoObj}] /\ held' \in [Obj -> 0..MaxHeld]
    BY <1>1, MaxHeldAssumption DEF Make
  <2>2. ASSUME NEW q \in Obj, type'[q] = "none"
        PROVE  count'[q] = 0 /\ held'[q] = 0 /\ pinned'[q] = 0
    <3>1. q # o /\ type[q] = "none"
      BY <1>2, <1>3, <2>2
    <3>2. count[q] = 0 /\ held[q] = 0 /\ pinned[q] = 0
      BY <3>1 DEF IInv, CellShape
    <3>3. count'[q] = counts[q] /\ held'[q] = held[q]
      BY <1>3, <3>1
    <3>4. counts[q] = count[q] /\ pinned'[q] = pinned[q]
      BY <3>1
    <3> QED
      BY <3>2, <3>3, <3>4
  <2>3. \A q \in Obj : impl'[q] # NoImpl => IsWrapper(q)'
    BY <1>3 DEF IInv, CellShape, IsWrapper
  <2>4. \A q \in Obj : IsSlice(q)' <=> base'[q] # NoObj
    BY <1>3, <1>4, <1>5 DEF IInv, CellShape
  <2> QED
    BY <2>1, <2>2, <2>3, <2>4 DEF CellShape
<1>7. SliceShape'
  <2> SUFFICES ASSUME NEW s \in Obj, IsSlice(s)
               PROVE  /\ base'[s] # s
                      /\ type'[base'[s]] \in HasItems \cup {"Slice"}
                      /\ type'[base'[s]] \in HasItems => impl'[base'[s]] # NoImpl
    BY <1>5 DEF SliceShape
  <2>1. s # o /\ base'[s] = base[s]
    BY <1>2, <1>3 DEF IsSlice
  <2>2. /\ base[s] # s /\ type[base[s]] \in HasItems \cup {"Slice"}
        /\ type[base[s]] \in HasItems => impl[base[s]] # NoImpl
    BY DEF IInv, SliceShape
  <2>3. base[s] \in Obj
    BY <1>1 DEF IInv, CellShape
  <2>4. base[s] # o
    BY <1>2, <2>2 DEF HasItems
  <2> QED
    BY <1>3, <2>1, <2>2, <2>3, <2>4
<1>8. CallShape'
  BY <1>3 DEF CallShape
<1>9. OwnerShape'
  <2>1. live' \subseteq Impl /\ got' \in [type : Wrapper \cup {"none"}, impl : Impl \cup {NoImpl}]
    BY <1>1, <1>3 DEF Nothing
  <2>2. ASSUME NEW im \in Impl
        PROVE  im \in live' <=> got'.impl = im \/ \E q \in Obj : impl'[q] = im
    <3>1. im \in live <=> got.impl = im \/ \E q \in Obj : impl[q] = im
      BY DEF IInv, OwnerShape
    <3>2. (\E q \in Obj : impl'[q] = im) <=> got.impl = im \/ \E q \in Obj : impl[q] = im
      BY <1>1, <1>3, <1>4
    <3>3. got'.impl # im
      BY <1>1, <1>3 DEF Nothing
    <3> QED
      BY <3>1, <3>2, <3>3
  <2>3. \A q, r \in Obj : impl'[q] # NoImpl /\ impl'[q] = impl'[r] => q = r
    BY <1>3 DEF IInv, OwnerShape
  <2>4. \A q \in Obj : impl'[q] # NoImpl => got'.impl # impl'[q]
    BY <1>3 DEF Nothing
  <2> QED
    BY <2>1, <2>2, <2>3, <2>4 DEF OwnerShape
<1>10. Counts'
  <2> SUFFICES ASSUME NEW q \in Obj
               PROVE  count'[q] = held'[q] + Cardinality(SlicesOf(q)') + pinned'[q]
    BY DEF Counts
  <2>1. SlicesOf(q)' = SlicesOf(q) /\ Cardinality(SlicesOf(q)) \in Nat
    BY <1>2, <1>3, <1>5, SlicesStay, SlicesFinite DEF IsSlice
  <2>2. CASE q = o
    <3>1. SlicesOf(q) = {}
      BY <1>4, <2>2, NoSlices
    <3>2. Cardinality(SlicesOf(q)) = 0
      BY <3>1, FS_EmptySet
    <3> QED
      BY <1>3, <2>1, <2>2, <3>2
  <2>3. CASE q # o
    <3>1. count[q] = held[q] + Cardinality(SlicesOf(q)) + pinned[q]
      BY DEF IInv, Counts
    <3>2. /\ held[q] \in Nat /\ pinned[q] \in Nat /\ pinned'[q] \in Nat
          /\ count[q] \in Nat /\ counts[q] \in Nat
      BY <1>1, MaxHeldAssumption, MaxPinsAssumption
    <3>3. counts[q] - count[q] = pinned'[q] - pinned[q] /\ count'[q] = counts[q] /\ held'[q] = held[q]
      BY <1>3, <2>3
    <3> QED
      BY <2>1, <3>1, <3>2, <3>3
  <2> QED
    BY <2>2, <2>3
<1> QED
  BY <1>6, <1>7, <1>8, <1>9, <1>10 DEF IInv

\* Free cells have no views.
LEMMA MakePlainInv ==
  ASSUME IInv, Unreferenced = {}, pc \in {"run", "wrap"}, NEW o \in Obj,
         NEW ty \in Wrapper \cup PlainValue, got.impl # NoImpl => ty \in Wrapper,
         Make(o, ty, got.impl, NoObj, count), UNCHANGED <<pinned, live>>
  PROVE  IInv'
<1>1. count \in [Obj -> Nat] /\ pinned \in [Obj -> 0..MaxPins] /\ type[o] = "none"
  BY DEF IInv, CellShape, Make
<1>2. pinned'[o] = 0 /\ \A q \in Obj : count[q] >= count[q] /\ count[q] - count[q] = pinned'[q] - pinned[q]
  BY <1>1, MaxPinsAssumption DEF IInv, CellShape
<1> QED
  BY <1>1, <1>2, MakeInv

LEMMA MakeValueInv ==
  ASSUME IInv, Running, NEW ty \in PlainValue, MakeValue(ty) PROVE IInv'
<1>1. Unreferenced = {} /\ pc = "run" /\ got.impl = NoImpl
  BY DEF Running, IInv, CallShape, Nothing
<1>2. CASE Fail /\ UNCHANGED cells
  BY <1>1, <1>2, FailedInv DEF MakeValue, Failed
<1>3. CASE ~(Fail /\ UNCHANGED cells)
  <2>1. PICK o \in Obj : Make(o, ty, got.impl, NoObj, count) /\ UNCHANGED <<pinned, live>>
    BY <1>1, <1>3 DEF MakeValue
  <2> QED
    BY <1>1, <2>1, MakePlainInv
<1> QED
  BY <1>2, <1>3

\* A hash of its bytes refers to nothing; the view of them stays.
LEMMA NewBlockHashInv == ASSUME IInv, NewBlockHash PROVE IInv'
<1>1. CASE ViewAnd(Failed)
  BY <1>1, ConstructorInv
<1>2. CASE ~ViewAnd(Failed)
  <2>1. PICK e \in Obj, o \in Obj : View(e) /\ Make(o, "BlockHash", NoImpl, NoObj, More(count, e))
    BY <1>2 DEF NewBlockHash
  <2>2. UNCHANGED live
    BY <1>2 DEF NewBlockHash
  <2>3. /\ Unreferenced = {} /\ pc = "run" /\ got.impl = NoImpl
        /\ type[e] \in Exporter /\ pinned[e] < MaxPins /\ pinned' = More(pinned, e)
    BY <2>1 DEF View, Calls, Running, IInv, CallShape, Nothing
  <2>4. count \in [Obj -> Nat] /\ pinned \in [Obj -> 0..MaxPins] /\ type[o] = "none" /\ type[e] # "none"
    BY <2>1, <2>3 DEF IInv, CellShape, Make, Exporter
  <2>5. /\ \A q \in Obj : More(count, e)[q] = IF q = e THEN count[q] + 1 ELSE count[q]
        /\ \A q \in Obj : pinned'[q] = IF q = e THEN pinned[q] + 1 ELSE pinned[q]
        /\ More(count, e) \in [Obj -> Nat] /\ pinned' \in [Obj -> 0..MaxPins]
    BY <2>3, <2>4, MaxPinsAssumption DEF More
  <2>6. pinned'[o] = 0
    BY <2>4, <2>5 DEF IInv, CellShape
  <2>7. /\ \A q \in Obj : type[q] = "none" => More(count, e)[q] = count[q] /\ pinned'[q] = pinned[q]
        /\ \A q \in Obj : /\ More(count, e)[q] >= count[q]
                         /\ More(count, e)[q] - count[q] = pinned'[q] - pinned[q]
    BY <2>4, <2>5, MaxPinsAssumption
  <2>8. "BlockHash" \in Wrapper \cup PlainValue
    BY DEF PlainValue, Exporter
  <2> QED
    BY <2>1, <2>2, <2>3, <2>5, <2>6, <2>7, <2>8, MakeInv
<1> QED
  BY <1>1, <1>2

LEMMA WrapInv == ASSUME IInv, Wrap \/ WrapFails PROVE IInv'
<1>1. Unreferenced = {} /\ pc = "wrap" /\ got.type \in Wrapper
  BY DEF Wrap, WrapFails, IInv, CallShape
<1>2. CASE Wrap
  <2>1. PICK o \in Obj : Make(o, got.type, got.impl, NoObj, count)
    BY <1>2 DEF Wrap
  <2> QED
    BY <1>1, <1>2, <2>1, MakePlainInv DEF Wrap
<1>3. CASE WrapFails
  <2>1. CellShape' /\ SliceShape' /\ Counts'
    BY <1>3, CellsStay DEF WrapFails
  <2>2. CallShape'
    BY <1>3 DEF WrapFails, Fail, CallShape
  <2>3. OwnerShape'
    BY <1>3, NullAssumption DEF WrapFails, Fail, IInv, OwnerShape, Nothing, cells
  <2> QED
    BY <2>1, <2>2, <2>3 DEF IInv
<1> QED
  BY <1>2, <1>3

\* A slice is a reference on its base.
LEMMA NewSliceInv ==
  ASSUME IInv, Running, NEW b \in Obj, type[b] \in HasItems \cup {"Slice"},
         type[b] \in HasItems => impl[b] # NoImpl,
         NewSlice(b), UNCHANGED live
  PROVE  IInv'
<1>1. /\ type \in [Obj -> Wrapper \cup PlainValue \cup {"Slice", "none"}]
      /\ count \in [Obj -> Nat] /\ impl \in [Obj -> Impl \cup {NoImpl}]
      /\ base \in [Obj -> Obj \cup {NoObj}] /\ held \in [Obj -> 0..MaxHeld]
      /\ pinned \in [Obj -> 0..MaxPins] /\ live \subseteq Impl
      /\ got = Nothing /\ NoObj \notin Obj
  BY NullAssumption DEF IInv, CellShape, OwnerShape, CallShape, Running
<1>2. PICK o \in Obj : Make(o, "Slice", NoImpl, b, More(count, b))
  BY DEF NewSlice
<1>3. type[o] = "none" /\ b # o /\ pinned' = pinned
  BY <1>2 DEF Make, NewSlice, HasItems
<1>4. impl[o] = NoImpl /\ base[o] = NoObj /\ count[o] = 0
  BY <1>3 DEF IInv, CellShape, IsWrapper, IsSlice, Wrapper
<1>5. /\ type'[o] = "Slice" /\ impl'[o] = NoImpl /\ base'[o] = b /\ count'[o] = 1 /\ held'[o] = 1
      /\ \A q \in Obj \ {o} : /\ type'[q] = type[q] /\ impl'[q] = impl[q] /\ base'[q] = base[q]
                             /\ count'[q] = (IF q = b THEN count[q] + 1 ELSE count[q])
                             /\ held'[q] = held[q]
      /\ pc' = "run" /\ got' = Nothing /\ at' = NoObj
  BY <1>1, <1>2 DEF Make, More
<1>6. impl' = impl
  BY <1>1, <1>2, <1>4 DEF Make
<1>7. CellShape'
  <2>1. /\ type' \in [Obj -> Wrapper \cup PlainValue \cup {"Slice", "none"}]
        /\ base' \in [Obj -> Obj \cup {NoObj}] /\ held' \in [Obj -> 0..MaxHeld]
    BY <1>1, <1>2, MaxHeldAssumption DEF Make
  <2>2. count' \in [Obj -> Nat]
    <3>1. More(count, b) \in [Obj -> Nat]
      BY <1>1 DEF More
    <3> QED
      BY <1>2, <3>1 DEF Make
  <2>3. \A q \in Obj : type'[q] = "none" => count'[q] = 0 /\ held'[q] = 0 /\ pinned'[q] = 0
    BY <1>3, <1>5 DEF IInv, CellShape, HasItems
  <2>4. \A q \in Obj : impl'[q] # NoImpl => IsWrapper(q)'
    BY <1>4, <1>5 DEF IInv, CellShape, IsWrapper
  <2>5. \A q \in Obj : IsSlice(q)' <=> base'[q] # NoObj
    BY <1>1, <1>5 DEF IInv, CellShape, IsSlice
  <2> QED
    BY <1>1, <1>3, <1>6, <2>1, <2>2, <2>3, <2>4, <2>5 DEF CellShape
<1>8. SliceShape'
  <2> SUFFICES ASSUME NEW s \in Obj, IsSlice(s)'
               PROVE  /\ base'[s] # s
                      /\ type'[base'[s]] \in HasItems \cup {"Slice"}
                      /\ type'[base'[s]] \in HasItems => impl'[base'[s]] # NoImpl
    BY DEF SliceShape
  <2>1. CASE s = o
    BY <1>3, <1>5, <1>6, <2>1
  <2>2. CASE s # o
    <3>1. IsSlice(s) /\ base'[s] = base[s]
      BY <1>5, <2>2 DEF IsSlice
    <3>2. /\ base[s] # s /\ type[base[s]] \in HasItems \cup {"Slice"}
          /\ type[base[s]] \in HasItems => impl[base[s]] # NoImpl
      BY <3>1 DEF IInv, SliceShape
    <3>3. base[s] \in Obj /\ base[s] # o
      BY <1>1, <1>3, <3>1, <3>2 DEF IInv, CellShape, HasItems
    <3> QED
      BY <1>5, <1>6, <3>1, <3>2, <3>3
  <2> QED
    BY <2>1, <2>2
<1>9. CallShape' /\ OwnerShape'
  BY <1>1, <1>5, <1>6 DEF IInv, CallShape, OwnerShape
<1>10. Counts'
  <2> SUFFICES ASSUME NEW q \in Obj
               PROVE  count'[q] = held'[q] + Cardinality(SlicesOf(q)') + pinned'[q]
    BY DEF Counts
  <2>1. /\ count[q] = held[q] + Cardinality(SlicesOf(q)) + pinned[q]
        /\ held[q] \in Nat /\ pinned[q] \in Nat
        /\ IsFiniteSet(SlicesOf(q)) /\ Cardinality(SlicesOf(q)) \in Nat
    BY <1>1, MaxHeldAssumption, MaxPinsAssumption, SlicesFinite DEF IInv, Counts
  <2>2. CASE q = b
    <3>1. SlicesOf(q)' = SlicesOf(q) \cup {o} /\ o \notin SlicesOf(q)
      BY <1>3, <1>5, <2>2 DEF SlicesOf, IsSlice
    <3>2. Cardinality(SlicesOf(q)') = Cardinality(SlicesOf(q)) + 1
      BY <2>1, <3>1, FS_AddElement
    <3> QED
      BY <1>3, <1>5, <2>1, <2>2, <3>2
  <2>3. CASE q # b
    <3>1. SlicesOf(q)' = SlicesOf(q)
      BY <1>3, <1>5, <2>3 DEF SlicesOf, IsSlice
    <3>2. CASE q = o
      <4>1. SlicesOf(q) = {} /\ pinned[q] = 0
        BY <1>4, <3>2, NoSlices
      <4>2. Cardinality(SlicesOf(q)) = 0
        BY <4>1, FS_EmptySet
      <4> QED
        BY <1>3, <1>5, <3>1, <3>2, <4>1, <4>2
    <3>3. CASE q # o
      BY <1>3, <1>5, <2>1, <2>3, <3>1, <3>3
    <3> QED
      BY <3>2, <3>3
  <2> QED
    BY <2>2, <2>3
<1> QED
  BY <1>7, <1>8, <1>9, <1>10 DEF IInv

LEMMA SlicingInv == ASSUME IInv, GetItems \/ GetSlice PROVE IInv'
<1>1. PICK b \in Obj :
        /\ type[b] \in HasItems \cup {"Slice"} /\ Calls(b)
        /\ \/ Crash
           \/ Failed /\ UNCHANGED cells
           \/ (type[b] \in HasItems => impl[b] # NoImpl) /\ NewSlice(b) /\ UNCHANGED live
  BY DEF GetItems, GetSlice, IsSlice, HasItems, Failed
<1>2. Running /\ Unreferenced = {} /\ pc # "wrap"
  BY <1>1 DEF Calls, Running
<1> QED
  BY <1>1, <1>2, CrashInv, FailedInv, NewSliceInv

\* An item is looked up through slices, whose bases are there.
LEMMA LookUpInv == ASSUME IInv, GetItem \/ Below \/ OutOfRange \/ CopyItem PROVE IInv'
<1>1. pc \in {"run", "item"} /\ Unreferenced = {}
  BY DEF IInv, CallShape, GetItem, Below, OutOfRange, CopyItem, Calls, Running
<1>2. CASE GetItem
  <2>1. CellShape' /\ SliceShape' /\ Counts'
    BY <1>2, CellsStay DEF GetItem
  <2>2. CallShape' /\ OwnerShape'
    BY <1>1, <1>2 DEF GetItem, IsSlice, IInv, CallShape, OwnerShape, cells, references, Unreferenced
  <2> QED
    BY <2>1, <2>2 DEF IInv
<1>3. CASE Below
  <2>1. CellShape' /\ SliceShape' /\ Counts'
    BY <1>3, CellsStay DEF Below
  <2>2. at \in Obj /\ base[at] \in Obj /\ type[base[at]] \in HasItems \cup {"Slice"}
    BY <1>3 DEF Below, IInv, CallShape, CellShape, SliceShape
  <2>3. CallShape' /\ OwnerShape'
    BY <1>1, <1>3, <2>2 DEF Below, IInv, CallShape, OwnerShape, cells, references, Unreferenced
  <2> QED
    BY <2>1, <2>3 DEF IInv
<1>4. CASE OutOfRange
  <2>1. UNCHANGED cells /\ Failed
    BY <1>4 DEF OutOfRange, Failed
  <2> QED
    BY <1>1, <2>1, FailedInv
<1>5. CASE CopyItem
  <2>1. PICK ty \in Wrapper : Got(ty) \/ Failed
    BY <1>5 DEF CopyItem, HasItems, Part, Wrapper
  <2> QED
    BY <1>1, <1>5, <2>1, CallInv DEF CopyItem
<1> QED
  BY <1>2, <1>3, <1>4, <1>5

LEMMA StutterInv == ASSUME IInv, UNCHANGED vars PROVE IInv'
<1>1. CellShape' /\ SliceShape' /\ Counts'
  BY CellsStay DEF vars
<1>2. CallShape' /\ OwnerShape'
  BY DEF vars, cells, references, IInv, CallShape, OwnerShape, Unreferenced
<1> QED
  BY <1>1, <1>2 DEF IInv

LEMMA MethodInv ==
  ASSUME IInv, GetScriptPubkey \/ GetHash \/ ToBytes \/ Read \/ CombineFlags \/ ReadBytes
               \/ BadArguments \/ NewTransactionOutput
  PROVE  IInv'
<1>1. Running /\ Unreferenced = {} /\ pc # "wrap"
  BY DEF GetScriptPubkey, GetHash, ToBytes, Read, CombineFlags, ReadBytes, BadArguments,
         NewTransactionOutput, Method, Calls, Running
<1>2. \/ Crash
      \/ (Got("ScriptPubkey") \/ Failed) /\ UNCHANGED cells
      \/ \E ty \in PlainValue : MakeValue(ty)
      \/ UNCHANGED vars
  BY DEF GetScriptPubkey, GetHash, ToBytes, Read, CombineFlags, ReadBytes, BadArguments,
         NewTransactionOutput, Method, Failed, PlainValue, Exporter
<1>3. "ScriptPubkey" \in Wrapper
  BY DEF Wrapper
<1> QED
  BY <1>1, <1>2, <1>3, CrashInv, CallInv, FailedInv, MakeValueInv, StutterInv

\* A name more or less is a reference more or less.
LEMMA NamesInv == ASSUME IInv, Assign \/ Forget PROVE IInv'
<1>1. PICK o \in Obj :
        \/ held[o] \in 1..(MaxHeld - 1) /\ held' = More(held, o) /\ count' = More(count, o)
        \/ held[o] > 0 /\ held' = Less(held, o) /\ count' = Less(count, o)
  BY DEF Assign, Forget
<1>2. UNCHANGED <<pc, type, impl, base, pinned, live, at, got>> /\ Running
  BY DEF Assign, Forget
<1>3. /\ count \in [Obj -> Nat] /\ held \in [Obj -> 0..MaxHeld] /\ pinned \in [Obj -> 0..MaxPins]
      /\ \A q \in Obj : held[q] \in Nat /\ pinned[q] \in Nat
  BY MaxHeldAssumption, MaxPinsAssumption DEF IInv, CellShape
<1>4. \A q \in Obj : count[q] = held[q] + Cardinality(SlicesOf(q)) + pinned[q]
  BY DEF IInv, Counts
<1>5. count[o] > 0
  BY <1>1, <1>3, <1>4, SlicesFinite
<1>6. PICK d \in {0 - 1, 1} :
        /\ \A q \in Obj : count'[q] = IF q = o THEN count[q] + d ELSE count[q]
        /\ \A q \in Obj : held'[q] = IF q = o THEN held[q] + d ELSE held[q]
        /\ held[o] + d \in 0..MaxHeld
  BY <1>1, <1>3, MaxHeldAssumption DEF More, Less
<1>7. count' \in [Obj -> Nat] /\ held' \in [Obj -> 0..MaxHeld]
  <2>1. DOMAIN count' = Obj /\ DOMAIN held' = Obj /\ count' = [q \in Obj |-> count'[q]] /\ held' = [q \in Obj |-> held'[q]]
    BY <1>1, <1>3 DEF More, Less
  <2>2. \A q \in Obj : count'[q] \in Nat /\ held'[q] \in 0..MaxHeld
    BY <1>3, <1>5, <1>6
  <2> QED
    BY <2>1, <2>2
<1>8. CellShape'
  <2>1. type[o] # "none"
    BY <1>5 DEF IInv, CellShape
  <2> QED
    BY <1>2, <1>6, <1>7, <2>1 DEF IInv, CellShape, IsSlice, IsWrapper
<1>9. SliceShape' /\ CallShape' /\ OwnerShape'
  BY <1>2 DEF IInv, SliceShape, CallShape, OwnerShape, IsSlice, Running
<1>10. Counts'
  <2> SUFFICES ASSUME NEW q \in Obj
               PROVE  count'[q] = held'[q] + Cardinality(SlicesOf(q)') + pinned'[q]
    BY DEF Counts
  <2>1. SlicesOf(q)' = SlicesOf(q) /\ Cardinality(SlicesOf(q)) \in Nat
    BY <1>2, SlicesStay, SlicesFinite DEF IsSlice
  <2> QED
    BY <1>2, <1>3, <1>4, <1>6, <2>1
<1> QED
  BY <1>8, <1>9, <1>10 DEF IInv

\* A cell is freed that nothing refers to.
LEMMA DeallocInv == ASSUME IInv, Dealloc PROVE IInv'
<1>1. PICK o \in Unreferenced :
        \/ ~IsSlice(o) /\ live' = live \ {impl[o]} /\ Freed(o, count)
        \/ IsSlice(o) /\ live' = live /\ Freed(o, Less(count, base[o]))
  <2>1. CASE DeallocWrapper
    <3>1. PICK o \in Unreferenced \ {s \in Obj : IsSlice(s)} : live' = live \ {impl[o]} /\ Freed(o, count)
      BY <2>1 DEF DeallocWrapper
    <3>2. o \in Unreferenced /\ ~IsSlice(o)
      BY <3>1 DEF Unreferenced
    <3> QED
      BY <3>1, <3>2
  <2>2. CASE DeallocSlice
    BY <2>2 DEF DeallocSlice
  <2> QED
    BY <2>1, <2>2 DEF Dealloc
<1>2. UNCHANGED <<pc, held, pinned, at, got>>
  BY DEF Dealloc, DeallocWrapper, DeallocSlice
<1>3. /\ type \in [Obj -> Wrapper \cup PlainValue \cup {"Slice", "none"}]
      /\ count \in [Obj -> Nat] /\ impl \in [Obj -> Impl \cup {NoImpl}]
      /\ base \in [Obj -> Obj \cup {NoObj}] /\ live \subseteq Impl /\ NoObj \notin Obj
      /\ \A q \in Obj : held[q] \in Nat /\ pinned[q] \in Nat
  BY MaxHeldAssumption, MaxPinsAssumption, NullAssumption DEF IInv, CellShape, OwnerShape
<1>4. o \in Obj /\ type[o] # "none" /\ count[o] = 0 /\ pc = "run" /\ got = Nothing
  BY <1>1 DEF Unreferenced, IInv, CallShape
<1>5. SlicesOf(o) = {} /\ held[o] = 0 /\ pinned[o] = 0 /\ \A s \in Obj : IsSlice(s) => base[s] # o
  <2>1. SlicesOf(o) = {} /\ held[o] = 0 /\ pinned[o] = 0
    BY <1>4, NoSlices
  <2> QED
    BY <2>1 DEF SlicesOf
<1>6. /\ type'[o] = "none" /\ impl'[o] = NoImpl /\ base'[o] = NoObj
      /\ \A q \in Obj \ {o} : type'[q] = type[q] /\ impl'[q] = impl[q] /\ base'[q] = base[q]
  BY <1>1, <1>3, <1>4 DEF Freed
<1>7. \A q \in Obj : IsSlice(q)' <=> IsSlice(q) /\ q # o
  BY <1>6 DEF IsSlice
<1>8. \A q \in Obj : count'[q] = IF IsSlice(o) /\ q = base[o] THEN count[q] - 1 ELSE count[q]
  BY <1>1, <1>3 DEF Freed, Less
<1>9. \A q \in Obj : count[q] = held[q] + Cardinality(SlicesOf(q)) + pinned[q]
  BY DEF IInv, Counts
<1>10. ASSUME NEW q \in Obj, IsSlice(o), q = base[o]
       PROVE  /\ Cardinality(SlicesOf(q)') = Cardinality(SlicesOf(q)) - 1
              /\ count[q] > 0 /\ q # o
  <2>1. o \in SlicesOf(q) /\ q # o
    BY <1>4, <1>5, <1>10 DEF SlicesOf
  <2>2. SlicesOf(q)' = SlicesOf(q) \ {o}
    BY <1>6, <1>7 DEF SlicesOf
  <2>3. IsFiniteSet(SlicesOf(q)) /\ Cardinality(SlicesOf(q)) \in Nat
    BY SlicesFinite
  <2>4. Cardinality(SlicesOf(q)') = Cardinality(SlicesOf(q)) - 1
    BY ONLY <2>1, <2>2, <2>3, FS_RemoveElement
  <2>5. Cardinality(SlicesOf(q)) # 0
    BY <2>1, <2>3, FS_EmptySet
  <2> QED
    BY <1>3, <1>9, <2>1, <2>3, <2>4, <2>5
<1>11. CellShape'
  <2>1. /\ type' \in [Obj -> Wrapper \cup PlainValue \cup {"Slice", "none"}]
        /\ impl' \in [Obj -> Impl \cup {NoImpl}] /\ base' \in [Obj -> Obj \cup {NoObj}]
    BY <1>1, <1>3 DEF Freed
  <2>2. count' \in [Obj -> Nat]
    <3>1. DOMAIN count' = Obj /\ count' = [q \in Obj |-> count'[q]]
      BY <1>1, <1>3 DEF Freed, Less
    <3>2. \A q \in Obj : count'[q] \in Nat
      BY <1>3, <1>8, <1>10
    <3> QED
      BY <3>1, <3>2
  <2>3. \A q \in Obj : type'[q] = "none" => count'[q] = 0 /\ held'[q] = 0 /\ pinned'[q] = 0
    <3> SUFFICES ASSUME NEW q \in Obj, type'[q] = "none"
                 PROVE  count'[q] = 0 /\ held'[q] = 0 /\ pinned'[q] = 0
      OBVIOUS
    <3>1. count[q] = 0 /\ held[q] = 0 /\ pinned[q] = 0
      BY <1>4, <1>5, <1>6 DEF IInv, CellShape
    <3>2. ~(IsSlice(o) /\ q = base[o])
      BY <1>10, <3>1
    <3> QED
      BY <1>2, <1>8, <3>1, <3>2
  <2>4. \A q \in Obj : impl'[q] # NoImpl => IsWrapper(q)'
    BY <1>6 DEF IInv, CellShape, IsWrapper
  <2>5. \A q \in Obj : IsSlice(q)' <=> base'[q] # NoObj
    BY <1>6, <1>7 DEF IInv, CellShape
  <2> QED
    BY <1>2, <2>1, <2>2, <2>3, <2>4, <2>5 DEF IInv, CellShape
<1>12. SliceShape'
  <2> SUFFICES ASSUME NEW s \in Obj, IsSlice(s), s # o
               PROVE  /\ base'[s] # s
                      /\ type'[base'[s]] \in HasItems \cup {"Slice"}
                      /\ type'[base'[s]] \in HasItems => impl'[base'[s]] # NoImpl
    BY <1>7 DEF SliceShape
  <2>1. base'[s] = base[s] /\ base[s] \in Obj /\ base[s] # o
    BY <1>3, <1>5, <1>6 DEF IInv, CellShape
  <2> QED
    BY <1>6, <2>1 DEF IInv, SliceShape
<1>13. CallShape'
  BY <1>2, <1>4 DEF IInv, CallShape
<1>14. OwnerShape'
  <2>1. live' = live \ {impl[o]}
    BY <1>1, <1>3, <1>4, NullAssumption DEF IInv, CellShape, IsWrapper, IsSlice, Wrapper
  <2>2. got.impl = NoImpl
    BY <1>4 DEF Nothing
  <2>3. ASSUME NEW im \in Impl
        PROVE  im \in live' <=> got'.impl = im \/ \E q \in Obj : impl'[q] = im
    <3>1. im \in live <=> \E q \in Obj : impl[q] = im
      BY <2>2, NullAssumption DEF IInv, OwnerShape
    <3>2. (\E q \in Obj : impl'[q] = im) <=> im # impl[o] /\ \E q \in Obj : impl[q] = im
      BY <1>4, <1>6, NullAssumption DEF IInv, OwnerShape
    <3>3. got'.impl # im
      BY <1>2, <2>2, NullAssumption
    <3> QED
      BY <2>1, <3>1, <3>2, <3>3
  <2>4. \A q, r \in Obj : impl'[q] # NoImpl /\ impl'[q] = impl'[r] => q = r
    BY <1>6 DEF IInv, OwnerShape
  <2>5. \A q \in Obj : impl'[q] # NoImpl => got'.impl # impl'[q]
    BY <1>2, <2>2
  <2> QED
    BY <1>2, <2>1, <2>3, <2>4, <2>5 DEF IInv, OwnerShape
<1>15. Counts'
  <2> SUFFICES ASSUME NEW q \in Obj
               PROVE  count'[q] = held[q] + Cardinality(SlicesOf(q)') + pinned[q]
    BY <1>2 DEF Counts
  <2>1. CASE IsSlice(o) /\ q = base[o]
    <3>1. Cardinality(SlicesOf(q)') = Cardinality(SlicesOf(q)) - 1 /\ count'[q] = count[q] - 1
      BY <1>8, <1>10, <2>1
    <3>2. count[q] = held[q] + Cardinality(SlicesOf(q)) + pinned[q]
      BY <1>9
    <3>3. Cardinality(SlicesOf(q)) \in Nat /\ held[q] \in Nat /\ pinned[q] \in Nat
      BY <1>3, SlicesFinite
    <3> QED
      BY <3>1, <3>2, <3>3
  <2>2. CASE ~(IsSlice(o) /\ q = base[o])
    <3>1. SlicesOf(q)' = SlicesOf(q)
      BY <1>6, <1>7, <2>2 DEF SlicesOf
    <3> QED
      BY <1>8, <1>9, <2>2, <3>1
  <2> QED
    BY <2>1, <2>2
<1> QED
  BY <1>11, <1>12, <1>13, <1>14, <1>15 DEF IInv

LEMMA NextInv == ASSUME IInv, [Next]_vars PROVE IInv'
<1>1. CASE UNCHANGED vars
  BY <1>1, StutterInv
<1> QED
  BY <1>1, ConstructorInv, NewBlockHashInv, WrapInv, SlicingInv, LookUpInv, MethodInv, NamesInv,
     DeallocInv DEF Next

\* The strengthened invariant holds in every state (all of PyObjects).
THEOREM Invariance == Spec => []IInv
<1>1. Init => IInv
  BY InitInv
<1>2. IInv /\ [Next]_vars => IInv'
  BY NextInv
<1> QED
  BY <1>1, <1>2, PTL DEF Spec

-----------------------------------------------------------------------------
(* The properties.                                                         *)

\* Every state is well-typed; no count goes below zero.
THEOREM TypeCorrect == Spec => []TypeOK
<1>1. IInv => TypeOK
  BY DEF IInv, CellShape, CallShape, OwnerShape, TypeOK
<1> QED
  BY <1>1, Invariance, PTL

\* A reference count is the number of references, for any number of slices of slices
\* and of views of bytes (Slice_New, subscript and dealloc in _slice.c; block_hash.c).
THEOREM CountsAreExact == Spec => []Counts
<1>1. IInv => Counts
  BY DEF IInv
<1> QED
  BY <1>1, Invariance, PTL

\* What the library has allocated is wrapped by one Python object or about to be, and
\* what is wrapped is allocated (Block_New and its like).
THEOREM WrappersOwn == Spec => []OneOwner
<1>1. IInv => OneOwner
  <2> SUFFICES ASSUME IInv PROVE OneOwner
    OBVIOUS
  <2>1. ASSUME NEW o \in Obj, impl[o] # NoImpl PROVE IsWrapper(o) /\ impl[o] \in live
    <3>1. impl[o] \in Impl
      BY <2>1 DEF IInv, CellShape
    <3> QED
      BY <2>1, <3>1 DEF IInv, CellShape, OwnerShape
  <2>2. ASSUME NEW im \in live
        PROVE  /\ got.impl = im \/ \E o \in Obj : impl[o] = im
               /\ \A o \in Obj : impl[o] = im => got.impl # im /\ \A q \in Obj \ {o} : impl[q] # im
    <3>1. im \in Impl /\ im # NoImpl
      BY NullAssumption DEF IInv, OwnerShape
    <3> QED
      BY <3>1 DEF IInv, OwnerShape
  <2> QED
    BY <2>1, <2>2 DEF OneOwner
<1> QED
  BY <1>1, Invariance, PTL

\* What is sliced is there, and what it wraps, as long as the slice is (_slice.c).
THEOREM BasesStay == Spec => []KeepsAlive
<1>1. IInv => KeepsAlive
  <2> SUFFICES ASSUME IInv PROVE KeepsAlive
    OBVIOUS
  <2>1. ASSUME NEW s \in Obj, IsSlice(s)
        PROVE  /\ base[s] # NoObj /\ base[s] # s
               /\ type[base[s]] \in HasItems \cup {"Slice"}
               /\ type[base[s]] \in HasItems => impl[base[s]] \in live
    <3>1. /\ base[s] # NoObj /\ base[s] # s /\ base[s] \in Obj
          /\ type[base[s]] \in HasItems \cup {"Slice"}
          /\ type[base[s]] \in HasItems => impl[base[s]] # NoImpl
      BY <2>1 DEF IInv, CellShape, SliceShape
    <3>2. impl[base[s]] # NoImpl => impl[base[s]] \in live
      BY <3>1 DEF IInv, CellShape, OwnerShape
    <3> QED
      BY <3>1, <3>2
  <2> QED
    BY <2>1 DEF KeepsAlive, IInv, CallShape
<1> QED
  BY <1>1, Invariance, PTL

-----------------------------------------------------------------------------
(* Chains of slices end.                                                   *)

\* An object is what it was: of its type, with what it wraps or slices.
Same(o) == type'[o] = type[o] /\ impl'[o] = impl[o] /\ base'[o] = base[o]

\* A step fills one free cell, frees that of an object without references, or leaves
\* all cells what they are.
LEMMA OneCell ==
  ASSUME IInv, [Next]_vars
  PROVE  \/ UNCHANGED <<type, impl, base>>
         \/ \E o \in Obj : /\ type[o] = "none" \/ (type'[o] = "none" /\ o \in Unreferenced)
                           /\ \A q \in Obj \ {o} : Same(q)
<1> DEFINE All == UNCHANGED <<type, impl, base>>
           One(o) == /\ type[o] = "none" \/ (type'[o] = "none" /\ o \in Unreferenced)
                     /\ \A q \in Obj \ {o} : Same(q)
<1>1. /\ type \in [Obj -> Wrapper \cup PlainValue \cup {"Slice", "none"}]
      /\ impl \in [Obj -> Impl \cup {NoImpl}] /\ base \in [Obj -> Obj \cup {NoObj}]
  BY DEF IInv, CellShape
<1>2. ASSUME NEW o \in Obj, NEW ty, NEW im, NEW b, NEW counts, Make(o, ty, im, b, counts) PROVE One(o)
  BY <1>1, <1>2 DEF Make, Same
<1>3. ASSUME NEW o \in Unreferenced, NEW counts, Freed(o, counts) PROVE One(o)
  BY <1>1, <1>3 DEF Freed, Same, Unreferenced
<1>4. ASSUME NEW ty, MakeValue(ty) PROVE All \/ \E o \in Obj : One(o)
  BY <1>2, <1>4 DEF MakeValue, cells
<1>5. ASSUME NEW b, NewSlice(b) PROVE \E o \in Obj : One(o)
  BY <1>2, <1>5 DEF NewSlice
<1> HIDE DEF One
<1>6. CASE ReadBytes \/ GetHash \/ ToBytes \/ CombineFlags
  BY <1>4, <1>6 DEF ReadBytes, GetHash, ToBytes, CombineFlags, Method, Crash, cells, One
<1>7. CASE NewBlock \/ NewTransaction \/ NewScriptPubkey
  BY <1>7 DEF NewBlock, NewTransaction, NewScriptPubkey, ViewAnd
<1>8. CASE NewBlockHash
  BY <1>2, <1>8 DEF NewBlockHash, ViewAnd, One
<1>9. CASE Wrap
  BY <1>2, <1>9 DEF Wrap, One
<1>10. CASE GetItems \/ GetSlice
  BY <1>5, <1>10 DEF GetItems, GetSlice, Crash, cells, One
<1>11. CASE Dealloc
  BY <1>3, <1>11 DEF Dealloc, DeallocWrapper, DeallocSlice, Unreferenced, One
<1>12. CASE \/ BadArguments \/ NewTransactionOutput \/ WrapFails \/ GetItem \/ Below \/ OutOfRange
            \/ CopyItem \/ GetScriptPubkey \/ Read \/ Assign \/ Forget \/ UNCHANGED vars
  BY <1>12 DEF BadArguments, NewTransactionOutput, WrapFails, GetItem, Below, OutOfRange,
     CopyItem, GetScriptPubkey, Read, Assign, Forget, Method, Crash, cells, vars
<1> QED
  BY <1>6, <1>7, <1>8, <1>9, <1>10, <1>11, <1>12 DEF Next, One

\* A new slice has no slices yet, and what is freed has none.
LEMMA FoundedStep == ASSUME IInv, Founded, [Next]_vars PROVE Founded'
<1> SUFFICES ASSUME NEW S \in SUBSET Obj, S # {}
             PROVE  \E o \in S : SlicesOf(o)' \cap S = {}
  BY DEF Founded
<1>1. PICK q \in S : SlicesOf(q) \cap S = {}
  BY DEF Founded
<1>2. IInv'
  BY NextInv
<1>3. CASE UNCHANGED <<type, impl, base>>
  BY <1>1, <1>3 DEF SlicesOf, IsSlice
<1>4. CASE \E o \in Obj : /\ type[o] = "none" \/ (type'[o] = "none" /\ o \in Unreferenced)
                          /\ \A p \in Obj \ {o} : Same(p)
  <2>1. PICK o \in Obj : /\ type[o] = "none" \/ type'[o] = "none"
                         /\ \A p \in Obj \ {o} : type'[p] = type[p] /\ base'[p] = base[p]
    BY <1>4 DEF Same
  <2>2. CASE type'[o] = "none"
    <3>1. SlicesOf(q)' \subseteq SlicesOf(q)
      BY <2>1, <2>2 DEF SlicesOf, IsSlice
    <3> QED
      BY <1>1, <3>1
  <2>3. CASE type[o] = "none" /\ o \in S
    <3>1. ASSUME NEW s \in Obj, IsSlice(s)', base'[s] = o PROVE FALSE
      <4>1. s # o
        BY <1>2, <3>1 DEF IInv, SliceShape
      <4>2. IsSlice(s) /\ base[s] = o
        BY <2>1, <3>1, <4>1 DEF IsSlice
      <4> QED
        BY <2>3, <4>2 DEF IInv, SliceShape, HasItems
    <3> QED
      BY <2>3, <3>1 DEF SlicesOf
  <2>4. CASE type[o] = "none" /\ o \notin S
    <3>1. SlicesOf(q)' \subseteq SlicesOf(q) \cup {o}
      BY <2>1 DEF SlicesOf, IsSlice
    <3> QED
      BY <1>1, <2>4, <3>1
  <2> QED
    BY <2>1, <2>2, <2>3, <2>4
<1> QED
  BY <1>3, <1>4, OneCell

\* Only bytes and hashes are viewed.
OnlyExportersViewed == \A o \in Obj : pinned[o] > 0 => type[o] \in Exporter

\* What a step frees has no name, no slice and no view.
Stays(o) == type[o] # "none" =>
              \/ Same(o)
              \/ type'[o] = "none" /\ held[o] = 0 /\ pinned[o] = 0 /\ SlicesOf(o) = {}

LEMMA StaysStep == ASSUME IInv, [Next]_vars, NEW o \in Obj PROVE Stays(o)
<1>1. CASE UNCHANGED <<type, impl, base>>
  BY <1>1 DEF Same, Stays
<1>2. ASSUME NEW q \in Obj, type[q] = "none" \/ (type'[q] = "none" /\ q \in Unreferenced),
             \A p \in Obj \ {q} : Same(p)
      PROVE  Stays(o)
  <2>1. q \in Unreferenced => SlicesOf(q) = {} /\ held[q] = 0 /\ pinned[q] = 0
    BY NoSlices DEF Unreferenced
  <2> QED
    BY <1>2, <2>1 DEF Stays
<1> QED
  BY <1>1, <1>2, OneCell

\* A view is made of bytes or of a hash, which stay what they are.
LEMMA ViewedStep ==
  ASSUME IInv, OnlyExportersViewed, [Next]_vars
  PROVE  OnlyExportersViewed'
<1>1. pinned \in [Obj -> 0..MaxPins]
  BY DEF IInv, CellShape
<1>2. pinned' = pinned \/ \E e \in Obj : View(e)
  BY DEF Next, ReadBytes, BadArguments, NewBlock, NewTransaction, NewScriptPubkey, NewBlockHash,
     NewTransactionOutput, ViewAnd, Wrap, WrapFails, GetItems, GetSlice, NewSlice, GetItem, Below,
     OutOfRange, CopyItem, GetScriptPubkey, GetHash, ToBytes, CombineFlags, Read, Method,
     MakeValue, Crash, Assign, Forget, Dealloc, DeallocWrapper, DeallocSlice, cells, references,
     vars
<1> SUFFICES ASSUME NEW o \in Obj, pinned'[o] > 0 PROVE type'[o] \in Exporter
  BY DEF OnlyExportersViewed
<1>3. Stays(o)
  BY StaysStep
<1>4. CASE pinned[o] > 0
  <2>1. type[o] \in Exporter
    BY <1>4 DEF OnlyExportersViewed
  <2> QED
    BY <1>1, <1>3, <1>4, <2>1 DEF Stays, Same, Exporter
<1>5. CASE ~(pinned[o] > 0)
  <2>1. View(o)
    <3>1. pinned'[o] # pinned[o]
      BY <1>5
    <3>2. PICK e \in Obj : View(e)
      BY <1>2, <3>1
    <3>3. e = o
      BY <1>1, <3>1, <3>2 DEF View, More
    <3> QED
      BY <3>2, <3>3
  <2>2. type[o] \in Exporter /\ held[o] > 0
    BY <2>1 DEF View, Calls
  <2> QED
    BY <1>3, <2>2 DEF Stays, Same, Exporter
<1> QED
  BY <1>4, <1>5

\* Out of the program's reach there are only bytes and hashes that are viewed, for any
\* number of objects and chains of slices of any length: no release of a view follows
\* its constructor, and all else is gone when the program runs (dealloc in _slice.c,
\* Py_DECREF; "y*" in block.c, transaction.c, script_pubkey.c and block_hash.c).
THEOREM OnlyViewedIsLeft == Spec => []OnlyViewedStay
<1>1. Init => Founded /\ OnlyExportersViewed
  BY DEF Init, Founded, SlicesOf, IsSlice, OnlyExportersViewed
<1>2. /\ IInv /\ Founded /\ [Next]_vars => Founded'
      /\ IInv /\ OnlyExportersViewed /\ [Next]_vars => OnlyExportersViewed'
  BY FoundedStep, ViewedStep
<1>3. IInv /\ Founded /\ OnlyExportersViewed => OnlyViewedStay
  <2> SUFFICES ASSUME IInv, Founded, OnlyExportersViewed, Running,
                      NEW S \in SUBSET Obj, Unreachable(S)
               PROVE  \A o \in S : pinned[o] > 0
    BY DEF OnlyViewedStay, OnlyExportersViewed
  <2> DEFINE T == {o \in S : ~(pinned[o] > 0)}
  <2>1. ASSUME T # {} PROVE FALSE
    <3>1. PICK o \in T : SlicesOf(o) \cap T = {}
      BY <2>1 DEF Founded
    <3>2. /\ type[o] # "none" /\ held[o] = 0 /\ SlicesOf(o) \subseteq S /\ o \in Obj
          /\ pinned[o] = 0
      BY <3>1 DEF Unreachable, IInv, CellShape
    <3>3. \A s \in SlicesOf(o) : ~(pinned[s] > 0)
      BY DEF SlicesOf, IsSlice, OnlyExportersViewed, Exporter
    <3>4. SlicesOf(o) = {}
      BY <3>1, <3>2, <3>3
    <3>5. Cardinality(SlicesOf(o)) = 0
      BY <3>4, FS_EmptySet
    <3>6. count[o] = 0
      BY <3>2, <3>5 DEF IInv, Counts
    <3> QED
      BY <3>2, <3>6 DEF Running, Unreferenced
  <2> QED
    BY <2>1
<1> QED
  BY <1>1, <1>2, <1>3, Invariance, PTL DEF Spec

\* An object stays what it is for as long as a name, a slice or a view refers to it, in
\* whatever order others are destroyed: its cell is freed when nothing does
\* (dealloc in _slice.c and the types that wrap).
THEOREM ObjectsStay ==
  Spec => [][\A o \in Obj : type[o] # "none" =>
               \/ Same(o)
               \/ type'[o] = "none" /\ held[o] = 0 /\ pinned[o] = 0 /\ SlicesOf(o) = {}]_vars
<1>1. IInv /\ [Next]_vars => [\A o \in Obj : Stays(o)]_vars
  BY StaysStep
<1>2. Spec => [][\A o \in Obj : Stays(o)]_vars
  BY <1>1, Invariance, PTL DEF Spec
<1> QED
  BY <1>2 DEF Stays

-----------------------------------------------------------------------------
(* Slices: what PySlice_AdjustIndices counts.                              *)

\* Steps of d, from 0 up to before s.
Steps(d, s) == IF 0 < s THEN ((s - 1) \div d) + 1 ELSE 0

LEMMA StepsUpTo ==
  ASSUME NEW d \in Nat \ {0}, NEW s \in Int
  PROVE  LET c == Steps(d, s) IN
         /\ c \in Nat /\ 0 < s => c <= s
         /\ \A k \in 0..(c - 1) : 0 <= k * d /\ k * d < s
         /\ \A o \in Int : 0 <= o /\ o < s /\ o % d = 0 => \E k \in 0..(c - 1) : o = k * d
<1> DEFINE c == Steps(d, s)
<1>1. CASE ~(0 < s)
  BY <1>1 DEF Steps
<1>2. CASE 0 < s
  <2> DEFINE m == s - 1
             q == m \div d
  <2>1. m \in Nat /\ c = q + 1
    BY <1>2 DEF Steps
  <2>10. c = Steps(d, s)
    OBVIOUS
  <2> HIDE DEF c
  <2> HIDE DEF m
  <2>2. q \in Int /\ d * q <= m /\ m < (d * q) + d
    BY <2>1
  <2> HIDE DEF q
  <2>3. q >= 0
    <3>1. ASSUME q <= -1 PROVE FALSE
      <4>1. q * d <= (-1) * d
        BY <2>2, <3>1
      <4> QED
        BY <2>1, <2>2, <4>1
    <3> QED
      BY <2>2, <3>1
  <2>4. q <= d * q
    <3>1. 1 * q <= d * q
      BY <2>2, <2>3
    <3> QED
      BY <2>2, <3>1
  <2>5. c \in Nat /\ c <= s
    BY <1>2, <2>1, <2>2, <2>3, <2>4 DEF m
  <2>6. ASSUME NEW k \in 0..(c - 1)
        PROVE  0 <= k * d /\ k * d < s
    <3>1. k \in Nat /\ k <= q
      BY <2>1, <2>2, <2>3
    <3>2. k * d <= q * d /\ 0 * d <= k * d
      BY <2>2, <3>1
    <3> QED
      BY <1>2, <2>2, <3>1, <3>2 DEF m
  <2>7. ASSUME NEW o \in Int, 0 <= o, o < s, o % d = 0
        PROVE  \E k \in 0..(c - 1) : o = k * d
    <3>1. PICK k \in Int : o = k * d
      BY <2>7
    <3>2. k >= 0
      <4>1. ASSUME k <= -1 PROVE FALSE
        <5>1. k * d <= (-1) * d
          BY <4>1
        <5> QED
          BY <2>7, <3>1, <5>1
      <4> QED
        BY <4>1
    <3>3. k <= q
      <4>1. ASSUME k >= q + 1 PROVE FALSE
        <5>1. (q + 1) * d <= k * d
          BY <2>2, <4>1
        <5>2. (q + 1) * d = (d * q) + d
          BY <2>2
        <5> QED
          BY <2>1, <2>2, <2>7, <3>1, <5>1, <5>2 DEF m
      <4> QED
        BY <2>2, <4>1
    <3> QED
      BY <2>1, <2>2, <3>1, <3>2, <3>3
  <2> QED
    BY <2>5, <2>6, <2>7, <2>10
<1> QED
  BY <1>1, <1>2

\* A slice does not leave what it is a slice of.
LEMMA Clipped ==
  ASSUME NEW n \in Nat, NEW bound \in Int, NEW step \in Int
  PROVE  /\ step >= 0 => Clip(bound, n, step) \in 0..n
         /\ step < 0 => Clip(bound, n, step) \in (-1)..(n - 1)
         /\ Clip(bound, n, step) \in Int
BY DEF Clip

\* Positions one step after the other.
Run(from, step, c) == {from + (k * step) : k \in 0..(c - 1)}

\* The chosen positions are those from the start on, one step after the other, as many
\* as are counted.
LEMMA ChosenPositions ==
  ASSUME NEW n \in Nat, NEW step \in Int, step # 0, NEW start \in Int, NEW stop \in Int
  PROVE  LET from == Clip(start, n, step)
             to == Clip(stop, n, step)
             c == Count(from, to, step)
         IN  /\ c \in 0..n
             /\ Positions(n, from, to, step) = Run(from, step, c)
             /\ \A k \in 0..(c - 1) : from + (k * step) \in 0..(n - 1)
<1> DEFINE from == Clip(start, n, step)
           to == Clip(stop, n, step)
           c == Count(from, to, step)
<1>1. ASSUME step > 0
       PROVE  /\ c \in 0..n
              /\ Positions(n, from, to, step) = Run(from, step, c)
              /\ \A k \in 0..(c - 1) : from + (k * step) \in 0..(n - 1)
  <2>9. step >= 0
    BY <1>1
  <2>1. from \in 0..n /\ to \in 0..n
    BY <2>9, Clipped
  <2>8. c = IF from < to THEN ((to - from - 1) \div step) + 1 ELSE 0
    BY <1>1 DEF Count
  <2> HIDE DEF from, to, c
  <2> DEFINE s == to - from
  <2>2. c = Steps(step, s)
    BY <2>1, <2>8 DEF Steps
  <2>3. s \in Int /\ s <= n /\ step \in Nat \ {0}
    BY <1>1, <2>1
  <2> HIDE DEF s
  <2>4. /\ c \in Nat /\ 0 < s => c <= s
        /\ \A k \in 0..(c - 1) : 0 <= k * step /\ k * step < s
        /\ \A o \in Int : 0 <= o /\ o < s /\ o % step = 0 => \E k \in 0..(c - 1) : o = k * step
    BY <2>2, <2>3, StepsUpTo
  <2>5. c \in 0..n
    BY <2>2, <2>3, <2>4 DEF Steps
  <2>6. ASSUME NEW k \in 0..(c - 1)
        PROVE  /\ from + (k * step) \in 0..(n - 1)
               /\ from + (k * step) \in Positions(n, from, to, step)
    <3> DEFINE o == k * step
    <3>1. o \in Int /\ 0 <= o /\ o < s
      BY <2>4
    <3>2. o % step = 0
      BY <2>3, <2>4
    <3> HIDE DEF o
    <3>3. from + o \in 0..(n - 1) /\ from <= from + o /\ from + o < to /\ (from + o) - from = o
      BY <2>1, <3>1 DEF s
    <3>4. from + o \in Positions(n, from, to, step)
      BY <1>1, <3>2, <3>3 DEF Positions
    <3> QED
      BY <3>3, <3>4 DEF o
  <2>7. ASSUME NEW p \in Positions(n, from, to, step)
        PROVE  \E k \in 0..(c - 1) : p = from + (k * step)
    <3>1. p \in Int /\ 0 <= p - from /\ p - from < s /\ (p - from) % step = 0
      BY <1>1, <2>1, <2>7 DEF Positions, s
    <3>2. PICK k \in 0..(c - 1) : p - from = k * step
      BY <2>1, <2>4, <3>1
    <3>3. p = from + (k * step)
      BY <2>1, <2>4, <3>1, <3>2
    <3> QED
      BY <3>3
  <2> QED
    BY <2>5, <2>6, <2>7 DEF Run
<1>2. ASSUME step < 0
       PROVE  /\ c \in 0..n
              /\ Positions(n, from, to, step) = Run(from, step, c)
              /\ \A k \in 0..(c - 1) : from + (k * step) \in 0..(n - 1)
  <2> DEFINE d == -step
             s == from - to
  <2>1. from \in (-1)..(n - 1) /\ to \in (-1)..(n - 1)
    BY <1>2, Clipped
  <2>10. c = IF to < from THEN ((from - to - 1) \div d) + 1 ELSE 0
    BY <1>2 DEF Count
  <2> HIDE DEF from, to, c
  <2>2. c = Steps(d, s)
    BY <2>1, <2>10 DEF Steps
  <2>3. s \in Int /\ s <= n /\ d \in Nat \ {0}
    BY <1>2, <2>1
  <2>4. \A k \in Int : k * step = -(k * d)
    OBVIOUS
  <2>8. d = -step
    OBVIOUS
  <2> HIDE DEF s, d
  <2>5. /\ c \in Nat /\ 0 < s => c <= s
        /\ \A k \in 0..(c - 1) : 0 <= k * d /\ k * d < s
        /\ \A o \in Int : 0 <= o /\ o < s /\ o % d = 0 => \E k \in 0..(c - 1) : o = k * d
    BY <2>2, <2>3, StepsUpTo
  <2>6. c \in 0..n
    BY <2>2, <2>3, <2>5 DEF Steps
  <2>7. ASSUME NEW k \in 0..(c - 1)
        PROVE  /\ from + (k * step) \in 0..(n - 1)
               /\ from + (k * step) \in Positions(n, from, to, step)
    <3> DEFINE o == k * d
    <3>1. o \in Int /\ 0 <= o /\ o < s
      BY <2>3, <2>5
    <3>2. o % d = 0
      BY <2>3, <2>5
    <3>3. k * step = -o
      BY <2>4, <2>5
    <3> HIDE DEF o
    <3>4. from - o \in 0..(n - 1) /\ to < from - o /\ from - o <= from /\ from - (from - o) = o
          /\ from + (-o) = from - o
      BY <2>1, <3>1 DEF s
    <3>5. from - o \in Positions(n, from, to, step)
      BY <1>2, <2>8, <3>2, <3>4 DEF Positions
    <3> QED
      BY <3>3, <3>4, <3>5
  <2>9. ASSUME NEW p \in Positions(n, from, to, step)
        PROVE  \E k \in 0..(c - 1) : p = from + (k * step)
    <3>1. p \in Int /\ 0 <= from - p /\ from - p < s /\ (from - p) % d = 0
      BY <1>2, <2>1, <2>8, <2>9 DEF Positions, s
    <3>2. PICK k \in 0..(c - 1) : from - p = k * d
      BY <2>1, <2>5, <3>1
    <3>3. k * step = -(from - p)
      BY <2>4, <2>5, <3>2
    <3>4. p = from + (k * step)
      BY <2>1, <3>1, <3>3
    <3> QED
      BY <3>4
  <2> QED
    BY <2>6, <2>7, <2>9 DEF Run
<1> QED
  BY <1>1, <1>2

\* Of c positions one step after the other, k come before the k-th.
LEMMA Progression ==
  ASSUME NEW from \in Int, NEW step \in Int, step # 0, NEW c \in Nat
  PROVE  /\ IsFiniteSet(Run(from, step, c)) /\ Cardinality(Run(from, step, c)) = c
         /\ \A k \in 0..(c - 1) :
              {q \in Run(from, step, c) : Before(q, from + (k * step), step)} = Run(from, step, k)
<1> DEFINE P == Run(from, step, c)
           point(k) == from + (k * step)
           f == [k \in 1..c |-> point(k - 1)]
<1>1. \A j, k \in Int : j < k => IF step > 0 THEN point(j) < point(k) ELSE point(k) < point(j)
  <2> SUFFICES ASSUME NEW j \in Int, NEW k \in Int, j < k
               PROVE  IF step > 0 THEN point(j) < point(k) ELSE point(k) < point(j)
    OBVIOUS
  <2>1. CASE step > 0
    <3>1. j * step < k * step
      BY <2>1
    <3> QED
      BY <2>1, <3>1
  <2>2. CASE step < 0
    <3>1. k * step < j * step
      <4>1. j * (-step) < k * (-step)
        BY <2>2
      <4>2. j * (-step) = -(j * step) /\ k * (-step) = -(k * step)
        OBVIOUS
      <4> QED
        BY <4>1, <4>2
    <3> QED
      BY <2>2, <3>1
  <2> QED
    BY <2>1, <2>2
<1>2. \A j, k \in Int : /\ point(j) = point(k) => j = k
                        /\ Before(point(j), point(k), step) <=> j < k
  <2> SUFFICES ASSUME NEW j \in Int, NEW k \in Int
               PROVE  /\ point(j) = point(k) => j = k
                      /\ Before(point(j), point(k), step) <=> j < k
    OBVIOUS
  <2>1. point(j) \in Int /\ point(k) \in Int
    OBVIOUS
  <2>2. /\ j < k => IF step > 0 THEN point(j) < point(k) ELSE point(k) < point(j)
        /\ k < j => IF step > 0 THEN point(k) < point(j) ELSE point(j) < point(k)
    BY <1>1
  <2>3. j < k \/ k < j \/ j = k
    OBVIOUS
  <2> HIDE DEF point
  <2> QED
    BY <2>1, <2>2, <2>3 DEF Before
<1>3. f \in Bijection(1..c, P)
  <2>1. \A k \in 1..c : point(k - 1) \in P
    BY DEF Run
  <2>2. \A j, k \in 1..c : f[j] = f[k] => j = k
    <3> SUFFICES ASSUME NEW j \in 1..c, NEW k \in 1..c, point(j - 1) = point(k - 1)
                 PROVE  j = k
      OBVIOUS
    <3>1. j - 1 = k - 1
      BY <1>2
    <3> QED
      BY <3>1
  <2>3. \A p \in P : \E k \in 1..c : f[k] = p
    <3> SUFFICES ASSUME NEW k \in 0..(c - 1)
                 PROVE  \E j \in 1..c : f[j] = point(k)
      BY DEF Run
    <3>1. k + 1 \in 1..c /\ (k + 1) - 1 = k
      OBVIOUS
    <3>2. f[k + 1] = point(k)
      BY <3>1
    <3> QED
      BY <3>1, <3>2
  <2> HIDE DEF point
  <2> QED
    BY <2>1, <2>2, <2>3 DEF Bijection, Injection, Surjection, IsInjective
<1>4. IsFiniteSet(P) /\ Cardinality(P) = c
  <2>1. IsFiniteSet(1..c) /\ Cardinality(1..c) = c
    BY FS_Interval
  <2> QED
    BY <1>3, <2>1, FS_Bijection DEF ExistsBijection
<1>5. ASSUME NEW k \in 0..(c - 1)
      PROVE  {q \in P : Before(q, point(k), step)} = Run(from, step, k)
  <2>1. ASSUME NEW q \in P, Before(q, point(k), step)
        PROVE  \E j \in 0..(k - 1) : q = point(j)
    <3>1. PICK j \in 0..(c - 1) : q = point(j)
      BY DEF Run
    <3>2. j < k
      BY <1>2, <2>1, <3>1
    <3>3. j \in 0..(k - 1)
      BY <3>2
    <3> QED
      BY <3>1, <3>3
  <2>2. ASSUME NEW j \in 0..(k - 1)
        PROVE  point(j) \in P /\ Before(point(j), point(k), step)
    <3>1. j \in 0..(c - 1) /\ j < k
      OBVIOUS
    <3>2. point(j) \in P
      BY <3>1 DEF Run
    <3> HIDE DEF point
    <3> QED
      BY <1>2, <3>1, <3>2
  <2>3. Run(from, step, k) = {point(j) : j \in 0..(k - 1)}
    BY DEF Run
  <2> HIDE DEF P, point
  <2> QED
    BY <2>1, <2>2, <2>3
<1> QED
  BY <1>4, <1>5

\* The list that a slice stands for, item by item.
LEMMA SlicedItems ==
  ASSUME NEW X, NEW view \in Seq(X), NEW step \in Int, step # 0, NEW start \in Int, NEW stop \in Int
  PROVE  LET from == Clip(start, Len(view), step)
             to == Clip(stop, Len(view), step)
             c == Count(from, to, step)
             sliced == Sliced(view, from, to, step)
         IN  /\ from \in Int
             /\ c \in 0..Len(view)
             /\ sliced \in Seq(X) /\ Len(sliced) = c
             /\ \A k \in 0..(c - 1) : /\ from + (k * step) \in 0..(Len(view) - 1)
                                     /\ sliced[k + 1] = view[(from + (k * step)) + 1]
<1> DEFINE n == Len(view)
           from == Clip(start, Len(view), step)
           to == Clip(stop, Len(view), step)
           c == Count(from, to, step)
<1>1. n \in Nat
  OBVIOUS
<1>2. from \in Int /\ to \in Int
  BY <1>1, Clipped
<1>13. /\ c \in 0..n
       /\ Positions(n, from, to, step) = Run(from, step, c)
       /\ \A k \in 0..(c - 1) : from + (k * step) \in 0..(n - 1)
  BY <1>1, ChosenPositions
<1>14. n = Len(view)
  OBVIOUS
<1> HIDE DEF n, from, to, c
<1> DEFINE P == Positions(Len(view), from, to, step)
           rank(p) == Cardinality({q \in P : Before(q, p, step)})
           place(k) == CHOOSE p \in P : rank(p) = k - 1
           S == [k \in 1..Cardinality(P) |-> view[1 + place(k)]]
<1>3. /\ c \in 0..n
      /\ P = Run(from, step, c)
      /\ \A k \in 0..(c - 1) : from + (k * step) \in 0..(n - 1)
  BY <1>13, <1>14
<1>4. c \in Nat /\ c <= n
  BY <1>1, <1>3
<1>5. Cardinality(P) = c
  <2> HIDE DEF P
  <2> QED
    BY <1>2, <1>3, <1>4, Progression
<1>6. \A k \in 0..(c - 1) : rank(from + (k * step)) = k
  <2> SUFFICES ASSUME NEW k \in 0..(c - 1) PROVE rank(from + (k * step)) = k
    OBVIOUS
  <2>1. {q \in Run(from, step, c) : Before(q, from + (k * step), step)} = Run(from, step, k)
    BY <1>2, <1>4, Progression
  <2>2. k \in Nat
    BY <1>4
  <2>3. Cardinality(Run(from, step, k)) = k
    BY <1>2, <2>2, Progression
  <2> HIDE DEF P
  <2> QED
    BY <1>3, <2>1, <2>3
<1>7. ASSUME NEW k \in 1..c
      PROVE  place(k) = from + ((k - 1) * step)
  <2>1. k - 1 \in 0..(c - 1)
    BY <1>4
  <2> DEFINE point == from + ((k - 1) * step)
  <2> HIDE DEF P, rank
  <2>2. point \in P /\ rank(point) = k - 1
    BY <1>3, <1>6, <2>1 DEF Run
  <2>3. ASSUME NEW p \in P, rank(p) = k - 1
        PROVE  p = point
    <3>1. PICK j \in 0..(c - 1) : p = from + (j * step)
      BY <1>3 DEF Run
    <3>2. rank(p) = j
      BY <1>6, <3>1
    <3> QED
      BY <2>3, <3>1, <3>2
  <2> HIDE DEF point
  <2>4. place(k) = point
    BY <2>2, <2>3
  <2> QED
    BY <2>4 DEF point
<1>8. Sliced(view, from, to, step) = S
  BY DEF Sliced
<1> HIDE DEF P
<1>9. \A k \in 1..c : 1 + place(k) \in 1..n
  <2> SUFFICES ASSUME NEW k \in 1..c PROVE 1 + place(k) \in 1..n
    OBVIOUS
  <2>1. k - 1 \in 0..(c - 1)
    BY <1>4
  <2>2. place(k) \in 0..(n - 1)
    <3> HIDE DEF place
    <3> QED
      BY <1>3, <1>7, <2>1
  <2> HIDE DEF place
  <2> QED
    BY <1>1, <2>2
<1>10. \A k \in 1..c : view[1 + place(k)] \in X
  <2> HIDE DEF place
  <2> QED
    BY <1>9, <1>14, ElementOfSeq
<1>11. S \in Seq(X) /\ Len(S) = c /\ DOMAIN S = 1..c
  <2> HIDE DEF place
  <2> QED
    BY <1>4, <1>5, <1>10
<1>12. ASSUME NEW k \in 0..(c - 1)
       PROVE  S[k + 1] = view[(from + (k * step)) + 1]
  <2>1. k + 1 \in 1..c /\ (k + 1) - 1 = k
    BY <1>4
  <2>2. place(k + 1) = from + (k * step)
    <3> HIDE DEF place
    <3> QED
      BY <1>7, <2>1
  <2>3. 1 + place(k + 1) = (from + (k * step)) + 1
    <3> HIDE DEF place
    <3>1. from + (k * step) \in Int
      BY <1>1, <1>3
    <3> QED
      BY <2>2, <3>1
  <2> HIDE DEF place
  <2> QED
    BY <1>5, <2>1, <2>3
<1> HIDE DEF S
<1>15. LET sliced == Sliced(view, from, to, step) IN
       /\ from \in Int
       /\ c \in 0..Len(view)
       /\ sliced \in Seq(X) /\ Len(sliced) = c
       /\ \A k \in 0..(c - 1) : /\ from + (k * step) \in 0..(Len(view) - 1)
                               /\ sliced[k + 1] = view[(from + (k * step)) + 1]
  BY <1>2, <1>3, <1>8, <1>11, <1>12, <1>14
<1> QED
  BY <1>15 DEF from, to, c

-----------------------------------------------------------------------------
(* The steps of a slice.                                                   *)

LEMMA SliceFacts ==
  ASSUME SliceIInv, NEW l \in 1..Len(slices)
  PROVE  /\ slices[l] \in Slice /\ l \in 1..Len(views)
         /\ slices[l].length \in 0..MaxLength /\ slices[l].length \in Nat
         /\ slices[l].start \in Int /\ slices[l].step \in Int
         /\ views[l] \in Seq(0..(MaxLength - 1)) /\ Len(views[l]) = slices[l].length
<1>1. /\ slices \in Seq(Slice) /\ views \in Seq(Seq(0..(MaxLength - 1)))
      /\ Len(views) = Len(slices) /\ MaxLength \in Nat
  BY ParametersAssumption DEF SliceIInv, SliceTypeOK, Shapes
<1>2. slices[l] \in Slice /\ views[l] \in Seq(0..(MaxLength - 1))
  BY <1>1, ElementOfSeq
<1>3. slices[l].length \in 0..MaxLength /\ slices[l].start \in Int /\ slices[l].step \in Int
  BY <1>2 DEF Slice
<1> QED
  BY <1>1, <1>2, <1>3 DEF SliceIInv, Shapes

LEMMA NothingSliced ==
  ASSUME SliceInit
  PROVE  SliceIInv
<1>1. slices = <<>> /\ views = <<>> /\ Len(slices) = 0 /\ Len(views) = 0
  BY DEF SliceInit
<1>2. MaxDepth \in Nat
  BY ParametersAssumption
<1>3. SliceTypeOK
  BY <1>1, <1>2 DEF SliceInit, SliceTypeOK, None, Exception
<1>4. Shapes /\ Linked
  BY <1>1 DEF Shapes, Linked
<1>5. LookUp /\ ItemsAsOfList
  BY DEF SliceInit, LookUp, ItemsAsOfList, None, Exception
<1> QED
  BY <1>3, <1>4, <1>5 DEF SliceIInv

\* Slice_New.
LEMMA FirstSlice ==
  ASSUME SliceIInv, NEW n \in 0..MaxLength, New(n)
  PROVE  SliceIInv'
<1> DEFINE new == [length |-> n, start |-> Junk, step |-> Junk, item |-> "function"]
           view == [k \in 1..n |-> k - 1]
<1>1. MaxLength \in Nat /\ MaxDepth \in Nat \ {0} /\ n \in Nat
  BY ParametersAssumption
<1>2. new \in Slice
  BY DEF Slice, Junk
<1>3. view \in Seq(0..(MaxLength - 1)) /\ Len(view) = n /\ \A k \in 1..n : view[k] = k - 1
  <2>1. \A k \in 1..n : k - 1 \in 0..(MaxLength - 1)
    BY <1>1
  <2> QED
    BY <1>1, <2>1
<1>4. slices' = <<new>> /\ views' = <<view>> /\ new.length = n /\ new.item = "function"
  BY DEF New
<1> HIDE DEF new, view
<1>5. /\ slices' \in Seq(Slice) /\ Len(slices') = 1 /\ slices'[1] = new
      /\ views' \in Seq(Seq(0..(MaxLength - 1))) /\ Len(views') = 1 /\ views'[1] = view
  BY <1>2, <1>3, <1>4
<1>6. /\ stage = "idle" /\ slices = <<>> /\ level = 0 /\ result = None
      /\ UNCHANGED <<stage, asked, level, idx, result>>
  <2>1. Len(slices) = 0
    BY DEF New
  <2> QED
    BY <2>1 DEF New, Idle, SliceIInv, SliceTypeOK, LookUp
<1>7. SliceTypeOK'
  BY <1>1, <1>5, <1>6 DEF SliceIInv, SliceTypeOK, Slice
<1>8. Shapes' /\ Linked'
  BY <1>3, <1>4, <1>5 DEF Shapes, Linked
<1>9. LookUp' /\ ItemsAsOfList'
  BY <1>5, <1>6 DEF LookUp, ItemsAsOfList, None, Exception
<1> QED
  BY <1>7, <1>8, <1>9 DEF SliceIInv

\* subscript with a slice: the new slice stands for the list that is sliced the same way.
LEMMA SliceOfSlice ==
  ASSUME SliceIInv, NEW start \in Bound, NEW stop \in Bound, NEW step \in Step,
         SliceOf(start, stop, step)
  PROVE  SliceIInv'
<1> DEFINE L == Len(slices)
           old == views[L]
           n == slices[L].length
           from == Clip(start, Len(old), step)
           to == Clip(stop, Len(old), step)
           c == Count(from, to, step)
           view == Sliced(old, from, to, step)
<1>1. /\ slices \in Seq(Slice) /\ views \in Seq(Seq(0..(MaxLength - 1)))
      /\ L \in Nat /\ L # 0 /\ Len(views) = L /\ L <= MaxDepth
  BY DEF SliceIInv, SliceTypeOK, Shapes, SliceOf
<1>2. L \in 1..L
  BY <1>1
<1>3. /\ old \in Seq(0..(MaxLength - 1)) /\ Len(old) = n /\ n \in 0..MaxLength
  BY <1>2, SliceFacts
<1>4. start \in Int /\ stop \in Int /\ step \in Int /\ step # 0 /\ MaxLength \in Nat /\ MaxDepth \in Nat
  BY ParametersAssumption DEF SliceOf
<1>5. PICK junk \in {"null", "junk"} :
        slices' = Append(slices, [length |-> c, start |-> from, step |-> step, item |-> junk])
  BY <1>3 DEF SliceOf
<1> DEFINE new == [length |-> c, start |-> from, step |-> step, item |-> junk]
<1>6. views' = Append(views, view)
  BY <1>1, <1>3 DEF SliceOf
<1>7. /\ from \in Int /\ c \in 0..Len(old)
      /\ view \in Seq(0..(MaxLength - 1)) /\ Len(view) = c
      /\ \A k \in 0..(c - 1) : /\ from + (k * step) \in 0..(Len(old) - 1)
                               /\ view[k + 1] = old[(from + (k * step)) + 1]
  <2> DEFINE X == 0..(MaxLength - 1)
  <2>1. old \in Seq(X) /\ step \in Int /\ step # 0 /\ start \in Int /\ stop \in Int
    BY <1>3, <1>4
  <2> HIDE DEF old, X
  <2>2. from \in Int
    BY <2>1, SlicedItems
  <2>3. c \in 0..Len(old)
    BY <2>1, SlicedItems
  <2>4. view \in Seq(X) /\ Len(view) = c
    BY <2>1, SlicedItems
  <2>5. \A k \in 0..(c - 1) : from + (k * step) \in 0..(Len(old) - 1)
    BY <2>1, SlicedItems
  <2>6. \A k \in 0..(c - 1) : view[k + 1] = old[(from + (k * step)) + 1]
    BY <2>1, SlicedItems
  <2> QED
    BY <2>2, <2>3, <2>4, <2>5, <2>6 DEF X
<1>8. new.length = c /\ new.start = from /\ new.step = step /\ new.item = junk
  OBVIOUS
<1>9. /\ stage = "idle" /\ level \in 0..L /\ UNCHANGED <<stage, asked, level, idx>>
      /\ result' = None
  BY DEF SliceOf, Idle, SliceIInv, SliceTypeOK
<1>10. old = views[L] /\ n = slices[L].length /\ L = Len(slices)
  OBVIOUS
<1>11. new \in Slice
  <2>1. c \in 0..MaxLength
    <3>1. c \in 0..n
      BY <1>3, <1>7
    <3> HIDE DEF c, n
    <3> QED
      BY <1>3, <1>4, <3>1
  <2> QED
    BY <1>4, <1>7, <2>1 DEF Slice
<1>12. slices' = Append(slices, new)
  BY <1>5
<1> HIDE DEF new, view, c, from, to, n, old
<1>13. /\ slices' \in Seq(Slice) /\ Len(slices') = L + 1 /\ slices'[L + 1] = new
       /\ \A l \in 1..L : slices'[l] = slices[l]
  BY <1>1, <1>11, <1>12
<1>14. /\ views' \in Seq(Seq(0..(MaxLength - 1))) /\ Len(views') = L + 1 /\ views'[L + 1] = view
       /\ \A l \in 1..L : views'[l] = views[l]
  BY <1>1, <1>6, <1>7
<1> HIDE DEF L
<1>15. SliceTypeOK'
  <2>1. L + 1 <= MaxDepth + 1 /\ level' \in 0..(L + 1)
    BY <1>1, <1>4, <1>9
  <2> QED
    BY <1>9, <1>13, <1>14, <2>1 DEF SliceIInv, SliceTypeOK, Slice, None, Exception
<1>16. Shapes'
  <2>1. \A l \in 1..(L + 1) : Len(views'[l]) = slices'[l].length
    <3> SUFFICES ASSUME NEW l \in 1..(L + 1) PROVE Len(views'[l]) = slices'[l].length
      OBVIOUS
    <3>1. CASE l \in 1..L
      BY <1>10, <1>13, <1>14, <3>1 DEF SliceIInv, Shapes
    <3>2. CASE l = L + 1
      BY <1>7, <1>8, <1>13, <1>14, <3>2
    <3> QED
      BY <1>1, <3>1, <3>2
  <2>2. slices # <<>> /\ 1 \in 1..L
    BY <1>1, <1>10
  <2>3. slices'[1].item = "function" /\ \A k \in 1..Len(views'[1]) : views'[1][k] = k - 1
    BY <1>13, <1>14, <2>2 DEF SliceIInv, Shapes
  <2>4. \A l \in 2..(L + 1) : slices'[l].item # "function"
    <3> SUFFICES ASSUME NEW l \in 2..(L + 1) PROVE slices'[l].item # "function"
      OBVIOUS
    <3>1. CASE l \in 2..L
      BY <1>1, <1>10, <1>13, <3>1 DEF SliceIInv, Shapes
    <3>2. CASE l = L + 1
      BY <1>8, <1>13, <3>2
    <3> QED
      BY <1>1, <3>1, <3>2
  <2> QED
    BY <1>13, <1>14, <2>1, <2>3, <2>4 DEF Shapes
<1>17. Linked'
  <2> SUFFICES ASSUME NEW l \in 2..(L + 1), NEW k \in 0..(slices'[l].length - 1)
               PROVE  LET p == slices'[l].start + (k * slices'[l].step) IN
                      /\ p \in 0..(slices'[l - 1].length - 1)
                      /\ views'[l][k + 1] = views'[l - 1][p + 1]
    BY <1>13 DEF Linked, SameItem
  <2>1. CASE l \in 2..L
    <3>1. l \in 1..L /\ l - 1 \in 1..L
      BY <1>1, <2>1
    <3>2. k \in 0..(slices[l].length - 1)
      BY <1>13, <3>1
    <3>3. SameItem(l, k, slices[l].start + (k * slices[l].step))
      BY <1>10, <2>1, <3>2 DEF SliceIInv, Linked
    <3> QED
      BY <1>13, <1>14, <3>1, <3>3 DEF SameItem
  <2>2. CASE l = L + 1
    <3>1. l - 1 = L /\ L \in 1..L /\ k \in 0..(c - 1)
      BY <1>1, <1>8, <1>13, <2>2
    <3>2. slices'[l] = new /\ slices'[l - 1].length = n /\ views'[l] = view /\ views'[l - 1] = old
      BY <1>10, <1>13, <1>14, <2>2, <3>1
    <3> QED
      BY <1>3, <1>7, <1>8, <3>1, <3>2
  <2> QED
    BY <1>1, <2>1, <2>2
<1>18. LookUp' /\ ItemsAsOfList'
  <2>1. slices' # <<>>
    BY <1>1, <1>13
  <2> QED
    BY <1>9, <2>1 DEF LookUp, ItemsAsOfList, None, Exception
<1> QED
  BY <1>15, <1>16, <1>17, <1>18 DEF SliceIInv

-----------------------------------------------------------------------------
(* Looking up an item.                                                     *)

\* Where the last slice and its list are, while an item is looked up.
LEMMA LookUpFacts ==
  ASSUME SliceIInv, stage = "item"
  PROVE  LET L == Len(slices)
             view == views[L]
             k == FromEnd(asked)
         IN  /\ L \in Nat \ {0} /\ L \in 1..L /\ Len(views) = L
             /\ Len(view) = slices[L].length /\ Len(view) \in Nat
             /\ k \in Int /\ k = IF asked < 0 THEN asked + Len(view) ELSE asked
             /\ level \in 0..L /\ idx \in Int
             /\ level = L => idx = k
             /\ level # L => k \in 0..(Len(view) - 1)
             /\ (level # L /\ level = 0) => idx \in 0..(slices[1].length - 1) /\ idx = view[k + 1]
             /\ (level # L /\ level # 0) => /\ idx \in 0..(slices[level].length - 1)
                                           /\ views[level][idx + 1] = view[k + 1]
<1>1. /\ slices \in Seq(Slice) /\ slices # <<>> /\ level \in 0..Len(slices) /\ idx \in Int
      /\ asked \in Int /\ Len(views) = Len(slices)
  BY DEF SliceIInv, SliceTypeOK, Shapes, LookUp
<1>2. Len(slices) \in Nat \ {0} /\ Len(slices) \in 1..Len(slices)
  BY <1>1
<1>3. /\ Len(views[Len(slices)]) = slices[Len(slices)].length
      /\ slices[Len(slices)].length \in Nat
  BY <1>2, SliceFacts
<1>4. /\ FromEnd(asked) \in Int
      /\ FromEnd(asked) = IF asked < 0 THEN asked + Len(views[Len(slices)]) ELSE asked
  BY <1>1, <1>3 DEF FromEnd
<1>5. IF level = Len(slices) THEN idx = FromEnd(asked)
      ELSE LET view == views[Len(slices)]
               k == FromEnd(asked)
           IN  /\ k \in 0..(Len(view) - 1)
               /\ IF level = 0 THEN idx \in 0..(slices[1].length - 1) /\ idx = view[k + 1]
                  ELSE idx \in 0..(slices[level].length - 1) /\ views[level][idx + 1] = view[k + 1]
  BY <1>1 DEF SliceIInv, LookUp
<1> QED
  BY <1>1, <1>2, <1>3, <1>4, <1>5

\* The slices stay, and an item is looked up or has been.
LEMMA StaySliced ==
  ASSUME SliceIInv, UNCHANGED <<slices, views>>
  PROVE  /\ Shapes' /\ Linked'
         /\ slices' \in Seq(Slice') /\ Len(slices') <= MaxDepth + 1
         /\ views' \in Seq(Seq(0..(MaxLength - 1)))
BY DEF SliceIInv, SliceTypeOK, Shapes, Linked, SameItem, Slice

LEMMA AskSlice ==
  ASSUME SliceIInv, NEW i \in Bound, Subscript(i)
  PROVE  SliceIInv'
<1>1. /\ slices # <<>> /\ stage' = "item" /\ level' = Len(slices) /\ idx' = FromEnd(i) /\ asked' = i
      /\ result' = None /\ UNCHANGED <<slices, views>>
  BY DEF Subscript
<1>2. i \in Int /\ slices \in Seq(Slice) /\ Len(slices) \in Nat /\ Len(slices) \in 1..Len(slices)
  BY <1>1, ParametersAssumption DEF SliceIInv, SliceTypeOK
<1>3. idx' \in Int
  BY <1>1, <1>2, SliceFacts DEF FromEnd
<1>4. SliceTypeOK'
  BY <1>1, <1>2, <1>3, StaySliced DEF SliceTypeOK, None, Exception
<1>5. LookUp' /\ ItemsAsOfList'
  BY <1>1 DEF LookUp, ItemsAsOfList, Idle, FromEnd
<1> QED
  BY <1>1, <1>4, <1>5, StaySliced DEF SliceIInv

\* The item function makes an item, or an index is out of range.
LEMMA AnswerSlice ==
  ASSUME SliceIInv, IndexError \/ MakeItem
  PROVE  SliceIInv'
<1> DEFINE L == Len(slices)
           view == views[L]
           k == FromEnd(asked)
<1>1. /\ stage = "item" /\ stage' = "idle" /\ UNCHANGED <<slices, views, asked, level, idx>>
  BY DEF IndexError, MakeItem, Looking, Return
<1>2. /\ L \in Nat \ {0} /\ Len(views) = L
      /\ Len(view) = slices[L].length /\ Len(view) \in Nat
      /\ k \in Int /\ k = IF asked < 0 THEN asked + Len(view) ELSE asked
      /\ level \in 0..L /\ idx \in Int
      /\ level = L => idx = k
      /\ level # L => k \in 0..(Len(view) - 1)
      /\ (level # L /\ level = 0) => idx \in 0..(slices[1].length - 1) /\ idx = view[k + 1]
      /\ (level # L /\ level # 0) => idx \in 0..(slices[level].length - 1)
  BY <1>1, LookUpFacts
<1> HIDE DEF k, view
<1>3. result' = PythonItem(view, asked)
  <2>1. CASE IndexError
    <3>1. /\ level > 0
          /\ idx < 0 \/ idx >= slices[level].length
          /\ result' = Exception("IndexError")
      BY <2>1 DEF IndexError, Looking, Outside, Current, Return
    <3>2. level = L
      <4>1. ASSUME level # L PROVE FALSE
        <5>1. level # 0
          BY <1>2, <3>1
        <5>2. idx \in 0..(slices[level].length - 1) /\ level \in 1..L
          BY <1>2, <4>1, <5>1
        <5>3. slices[level].length \in Nat
          BY <5>2, SliceFacts
        <5> QED
          BY <3>1, <5>2, <5>3
      <4> QED
        BY <4>1
    <3>3. k < 0 \/ k >= Len(view)
      BY <1>2, <3>1, <3>2
    <3> QED
      BY <1>2, <3>1, <3>3 DEF PythonItem
  <2>2. CASE MakeItem
    <3>1. level = 0 /\ result' = Item(idx)
      BY <2>2 DEF MakeItem, Return
    <3>2. k \in 0..(Len(view) - 1) /\ idx = view[k + 1]
      BY <1>2, <3>1
    <3> QED
      BY <1>2, <3>1, <3>2 DEF PythonItem
  <2> QED
    BY <2>1, <2>2
<1>4. result'.kind \in {"item", "IndexError"} /\ result' \in [kind : {"none", "item", "IndexError", "ValueError"}, item : Int]
  <2>1. result' = Exception("IndexError") \/ result' = Item(idx)
    BY DEF IndexError, MakeItem, Return
  <2> QED
    BY <1>2, <2>1 DEF Exception, Item
<1>5. SliceTypeOK'
  BY <1>1, <1>4, StaySliced DEF SliceIInv, SliceTypeOK
<1>6. LookUp'
  <2>1. slices' # <<>>
    BY <1>1, <1>2
  <2> QED
    BY <1>1, <2>1 DEF LookUp
<1>7. ItemsAsOfList'
  BY <1>1, <1>2, <1>3 DEF ItemsAsOfList, PythonItem, Exception, Item, view
<1> QED
  BY <1>1, <1>5, <1>6, <1>7, StaySliced DEF SliceIInv

\* An item is looked up one slice further down, and stays the same.
LEMMA DescendSlice ==
  ASSUME SliceIInv, CallItem \/ CallBelow
  PROVE  SliceIInv'
<1> DEFINE L == Len(slices)
           view == views[L]
           k == FromEnd(asked)
<1>1. /\ stage = "item" /\ level > 0 /\ ~(idx < 0) /\ ~(idx >= slices[level].length)
      /\ UNCHANGED <<slices, views, stage, asked, result>>
  BY DEF CallItem, CallBelow, Looking, Outside, Current
<1>2. /\ L \in Nat \ {0} /\ Len(views) = L
      /\ Len(view) = slices[L].length /\ Len(view) \in Nat
      /\ k \in Int /\ level \in 0..L /\ idx \in Int
      /\ level = L => idx = k
      /\ level # L => k \in 0..(Len(view) - 1)
      /\ (level # L /\ level # 0) => views[level][idx + 1] = view[k + 1]
  BY <1>1, LookUpFacts
<1>3. level \in 1..L /\ L = Len(slices)
  BY <1>1, <1>2
<1>4. slices[level].length \in Nat
  BY <1>3, SliceFacts
<1>5. idx \in 0..(slices[level].length - 1)
  BY <1>1, <1>2, <1>4
<1>6. k \in 0..(Len(view) - 1) /\ views[level][idx + 1] = view[k + 1]
  <2>1. view = views[L]
    OBVIOUS
  <2> HIDE DEF view, k
  <2> QED
    BY <1>2, <1>3, <1>5, <2>1
<1>7. /\ level' \in 0..(L - 1) /\ idx' \in Int
      /\ level' = 0 => idx' \in 0..(slices[1].length - 1) /\ idx' = view[k + 1]
      /\ level' # 0 => idx' \in 0..(slices[level'].length - 1) /\ views[level'][idx' + 1] = view[k + 1]
  <2> HIDE DEF view, k
  <2>1. CASE CallItem
    <3>1. level' = 0 /\ idx' = idx /\ slices[level].item = "function"
      BY <2>1 DEF CallItem, Current
    <3>2. level = 1
      <4>1. ~(level \in 2..L)
        BY <3>1 DEF SliceIInv, Shapes
      <4> QED
        BY <1>2, <1>3, <4>1
    <3>3. /\ Len(views[1]) = slices[1].length /\ slices # <<>>
      BY <1>3, <3>2, SliceFacts
    <3>4. idx + 1 \in 1..Len(views[1])
      BY <1>4, <1>5, <3>2, <3>3
    <3>5. views[1][idx + 1] = (idx + 1) - 1
      BY <3>3, <3>4 DEF SliceIInv, Shapes
    <3> QED
      BY <1>2, <1>5, <1>6, <3>1, <3>2, <3>5
  <2>2. CASE CallBelow
    <3>1. level' = level - 1 /\ idx' = IndexBelow /\ slices[level].item = "null"
      BY <2>2 DEF CallBelow, Current
    <3>2. level # 1
      <4>1. slices # <<>>
        BY <1>2
      <4> QED
        BY <3>1, <4>1 DEF SliceIInv, Shapes
    <3>3. level \in 2..L
      BY <1>2, <1>3, <3>2
    <3>4. SameItem(level, idx, slices[level].start + (idx * slices[level].step))
      BY <1>5, <3>3 DEF SliceIInv, Linked
    <3>5. idx' = slices[level].start + (idx * slices[level].step)
      BY <3>1 DEF IndexBelow, Current
    <3>6. idx' \in 0..(slices[level - 1].length - 1) /\ views[level][idx + 1] = views[level - 1][idx' + 1]
      BY <3>4, <3>5 DEF SameItem
    <3>7. level - 1 \in 1..L
      BY <3>3
    <3>8. slices[level - 1].length \in Nat
      BY <3>7, SliceFacts
    <3> QED
      BY <1>6, <3>1, <3>3, <3>6, <3>8
  <2> QED
    BY <2>1, <2>2
<1>8. SliceTypeOK'
  <2>1. level' \in 0..Len(slices')
    BY <1>1, <1>2, <1>7
  <2> QED
    BY <1>1, <1>7, <2>1, StaySliced DEF SliceIInv, SliceTypeOK
<1>9. LookUp'
  <2>1. FromEnd(asked)' = k
    BY <1>1 DEF FromEnd
  <2>2. views'[Len(views')] = view /\ slices' # <<>>
    BY <1>1, <1>2
  <2>3. level' # Len(slices')
    BY <1>1, <1>2, <1>7
  <2> HIDE DEF view, k
  <2> QED
    BY <1>1, <1>6, <1>7, <2>1, <2>2, <2>3 DEF LookUp
<1>10. ItemsAsOfList'
  BY <1>1 DEF ItemsAsOfList, Idle
<1> QED
  BY <1>1, <1>8, <1>9, <1>10, StaySliced DEF SliceIInv

LEMMA SliceStep ==
  ASSUME SliceIInv, [SliceNext]_sliceVars
  PROVE  SliceIInv'
<1>1. CASE SliceByZero
  <2>1. /\ stage = "idle" /\ slices # <<>> /\ result' = Exception("ValueError")
        /\ UNCHANGED <<slices, views, stage, asked, level, idx>>
    BY <1>1 DEF SliceByZero, Idle
  <2>2. SliceTypeOK'
    BY <2>1, StaySliced DEF SliceIInv, SliceTypeOK, Exception
  <2>3. LookUp' /\ ItemsAsOfList'
    BY <2>1 DEF LookUp, ItemsAsOfList, Exception
  <2> QED
    BY <2>1, <2>2, <2>3, StaySliced DEF SliceIInv
<1>2. CASE CallJunk
  <2>1. /\ stage = "item" /\ stage' = "wild" /\ UNCHANGED <<slices, views, asked, level, idx, result>>
    BY <1>2 DEF CallJunk, Looking
  <2>2. SliceTypeOK'
    BY <2>1, StaySliced DEF SliceIInv, SliceTypeOK
  <2>3. LookUp' /\ ItemsAsOfList'
    BY <2>1 DEF SliceIInv, LookUp, ItemsAsOfList, Idle
  <2> QED
    BY <2>1, <2>2, <2>3, StaySliced DEF SliceIInv
<1>3. CASE Release
  <2>1. /\ stage = "idle" /\ slices' = <<>> /\ views' = <<>> /\ result' = None
        /\ asked' = 0 /\ level' = 0 /\ idx' = 0 /\ UNCHANGED stage
    BY <1>3 DEF Release, Idle
  <2>2. Len(slices') = 0 /\ Len(views') = 0 /\ MaxDepth \in Nat
    BY <2>1, ParametersAssumption
  <2>3. SliceTypeOK'
    BY <2>1, <2>2 DEF SliceTypeOK, None, Exception
  <2>4. Shapes' /\ Linked'
    BY <2>1, <2>2 DEF Shapes, Linked
  <2>5. LookUp' /\ ItemsAsOfList'
    BY <2>1 DEF LookUp, ItemsAsOfList, None, Exception
  <2> QED
    BY <2>3, <2>4, <2>5 DEF SliceIInv
<1>4. CASE UNCHANGED sliceVars
  <2>1. UNCHANGED <<slices, views, stage, asked, level, idx, result>>
    BY <1>4 DEF sliceVars
  <2>2. SliceTypeOK'
    BY <2>1, StaySliced DEF SliceIInv, SliceTypeOK
  <2>3. LookUp' /\ ItemsAsOfList'
    BY <2>1 DEF SliceIInv, LookUp, ItemsAsOfList, Idle, FromEnd, PythonItem
  <2> QED
    BY <2>1, <2>2, <2>3, StaySliced DEF SliceIInv
<1> QED
  BY <1>1, <1>2, <1>3, <1>4, FirstSlice, SliceOfSlice, AskSlice, AnswerSlice, DescendSlice
  DEF SliceNext

-----------------------------------------------------------------------------
\* What every step keeps (Slice_New, subscript and item of _slice.c).
THEOREM SliceInvariance == SliceSpec => []SliceIInv
<1>1. SliceInit => SliceIInv
  BY NothingSliced
<1>2. SliceIInv /\ [SliceNext]_sliceVars => SliceIInv'
  BY SliceStep
<1> QED
  BY <1>1, <1>2, PTL DEF SliceSpec

\* The variables of Slices keep their types: no list that a slice stands for is longer
\* than the object (_slice.c).
THEOREM SliceTypeCorrect == SliceSpec => []SliceTypeOK
<1>1. SliceIInv => SliceTypeOK
  BY DEF SliceIInv
<1> QED
  BY <1>1, SliceInvariance, PTL

\* x[i] of slices of slices is the i-th item of the list that is sliced the same way.
THEOREM SlicesAreLists == SliceSpec => []ItemsAsOfList
<1>1. SliceIInv => ItemsAsOfList
  BY DEF SliceIInv
<1> QED
  BY <1>1, SliceInvariance, PTL

\* An index that a slice accepts is in range for all slices below it and for the object.
THEOREM IndicesInRange == SliceSpec => []RangeChecked
<1>1. SliceIInv => RangeChecked
  <2> SUFFICES ASSUME SliceIInv, stage = "item"
               PROVE  /\ (0 < level /\ level < Len(slices)) => ~Outside
                      /\ level = 0 => idx \in 0..(slices[1].length - 1)
    BY DEF RangeChecked
  <2>1. /\ Len(slices) \in Nat \ {0} /\ level \in 0..Len(slices) /\ idx \in Int
        /\ (level # Len(slices) /\ level = 0) => idx \in 0..(slices[1].length - 1)
        /\ (level # Len(slices) /\ level # 0) => idx \in 0..(slices[level].length - 1)
    BY LookUpFacts
  <2>2. ASSUME 0 < level, level < Len(slices) PROVE ~Outside
    <3>1. level \in 1..Len(slices)
      BY <2>1, <2>2
    <3>2. slices[level].length \in Nat
      BY <3>1, SliceFacts
    <3> QED
      BY <2>1, <2>2, <3>2 DEF Outside, Current
  <2> QED
    BY <2>1, <2>2
<1> QED
  BY <1>1, SliceInvariance, PTL
=============================================================================
