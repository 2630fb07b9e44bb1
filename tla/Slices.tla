------------------------------ MODULE Slices ------------------------------
(***************************************************************************)
(* The sequences of the Python binding: Block.transactions,                *)
(* Transaction.outputs and Chain.blocks are objects of type _Slice, and so *)
(* is a slice of one of them.  An item of a slice is looked up in the      *)
(* slice it was taken from, and so on down to the object, whose item       *)
(* function makes it.                                                      *)
(*                                                                         *)
(* slices[1] is what Slice_New has made, slices[l + 1] a slice of          *)
(* slices[l].  PyObject_New leaves the members of a new object as they     *)
(* are in memory; those that nobody assigns keep what was there.           *)
(***************************************************************************)
EXTENDS Integers, Sequences, FiniteSets

CONSTANTS
  MaxLength,  \* bound on the items of an object
  MaxDepth,   \* bound on slices of slices
  Bound,      \* the start and stop of slices, and the indices, that are asked for
  Step        \* the steps of slices that are asked for

ASSUME ParametersAssumption ==
  /\ MaxLength \in Nat
  /\ MaxDepth \in Nat \ {0}
  /\ Bound \subseteq Int
  /\ Step \subseteq Int

VARIABLES
  slices,  \* the slices, each a slice of the one before
  views,   \* what they stand for: the items of the object, by their index
  stage,   \* "idle", "item" while an item is looked up, "wild" after a call of
           \* whatever the memory of a new slice held
  asked,   \* the index that the last slice was asked for
  level,   \* the slice whose item() runs; 0 is the object's item function
  idx,     \* its argument
  result   \* [kind, item]: the item returned, or an exception

sliceVars == <<slices, views, stage, asked, level, idx, result>>

\* What an integer member holds that was never assigned: no number to count with.
Junk == 0 - 1000

\* item is the object's item function, NULL, or what the memory happened to hold.
Slice == [length : 0..MaxLength, start : Int, step : Int, item : {"function", "null", "junk"}]

Item(i) == [kind |-> "item", item |-> i]
Exception(e) == [kind |-> e, item |-> 0]
None == Exception("none")

-----------------------------------------------------------------------------
(* PySlice_AdjustIndices, for a sequence of n items.                       *)

Clip(bound, n, step) ==
  LET b == IF bound < 0 THEN bound + n ELSE bound IN
  IF b < 0 THEN (IF step < 0 THEN -1 ELSE 0)
  ELSE IF b >= n THEN (IF step < 0 THEN n - 1 ELSE n)
  ELSE b

Count(start, stop, step) ==
  IF step < 0 THEN (IF stop < start THEN (start - stop - 1) \div (-step) + 1 ELSE 0)
  ELSE (IF start < stop THEN (stop - start - 1) \div step + 1 ELSE 0)

-----------------------------------------------------------------------------
(* What slicing means: of the positions from start to stop, those that are *)
(* a whole number of steps away from start, in the direction of the step.  *)

Positions(n, start, stop, step) ==
  {p \in 0..(n - 1) :
     IF step > 0 THEN start <= p /\ p < stop /\ (p - start) % step = 0
     ELSE stop < p /\ p <= start /\ (start - p) % (-step) = 0}

Before(p, q, step) == IF step > 0 THEN p < q ELSE q < p

Sliced(view, start, stop, step) ==
  LET chosen == Positions(Len(view), start, stop, step) IN
  [k \in 1..Cardinality(chosen) |->
     view[1 + CHOOSE p \in chosen :
                Cardinality({q \in chosen : Before(q, p, step)}) = k - 1]]

-----------------------------------------------------------------------------
Idle == stage = "idle"

\* Slice_New: start and step stay unassigned.
New(n) ==
  /\ Idle
  /\ slices = <<>>
  /\ slices' = <<[length |-> n, start |-> Junk, step |-> Junk, item |-> "function"]>>
  /\ views' = <<[k \in 1..n |-> k - 1]>>
  /\ UNCHANGED <<stage, asked, level, idx, result>>

\* subscript with a slice.  item stays unassigned.
SliceOf(start, stop, step) ==
  /\ Idle
  /\ slices # <<>>
  /\ Len(slices) <= MaxDepth
  /\ step # 0
  /\ LET n == slices[Len(slices)].length
         from == Clip(start, n, step)
         to == Clip(stop, n, step)
     IN  /\ \E junk \in {"null", "junk"} :
              slices' = Append(slices, [length |-> Count(from, to, step),
                                        start |-> from, step |-> step, item |-> junk])
         /\ views' = Append(views, Sliced(views[Len(views)], from, to, step))
  /\ result' = None
  /\ UNCHANGED <<stage, asked, level, idx>>

\* PySlice_Unpack refuses it.
SliceByZero ==
  /\ Idle
  /\ slices # <<>>
  /\ result' = Exception("ValueError")
  /\ UNCHANGED <<slices, views, stage, asked, level, idx>>

\* subscript of the last slice with an index; a slice below it is the last one of
\* a shorter sequence.  The fault takes the length of the object.
FromEndFault(i) == IF i < 0 THEN i + slices[1].length ELSE i
FromEnd(i) == IF i < 0 THEN i + slices[Len(slices)].length ELSE i

Subscript(i) ==
  /\ Idle
  /\ slices # <<>>
  /\ stage' = "item"
  /\ level' = Len(slices)
  /\ idx' = FromEnd(i)
  /\ asked' = i
  /\ result' = None
  /\ UNCHANGED <<slices, views>>

Current == slices[level]
Looking == stage = "item" /\ level > 0
Outside == idx < 0 \/ idx >= Current.length

Return(r) ==
  /\ stage' = "idle"
  /\ result' = r
  /\ UNCHANGED <<slices, views, asked, level, idx>>

IndexError ==
  /\ Looking
  /\ Outside
  /\ Return(Exception("IndexError"))

\* The item function of the object.
CallItem ==
  /\ Looking
  /\ ~Outside
  /\ Current.item = "function"
  /\ level' = 0
  /\ UNCHANGED <<slices, views, stage, asked, idx, result>>

\* sq_item of the slice below.  The fault forgets where the slice starts.
IndexBelowFault == idx * Current.step
IndexBelow == Current.start + (idx * Current.step)

CallBelow ==
  /\ Looking
  /\ ~Outside
  /\ Current.item = "null"
  /\ level' = level - 1
  /\ idx' = IndexBelow
  /\ UNCHANGED <<slices, views, stage, asked, result>>

\* A call through a pointer that nobody assigned: anything may follow.
CallJunk ==
  /\ Looking
  /\ ~Outside
  /\ Current.item = "junk"
  /\ stage' = "wild"
  /\ UNCHANGED <<slices, views, asked, level, idx, result>>

MakeItem ==
  /\ stage = "item" /\ level = 0
  /\ Return(Item(idx))

\* The program is done with the sequence.
Release ==
  /\ Idle
  /\ slices # <<>>
  /\ slices' = <<>>
  /\ views' = <<>>
  /\ result' = None
  /\ asked' = 0
  /\ level' = 0
  /\ idx' = 0
  /\ UNCHANGED stage

SliceInit ==
  /\ slices = <<>>
  /\ views = <<>>
  /\ stage = "idle"
  /\ asked = 0
  /\ level = 0
  /\ idx = 0
  /\ result = None

SliceNext ==
  \/ \E n \in 0..MaxLength : New(n)
  \/ \E start, stop \in Bound, step \in Step : SliceOf(start, stop, step)
  \/ SliceByZero
  \/ \E i \in Bound : Subscript(i)
  \/ IndexError \/ CallItem \/ CallBelow \/ CallJunk \/ MakeItem
  \/ Release

SliceSpec == SliceInit /\ [][SliceNext]_sliceVars

-----------------------------------------------------------------------------
(* Properties.                                                             *)

SliceTypeOK ==
  /\ slices \in Seq(Slice) /\ Len(slices) <= MaxDepth + 1
  /\ views \in Seq(Seq(0..(MaxLength - 1)))
  /\ stage \in {"idle", "item", "wild"}
  /\ asked \in Int
  /\ level \in 0..Len(slices)
  /\ idx \in Int
  /\ result \in [kind : {"none", "item", "IndexError", "ValueError"}, item : Int]

\* x[i] is the i-th item of the list that the slices stand for, from the end if i
\* is negative, and an IndexError only if there is none: looking it up through
\* the slices below ends at the same item, whatever their starts and steps.
PythonItem(view, i) ==
  LET k == IF i < 0 THEN i + Len(view) ELSE i IN
  IF k < 0 \/ k >= Len(view) THEN Exception("IndexError") ELSE Item(view[k + 1])

ItemsAsOfList ==
  (Idle /\ result.kind \in {"item", "IndexError"}) =>
    result = PythonItem(views[Len(views)], asked)

\* An index that a slice accepts is in range for all slices below it and for the
\* object, whose item function checks no range.
RangeChecked ==
  stage = "item" =>
    /\ (0 < level /\ level < Len(slices)) => ~Outside
    /\ level = 0 => idx \in 0..(slices[1].length - 1)

\* btck.pyi: an item of a slice of a slice is an item.  Nothing is ever called
\* through a pointer that was not assigned.
CallsAssigned == stage # "wild"

-----------------------------------------------------------------------------
\* What every step keeps.  A slice is as long as the list it stands for, and only the
\* object has an item function.
Shapes ==
  /\ Len(views) = Len(slices)
  /\ \A l \in 1..Len(slices) : Len(views[l]) = slices[l].length
  /\ slices # <<>> => /\ slices[1].item = "function"
                      /\ \A k \in 1..Len(views[1]) : views[1][k] = k - 1
  /\ \A l \in 2..Len(slices) : slices[l].item # "function"

\* An index of a slice, taken through its start and step, is one of the slice below,
\* and has the same item there.
SameItem(l, k, p) ==
  /\ p \in 0..(slices[l - 1].length - 1)
  /\ views[l][k + 1] = views[l - 1][p + 1]

Linked ==
  \A l \in 2..Len(slices) : \A k \in 0..(slices[l].length - 1) :
    SameItem(l, k, slices[l].start + (k * slices[l].step))

\* The item that is looked up stays the one that was asked for.
LookUp ==
  /\ slices = <<>> => result = None /\ stage # "item"
  /\ stage = "item" =>
       IF level = Len(slices) THEN idx = FromEnd(asked)
       ELSE LET view == views[Len(views)]
                k == FromEnd(asked)
            IN  /\ k \in 0..(Len(view) - 1)
                /\ IF level = 0 THEN idx \in 0..(slices[1].length - 1) /\ idx = view[k + 1]
                   ELSE idx \in 0..(slices[level].length - 1) /\ views[level][idx + 1] = view[k + 1]

SliceIInv == SliceTypeOK /\ Shapes /\ Linked /\ LookUp /\ ItemsAsOfList
=============================================================================
