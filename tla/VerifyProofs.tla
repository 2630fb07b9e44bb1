---------------------------- MODULE VerifyProofs ----------------------------
(***************************************************************************)
(* Proofs about Verify, for any outputs, flags and number of inputs: the   *)
(* script runs only with what VerifyScript asserts, errors name what is    *)
(* wrong, and reference counts come out even.                              *)
(***************************************************************************)
EXTENDS Verify, FiniteSetTheorems, SequenceTheorems, TLAPS

-----------------------------------------------------------------------------
(* Data.                                                                   *)

LEMMA ListType ==
  ASSUME NEW s \in Lists
  PROVE  s \in Seq(Output) /\ Len(s) \in 0..MaxInputs
<1>1. PICK n \in 0..MaxInputs : s \in [1..n -> Output]
  BY DEF Lists, SeqOf
<1>2. n \in Nat
  BY MaxInputsAssumption
<1> QED
  BY <1>1, <1>2

LEMMA CallType ==
  ASSUME NEW c \in Call
  PROVE  /\ c.client \in {"python", "cpp"}
         /\ c.spent.kind \in {"none", "other", "list", "span", "lazy"}
         /\ c.spent.items \in Seq(Output)
         /\ Len(c.spent.items) \in Nat
         /\ c.inputs \in Nat /\ c.index \in Nat
         /\ c.spent.kind \in {"none", "other"} => c.spent.items = <<>>
         /\ c.client = "cpp" <=> c.spent.kind = "span"
<1>1. /\ c.client \in {"python", "cpp"} /\ c.spent \in Spent
      /\ c.inputs \in 0..MaxInputs /\ c.index \in 0..MaxInputs
      /\ c.client = "cpp" <=> c.spent.kind = "span"
  BY DEF Call
<1>2. <<>> \in Seq(Output) /\ Len(<<>>) = 0
  OBVIOUS
<1>3. /\ c.spent.kind \in {"none", "other", "list", "span", "lazy"}
      /\ c.spent.kind \in {"none", "other"} => c.spent.items = <<>>
      /\ c.spent.items = <<>> \/ c.spent.items \in Lists
  BY <1>1 DEF Spent, Fresh
<1>4. c.spent.items \in Seq(Output) /\ Len(c.spent.items) \in Nat
  <2>1. CASE c.spent.items = <<>>
    BY <1>2, <2>1
  <2>2. CASE c.spent.items \in Lists
    <3>1. c.spent.items \in Seq(Output)
      BY <2>2, ListType
    <3> QED
      BY <3>1
  <2> QED
    BY <1>3, <2>1, <2>2
<1>5. c.inputs \in Nat /\ c.index \in Nat
  BY <1>1, MaxInputsAssumption
<1> QED
  BY <1>1, <1>3, <1>4, <1>5

LEMMA NoCallType == NoCall \in Call
<1>1. <<>> \in Lists /\ 0 \in 0..MaxInputs /\ 0 \in 0..Len(<<>>)
  <2>1. <<>> \in [1..0 -> Output]
    OBVIOUS
  <2> QED
    BY <2>1, MaxInputsAssumption DEF Lists, SeqOf
<1>2. NoCall.spent \in Spent
  BY <1>1 DEF NoCall, Spent
<1> QED
  BY <1>1, <1>2 DEF NoCall, Call

\* How often an output occurs in a list.
LEMMA ReferencesType ==
  ASSUME NEW s \in Seq(Output), NEW o
  PROVE  /\ References(s, o) \in Nat
         /\ s = <<>> => References(s, o) = 0
         /\ \A i \in 1..Len(s) : s[i] = o => References(s, o) > 0
<1> DEFINE S == {i \in DOMAIN s : s[i] = o}
<1>1. IsFiniteSet(S)
  <2>1. DOMAIN s = 1..Len(s) /\ Len(s) \in Nat
    OBVIOUS
  <2>2. IsFiniteSet(1..Len(s))
    BY <2>1, FS_Interval
  <2>3. S \subseteq 1..Len(s)
    BY <2>1
  <2> QED
    BY <2>2, <2>3, FS_Subset
<1>2. Cardinality(S) \in Nat /\ (Cardinality(S) = 0 <=> S = {})
  BY <1>1, FS_CardinalityType, FS_EmptySet
<1>3. s = <<>> => S = {}
  OBVIOUS
<1>4. \A i \in 1..Len(s) : s[i] = o => S # {}
  OBVIOUS
<1>5. References(s, o) = Cardinality(S)
  BY DEF References
<1> HIDE DEF S
<1> QED
  BY <1>2, <1>3, <1>4, <1>5

LEMMA NoReferences == ASSUME NEW o PROVE References(<<>>, o) = 0
<1>1. <<>> \in Seq(Output)
  OBVIOUS
<1> QED
  BY <1>1, ReferencesType

LEMMA HeldType == ASSUME NEW c \in Call, NEW o PROVE Held(c, o) \in Nat
BY CallType, ReferencesType DEF Held

-----------------------------------------------------------------------------
(* Steps.                                                                  *)

\* What is wrong with a call does not change while it runs.
LEMMA WrongKept ==
  ASSUME call' = call
  PROVE  \A e \in Complaints : Wrong(e)' <=> Wrong(e)
BY DEF Wrong, Complaints, Has

LEMMA InitInv == Init => IInv
<1> SUFFICES ASSUME Init PROVE IInv
  OBVIOUS
<1> USE DEF Init
<1>1. CallShape
  BY NoCallType DEF CallShape, Converting
<1>2. Items = <<>> /\ Len(<<>>) = 0 /\ <<>> \in Seq(Output) /\ <<>> \in Seq(Output \cup {Garbage})
  BY DEF Items, NoCall
<1>3. ListShape
  <2>1. ASSUME NEW o \in Output PROVE count[o] = Held(call, o) + 0
    BY NoReferences DEF Held, NoCall
  <2>2. seq = <<>> /\ call.spent.kind = "span" /\ pc = "idle"
    BY DEF NoCall
  <2> QED
    BY <2>1, <2>2 DEF ListShape
<1>4. DataShape /\ CopyShape
  BY <1>2 DEF DataShape, CopyShape, Checking
<1>5. VerdictShape
  BY DEF VerdictShape, Passed, Results
<1>6. ErrorsAreTrue
  BY DEF ErrorsAreTrue, Complaints
<1> QED
  BY <1>1, <1>3, <1>4, <1>5, <1>6 DEF IInv

\* A call begins.
LEMMA StartInv == ASSUME IInv, NEW c \in Call, Start(c) PROVE IInv'
<1> USE DEF Start
<1>1. /\ call' = c /\ pc' = (IF c.client = "cpp" THEN "copy" ELSE "convert")
      /\ seq' = <<>> /\ copied' = <<>> /\ ran' = NotRun /\ result' = "none"
      /\ Items' = c.spent.items
  BY DEF IInv, ListShape, CopyShape, VerdictShape, Converting, Items
<1>2. CallShape'
  BY <1>1, CallType DEF CallShape, Converting, Checking
<1>3. ListShape'
  <2>1. ASSUME NEW o \in Output
        PROVE  count'[o] = Held(c, o) + (IF c.spent.kind = "lazy" THEN References(<<>>, o) ELSE 0)
    <3>1. References(<<>>, o) = 0 /\ Held(c, o) \in Nat /\ count'[o] = Held(c, o)
      BY NoReferences, HeldType
    <3> QED
      BY <3>1
  <2> QED
    BY <1>1, <2>1 DEF ListShape, Held
<1>4. /\ <<>> \in Seq(Output) /\ <<>> \in Seq(Output \cup {Garbage}) /\ Len(<<>>) = 0
  OBVIOUS
<1>5. DataShape'
  BY <1>1, <1>4, CallType DEF DataShape, Checking
<1>6. CopyShape'
  BY <1>1, <1>4, CallType DEF CopyShape, Checking
<1>7. VerdictShape'
  BY <1>1 DEF VerdictShape, Passed, Results
<1>8. ErrorsAreTrue'
  BY <1>1 DEF ErrorsAreTrue, Complaints
<1> QED
  BY <1>2, <1>3, <1>5, <1>6, <1>7, <1>8 DEF IInv

\* Nothing of it is left.
LEMMA ContinueInv == ASSUME IInv, Continue PROVE IInv'
<1> USE DEF Continue
<1>1. CallShape'
  BY NoCallType DEF CallShape, Converting
<1>2. Items' = <<>> /\ Len(<<>>) = 0 /\ <<>> \in Seq(Output) /\ <<>> \in Seq(Output \cup {Garbage})
  BY DEF Items, NoCall
<1>3. ListShape'
  <2>1. ASSUME NEW o \in Output PROVE count'[o] = Held(call', o) + 0
    BY NoReferences DEF Held, NoCall
  <2>2. seq' = <<>> /\ call'.spent.kind = "span" /\ pc' = "idle"
    BY DEF NoCall
  <2>3. \A o \in Output : Held(call, o)' = Held(call', o)
    BY DEF Held
  <2> QED
    BY <2>1, <2>2, <2>3 DEF ListShape
<1>4. DataShape' /\ CopyShape'
  BY <1>2 DEF DataShape, CopyShape, Checking
<1>5. VerdictShape'
  BY DEF VerdictShape, Passed, Results
<1>6. ErrorsAreTrue'
  BY DEF ErrorsAreTrue, Complaints
<1> QED
  BY <1>1, <1>3, <1>4, <1>5, <1>6 DEF IInv

\* The parts of the invariant about what the library decides, while it decides nothing.
LEMMA Undecided ==
  ASSUME IInv, call' = call, ran' = ran,
         \/ result' = result
         \/ result' \in Results \ (Complaints \cup {"true", "false"}),
         pc' \notin Checking \/ pc' = "flags", pc # "done",
         pc' # "done" => result' = result
  PROVE  VerdictShape' /\ ErrorsAreTrue'
<1>1. ran' = NotRun /\ (pc' # "done" => result' = "none")
  BY DEF IInv, VerdictShape
<1>2. VerdictShape'
  <2>1. result' \in Results
    BY DEF IInv, VerdictShape
  <2> QED
    BY <1>1, <2>1 DEF VerdictShape, Passed, Checking
<1>3. ErrorsAreTrue'
  BY DEF IInv, VerdictShape, ErrorsAreTrue, Complaints
<1> QED
  BY <1>2, <1>3

\* Steps of the conversion that leave the sequence as it is.
LEMMA ConvertInv ==
  ASSUME IInv, ConvertNone \/ ConvertOther \/ Allocate \/ Parse \/ ParseFails PROVE IInv'
<1> USE DEF ConvertNone, ConvertOther, Allocate, Parse, ParseFails, Return
<1>0. call \in Call /\ UNCHANGED <<call, count, seq, data, copied, ran>>
  BY DEF IInv, CallShape
<1>1. CallShape'
  BY DEF IInv, CallShape, Converting, Checking
<1>2. ListShape'
  BY DEF IInv, ListShape, Held, Items
<1>3. DataShape'
  <2>1. CASE ConvertNone
    <3>1. Items = <<>> /\ data = <<>>
      BY <1>0, <2>1, CallType DEF IInv, DataShape, CallShape, Items
    <3> QED
      BY <1>0, <2>1, <3>1 DEF IInv, DataShape, Items, Checking
  <2>2. CASE ~ConvertNone
    BY <1>0, <2>2 DEF IInv, DataShape, Items, Checking, CallShape
  <2> QED
    BY <2>1, <2>2
<1>4. CopyShape'
  BY <1>0 DEF IInv, CopyShape, Converting, Checking, Items, Kept
<1>5. VerdictShape' /\ ErrorsAreTrue'
  BY <1>0, Undecided DEF Checking, Complaints, Results
<1> QED
  BY <1>1, <1>2, <1>3, <1>4, <1>5 DEF IInv

LEMMA ConvertSequenceInv == ASSUME IInv, ConvertSequence PROVE IInv'
<1> USE DEF ConvertSequence
<1>0. call \in Call /\ call' = call /\ Items' = Items /\ data = <<>> /\ seq = <<>>
  BY DEF IInv, CallShape, DataShape, ListShape, Items
<1>1. CallShape'
  BY DEF IInv, CallShape, Converting, Checking
<1>2. ListShape'
  <2>1. ASSUME NEW o \in Output
        PROVE  count'[o] = Held(call, o) + (IF call.spent.kind = "lazy" THEN References(seq', o) ELSE 0)
    <3>0. seq' \in Seq(Output)
      BY <1>0, CallType
    <3>1. References(seq, o) = 0 /\ References(seq', o) \in Nat /\ Held(call, o) \in Nat
      BY <1>0, <3>0, NoReferences, ReferencesType, HeldType
    <3>2. count[o] = Held(call, o) + (IF call.spent.kind = "lazy" THEN References(seq, o) ELSE 0)
      BY DEF IInv, ListShape
    <3> QED
      BY <3>1, <3>2
  <2> QED
    BY <1>0, <2>1 DEF ListShape, Held, Items
<1>3. DataShape'
  BY <1>0 DEF IInv, DataShape, Checking
<1>4. CopyShape'
  BY <1>0 DEF IInv, CopyShape, Converting, Checking, Kept
<1>5. VerdictShape' /\ ErrorsAreTrue'
  BY <1>0, Undecided DEF Checking
<1> QED
  BY <1>1, <1>2, <1>3, <1>4, <1>5 DEF IInv

\* The list goes, with its references.
LEMMA DropInv ==
  ASSUME IInv, AllocateFails \/ CollectFails \/ Collected PROVE IInv'
<1> USE DEF AllocateFails, CollectFails, Collected, Drop, Return
<1>0. call \in Call /\ call' = call /\ Items' = Items /\ seq = Items /\ seq' = <<>>
  BY DEF IInv, CallShape, ListShape, Items
<1>1. CallShape'
  BY DEF IInv, CallShape, Converting, Checking
<1>2. ListShape'
  <2>1. ASSUME NEW o \in Output
        PROVE  count'[o] = Held(call, o) + (IF call.spent.kind = "lazy" THEN References(<<>>, o) ELSE 0)
    <3>0. seq \in Seq(Output)
      BY <1>0, CallType DEF Items
    <3>1. References(<<>>, o) = 0 /\ References(seq, o) \in Nat /\ Held(call, o) \in Nat
      BY <1>0, <3>0, NoReferences, ReferencesType, HeldType
    <3>2. count[o] = Held(call, o) + (IF call.spent.kind = "lazy" THEN References(seq, o) ELSE 0)
      BY DEF IInv, ListShape
    <3> QED
      BY <3>1, <3>2 DEF Dropped
  <2>2. count' = [o \in Output |-> count'[o]]
    BY DEF Dropped
  <2>3. \A o \in Output : Held(call, o)' = Held(call, o)
    BY <1>0 DEF Held
  <2>4. pc' \notin {"allocate", "collect"}
    OBVIOUS
  <2> QED
    BY <1>0, <2>1, <2>2, <2>3, <2>4 DEF ListShape
<1>3. DataShape'
  <2>1. <<>> \in Seq(Output) /\ Len(<<>>) = 0 /\ Len(Items) \in Nat
    BY <1>0, CallType DEF Items
  <2>2. CASE AllocateFails
    BY <1>0, <2>1, <2>2 DEF IInv, DataShape, Checking
  <2>3. CASE CollectFails
    BY <1>0, <2>1, <2>3 DEF DataShape, Checking
  <2>4. CASE Collected
    BY <1>0, <2>1, <2>4 DEF IInv, DataShape, Checking
  <2> QED
    BY <2>2, <2>3, <2>4
<1>4. CopyShape'
  BY <1>0 DEF IInv, CopyShape, Converting, Checking, Kept
<1>5. VerdictShape' /\ ErrorsAreTrue'
  BY <1>0, Undecided DEF Checking, Complaints, Results
<1> QED
  BY <1>1, <1>2, <1>3, <1>4, <1>5 DEF IInv

LEMMA CollectInv == ASSUME IInv, Collect PROVE IInv'
<1> USE DEF Collect
<1>0. call \in Call /\ call' = call /\ Items' = Items /\ seq = Items
  BY DEF IInv, CallShape, ListShape, Items
<1>1. CallShape'
  BY DEF IInv, CallShape, Converting, Checking
<1>2. ListShape'
  BY DEF IInv, ListShape, Held, Items
<1>3. DataShape'
  <2>1. /\ data \in Seq(Output) /\ Items \in Seq(Output)
        /\ \A i \in 1..Len(data) : data[i] = Items[i]
    BY <1>0, CallType DEF IInv, DataShape, Items
  <2>2. Len(data) \in Nat /\ Len(data) + 1 \in 1..Len(Items)
    BY <1>0, <2>1
  <2>3. /\ data' \in Seq(Output) /\ Len(data') = Len(data) + 1
        /\ \A i \in 1..Len(data) + 1 : data'[i] = Items[i]
    BY <1>0, <2>1, <2>2
  <2> QED
    BY <1>0, <2>2, <2>3 DEF DataShape, Checking
<1>4. CopyShape'
  BY <1>0 DEF IInv, CopyShape, Converting, Checking, Kept
<1>5. VerdictShape' /\ ErrorsAreTrue'
  BY <1>0, Undecided DEF Checking
<1> QED
  BY <1>1, <1>2, <1>3, <1>4, <1>5 DEF IInv

\* The library copies an output, which is alive if the caller keeps it.
LEMMA CopyInv == ASSUME IInv, Copy PROVE IInv'
<1> USE DEF Copy
<1>0. call \in Call /\ call' = call /\ Items' = Items
  BY DEF IInv, CallShape, Items
<1>1. CallShape'
  BY DEF IInv, CallShape, Converting, Checking
<1>2. ListShape'
  BY DEF IInv, ListShape, Held, Items
<1>3. DataShape'
  BY <1>0 DEF IInv, DataShape, Checking
<1>4. CopyShape'
  <2> DEFINE n == Len(copied) + 1
  <2>1. /\ copied \in Seq(Output \cup {Garbage}) /\ Items \in Seq(Output)
        /\ data \in Seq(Output) /\ Len(data) = Len(Items)
        /\ \A i \in 1..Len(data) : data[i] = Items[i]
        /\ Kept => \A i \in 1..Len(copied) : copied[i] = Items[i]
    BY <1>0, CallType DEF IInv, DataShape, CopyShape, Items
  <2>2. Len(copied) \in Nat /\ n \in 1..Len(data) /\ Len(data) \in Nat
    BY <2>1
  <2>3. data[n] \in Output /\ data[n] = Items[n]
    BY <2>1, <2>2
  <2>4. Kept => Read(data[n]) = Items[n]
    <3> SUFFICES ASSUME Kept PROVE count[data[n]] > 0
      BY <2>3 DEF Read
    <3>1. count[data[n]] = Held(call, data[n]) + 0
      BY <2>3 DEF IInv, ListShape, Kept
    <3>2. Held(call, data[n]) = References(Items, data[n])
      BY DEF Held, Kept, Items
    <3>3. References(Items, data[n]) \in Nat /\ References(Items, data[n]) > 0
      BY <2>1, <2>2, <2>3, ReferencesType
    <3> QED
      BY <3>1, <3>2, <3>3
  <2>5. Read(data[n]) \in Output \cup {Garbage}
    BY <2>3 DEF Read
  <2>6. /\ copied' \in Seq(Output \cup {Garbage}) /\ Len(copied') = n
        /\ Kept => \A i \in 1..n : copied'[i] = Items[i]
    BY <2>1, <2>2, <2>4, <2>5
  <2> QED
    BY <1>0, <2>1, <2>2, <2>6 DEF CopyShape, Converting, Checking, Kept
<1>5. VerdictShape' /\ ErrorsAreTrue'
  BY <1>0, Undecided DEF Checking
<1> QED
  BY <1>1, <1>2, <1>3, <1>4, <1>5 DEF IInv

LEMMA CopyEndsInv == ASSUME IInv, CopyFails \/ Copied PROVE IInv'
<1> USE DEF CopyFails, Copied, Return
<1>0. call \in Call /\ UNCHANGED <<call, count, seq, data, copied, ran>>
  BY DEF IInv, CallShape
<1>1. CallShape'
  BY DEF IInv, CallShape, Converting, Checking
<1>2. ListShape'
  BY DEF IInv, ListShape, Held, Items
<1>3. DataShape'
  BY <1>0 DEF IInv, DataShape, Items, Checking
<1>4. CopyShape'
  BY <1>0 DEF IInv, DataShape, CopyShape, Converting, Checking, Items, Kept
<1>5. VerdictShape' /\ ErrorsAreTrue'
  BY <1>0, Undecided DEF Checking, Complaints, Results
<1> QED
  BY <1>1, <1>2, <1>3, <1>4, <1>5 DEF IInv

\* A step of a check leaves everything but the decision as it is.
LEMMA CheckShapes ==
  ASSUME IInv, pc \in Checking, pc' \in Checking \cup {"done"},
         UNCHANGED <<call, count, seq, data, copied>>
  PROVE  CallShape' /\ ListShape' /\ DataShape' /\ CopyShape'
<1>1. CallShape'
  BY DEF IInv, CallShape, Converting, Checking
<1>2. ListShape'
  BY DEF IInv, ListShape, Held, Items, Checking
<1>3. DataShape'
  BY DEF IInv, DataShape, Items, Checking
<1>4. CopyShape'
  BY DEF IInv, CopyShape, Converting, Checking, Items, Kept
<1> QED
  BY <1>1, <1>2, <1>3, <1>4

\* A check that throws names what is wrong; one that passes adds to what is right.
LEMMA CheckInv ==
  ASSUME IInv,
         NEW at \in Checking, NEW next \in Checking,
         NEW error \in Complaints, NEW wrong \in BOOLEAN,
         pc = at => (wrong <=> Wrong(error)),
         pc = at /\ pc' = next => Passed' \subseteq Passed \cup {error},
         Check(at, error, wrong, next)
  PROVE  IInv'
<1> USE DEF Check, Return
<1>1. UNCHANGED <<call, count, seq, data, copied, ran>> /\ pc = at /\ pc' \in {next, "done"}
  OBVIOUS
<1>2. CallShape' /\ ListShape' /\ DataShape' /\ CopyShape'
  BY <1>1, CheckShapes
<1>3. ran = NotRun /\ result = "none" /\ \A e \in Passed : ~Wrong(e)
  BY <1>1 DEF IInv, VerdictShape, Checking
<1>4. Passed \subseteq Complaints /\ \A e \in Complaints : Wrong(e)' <=> Wrong(e)
  BY <1>1, WrongKept DEF Passed, Complaints
<1>5. CASE wrong
  <2>1. pc' = "done" /\ result' = error /\ Wrong(error)'
    BY <1>1, <1>4, <1>5
  <2>2. VerdictShape'
    BY <1>1, <1>3, <2>1 DEF VerdictShape, Passed, Complaints, Results
  <2>3. ErrorsAreTrue'
    BY <2>1 DEF ErrorsAreTrue, Complaints
  <2> QED
    BY <1>2, <2>2, <2>3 DEF IInv
<1>6. CASE ~wrong
  <2>1. pc' = next /\ result' = "none" /\ ~Wrong(error)
    BY <1>1, <1>3, <1>6
  <2>2. \A e \in Passed' : ~Wrong(e)'
    BY <1>1, <1>3, <1>4, <2>1
  <2>3. VerdictShape'
    BY <1>1, <1>3, <2>1, <2>2 DEF VerdictShape, Results
  <2>4. ErrorsAreTrue'
    BY <2>1 DEF ErrorsAreTrue, Complaints
  <2> QED
    BY <1>2, <2>3, <2>4 DEF IInv
<1> QED
  BY <1>5, <1>6

\* The types on which the conditions of the checks depend.
LEMMA CheckedType ==
  ASSUME IInv
  PROVE  /\ call.flags \subseteq Flag \cup {VERIFY_CLEANSTACK}
         /\ call.inputs \in Nat /\ call.index \in Nat
         /\ Len(Items) \in Nat /\ Len(copied) \in Nat
         /\ copied = <<>> <=> Len(copied) = 0
         /\ pc \in Checking => Len(copied) = Len(Items)
<1>1. call \in Call /\ copied \in Seq(Output \cup {Garbage})
  BY DEF IInv, CallShape, CopyShape
<1>2. call.flags \subseteq Flag \cup {VERIFY_CLEANSTACK}
  BY <1>1 DEF Call
<1>3. Len(copied) \in Nat /\ (copied = <<>> <=> Len(copied) = 0)
  BY <1>1
<1>4. pc \in Checking => Len(copied) = Len(Items)
  BY DEF IInv, CopyShape
<1> QED
  BY <1>1, <1>2, <1>3, <1>4, CallType DEF Items

LEMMA CheckFlagsInv == ASSUME IInv, CheckFlags PROVE IInv'
<1> DEFINE wrong == ~(call.flags \subseteq ALL)
<1>1. wrong <=> Wrong("invalid_flags")
  BY DEF Wrong
<1>2. pc' = "combination" => Passed' \subseteq {"invalid_flags"}
  BY DEF Passed
<1>3. /\ "flags" \in Checking /\ "combination" \in Checking /\ "invalid_flags" \in Complaints
      /\ wrong \in BOOLEAN
  BY DEF Checking, Complaints
<1>4. Check("flags", "invalid_flags", wrong, "combination")
  BY DEF CheckFlags
<1> HIDE DEF wrong
<1> QED
  BY <1>1, <1>2, <1>3, <1>4, CheckInv

\* VERIFY_CLEANSTACK is in none of the known flags, so that part of the condition
\* never decides.
LEMMA CheckCombinationInv == ASSUME IInv, CheckCombination PROVE IInv'
<1> DEFINE wrong == (Has(VERIFY_CLEANSTACK) /\ ~Has(VERIFY_P2SH) /\ ~Has(VERIFY_WITNESS))
                    \/ (Has(VERIFY_WITNESS) /\ ~Has(VERIFY_P2SH))
<1>1. pc = "combination" => (wrong <=> Wrong("invalid_flags_combination"))
  <2> SUFFICES ASSUME pc = "combination" PROVE ~Has(VERIFY_CLEANSTACK)
    BY DEF Wrong
  <2>1. ~Wrong("invalid_flags")
    BY DEF IInv, VerdictShape, Passed
  <2> QED
    BY <2>1, FlagAssumption DEF Wrong, Has, ALL
<1>2. pc = "combination" /\ pc' = "required" => Passed' \subseteq Passed \cup {"invalid_flags_combination"}
  BY DEF Passed
<1>3. /\ "combination" \in Checking /\ "required" \in Checking
      /\ "invalid_flags_combination" \in Complaints /\ wrong \in BOOLEAN
  BY DEF Checking, Complaints
<1>4. Check("combination", "invalid_flags_combination", wrong, "required")
  BY DEF CheckCombination
<1> HIDE DEF wrong
<1> QED
  BY <1>1, <1>2, <1>3, <1>4, CheckInv

LEMMA CheckRequiredInv == ASSUME IInv, CheckRequired PROVE IInv'
<1> DEFINE wrong == Has(VERIFY_TAPROOT) /\ copied = <<>>
<1>1. pc = "required" => (wrong <=> Wrong("spent_outputs_required"))
  BY CheckedType DEF Wrong, Checking, Items
<1>2. pc = "required" /\ pc' = "mismatch" => Passed' \subseteq Passed \cup {"spent_outputs_required"}
  BY DEF Passed, Complaints
<1>3. /\ "required" \in Checking /\ "mismatch" \in Checking
      /\ "spent_outputs_required" \in Complaints /\ wrong \in BOOLEAN
  BY DEF Checking, Complaints, Has
<1>4. Check("required", "spent_outputs_required", wrong, "mismatch")
  BY DEF CheckRequired
<1> HIDE DEF wrong
<1> QED
  BY <1>1, <1>2, <1>3, <1>4, CheckInv

LEMMA CheckMismatchInv == ASSUME IInv, CheckMismatch PROVE IInv'
<1> DEFINE wrong == copied # <<>> /\ Len(copied) # call.inputs
<1>1. pc = "mismatch" => (wrong <=> Wrong("spent_outputs_mismatch"))
  BY CheckedType DEF Wrong, Checking, Items
<1>2. pc = "mismatch" /\ pc' = "index" => Passed' \subseteq Passed \cup {"spent_outputs_mismatch"}
  BY DEF Passed, Complaints
<1>3. /\ "mismatch" \in Checking /\ "index" \in Checking
      /\ "spent_outputs_mismatch" \in Complaints /\ wrong \in BOOLEAN
  BY DEF Checking, Complaints
<1>4. Check("mismatch", "spent_outputs_mismatch", wrong, "index")
  BY DEF CheckMismatch
<1> HIDE DEF wrong
<1> QED
  BY <1>1, <1>2, <1>3, <1>4, CheckInv

LEMMA CheckIndexInv == ASSUME IInv, CheckIndex PROVE IInv'
<1> DEFINE wrong == call.index >= call.inputs
<1>1. wrong <=> Wrong("tx_input_index")
  BY CheckedType DEF Wrong
<1>2. pc = "index" /\ pc' = "run" => Passed' \subseteq Passed \cup {"tx_input_index"}
  BY DEF Passed, Complaints
<1>3. /\ "index" \in Checking /\ "run" \in Checking
      /\ "tx_input_index" \in Complaints /\ wrong \in BOOLEAN
  BY DEF Checking, Complaints
<1>4. Check("index", "tx_input_index", wrong, "run")
  BY DEF CheckIndex
<1> HIDE DEF wrong
<1> QED
  BY <1>1, <1>2, <1>3, <1>4, CheckInv

\* All checks are passed when the script runs.
LEMMA RunInv == ASSUME IInv, Run \/ RunFails PROVE IInv'
<1> USE DEF Run, RunFails, Return
<1>1. UNCHANGED <<call, count, seq, data, copied>> /\ pc = "run" /\ pc' = "done"
  OBVIOUS
<1>2. CallShape' /\ ListShape' /\ DataShape' /\ CopyShape'
  BY <1>1, CheckShapes DEF Checking
<1>3. ran = NotRun /\ \A e \in Complaints : ~Wrong(e)
  BY <1>1 DEF IInv, VerdictShape, Passed
<1>4. \A e \in Complaints : ~Wrong(e)'
  BY <1>1, <1>3, WrongKept
<1>5. Len(copied) = Len(Items)
  BY <1>1, CheckedType DEF Checking
<1>6. VerdictShape'
  <2>1. Passed' = {}
    BY <1>1 DEF Passed
  <2>2. CASE Run
    <3>1. /\ ran'.flags = call'.flags /\ ran'.index = call'.index
          /\ Has(VERIFY_TAPROOT)' => Len(ran'.outputs) = Len(Items')
      BY <1>1, <1>5, <2>2 DEF Has, Items
    <3> QED
      BY <1>1, <1>4, <2>1, <2>2, <3>1 DEF VerdictShape, Results
  <2>3. CASE RunFails
    BY <1>1, <1>3, <2>1, <2>3 DEF VerdictShape, Results
  <2> QED
    BY <2>2, <2>3
<1>7. ErrorsAreTrue'
  <2>1. result' \in {"true", "false", "bad_alloc"}
    OBVIOUS
  <2> QED
    BY <1>4, <2>1 DEF ErrorsAreTrue, Complaints
<1> QED
  BY <1>2, <1>6, <1>7 DEF IInv

LEMMA StutterInv == ASSUME IInv, UNCHANGED vars PROVE IInv'
<1> USE DEF vars
<1>1. CallShape' /\ ListShape' /\ DataShape' /\ CopyShape'
  BY DEF IInv, CallShape, ListShape, DataShape, CopyShape, Held, Items, Kept
<1>2. Passed' = Passed /\ Passed \subseteq Complaints
  BY DEF Passed, Complaints
<1>3. VerdictShape'
  BY <1>2, WrongKept DEF IInv, VerdictShape, Has, Items
<1>4. ErrorsAreTrue'
  BY WrongKept DEF IInv, ErrorsAreTrue
<1> QED
  BY <1>1, <1>3, <1>4 DEF IInv

LEMMA NextInv == ASSUME IInv, [Next]_vars PROVE IInv'
<1>1. CASE Verify
  BY <1>1, StartInv DEF Verify
<1>2. CASE Convert
  BY <1>2, ConvertInv, ConvertSequenceInv, DropInv, CollectInv DEF Convert
<1>3. CASE Library
  BY <1>3, CopyInv, CopyEndsInv, CheckFlagsInv, CheckCombinationInv, CheckRequiredInv,
     CheckMismatchInv, CheckIndexInv, RunInv DEF Library
<1>4. CASE Continue
  BY <1>4, ContinueInv
<1>5. CASE UNCHANGED vars
  BY <1>5, StutterInv
<1> QED
  BY <1>1, <1>2, <1>3, <1>4, <1>5 DEF Next

\* The strengthened invariant holds in every state (all of Verify).
THEOREM Invariance == Spec => []IInv
<1>1. Init => IInv
  BY InitInv
<1>2. IInv /\ [Next]_vars => IInv'
  BY NextInv
<1> QED
  BY <1>1, <1>2, PTL DEF Spec

-----------------------------------------------------------------------------
(* The properties.                                                         *)

\* The array: what a call of Python has allocated of it (convert_tx_outputs).
LEMMA ArrayStep ==
  ASSUME IInv, ArrayShape, [Next]_vars
  PROVE  ArrayShape'
<1>1. CASE \E c \in Call : Start(c)
  <2>1. PICK c \in Call : Start(c)
    BY <1>1
  <2>2. /\ call' = c /\ pc' = (IF c.client = "cpp" THEN "copy" ELSE "convert")
        /\ array' = array /\ pc = "idle"
    BY <2>1 DEF Start
  <2>3. c.client \in {"python", "cpp"} /\ (c.client = "cpp" <=> c.spent.kind = "span")
    BY CallType
  <2> QED
    BY <2>2, <2>3 DEF ArrayShape, Converts, Checking
<1>2. CASE Continue
  BY <1>2 DEF Continue, ArrayShape, Converts, Checking, NoCall
<1>3. CASE ConvertNone \/ ConvertOther \/ ConvertSequence \/ Allocate \/ AllocateFails
  <2>1. call' = call /\ array' = (array \/ Allocate) /\ data' = data /\ array \in BOOLEAN
    BY <1>3 DEF ConvertNone, ConvertOther, ConvertSequence, Allocate, AllocateFails, Return,
       ArrayShape
  <2>2. data = <<>>
    BY <1>3 DEF ConvertNone, ConvertOther, ConvertSequence, Allocate, AllocateFails,
       IInv, DataShape, CallShape
  <2>3. CASE ConvertNone
    BY <2>1, <2>3 DEF ConvertNone, Allocate, ArrayShape, Converts, Checking
  <2>4. CASE ConvertOther
    BY <2>1, <2>4 DEF ConvertOther, Allocate, Return, ArrayShape, Converts, Checking
  <2>5. CASE ConvertSequence
    BY <2>1, <2>5 DEF ConvertSequence, Allocate, ArrayShape, Converts, Checking
  <2>6. CASE Allocate
    BY <2>1, <2>2, <2>6 DEF Allocate, ArrayShape, Converts, Checking
  <2>7. CASE AllocateFails
    BY <2>1, <2>7 DEF AllocateFails, Allocate, Return, ArrayShape, Converts, Checking
  <2> QED
    BY <1>3, <2>3, <2>4, <2>5, <2>6, <2>7
<1>4. CASE Collect
  <2>1. /\ pc = "collect" /\ pc' = pc /\ call' = call /\ array' = array
        /\ data' = Append(data, seq[Len(data) + 1])
        /\ Len(data) + 1 # call.spent.untyped
    BY <1>4 DEF Collect
  <2>2. data \in Seq(Output)
    BY DEF IInv, DataShape
  <2>3. Len(data) \in Nat /\ Len(data') = Len(data) + 1
    BY <2>1, <2>2
  <2>4. call.spent.untyped \notin 1..Len(data')
    BY <2>1, <2>3 DEF ArrayShape
  <2> QED
    BY <2>1, <2>4 DEF ArrayShape, Converts, Checking
<1>5. CASE CollectFails
  <2>1. /\ pc' = "done" /\ array' = FALSE /\ call' = call
        /\ call.spent.untyped = Len(data) + 1
    BY <1>5 DEF CollectFails, Return
  <2>2. data \in Seq(Output)
    BY DEF IInv, DataShape
  <2>3. call.spent.untyped # 0
    <3>1. Len(data) \in Nat
      BY <2>2
    <3> QED
      BY <2>1, <3>1
  <2> QED
    BY <2>1, <2>3 DEF ArrayShape, Converts, Checking
<1>6. CASE Collected
  <2>1. /\ pc = "collect" /\ pc' = "parse" /\ call' = call /\ array' = array
        /\ Len(data) = Len(Items)
    BY <1>6 DEF Collected, IInv, ListShape
  <2>2. call.spent.untyped \in 0..Len(Items) /\ Len(Items) \in Nat
    BY CallType DEF IInv, CallShape, Call, Items
  <2>3. call.spent.untyped = 0
    BY <2>1, <2>2 DEF ArrayShape
  <2> QED
    BY <2>1, <2>3 DEF ArrayShape, Converts, Checking
<1>7. ASSUME UNCHANGED <<call, array>>, pc \in {"parse", "copy"} \cup Checking,
             \/ pc' \in {"copy"} \cup Checking
             \/ pc' = "done" /\ result' # "MemoryError"
      PROVE  ArrayShape'
  BY <1>7 DEF ArrayShape, Converts, Checking
<1>8. CASE Parse \/ ParseFails \/ Library
  <2> DEFINE Goes == /\ UNCHANGED <<call, array>>
                     /\ pc \in {"parse", "copy"} \cup Checking
                     /\ \/ pc' \in {"copy"} \cup Checking
                        \/ pc' = "done" /\ result' # "MemoryError"
  <2>1. Parse => Goes
    BY DEF Parse, Checking
  <2>2. ParseFails => Goes
    BY DEF ParseFails, Return, Checking
  <2>3. Copy => Goes
    BY DEF Copy, Checking
  <2>4. CopyFails => Goes
    BY DEF CopyFails, Return, Checking
  <2>5. Copied => Goes
    BY DEF Copied, Checking
  <2>6. (CheckFlags \/ CheckCombination \/ CheckRequired \/ CheckMismatch \/ CheckIndex) => Goes
    BY DEF CheckFlags, CheckCombination, CheckRequired, CheckMismatch, CheckIndex, Check,
       Return, Checking
  <2>7. (Run \/ RunFails) => Goes
    BY DEF Run, RunFails, Return, Checking
  <2>8. Goes
    BY <1>8, <2>1, <2>2, <2>3, <2>4, <2>5, <2>6, <2>7 DEF Library
  <2> QED
    BY <1>7, <2>8
<1>9. CASE UNCHANGED vars
  BY <1>9 DEF vars, ArrayShape, Converts
<1> QED
  BY <1>1, <1>2, <1>3, <1>4, <1>5, <1>6, <1>8, <1>9 DEF Next, Verify, Convert

LEMMA ArrayInvariance == Spec => []ArrayShape
<1>1. Init => ArrayShape
  BY DEF Init, ArrayShape, Checking
<1>2. IInv /\ ArrayShape /\ [Next]_vars => ArrayShape'
  BY ArrayStep
<1> QED
  BY <1>1, <1>2, Invariance, PTL DEF Spec

LEMMA SeqIsBounded ==
  ASSUME NEW S, NEW s \in Seq(S), Len(s) <= MaxInputs
  PROVE  s \in SeqOf(S, MaxInputs)
<1>1. Len(s) \in 0..MaxInputs /\ s \in [1..Len(s) -> S]
  BY MaxInputsAssumption
<1> QED
  BY <1>1 DEF SeqOf

\* An output does not occur more often than there are items.
LEMMA ReferencesBounded ==
  ASSUME NEW s \in Seq(Output), Len(s) <= MaxInputs, NEW o
  PROVE  References(s, o) \in 0..MaxInputs
<1> DEFINE S == {i \in DOMAIN s : s[i] = o}
<1>1. DOMAIN s = 1..Len(s) /\ Len(s) \in Nat
  OBVIOUS
<1>2. IsFiniteSet(1..Len(s)) /\ Cardinality(1..Len(s)) = Len(s)
  BY ONLY <1>1, FS_Interval
<1>3. S \subseteq 1..Len(s)
  BY <1>1
<1>4. References(s, o) = Cardinality(S)
  BY DEF References
<1> HIDE DEF S
<1>5. Cardinality(S) <= Len(s)
  BY ONLY <1>2, <1>3, FS_Subset
<1> QED
  BY <1>1, <1>4, <1>5, ReferencesType, MaxInputsAssumption

LEMMA ItemsBounded == ASSUME NEW c \in Call PROVE Len(c.spent.items) <= MaxInputs
<1>1. c.spent.items = <<>> \/ c.spent.items \in Lists
  BY DEF Call, Spent, Fresh
<1>2. CASE c.spent.items = <<>>
  <2>1. Len(<<>>) = 0
    OBVIOUS
  <2> QED
    BY <1>2, <2>1, MaxInputsAssumption
<1>3. CASE c.spent.items \in Lists
  <2>1. Len(c.spent.items) \in 0..MaxInputs
    BY <1>3, ListType
  <2> QED
    BY <2>1, MaxInputsAssumption
<1> QED
  BY <1>1, <1>2, <1>3

\* Every state is well-typed; a reference count never is negative, and never more
\* than one for each item (convert_tx_outputs).
THEOREM TypeCorrect == Spec => []TypeOK
<1>1. IInv /\ ArrayShape => TypeOK
  <2> SUFFICES ASSUME IInv, ArrayShape PROVE TypeOK
    OBVIOUS
  <2>1. call \in Call /\ Items \in Seq(Output) /\ Len(Items) \in Nat /\ Len(Items) <= MaxInputs
    BY CallType, ItemsBounded DEF IInv, CallShape, Items
  <2>2. <<>> \in Seq(Output) /\ Len(<<>>) = 0
    OBVIOUS
  <2>3. seq \in Seq(Output) /\ Len(seq) <= MaxInputs
    BY <2>1, <2>2, MaxInputsAssumption DEF IInv, ListShape
  <2>4. data \in Seq(Output) /\ copied \in Seq(Output \cup {Garbage})
    BY DEF IInv, DataShape, CopyShape
  <2>5. Len(data) <= MaxInputs /\ Len(copied) <= MaxInputs
    <3>1. Len(data) \in Nat /\ Len(copied) \in Nat /\ Len(data) <= Len(Items) /\ Len(copied) <= Len(Items)
      BY <2>4 DEF IInv, DataShape, CopyShape
    <3> QED
      BY <2>1, <3>1, MaxInputsAssumption
  <2>6. seq \in Lists /\ data \in Lists /\ copied \in SeqOf(Output \cup {Garbage}, MaxInputs)
    BY <2>3, <2>4, <2>5, SeqIsBounded DEF Lists
  <2>7. ASSUME NEW o \in Output PROVE count[o] \in 0..MaxInputs
    <3>1. References(Items, o) \in 0..MaxInputs /\ References(seq, o) \in 0..MaxInputs
      BY <2>1, <2>3, ReferencesBounded
    <3>2. Held(call, o) = (IF Kept THEN References(Items, o) ELSE 0)
      BY DEF Held, Kept, Items
    <3> QED
      BY <3>1, <3>2, MaxInputsAssumption DEF IInv, ListShape, Kept
  <2>8. count \in [Output -> 0..MaxInputs]
    BY <2>7 DEF IInv, ListShape
  <2>9. /\ pc \in {"idle", "convert", "allocate", "collect", "parse", "copy", "flags",
                    "combination", "required", "mismatch", "index", "run", "done"}
        /\ result \in Results
    BY DEF IInv, CallShape, VerdictShape, Converting, Checking
  <2> QED
    BY <2>1, <2>6, <2>8, <2>9 DEF TypeOK, ArrayShape
<1> QED
  BY <1>1, Invariance, ArrayInvariance, PTL

\* VerifyScript is called only with what is asserted below it, for any flags and
\* numbers of inputs and outputs (verify in btck_script_pubkey.cpp).
THEOREM ScriptRunsAsAsserted == Spec => []ScriptCanRun
<1>1. IInv => ScriptCanRun
  <2> SUFFICES ASSUME IInv, ran # NotRun PROVE ScriptCanRun
    BY DEF ScriptCanRun
  <2>1. /\ \A e \in Complaints : ~Wrong(e)
        /\ ran.flags = call.flags /\ ran.index = call.index
        /\ Has(VERIFY_TAPROOT) => Len(ran.outputs) = Len(Items)
    BY DEF IInv, VerdictShape
  <2>2. ran.flags \subseteq ALL /\ (VERIFY_WITNESS \in ran.flags => VERIFY_P2SH \in ran.flags)
    BY <2>1 DEF Wrong, Complaints, Has
  <2>3. ran.index < call.inputs
    BY <2>1, CheckedType DEF Wrong, Complaints
  <2>4. VERIFY_TAPROOT \in ran.flags => Len(ran.outputs) = call.inputs
    BY <2>1, CheckedType DEF Wrong, Complaints, Has, Items
  <2> QED
    BY <2>2, <2>3, <2>4 DEF ScriptCanRun
<1> QED
  BY <1>1, Invariance, PTL

\* Errors name what is wrong with the arguments, and a verdict is given only when
\* nothing is (btck_script_pubkey.cpp).
THEOREM ErrorsNameWhatIsWrong == Spec => []ErrorsAreTrue
<1>1. IInv => ErrorsAreTrue
  BY DEF IInv
<1> QED
  BY <1>1, Invariance, PTL

\* A call of Python leaves the reference counts as they were, wherever it fails, and
\* the array of addresses where it has not failed (convert_tx_outputs in script_pubkey.c).
THEOREM OnlyTheArrayIsLeft == Spec => []OnlyArrayStays
<1>1. IInv /\ ArrayShape => OnlyArrayStays
  <2> SUFFICES ASSUME IInv, ArrayShape, pc = "done", NEW o \in Output
               PROVE  count[o] = Held(call, o)
    BY DEF OnlyArrayStays, ArrayShape
  <2>1. call \in Call /\ seq = <<>>
    BY DEF IInv, CallShape, ListShape
  <2>2. Held(call, o) \in Nat /\ References(seq, o) = 0
    BY <2>1, HeldType, NoReferences
  <2> QED
    BY <2>2 DEF IInv, ListShape
<1> QED
  BY <1>1, Invariance, ArrayInvariance, PTL

\* What the library copies of a list, a tuple or an array are its items, in their order.
THEOREM KeptOutputsAreRead == Spec => []HeldAreRead
<1>1. IInv => HeldAreRead
  <2> SUFFICES ASSUME IInv, Kept PROVE copied = SubSeq(Items, 1, Len(copied))
    BY DEF HeldAreRead, Kept, Items
  <2> DEFINE part == SubSeq(Items, 1, Len(copied))
  <2>1. /\ copied \in Seq(Output \cup {Garbage}) /\ Items \in Seq(Output)
        /\ \A i \in 1..Len(copied) : copied[i] = Items[i]
        /\ Len(copied) <= Len(Items)
    BY CallType DEF IInv, CallShape, CopyShape, Items
  <2>2. Len(copied) \in Nat /\ Len(Items) \in Nat /\ Items \in Seq(Output \cup {Garbage})
    BY <2>1
  <2>3. /\ part \in Seq(Output \cup {Garbage}) /\ Len(part) = Len(copied)
        /\ \A i \in 1..Len(copied) : part[i] = Items[i]
    BY <2>1, <2>2
  <2> HIDE DEF part
  <2>4. copied = part
    BY <2>1, <2>3, SeqEqual
  <2> QED
    BY <2>4 DEF part
<1> QED
  BY <1>1, Invariance, PTL


-----------------------------------------------------------------------------
(* Which error is reported when several things are wrong.                  *)

\* What is checked before a complaint.
Earlier(error) ==
  CASE error = "invalid_flags" -> {}
    [] error = "invalid_flags_combination" -> {"invalid_flags"}
    [] error = "spent_outputs_required" -> {"invalid_flags", "invalid_flags_combination"}
    [] error = "spent_outputs_mismatch" -> Complaints \ {"spent_outputs_mismatch", "tx_input_index"}
    [] error = "tx_input_index" -> Complaints \ {"tx_input_index"}

\* The complaint is about the first thing that is wrong.
FirstWrong == result \in Complaints => \A e \in Earlier(result) : ~Wrong(e)

\* A call complains in a check that it reaches with the earlier ones passed.
LEMMA ComplaintAtCheck ==
  ASSUME IInv, [Next]_vars, result' \in Complaints, result' # result
  PROVE  Earlier(result') \subseteq Passed /\ call' = call
<1>1. CheckFlags \/ CheckCombination \/ CheckRequired \/ CheckMismatch \/ CheckIndex
  <2>1. result' # "none"
    BY DEF Complaints
  <2>2. ~Verify /\ ~Continue /\ ~UNCHANGED vars
    BY <2>1 DEF Verify, Start, Continue, vars
  <2>3. ~Convert
    BY DEF Convert, ConvertNone, ConvertOther, ConvertSequence, Allocate, AllocateFails, Collect,
       CollectFails, Collected, Parse, ParseFails, Return, Complaints
  <2>4. ~(Copy \/ CopyFails \/ Copied \/ Run \/ RunFails)
    BY DEF Copy, CopyFails, Copied, Run, RunFails, Return, Complaints
  <2> QED
    BY <2>2, <2>3, <2>4 DEF Next, Library
<1>2. call' = call
  BY <1>1 DEF CheckFlags, CheckCombination, CheckRequired, CheckMismatch, CheckIndex, Check
<1>3. Earlier(result') \subseteq Passed
  BY <1>1 DEF CheckFlags, CheckCombination, CheckRequired, CheckMismatch, CheckIndex, Check,
     Return, Earlier, Passed, Complaints
<1> QED
  BY <1>2, <1>3

\* Of several things that are wrong, a call reports the first in the order of the checks:
\* the error depends on the arguments alone, from Python or from C++
\* (BtcK_ScriptPubkey_Verify).
THEOREM ErrorsComeInOrder == Spec => []FirstWrong
<1>1. Init => FirstWrong
  BY DEF Init, FirstWrong, Complaints
<1>2. ASSUME IInv, FirstWrong, [Next]_vars PROVE FirstWrong'
  <2> SUFFICES ASSUME result' \in Complaints, NEW e \in Earlier(result') PROVE ~Wrong(e)'
    BY DEF FirstWrong
  <2>1. e \in Complaints
    BY DEF Earlier, Complaints
  <2>2. CASE result' # result
    <3>1. e \in Passed /\ call' = call
      BY <1>2, <2>2, ComplaintAtCheck
    <3>2. ~Wrong(e)
      BY <1>2, <3>1 DEF IInv, VerdictShape
    <3> QED
      BY <2>1, <3>1, <3>2, WrongKept
  <2>3. CASE result' = result
    <3>1. pc = "done"
      BY <1>2, <2>3 DEF IInv, VerdictShape, Complaints
    <3>2. call' = call
      <4>1. ~Continue
        BY <2>3 DEF Continue, Complaints
      <4> QED
        BY <1>2, <3>1, <4>1 DEF Next, Verify, Start, Convert, ConvertNone, ConvertOther,
           ConvertSequence, Allocate, AllocateFails, Collect, CollectFails, Collected, Parse,
           ParseFails, Library, Copy, CopyFails, Copied, CheckFlags, CheckCombination,
           CheckRequired, CheckMismatch, CheckIndex, Check, Run, RunFails, vars
    <3>3. ~Wrong(e)
      BY <1>2, <2>3 DEF FirstWrong
    <3> QED
      BY <2>1, <3>2, <3>3, WrongKept
  <2> QED
    BY <2>2, <2>3
<1> QED
  BY <1>1, <1>2, Invariance, PTL DEF Spec
=============================================================================
