------------------------- MODULE BytesWriterProofs -------------------------
(***************************************************************************)
(* Proofs about BytesWriter, for any size of the small buffer, any largest *)
(* size and any sizes of pieces.                                           *)
(***************************************************************************)
EXTENDS BytesWriter, SequenceTheorems, TLAPS

LEMMA ConstantsAreNat == Small \in Nat /\ MaxSize \in Nat /\ Small > 0 /\ Small < MaxSize
BY SmallAssumption, MaxSizeAssumption

\* The quarter (on Windows the half) that a writer asks for on top.
LEMMA Extra ==
  ASSUME NEW n \in Nat
  PROVE  n \div Factor \in Nat
<1>1. CASE Factor = 2
  BY <1>1
<1>2. CASE Factor = 4
  BY <1>2
<1> QED
  BY <1>1, <1>2, FactorAssumption

LEMMA ExtraGrows ==
  ASSUME NEW n \in Nat, NEW k \in Nat, n <= k
  PROVE  n \div Factor <= k \div Factor
<1>1. CASE Factor = 2
  BY <1>1
<1>2. CASE Factor = 4
  BY <1>2
<1> QED
  BY <1>1, <1>2, FactorAssumption

\* A new size holds what is needed, is a size, and is no more than a factor larger.
LEMMA TargetBounds ==
  ASSUME NEW n \in 0..MaxSize
  PROVE  /\ Target(n) \in 0..MaxSize
         /\ n <= Target(n)
         /\ Target(n) <= n + n \div Factor
<1>1. n \in Nat /\ MaxSize \in Nat
  BY ConstantsAreNat
<1>2. n \div Factor \in Nat
  BY <1>1, Extra
<1> QED
  BY <1>1, <1>2 DEF Target

LEMMA StreamType == ASSUME NEW n \in 0..MaxSize PROVE Stream(n) \in Seq(Position)
BY ConstantsAreNat DEF Stream, Position

\* The next piece behind a stream is a longer stream.
LEMMA StreamAppend ==
  ASSUME NEW n \in Nat, NEW k \in Nat
  PROVE  Stream(n) \o [i \in 1..k |-> n + i - 1] = Stream(n + k)
<1> DEFINE s == Stream(n)
           t == [i \in 1..k |-> n + i - 1]
           u == Stream(n + k)
<1>1. s \in Seq(Int) /\ Len(s) = n /\ t \in Seq(Int) /\ Len(t) = k
  BY DEF Stream
<1>2. u \in Seq(Int) /\ Len(u) = n + k
  BY DEF Stream
<1>3. \A j \in 1..(n + k) : (s \o t)[j] = u[j]
  <2> TAKE j \in 1..(n + k)
  <2>1. CASE j <= n
    BY <1>1, <2>1 DEF Stream
  <2>2. CASE j > n
    <3>1. (s \o t)[j] = t[j - n]
      BY <1>1, <2>2
    <3>2. j - n \in 1..k
      BY <2>2
    <3>3. t[j - n] = j - 1
      BY <3>2
    <3>4. u[j] = j - 1
      BY DEF Stream
    <3> QED
      BY <3>1, <3>3, <3>4, Zenon
  <2>3. j <= n \/ j > n
    OBVIOUS
  <2> QED
    BY <2>1, <2>2, <2>3, Zenon
<1>4. s \o t \in Seq(Int) /\ Len(s \o t) = n + k
  BY <1>1
<1> HIDE DEF s, t, u
<1>5. s \o t = u
  BY <1>2, <1>3, <1>4, SeqEqual
<1> QED
  BY <1>5 DEF s, t, u

\* A piece leaves what is in front of it alone and is itself the stream.
LEMMA CopiedHolds ==
  ASSUME TypeOK, NEW m \in [Position -> Position \cup {Junk}],
         \A j \in Position : j < size => m[j] = j,
         size = sent, NEW n \in Nat, size + n <= MaxSize
  PROVE  /\ Copied(m, size, n) \in [Position -> Position \cup {Junk}]
         /\ \A j \in Position : j < size + n => Copied(m, size, n)[j] = j
<1>1. size \in Nat /\ sent \in Nat /\ MaxSize \in Nat
  BY ConstantsAreNat DEF TypeOK
<1>2. \A j \in Position : j \in Nat /\ j < MaxSize
  BY <1>1 DEF Position
<1>3. \A j \in Position : (size <= j /\ j < size + n) => sent + (j - size) = j
  BY <1>1, <1>2
<1> QED
  BY <1>1, <1>2, <1>3 DEF Copied

\* Moving to new memory keeps the stream, as long as all of the old is copied.
LEMMA KeptHolds ==
  ASSUME TypeOK, NEW n \in Nat, size <= n,
         \A j \in Position : j < size => mem[j] = j
  PROVE  /\ Kept(mem, n) \in [Position -> Position \cup {Junk}]
         /\ \A j \in Position : j < size => Kept(mem, n)[j] = j
BY ConstantsAreNat DEF Kept, TypeOK, Position, Junk

-----------------------------------------------------------------------------
(* The inductive invariant.                                                *)

LEMMA NothingType ==
  Nothing \in [some : BOOLEAN, bytes : Seq(Position \cup {Junk})] /\ <<>> \in Seq(Position)
<1>1. <<>> \in Seq(Position) /\ <<>> \in Seq(Position \cup {Junk})
  OBVIOUS
<1> QED
  BY <1>1 DEF Nothing

LEMMA InitInv == Init => IInv
<1> SUFFICES ASSUME Init PROVE IInv
  OBVIOUS
<1>1. TypeOK
  <2>1. [j \in Position |-> Junk] \in [Position -> Position \cup {Junk}]
    OBVIOUS
  <2>2. bytes \in Seq(Position)
    BY NothingType DEF Init
  <2>3. result \in [some : BOOLEAN, bytes : Seq(Position \cup {Junk})]
    BY NothingType DEF Init
  <2>4. mem \in [Position -> Position \cup {Junk}]
    BY <2>1 DEF Init
  <2>5. alloc \in 0..MaxSize /\ size \in 0..MaxSize /\ sent \in 0..MaxSize
    BY ConstantsAreNat DEF Init
  <2> QED
    BY <2>2, <2>3, <2>4, <2>5 DEF Init, TypeOK
<1>2. Holding /\ Collecting /\ Failing /\ Owned /\ Delivered
  BY DEF Init, Holding, Collecting, Failing, Owned, Delivered
<1> QED
  BY <1>1, <1>2 DEF IInv

\* A new conversion, with a fresh writer, without one for want of memory, or without
\* any, in C++ and Swift.
LEMMA BeginInv ==
  ASSUME IInv, Create \/ CreateFails \/ BeginCollecting
  PROVE  IInv'
<1>1. TypeOK'
  <2>1. [j \in Position |-> Junk] \in [Position -> Position \cup {Junk}]
    OBVIOUS
  <2>2. /\ pc' = "body" /\ client' \in {"python", "cpp", "swift"} /\ fn' \in {"script", "stream"}
        /\ calls' \in BOOLEAN /\ exc' \in BOOLEAN
    BY DEF Create, CreateFails, BeginCollecting, Begin
  <2>3. /\ writer' \in {"none", "some"} /\ obj' \in {"none", "some"}
        /\ alloc' \in 0..MaxSize /\ size' \in 0..MaxSize
        /\ mem' \in [Position -> Position \cup {Junk}]
    BY <2>1, ConstantsAreNat DEF IInv, TypeOK, Create, CreateFails, BeginCollecting, writerVars
  <2>4. bytes' \in Seq(Position) /\ result' \in [some : BOOLEAN, bytes : Seq(Position \cup {Junk})]
    BY NothingType DEF Create, CreateFails, BeginCollecting, Begin
  <2>5. sent' \in 0..MaxSize
    BY ConstantsAreNat DEF Create, CreateFails, BeginCollecting, Begin
  <2> QED
    BY <2>2, <2>3, <2>4, <2>5 DEF TypeOK
<1>2. (pc = "idle" \/ pc = "returned") => writer = "none" /\ obj = "none"
  BY DEF IInv, Owned, TypeOK
<1>3. Owned' /\ Failing' /\ Delivered'
  BY <1>2 DEF Create, CreateFails, BeginCollecting, Begin, writerVars, Owned, Failing, Delivered
<1>4. Holding'
  <2>1. CASE Create
    BY <2>1, ConstantsAreNat DEF Create, Begin, Holding, Allocated, Position
  <2>2. CASE CreateFails \/ BeginCollecting
    BY <1>2, <2>2 DEF CreateFails, BeginCollecting, Begin, writerVars, Holding
  <2> QED
    BY <2>1, <2>2
<1>5. Collecting'
  <2>1. Stream(0) = <<>>
    BY DEF Stream
  <2> QED
    BY <2>1 DEF Create, CreateFails, BeginCollecting, Begin, Collecting
<1> QED
  BY <1>1, <1>3, <1>4, <1>5 DEF IInv

\* A piece that the writer takes, however it finds room for it.
LEMMA StoredInv ==
  ASSUME IInv, Calling("python"), writer # "none",
         NEW n \in Piece, n <= MaxSize - size,
         NEW m \in [Position -> Position \cup {Junk}],
         \A j \in Position : j < size => m[j] = j,
         mem' = Copied(m, size, n),
         obj' \in {"none", "some"}, alloc' \in 0..MaxSize,
         size + n <= Allocated',
         obj' # "none" => alloc' > Small /\ alloc' <= (size + n) + (size + n) \div Factor,
         Stored(n)
  PROVE  IInv'
<1>1. TypeOK /\ Holding /\ Owned /\ Failing /\ pc = "body" /\ client = "python"
  BY DEF IInv, Calling
<1>2. size = sent /\ ~exc
  BY <1>1 DEF Holding
<1>3. n \in Nat /\ size \in Nat /\ size + n \in 0..MaxSize
  BY <1>1, PieceAssumption, ConstantsAreNat DEF TypeOK
<1>4. /\ mem' \in [Position -> Position \cup {Junk}]
      /\ \A j \in Position : j < size + n => mem'[j] = j
  BY <1>1, <1>2, <1>3, ConstantsAreNat, CopiedHolds
<1>5. size' = size + n /\ sent' = size + n /\ writer' = writer /\ exc' = exc
  BY <1>2 DEF Stored, Accepted
<1>6. TypeOK'
  BY <1>1, <1>3, <1>4, <1>5 DEF TypeOK, Stored, Accepted
<1>7. Holding'
  BY <1>2, <1>3, <1>4, <1>5 DEF Holding
<1>8. Collecting' /\ Failing' /\ Owned' /\ Delivered'
  BY <1>1, <1>5 DEF Stored, Accepted, Collecting, Failing, Owned, Delivered
<1> QED
  BY <1>6, <1>7, <1>8 DEF IInv

LEMMA WriteFitsInv == ASSUME IInv, WriteFits PROVE IInv'
<1>1. PICK n \in Piece : /\ n <= MaxSize - size
                         /\ size + n <= Allocated
                         /\ mem' = Copied(mem, size, n)
                         /\ Stored(n)
  BY DEF WriteFits
<1>2. Calling("python") /\ writer # "none" /\ obj' = obj /\ alloc' = alloc
  BY DEF WriteFits
<1>3. TypeOK /\ Holding /\ pc = "body" /\ client = "python"
  BY <1>2 DEF IInv, Calling
<1>4. n \in Nat /\ size \in Nat /\ alloc \in Nat /\ Small \in Nat
  BY <1>3, PieceAssumption, ConstantsAreNat DEF TypeOK
<1>5. Allocated' = Allocated
  BY <1>2 DEF Allocated
<1>6. ASSUME obj # "none"
      PROVE  alloc > Small /\ alloc <= (size + n) + (size + n) \div Factor
  <2>1. alloc > Small /\ alloc <= size + size \div Factor
    BY <1>2, <1>3, <1>6 DEF Holding
  <2>2. size \div Factor <= (size + n) \div Factor
    BY <1>4, ExtraGrows
  <2>3. size \div Factor \in Nat /\ (size + n) \div Factor \in Nat
    BY <1>4, Extra
  <2> QED
    BY <1>4, <2>1, <2>2, <2>3
<1>7. /\ mem \in [Position -> Position \cup {Junk}]
      /\ \A j \in Position : j < size => mem[j] = j
  BY <1>2, <1>3 DEF TypeOK, Holding
<1>8. obj' \in {"none", "some"} /\ alloc' \in 0..MaxSize
  BY <1>2, <1>3 DEF TypeOK
<1> QED
  BY <1>1, <1>2, <1>5, <1>6, <1>7, <1>8, StoredInv

LEMMA WriteGrowsInv == ASSUME IInv, WriteGrows PROVE IInv'
<1>1. PICK n \in Piece : /\ n <= MaxSize - size
                         /\ size + n > Allocated
                         /\ alloc' = Target(size + n)
                         /\ obj' = "some"
                         /\ mem' = Copied(Kept(mem, Allocated), size, n)
                         /\ Stored(n)
  BY DEF WriteGrows
<1>2. Calling("python") /\ writer # "none"
  BY DEF WriteGrows
<1>3. TypeOK /\ Holding /\ pc = "body" /\ client = "python"
  BY <1>2 DEF IInv, Calling
<1>4. /\ n \in Nat /\ size \in Nat /\ Small \in Nat
      /\ size + n \in 0..MaxSize
      /\ Allocated \in Nat /\ Allocated >= Small /\ size <= Allocated
  BY <1>1, <1>2, <1>3, PieceAssumption, ConstantsAreNat DEF TypeOK, Holding, Allocated
<1>5. /\ alloc' \in 0..MaxSize
      /\ size + n <= alloc'
      /\ alloc' <= (size + n) + (size + n) \div Factor
  BY <1>1, <1>4, TargetBounds
<1>6. alloc' > Small
  BY <1>1, <1>4, <1>5, ConstantsAreNat
<1>7. /\ Kept(mem, Allocated) \in [Position -> Position \cup {Junk}]
      /\ \A j \in Position : j < size => Kept(mem, Allocated)[j] = j
  <2>1. \A j \in Position : j < size => mem[j] = j
    BY <1>2, <1>3 DEF Holding
  <2> QED
    BY <1>3, <1>4, <2>1, KeptHolds
<1>8. size + n <= Allocated'
  BY <1>1, <1>5 DEF Allocated
<1> QED
  BY <1>1, <1>2, <1>5, <1>6, <1>7, <1>8, StoredInv

\* A write that fails, whether or not it took the object along.
LEMMA RefusedInv == ASSUME IInv, WriteFails \/ ResizeFails \/ InsertFails PROVE IInv'
<1> USE DEF WriteFails, ResizeFails, InsertFails, Refused, Calling, writerVars
<1>1. TypeOK'
  BY DEF IInv, TypeOK
<1>2. Holding' /\ Collecting' /\ Delivered'
  BY DEF Holding, Collecting, Delivered
<1>3. Owned' /\ Failing'
  BY DEF IInv, TypeOK, Owned, Failing
<1> QED
  BY <1>1, <1>2, <1>3 DEF IInv

LEMMA CollectInv ==
  ASSUME IInv, Collect, pc = "body", client # "python"
  PROVE  IInv'
<1>1. PICK n \in Piece : /\ sent + n <= MaxSize
                         /\ bytes' = bytes \o [k \in 1..n |-> sent + k - 1]
                         /\ Accepted(n)
  BY DEF Collect
<1>2. TypeOK /\ Collecting /\ Owned /\ pc = "body" /\ client # "python"
  BY DEF IInv
<1>3. n \in Nat /\ sent \in Nat /\ sent + n \in 0..MaxSize
  BY <1>1, <1>2, PieceAssumption, ConstantsAreNat DEF TypeOK
<1>4. bytes' = Stream(sent + n)
  BY <1>1, <1>2, <1>3, StreamAppend DEF Collecting
<1>5. bytes' \in Seq(Position)
  BY <1>3, <1>4, StreamType
<1>6. sent' = sent + n /\ exc' = exc
  BY <1>1 DEF Accepted, Collect
<1>7. TypeOK'
  BY <1>1, <1>2, <1>3, <1>5, <1>6 DEF TypeOK, Collect, Accepted, writerVars
<1>8. Collecting'
  BY <1>2, <1>4, <1>6 DEF Collecting
<1>9. Delivered' /\ Owned' /\ Holding' /\ Failing'
  BY <1>1, <1>2 DEF Collect, Accepted, writerVars, Delivered, Owned, Holding, Failing
<1> QED
  BY <1>7, <1>8, <1>9 DEF IInv

LEMMA WrittenInv == ASSUME IInv, Written PROVE IInv'
<1> USE DEF Written, writerVars
<1>1. TypeOK'
  BY DEF IInv, TypeOK
<1>2. Holding'
  BY DEF IInv, Holding, Allocated
<1>3. Collecting' /\ Failing' /\ Owned' /\ Delivered'
  BY DEF IInv, Collecting, Failing, Owned, Delivered
<1> QED
  BY <1>1, <1>2, <1>3 DEF IInv

LEMMA CallNullInv == ASSUME IInv, CallNull PROVE IInv'
<1> USE DEF CallNull, writerVars, Calling
<1>1. TypeOK'
  BY DEF IInv, TypeOK
<1>2. Holding' /\ Collecting' /\ Failing' /\ Owned' /\ Delivered'
  BY DEF IInv, Holding, Collecting, Failing, Owned, Delivered
<1> QED
  BY <1>1, <1>2 DEF IInv

\* The conversion returns nothing, and an exception says why.
LEMMA NothingInv == ASSUME IInv, Discard \/ FinishFails \/ Rethrow PROVE IInv'
<1> USE DEF Discard, FinishFails, Rethrow, Done, Discarded, writerVars
<1>1. TypeOK'
  BY NothingType DEF IInv, TypeOK
<1>2. Owned'
  BY DEF IInv, TypeOK, Owned
<1>3. Holding' /\ Collecting' /\ Failing' /\ Delivered'
  BY DEF IInv, Failing, Holding, Collecting, Delivered, Nothing
<1> QED
  BY <1>1, <1>2, <1>3 DEF IInv

LEMMA FinishInv == ASSUME IInv, Finish PROVE IInv'
<1>1. /\ TypeOK /\ Holding /\ Failing
      /\ client = "python" /\ pc = "written" /\ writer # "none"
  BY DEF IInv, Finish, Failing
<1>2. size = sent /\ ~exc /\ size \in 0..MaxSize /\ \A j \in Position : j < size => mem[j] = j
  BY <1>1 DEF Holding, TypeOK
<1>3. Contents(size) = Stream(sent)
  <2>1. \A k \in 1..size : k - 1 \in Position /\ k - 1 < size
    BY <1>2, ConstantsAreNat DEF Position
  <2>2. \A k \in 1..size : mem[k - 1] = k - 1
    BY <1>2, <2>1
  <2> QED
    BY <1>2, <2>2 DEF Contents, Stream
<1>4. Stream(sent) \in Seq(Position \cup {Junk})
  BY <1>2, ConstantsAreNat DEF Stream, Position
<1>5. result' = [some |-> TRUE, bytes |-> Stream(sent)] /\ sent' = sent /\ exc' = exc
  BY <1>3 DEF Finish, Done, Some
<1>6. TypeOK'
  BY <1>1, <1>4, <1>5 DEF TypeOK, Finish, Done, Discarded
<1>7. Delivered'
  BY <1>2, <1>5 DEF Delivered, Stream
<1>8. Holding' /\ Collecting' /\ Failing' /\ Owned'
  BY DEF Finish, Done, Discarded, Holding, Collecting, Failing, Owned
<1> QED
  BY <1>6, <1>7, <1>8 DEF IInv

LEMMA ReturnBytesInv == ASSUME IInv, ReturnBytes PROVE IInv'
<1>1. TypeOK /\ Collecting /\ Owned /\ client # "python" /\ pc = "written"
  BY DEF IInv, ReturnBytes
<1>2. bytes = Stream(sent) /\ ~exc /\ sent \in 0..MaxSize
  BY <1>1 DEF Collecting, TypeOK
<1>3. bytes \in Seq(Position \cup {Junk})
  BY <1>2, ConstantsAreNat DEF Stream, Position
<1>4. result' = [some |-> TRUE, bytes |-> bytes] /\ sent' = sent /\ exc' = exc
  BY DEF ReturnBytes, Done, Some
<1>5. TypeOK'
  BY <1>1, <1>3, <1>4 DEF TypeOK, ReturnBytes, Done, writerVars
<1>6. Delivered'
  BY <1>2, <1>4 DEF Delivered, Stream
<1>7. Holding' /\ Collecting' /\ Failing' /\ Owned'
  BY <1>1 DEF ReturnBytes, Done, writerVars, Holding, Collecting, Failing, Owned
<1> QED
  BY <1>5, <1>6, <1>7 DEF IInv

LEMMA StutterInv == ASSUME IInv, UNCHANGED vars PROVE IInv'
<1> USE DEF vars, writerVars
<1>1. TypeOK'
  BY DEF IInv, TypeOK
<1>2. Holding'
  BY DEF IInv, Holding, Allocated
<1>3. Collecting' /\ Failing' /\ Owned' /\ Delivered'
  BY DEF IInv, Collecting, Failing, Owned, Delivered
<1> QED
  BY <1>1, <1>2, <1>3 DEF IInv

LEMMA NextInv == IInv /\ [Next]_vars => IInv'
<1> SUFFICES ASSUME IInv, [Next]_vars PROVE IInv'
  OBVIOUS
<1>1. CASE Create \/ CreateFails \/ BeginCollecting
  BY <1>1, BeginInv
<1>2. CASE WriteFits
  BY <1>2, WriteFitsInv
<1>3. CASE WriteGrows
  BY <1>3, WriteGrowsInv
<1>4. CASE WriteFails \/ ResizeFails \/ InsertFails
  BY <1>4, RefusedInv
<1>5. CASE Insert \/ AppendData
  BY <1>5, CollectInv DEF Insert, AppendData, Calling
<1>6. CASE Written
  BY <1>6, WrittenInv
<1>7. CASE CallNull
  BY <1>7, CallNullInv
<1>8. CASE Discard \/ FinishFails \/ Rethrow
  BY <1>8, NothingInv
<1>9. CASE Finish
  BY <1>9, FinishInv
<1>10. CASE ReturnBytes
  BY <1>10, ReturnBytesInv
<1>11. CASE UNCHANGED vars
  BY <1>11, StutterInv
<1> QED
  BY <1>1, <1>2, <1>3, <1>4, <1>5, <1>6, <1>7, <1>8, <1>9, <1>10, <1>11 DEF Next, Step

-----------------------------------------------------------------------------
(* The theorems.                                                           *)

\* The invariant that the others follow from: what a writer and a vector hold while
\* pieces arrive, and who owns the writer and its object.
THEOREM Invariance == Spec => []IInv
<1> QED
  BY InitInv, NextInv, PTL DEF Spec

\* Sizes stay sizes: asking for a quarter more never passes the largest one.
THEOREM TypeCorrect == Spec => []TypeOK
<1>1. IInv => TypeOK
  BY DEF IInv
<1> QED
  BY <1>1, Invariance, PTL

\* No piece is copied beyond the buffer, whether it fits, outgrows the small buffer
\* or outgrows an object.
THEOREM WritesStayInside == Spec => []WithinBuffer
<1>1. IInv => WithinBuffer
  BY DEF IInv, Owned, Holding, WithinBuffer
<1> QED
  BY <1>1, Invariance, PTL

\* The assertion in byteswriter_resize holds: an object is larger than the small
\* buffer, so that the copy of the small buffer stays inside.
THEOREM ObjectsAreLarger == Spec => []LargerThanSmall
<1>1. IInv => LargerThanSmall
  BY DEF IInv, Owned, Holding, LargerThanSmall
<1> QED
  BY <1>1, Invariance, PTL

\* A writer never holds more than a factor of what was written.
THEOREM GrowthIsBounded == Spec => []NotWasteful
<1>1. IInv => NotWasteful
  <2> SUFFICES ASSUME IInv, pc = "body", writer # "none"
               PROVE  Allocated <= Small \/ Allocated <= size + size \div Factor
    BY DEF NotWasteful
  <2>1. CASE obj = "none"
    BY <2>1, ConstantsAreNat DEF Allocated
  <2>2. CASE obj # "none"
    BY <2>2 DEF Allocated, IInv, Owned, Holding
  <2> QED
    BY <2>1, <2>2
<1> QED
  BY <1>1, Invariance, PTL

\* A conversion returns every byte in its order, or nothing and an exception.
THEOREM BytesAreDelivered == Spec => []Delivered
<1>1. IInv => Delivered
  BY DEF IInv
<1> QED
  BY <1>1, Invariance, PTL

\* However a conversion of Python's ends, its writer and object are gone.
THEOREM NothingStays == Spec => []NothingLeft
<1>1. IInv => NothingLeft
  BY DEF IInv, Owned, NothingLeft
<1> QED
  BY <1>1, Invariance, PTL
=============================================================================
