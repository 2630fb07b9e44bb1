---------------------------- MODULE BytesWriter ----------------------------
(***************************************************************************)
(* How the bytes of an object reach the caller: a ToBytes function of the  *)
(* library hands one piece after another to a callback, which appends it   *)
(* to the PyBytesWriter of the Python binding or to the std::vector of the *)
(* C++ wrapper, and stops when the callback fails.                         *)
(*                                                                         *)
(* A PyBytesWriter starts with a small buffer inside itself, moves to a    *)
(* bytes object when that is full, and asks for more than it needs each    *)
(* time it grows.  The bytes of a stream are its positions 0, 1, 2, ...;   *)
(* what they are does not matter.                                          *)
(***************************************************************************)
EXTENDS Integers, Sequences

CONSTANTS
  Small,     \* sizeof(small_buffer)
  Factor,    \* OVERALLOCATE_FACTOR: 2 on Windows, 4 elsewhere
  MaxSize,   \* PY_SSIZE_T_MAX
  Piece      \* sizes of the pieces that a ToBytes function may write

ASSUME SmallAssumption == Small \in Nat \ {0}
ASSUME FactorAssumption == Factor \in {2, 4}
ASSUME MaxSizeAssumption == MaxSize \in Nat /\ Small < MaxSize
ASSUME PieceAssumption == Piece \subseteq 0..MaxSize

VARIABLES
  pc,      \* "idle" before the first conversion, "body" in the ToBytes function,
           \* "failed" or "written" when that has returned, "returned" after the
           \* conversion, "crashed" when a null pointer has been dereferenced
  client,  \* whose callback it is
  fn,      \* which ToBytes it is
  calls,   \* the callback has been called
  sent,    \* how many bytes it has been given
  writer,  \* the PyBytesWriter: none (a null pointer) or allocated
  obj,     \* writer->obj: none (a null pointer) or allocated
  alloc,   \* the size of that object
  size,    \* writer->size
  mem,     \* the memory that byteswriter_data points at
  bytes,   \* the std::vector, or Swift's Data
  exc,     \* an exception is set (Python) or stored in the closure (C++)
  result   \* what the caller gets: a sequence of bytes or nothing

writerVars == <<writer, obj, alloc, size, mem>>
vars == <<pc, client, fn, calls, sent, writerVars, bytes, exc, result>>

Position == 0..(MaxSize - 1)
Junk == -1

Nothing == [some |-> FALSE, bytes |-> <<>>]
Some(s) == [some |-> TRUE, bytes |-> s]

\* The stream up to its n-th byte.
Stream(n) == [k \in 1..n |-> k - 1]

-----------------------------------------------------------------------------
(* The buffer of a writer.                                                 *)

Allocated == IF obj = "none" THEN Small ELSE alloc

\* byteswriter_resize asks for a quarter more than needed, if that is a size.
\* Faults: a quarter more than there was; as much again.
StaleFault(n) == size + size \div Factor
DoubleFault(n) == IF n <= MaxSize - n THEN n + n ELSE n
Target(n) == IF n <= MaxSize - n \div Factor THEN n + n \div Factor ELSE n

\* Writing n bytes of the stream at pos into memory m.
Copied(m, pos, n) ==
  [j \in Position |-> IF pos <= j /\ j < pos + n THEN sent + (j - pos) ELSE m[j]]

\* What is left of the first n bytes of m in new memory.
Kept(m, n) == [j \in Position |-> IF j < n THEN m[j] ELSE Junk]

-----------------------------------------------------------------------------
(* to_bytes and to_bytes_ call the ToBytes function.                       *)

Begin(c) ==
  /\ pc \in {"idle", "returned"}
  /\ client' = c
  /\ fn' \in {"script", "stream"}
  /\ pc' = "body"
  /\ calls' = FALSE
  /\ sent' = 0
  /\ bytes' = <<>>
  /\ result' = Nothing

\* PyBytesWriter_Create(0).
Create ==
  /\ Begin("python")
  /\ writer' = "some"
  /\ obj' = "none"
  /\ alloc' = 0
  /\ size' = 0
  /\ mem' = [j \in Position |-> Junk]
  /\ exc' = FALSE

\* Without memory for the writer, to_bytes goes on with a null pointer.
CreateFails ==
  /\ Begin("python")
  /\ exc' = TRUE
  /\ UNCHANGED writerVars

BeginCollecting ==
  /\ Begin("cpp") \/ Begin("swift")
  /\ exc' = FALSE
  /\ UNCHANGED writerVars

-----------------------------------------------------------------------------
(* The callback.                                                           *)

\* Script's ToBytes makes one call, those that serialize make at least one.
Calling(c) == pc = "body" /\ client = c /\ (fn = "script" => ~calls)

\* The callback succeeds: the ToBytes function goes on.
Accepted(n) ==
  /\ calls' = TRUE
  /\ sent' = sent + n
  /\ UNCHANGED <<pc, client, fn, result>>

\* The callback fails: script's ToBytes returns its result, WriterStream throws
\* and the other ToBytes functions return -1.
Refused ==
  /\ pc' = "failed"
  /\ calls' = TRUE
  /\ UNCHANGED <<client, fn, sent, result>>

CallNull ==
  /\ Calling("python") /\ writer = "none"
  /\ pc' = "crashed"
  /\ UNCHANGED <<client, fn, calls, sent, writerVars, bytes, exc, result>>

\* PyBytesWriter_WriteBytes when the piece fits.
Stored(n) ==
  /\ size' = size + n
  /\ Accepted(n)
  /\ UNCHANGED <<writer, bytes, exc>>

WriteFits ==
  /\ Calling("python") /\ writer # "none"
  /\ \E n \in Piece :
       /\ n <= MaxSize - size
       /\ size + n <= Allocated
       /\ mem' = Copied(mem, size, n)
       /\ Stored(n)
  /\ UNCHANGED <<obj, alloc>>

\* It does not fit: the object grows, or the small buffer is copied into a new one.
WriteGrows ==
  /\ Calling("python") /\ writer # "none"
  /\ \E n \in Piece :
       /\ n <= MaxSize - size
       /\ size + n > Allocated
       /\ alloc' = Target(size + n)
       /\ obj' = "some"
       /\ mem' = Copied(Kept(mem, Allocated), size, n)
       /\ Stored(n)

\* The size overflows, or there is no memory for a new object.
WriteFails ==
  /\ Calling("python") /\ writer # "none"
  /\ \E n \in Piece : n > MaxSize - size \/ (size + n > Allocated /\ obj = "none")
  /\ exc' = TRUE
  /\ Refused
  /\ UNCHANGED <<writerVars, bytes>>

\* There is no memory to grow the object: _PyBytes_Resize has released it.
ResizeFails ==
  /\ Calling("python") /\ writer # "none"
  /\ \E n \in Piece : n <= MaxSize - size /\ size + n > Allocated /\ obj # "none"
  /\ obj' = "none"
  /\ exc' = TRUE
  /\ Refused
  /\ UNCHANGED <<writer, alloc, size, mem, bytes>>

Collect ==
  /\ \E n \in Piece :
       /\ sent + n <= MaxSize
       /\ bytes' = bytes \o [k \in 1..n |-> sent + k - 1]
       /\ Accepted(n)
  /\ UNCHANGED <<writerVars, exc>>

\* std::vector::insert; the callback of C++ catches what it throws.
Insert == Calling("cpp") /\ Collect

\* Swift's Data has the memory, or the program ends.
AppendData == Calling("swift") /\ Collect

InsertFails ==
  /\ Calling("cpp")
  /\ exc' = TRUE
  /\ Refused
  /\ UNCHANGED <<writerVars, bytes>>

Written ==
  /\ pc = "body" /\ calls
  /\ pc' = "written"
  /\ UNCHANGED <<client, fn, calls, sent, writerVars, bytes, exc, result>>

-----------------------------------------------------------------------------
(* The end.                                                                *)

\* PyBytesWriter_Discard.  The fault forgets the object.
DiscardedFault ==
  /\ writer' = "none"
  /\ UNCHANGED <<obj, alloc, size, mem>>

Discarded ==
  /\ writer' = "none"
  /\ obj' = "none"
  /\ UNCHANGED <<alloc, size, mem>>

Done(r) ==
  /\ pc' = "returned"
  /\ result' = r
  /\ UNCHANGED <<client, fn, calls, sent, bytes>>

Discard ==
  /\ pc = "failed" /\ client = "python"
  /\ Discarded
  /\ Done(Nothing)
  /\ UNCHANGED exc

\* PyBytesWriter_Finish.  The fault keeps the object at its size.
Contents(n) == [k \in 1..n |-> mem[k - 1]]

FinishFault ==
  /\ pc = "written" /\ client = "python"
  /\ Done(Some(Contents(Allocated)))
  /\ Discarded
  /\ UNCHANGED exc

Finish ==
  /\ pc = "written" /\ client = "python"
  /\ Done(Some(Contents(size)))
  /\ Discarded
  /\ UNCHANGED exc

\* The final object cannot be made, or cut to size.
FinishFails ==
  /\ pc = "written" /\ client = "python"
  /\ size # 0 /\ (obj = "none" \/ size # alloc)
  /\ exc' = TRUE
  /\ Done(Nothing)
  /\ Discarded

Rethrow ==
  /\ pc = "failed" /\ client = "cpp"
  /\ Done(Nothing)
  /\ UNCHANGED <<writerVars, exc>>

ReturnBytes ==
  /\ pc = "written" /\ client \in {"cpp", "swift"}
  /\ Done(Some(bytes))
  /\ UNCHANGED <<writerVars, exc>>

-----------------------------------------------------------------------------
Init ==
  /\ pc = "idle"
  /\ client = "cpp"
  /\ fn = "stream"
  /\ calls = FALSE
  /\ sent = 0
  /\ writer = "none"
  /\ obj = "none"
  /\ alloc = 0
  /\ size = 0
  /\ mem = [j \in Position |-> Junk]
  /\ bytes = <<>>
  /\ exc = FALSE
  /\ result = Nothing

Step ==
  \/ CallNull \/ WriteFits \/ WriteGrows \/ WriteFails \/ ResizeFails
  \/ Insert \/ InsertFails \/ AppendData \/ Written
  \/ Discard \/ Finish \/ FinishFails \/ Rethrow \/ ReturnBytes

Next == Create \/ CreateFails \/ BeginCollecting \/ Step

Spec == Init /\ [][Next]_vars

-----------------------------------------------------------------------------
(* Properties.                                                             *)

TypeOK ==
  /\ pc \in {"idle", "body", "failed", "written", "returned", "crashed"}
  /\ client \in {"python", "cpp", "swift"}
  /\ fn \in {"script", "stream"}
  /\ calls \in BOOLEAN
  /\ sent \in 0..MaxSize
  /\ writer \in {"none", "some"}
  /\ obj \in {"none", "some"}
  /\ alloc \in 0..MaxSize
  /\ size \in 0..MaxSize
  /\ mem \in [Position -> Position \cup {Junk}]
  /\ bytes \in Seq(Position)
  /\ exc \in BOOLEAN
  /\ result \in [some : BOOLEAN, bytes : Seq(Position \cup {Junk})]

\* A piece never reaches beyond the buffer it is copied to, also when the buffer
\* has just been replaced or a size came close to the largest there is.
WithinBuffer == (pc = "body" /\ writer # "none") => size <= Allocated

\* byteswriter_resize asserts it: the object that replaces the small buffer is
\* larger, so that the whole small buffer can be copied.
LargerThanSmall == (pc = "body" /\ obj # "none") => alloc > Small

\* The buffer is at most a factor larger than what it holds.
NotWasteful ==
  (pc = "body" /\ writer # "none") =>
    \/ Allocated <= Small
    \/ Allocated <= size + size \div Factor

\* What the caller gets is every byte the library wrote, in its order, through
\* whatever buffers they went; nothing else than a failure gives it nothing, and
\* then an exception is there to say why.
Delivered ==
  pc = "returned" =>
    IF result.some THEN result.bytes = Stream(sent) /\ ~exc ELSE exc

\* After a failure of any allocation, neither the writer nor its object remains.
NothingLeft == pc = "returned" => writer = "none" /\ obj = "none"

-----------------------------------------------------------------------------
(* The inductive invariant.                                                *)

\* A writer holds what it was given: the stream so far, in a buffer that is the
\* small one or an object made for it.
Holding ==
  (client = "python" /\ pc \in {"body", "written"} /\ writer # "none") =>
    /\ ~exc
    /\ size = sent
    /\ size <= Allocated
    /\ \A j \in Position : j < size => mem[j] = j
    /\ obj # "none" => alloc > Small /\ alloc <= size + size \div Factor

\* So do the vector and Data.
Collecting ==
  (client # "python" /\ pc \in {"body", "written"}) => ~exc /\ bytes = Stream(sent)

\* A failure left an exception; a null writer is in the hands of a ToBytes function
\* that has not called back, after a failure.
Failing ==
  /\ pc = "failed" => exc
  /\ (client = "python" /\ writer = "none" /\ pc \in {"body", "written", "failed"}) =>
       pc = "body" /\ ~calls /\ exc

\* The object belongs to a writer, and a writer to a conversion of Python's.
Owned ==
  /\ writer = "none" => obj = "none"
  /\ writer # "none" => client = "python" /\ pc \in {"body", "written", "failed"}

IInv ==
  /\ TypeOK
  /\ Holding
  /\ Collecting
  /\ Failing
  /\ Owned
  /\ Delivered
=============================================================================
