------------------------------- MODULE Chain -------------------------------
(***************************************************************************)
(* BtcK_Chain and the ranges of blocks that are made of it: the iterators  *)
(* of btck.hpp with their unsigned indices and signed differences, the     *)
(* blocks, find and index of the Python binding, and the three functions   *)
(* of chain.cpp below them.                                                *)
(*                                                                         *)
(* Nothing in the repository changes a chain once it is there, so the      *)
(* active chain is chosen in the initial state, together with blocks that  *)
(* are known but not part of it.  Integers have the width of their types.  *)
(***************************************************************************)
EXTENDS Integers, Sequences

CONSTANTS
  Block,     \* blocks that the block index knows
  Other,     \* the hash of a block that it does not know
  SizeHalf,  \* half of the values of size_t, ptrdiff_t and Py_ssize_t: 2^63
  IntHalf,   \* half of the values of int: 2^31
  Iterator   \* the program's iterators

ASSUME ParametersAssumption ==
  /\ Other \notin Block
  /\ IntHalf \in Nat \ {0} /\ SizeHalf \in Nat /\ IntHalf < SizeHalf

VARIABLES
  chain,    \* the active chain: blocks by height, from 0 up
  it,       \* idx_ of an iterator
  pos,      \* the position that the program has moved it to
  visited,  \* what a loop has seen so far
  loop,     \* [on, idx, end]: the iterators of a loop
  result    \* [kind, value] of the last call

chainVars == <<chain, it, pos, visited, loop, result>>

SizeMax == 2 * SizeHalf
ToSize(n) == n % SizeMax
Narrow(n, half) == LET m == n % (2 * half) IN IF m < half THEN m ELSE m - (2 * half)
ToInt(n) == Narrow(n, IntHalf)
ToDiff(n) == Narrow(n, SizeHalf)

Hash == Block \cup {Other}
Off == [on |-> FALSE, idx |-> 0, end |-> 0]
Got(b) == [kind |-> "block", value |-> b]
Number(n) == [kind |-> "number", value |-> n]
Outcome(k) == [kind |-> k, value |-> 0]

-----------------------------------------------------------------------------
(* The active chain of Bitcoin Core.                                       *)

Height == Len(chain) - 1
At(h) == IF h \in 0..Height THEN chain[h + 1] ELSE Other
Contains(b) == \E h \in 0..Height : At(h) = b
HeightOf(b) == CHOOSE h \in 0..Height : At(h) = b

-----------------------------------------------------------------------------
(* chain.cpp                                                               *)

\* The height of the tip.  The fault counts one too many.
CountBlocksFault == ToSize(Height + 2)
CountBlocks == ToSize(Height)

\* There is nothing to read where there is no index entry: a null pointer, which
\* is dereferenced.
GetBlock(idx, r) ==
  LET b == At(ToInt(idx)) IN
  IF b = Other THEN r = Outcome("null") ELSE r \in {Got(b), Outcome("error")}

\* -1 also for a block that is known but not in the active chain.
FindBlock(b) == IF b # Other /\ Contains(b) THEN HeightOf(b) ELSE -1

-----------------------------------------------------------------------------
(* range and range_iterator.                                               *)

Begin == 0
End == CountBlocks

\* idx_ += n converts n to size_t and wraps around.  The fault keeps the carry.
PlusFault(idx, n) == idx + ToSize(n)
Plus(idx, n) == ToSize(idx + ToSize(n))

\* The difference is taken of size_t and returned as ptrdiff_t.  The fault does not
\* make it signed.
MinusFault(a, b) == ToSize(a - b)
Minus(a, b) == ToDiff(ToSize(a - b))

Move(i, n) ==
  /\ it' = [it EXCEPT ![i] = Plus(@, n)]
  /\ pos' = [pos EXCEPT ![i] = @ + n]

Unmoved == UNCHANGED <<it, pos>>

\* A program is not in a loop, and has not ended with a null pointer.
Walking == ~loop.on /\ result.kind # "null"

\* i = begin() and i = end().
SetBegin(i) ==
  /\ Walking
  /\ it' = [it EXCEPT ![i] = Begin]
  /\ pos' = [pos EXCEPT ![i] = 0]
  /\ UNCHANGED <<chain, visited, loop, result>>

SetEnd(i) ==
  /\ Walking
  /\ it' = [it EXCEPT ![i] = End]
  /\ pos' = [pos EXCEPT ![i] = Height]
  /\ UNCHANGED <<chain, visited, loop, result>>

\* i = find(b): end() if it is not found.
Find(i, b) ==
  LET idx == FindBlock(b) IN
  /\ Walking
  /\ it' = [it EXCEPT ![i] = IF idx = -1 THEN End ELSE Plus(Begin, idx)]
  /\ pos' = [pos EXCEPT ![i] = IF b # Other /\ Contains(b) THEN HeightOf(b) ELSE Height]
  /\ UNCHANGED <<chain, visited, loop, result>>

\* ++i, --i, i += n, i -= n: a program stays between begin() and end().
Advance(i, n) ==
  /\ Walking
  /\ pos[i] + n \in 0..Height
  /\ Move(i, n)
  /\ UNCHANGED <<chain, visited, loop, result>>

\* *i and i[n], where they come before end().
Dereference(i) ==
  /\ Walking
  /\ it[i] < End
  /\ GetBlock(it[i], result')
  /\ Unmoved /\ UNCHANGED <<chain, visited, loop>>

\* front() and back(), of a range that is not empty().
FrontAndBack ==
  /\ Walking
  /\ CountBlocks # 0
  /\ GetBlock(0, result') \/ GetBlock(ToSize(CountBlocks - 1), result')
  /\ Unmoved /\ UNCHANGED <<chain, visited, loop>>

\* j - i
Difference(i, j) ==
  /\ Walking
  /\ result' = Number(Minus(it[j], it[i]))
  /\ Unmoved /\ UNCHANGED <<chain, visited, loop>>

\* for (auto const& block : chain)
LoopStart ==
  /\ Walking
  /\ loop' = [on |-> TRUE, idx |-> Begin, end |-> End]
  /\ visited' = <<>>
  /\ result' = Outcome("none")
  /\ Unmoved /\ UNCHANGED chain

\* The fault compares with less or equal.
MoreFault == loop.on /\ loop.idx <= loop.end
More == loop.on /\ loop.idx # loop.end

LoopBody ==
  /\ More
  /\ GetBlock(loop.idx, result')
  /\ IF result'.kind = "block"
     THEN /\ visited' = Append(visited, result'.value)
          /\ loop' = [loop EXCEPT !.idx = Plus(@, 1)]
     ELSE /\ loop' = Off
          /\ UNCHANGED visited
  /\ Unmoved /\ UNCHANGED chain

LoopEnd ==
  /\ loop.on /\ ~More
  /\ loop' = Off
  /\ result' = Outcome("looped")
  /\ Unmoved /\ UNCHANGED <<chain, visited>>

-----------------------------------------------------------------------------
(* The Python binding.                                                     *)

Return(r) ==
  /\ Walking
  /\ result' = r
  /\ Unmoved /\ UNCHANGED <<chain, visited, loop>>

\* chain.blocks[idx], for an index that the slice accepts.
PyLength == ToDiff(CountBlocks)
PyItem(idx) ==
  /\ idx \in 0..(PyLength - 1)
  /\ \E r \in {Got(At(ToInt(idx))), Outcome("null"), Outcome("error")} :
       GetBlock(ToSize(idx), r) /\ Return(r)

PyFind(b) == Return([kind |-> "found", value |-> <<b, FindBlock(b)>>])

PyIndex(b) ==
  IF FindBlock(b) < 0 THEN Return(Outcome("ValueError"))
  ELSE Return([kind |-> "index", value |-> <<b, FindBlock(b)>>])

-----------------------------------------------------------------------------
\* Every chain of distinct blocks up to the largest height, also the one without a
\* block: its height is -1, which size_t makes the largest size.
Chains ==
  {c \in UNION {[1..n -> Block] : n \in 0..IntHalf} :
     \A m, n \in DOMAIN c : c[m] = c[n] => m = n}

ChainInit ==
  /\ chain \in Chains
  /\ it = [i \in Iterator |-> Begin]
  /\ pos = [i \in Iterator |-> 0]
  /\ visited = <<>>
  /\ loop = Off
  /\ result = Outcome("none")

Distance == (-Height)..Height

ChainNext ==
  \/ \E i \in Iterator :
       \/ SetBegin(i) \/ SetEnd(i) \/ Dereference(i)
       \/ \E b \in Hash : Find(i, b)
       \/ \E n \in Distance : Advance(i, n)
       \/ \E j \in Iterator : Difference(i, j)
  \/ FrontAndBack
  \/ LoopStart \/ LoopBody \/ LoopEnd
  \/ \E n \in 0..Height : PyItem(n)
  \/ \E b \in Hash : PyFind(b) \/ PyIndex(b)

ChainSpec == ChainInit /\ [][ChainNext]_chainVars

-----------------------------------------------------------------------------
(* Properties.                                                             *)

ChainTypeOK ==
  /\ chain \in Chains
  /\ it \in [Iterator -> 0..(SizeMax - 1)]
  /\ pos \in [Iterator -> (0..Height) \cup {0, Height}]
  /\ visited \in Seq(Block)
  /\ loop \in [on : BOOLEAN, idx : 0..(SizeMax - 1), end : 0..(SizeMax - 1)]
  /\ result.kind \in {"none", "block", "number", "error", "null", "looped", "found",
                      "index", "ValueError"}

\* An iterator is where the program has moved it, after any way there: the unsigned
\* index takes negative steps, and a found block is where its height says.  The end
\* of an empty chain is one before its beginning, which is the largest index.
InPlace ==
  \A i \in Iterator : it[i] = IF chain = <<>> THEN ToSize(pos[i]) ELSE pos[i]

\* A null index entry is read of an empty chain only: in all others no index that a
\* program may use, and none that a loop comes to, is beyond the tip or becomes
\* another one as an int.  An empty chain has nothing else: front(), back(), *begin()
\* and a loop read a null entry, and no loop over it gets to its end.
NullMeansEmpty ==
  /\ result.kind = "null" => chain = <<>>
  /\ chain = <<>> => result.kind \notin {"block", "error", "looped"}

\* A loop sees the blocks in the order of the chain, none twice and none skipped,
\* and when it has ended all blocks but the tip.
LoopInOrder ==
  /\ visited = SubSeq(chain, 1, Len(visited))
  /\ result.kind = "looped" => Len(visited) = Len(chain) - 1

\* The difference of two iterators is that of their positions, with its sign.
Differences ==
  [][\A i, j \in Iterator :
       Difference(i, j) => result'.value = pos[j] - pos[i]]_chainVars

-----------------------------------------------------------------------------
\* What every step keeps: a loop has seen as many blocks as its index counts, and it
\* has not ended before the tip.
InLoop ==
  /\ loop.on => /\ loop.idx = Len(visited)
                /\ loop.end = CountBlocks
                /\ result.kind \notin {"looped", "null"}
  /\ Len(visited) <= Height \/ visited = <<>>
  /\ visited = SubSeq(chain, 1, Len(visited))
  /\ result.kind = "looped" => Len(visited) = Height

ChainIInv == ChainTypeOK /\ InPlace /\ NullMeansEmpty /\ InLoop
=============================================================================
