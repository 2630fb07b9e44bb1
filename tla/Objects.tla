------------------------------ MODULE Objects ------------------------------
(***************************************************************************)
(* Life of the objects behind the C API: _New, _Copy, _Free, the ToBytes   *)
(* functions, and the pointers into an object that GetTransaction and      *)
(* GetOutput lend.                                                         *)
(*                                                                         *)
(* A handle is the heap cell a BtcK_Xxx* points at.  Its members are the   *)
(* slots <<h, 1>> .. <<h, len[h]>>:                                        *)
(*   - BtcK_Block        CBlock: one CTransactionRef per element of vtx;   *)
(*   - BtcK_Transaction  CTransactionRef: one slot;                        *)
(*   - BtcK_TransactionOutput CTxOut, and BtcK_ScriptPubkey CScript, which *)
(*     hold their data themselves: one slot nobody shares.                 *)
(* A body is what a slot refers to: for blocks and transactions the        *)
(* CTransaction and its reference count, which several handles may share.  *)
(*                                                                         *)
(* No call holds a lock, so calls of different threads interleave at every *)
(* change of a reference count and at every allocation.  The client keeps  *)
(* the contract of C pointers: it passes pointers to live objects only and *)
(* frees an object once, when no call still reads it.                      *)
(***************************************************************************)
EXTENDS Naturals, Sequences, FiniteSets

CONSTANTS
  Thread,       \* client threads
  Handle,       \* heap cells for API objects
  Body,         \* heap cells for shared CTransactions (and leaf data)
  Content,      \* what a body can hold
  MaxTxs,       \* bound on the transactions of one block
  NoHandle, NoBody, NoContent

ASSUME MaxTxsAssumption == MaxTxs \in Nat \ {0}
ASSUME FiniteAssumption == IsFiniteSet(Handle)
ASSUME NullAssumption ==
  /\ NoHandle \notin Handle
  /\ NoBody \notin Body
  /\ NoContent \notin Content

VARIABLES
  stage,    \* of a handle: unallocated, under construction, live, being destroyed
  kind,     \* its C type
  len,      \* how many slots it has: vtx.size(), or 1
  slot,     \* the body each slot refers to
  use,      \* the reference count kept beside a body
  content,  \* what a body holds; NoContent once its memory is returned
  pc,       \* what a thread is doing
  obj,      \* the handle its call constructs, destroys or reads
  src,      \* [h, off]: the handle a copy reads, and the first slot less one
  raw,      \* [txs, whole]: the bytes given to _New
  dead,     \* the body whose last reference the thread has just dropped
  out       \* what ToBytes has passed to the callback so far

heapVars == <<stage, kind, len, slot, use, content>>
callVars == <<pc, obj, src, raw, dead, out>>
vars == <<heapVars, callVars>>

Pos == 1..MaxTxs
Slot == Handle \X Pos
Kind == {"Block", "Transaction", "TransactionOutput", "ScriptPubkey"}

\* Types whose copy is a copy of the data, not one more reference to it.
Leaf == {"TransactionOutput", "ScriptPubkey"}

\* Serialized objects: the transactions that parse and whether the bytes go on
\* to the end of the object (bytes after the end are ignored by _New).
SeqUpTo(S) == UNION {[1..n -> S] : n \in 0..MaxTxs}
Raw == [txs : SeqUpTo(Content), whole : BOOLEAN]
NoRaw == [txs |-> <<>>, whole |-> TRUE]
NoSource == [h |-> NoHandle, off |-> 0]

-----------------------------------------------------------------------------
Value(h) == [k \in 1..len[h] |-> content[slot[<<h, k>>]]]
Filled(h) == \A k \in 1..len[h] : slot[<<h, k>>] # NoBody
Emptied(h) == \A k \in 1..len[h] : slot[<<h, k>>] = NoBody

\* The client's side of the contract.
InUse(h) == \E t \in Thread : \/ pc[t] = "copy" /\ src[t].h = h
                              \/ pc[t] = "read" /\ obj[t] = h
MayFree(h) == stage[h] = "live" /\ ~InUse(h)

Idle(t) == pc[t] = "idle"

\* std::vector and object constructors fill members first to last.
NextSlot(h, k) ==
  /\ k \in 1..len[h]
  /\ slot[<<h, k>>] = NoBody
  /\ \A j \in 1..(k - 1) : slot[<<h, j>>] # NoBody

-----------------------------------------------------------------------------
(* Bodies: std::make_shared, the copy and the destruction of a shared_ptr. *)

Allocate(s, b, c) ==
  /\ content[b] = NoContent
  /\ content' = [content EXCEPT ![b] = c]
  /\ use' = [use EXCEPT ![b] = 1]
  /\ slot' = [slot EXCEPT ![s] = b]

\* Faulty variants of the definitions that follow them are named ...Fault; no
\* specification uses them.  Here: a copied pointer that does not count.
ShareFault(s, b) ==
  /\ slot' = [slot EXCEPT ![s] = b]
  /\ UNCHANGED <<use, content>>

Share(s, b) ==
  /\ use' = [use EXCEPT ![b] = @ + 1]
  /\ slot' = [slot EXCEPT ![s] = b]
  /\ UNCHANGED content

\* The last reference is recognised before it is dropped: one too early.
DropFault(t, s) ==
  LET b == slot[s] IN
  /\ use' = [use EXCEPT ![b] = @ - 1]
  /\ slot' = [slot EXCEPT ![s] = NoBody]
  /\ dead' = [dead EXCEPT ![t] = IF use[b] <= 2 THEN b ELSE NoBody]
  /\ UNCHANGED content

\* The decrement is atomic and tells the caller whether it was the last one.
Drop(t, s) ==
  LET b == slot[s] IN
  /\ use' = [use EXCEPT ![b] = @ - 1]
  /\ slot' = [slot EXCEPT ![s] = NoBody]
  /\ dead' = [dead EXCEPT ![t] = IF use[b] = 1 THEN b ELSE NoBody]
  /\ UNCHANGED content

-----------------------------------------------------------------------------
(* _New: parse the bytes, then move the result into a new cell.            *)

\* A cell is reserved when the call starts: the slots of the local object and
\* of the cell it is moved into are the same memory (vtx is moved, not copied).
Begin(t, h, kd, n, act) ==
  /\ Idle(t)
  /\ stage[h] = "free"
  /\ stage' = [stage EXCEPT ![h] = "building"]
  /\ kind' = [kind EXCEPT ![h] = kd]
  /\ len' = [len EXCEPT ![h] = n]
  /\ pc' = [pc EXCEPT ![t] = act]
  /\ obj' = [obj EXCEPT ![t] = h]
  /\ UNCHANGED <<slot, use, content, dead, out>>

NewFrom(t, kd, r) ==
  /\ \E h \in Handle : Begin(t, h, kd, Len(r.txs), "new")
  /\ raw' = [raw EXCEPT ![t] = r]
  /\ UNCHANGED src

NewBlock(t) == \E r \in Raw : NewFrom(t, "Block", r)

NewTransaction(t) ==
  \E r \in Raw : Len(r.txs) = 1 /\ NewFrom(t, "Transaction", r)

\* Any bytes are a script.
NewScriptPubkey(t) ==
  \E r \in Raw :
    Len(r.txs) = 1 /\ r.whole /\ NewFrom(t, "ScriptPubkey", r)

\* stream >> TX_WITH_WITNESS(block): make_shared one transaction after another.
Deserialize(t) ==
  /\ pc[t] = "new"
  /\ \E k \in Pos, b \in Body :
       /\ NextSlot(obj[t], k)
       /\ Allocate(<<obj[t], k>>, b, raw[t].txs[k])
  /\ UNCHANGED <<stage, kind, len, callVars>>

-----------------------------------------------------------------------------
(* _Copy of an object or of one lent by GetTransaction or GetOutput.       *)

CopyFrom(t, s, off, kd, n) ==
  /\ stage[s] = "live"
  /\ \E h \in Handle : Begin(t, h, kd, n, "copy")
  /\ src' = [src EXCEPT ![t] = [h |-> s, off |-> off]]
  /\ UNCHANGED raw

CopyBlock(t) ==
  \E s \in Handle :
    kind[s] = "Block" /\ CopyFrom(t, s, 0, "Block", len[s])

\* The source is a Transaction, or what GetTransaction lends: the i-th element
\* of a block's vtx.
CopyTransaction(t) ==
  \E s \in Handle : \E i \in 1..len[s] :
    kind[s] \notin Leaf /\ CopyFrom(t, s, i - 1, "Transaction", 1)

\* The source is a TransactionOutput, or what GetOutput lends.
CopyTransactionOutput(t) ==
  \E s \in Handle : \E i \in 1..len[s] :
    kind[s] # "ScriptPubkey" /\ CopyFrom(t, s, i - 1, "TransactionOutput", 1)

\* The source is a ScriptPubkey, or what GetScriptPubkey lends.
CopyScriptPubkey(t) ==
  \E s \in Handle : \E i \in 1..len[s] :
    CopyFrom(t, s, i - 1, "ScriptPubkey", 1)

\* BtcK_TransactionOutput_New copies the script it is given.
NewTransactionOutput(t) ==
  \E s \in Handle : \E i \in 1..len[s] :
    CopyFrom(t, s, i - 1, "TransactionOutput", 1)

\* The element of the copy is looked up in the source without the offset.
CopyRefFault(t) ==
  /\ pc[t] = "copy"
  /\ kind[obj[t]] \notin Leaf
  /\ \E k \in Pos :
       /\ NextSlot(obj[t], k)
       /\ Share(<<obj[t], k>>, slot[<<src[t].h, k>>])
  /\ UNCHANGED <<stage, kind, len, callVars>>

\* Copy constructors of CBlock and CTransactionRef: one shared_ptr each.
CopyRef(t) ==
  /\ pc[t] = "copy"
  /\ kind[obj[t]] \notin Leaf
  /\ \E k \in Pos :
       /\ NextSlot(obj[t], k)
       /\ Share(<<obj[t], k>>, slot[<<src[t].h, src[t].off + k>>])
  /\ UNCHANGED <<stage, kind, len, callVars>>

\* The script's bytes are aliased, not copied.
CopyDataFault(t) ==
  /\ pc[t] = "copy"
  /\ kind[obj[t]] \in Leaf
  /\ NextSlot(obj[t], 1)
  /\ slot' = [slot EXCEPT ![<<obj[t], 1>>] = slot[<<src[t].h, src[t].off + 1>>]]
  /\ UNCHANGED <<stage, kind, len, use, content, callVars>>

\* Copy constructors of CTxOut and CScript: the bytes themselves.
CopyData(t) ==
  /\ pc[t] = "copy"
  /\ kind[obj[t]] \in Leaf
  /\ \E b \in Body :
       /\ NextSlot(obj[t], 1)
       /\ Allocate(<<obj[t], 1>>, b, content[slot[<<src[t].h, src[t].off + 1>>]])
  /\ UNCHANGED <<stage, kind, len, callVars>>

-----------------------------------------------------------------------------
(* The end of a construction.                                              *)

GoIdle(t) ==
  /\ pc' = [pc EXCEPT ![t] = "idle"]
  /\ obj' = [obj EXCEPT ![t] = NoHandle]
  /\ src' = [src EXCEPT ![t] = NoSource]
  /\ raw' = [raw EXCEPT ![t] = NoRaw]
  /\ out' = [out EXCEPT ![t] = <<>>]
  /\ UNCHANGED dead

\* The call returns the new pointer.
Return(t) ==
  /\ \/ pc[t] = "new" /\ raw[t].whole
     \/ pc[t] = "copy"
  /\ Filled(obj[t])
  /\ stage' = [stage EXCEPT ![obj[t]] = "live"]
  /\ GoIdle(t)
  /\ UNCHANGED <<kind, len, slot, use, content>>

\* The failed construction is abandoned with what it has built.
ThrowFault(t) ==
  /\ \/ pc[t] = "new"
     \/ pc[t] = "copy" /\ Emptied(obj[t])
  /\ stage' = [stage EXCEPT ![obj[t]] = "dying"]
  /\ GoIdle(t)
  /\ UNCHANGED <<kind, len, slot, use, content>>

\* An allocation fails, or the bytes end early: the exception unwinds what was
\* built, and WrapFn returns NULL.  A copy allocates before it shares anything.
Throw(t) ==
  /\ \/ pc[t] = "new"
     \/ pc[t] = "copy" /\ Emptied(obj[t])
  /\ stage' = [stage EXCEPT ![obj[t]] = "dying"]
  /\ pc' = [pc EXCEPT ![t] = "release"]
  /\ src' = [src EXCEPT ![t] = NoSource]
  /\ raw' = [raw EXCEPT ![t] = NoRaw]
  /\ UNCHANGED <<kind, len, slot, use, content, obj, dead, out>>

-----------------------------------------------------------------------------
(* _Free, and the destructors it and an unwinding run.                     *)

Free(t) ==
  /\ Idle(t)
  /\ \E h \in Handle :
       /\ MayFree(h)
       /\ stage' = [stage EXCEPT ![h] = "dying"]
       /\ obj' = [obj EXCEPT ![t] = h]
  /\ pc' = [pc EXCEPT ![t] = "release"]
  /\ UNCHANGED <<kind, len, slot, use, content, src, raw, dead, out>>

Release(t) ==
  /\ pc[t] = "release"
  /\ dead[t] = NoBody
  /\ \E k \in 1..len[obj[t]] :
       /\ slot[<<obj[t], k>>] # NoBody
       /\ Drop(t, <<obj[t], k>>)
  /\ UNCHANGED <<stage, kind, len, pc, obj, src, raw, out>>

\* The thread does not note that it has destroyed the body.
DestroyFault(t) ==
  /\ dead[t] # NoBody
  /\ content' = [content EXCEPT ![dead[t]] = NoContent]
  /\ UNCHANGED <<stage, kind, len, slot, use, dead, pc, obj, src, raw, out>>

\* The thread that dropped the last reference destroys the body.
Destroy(t) ==
  /\ dead[t] # NoBody
  /\ content' = [content EXCEPT ![dead[t]] = NoContent]
  /\ dead' = [dead EXCEPT ![t] = NoBody]
  /\ UNCHANGED <<stage, kind, len, slot, use, pc, obj, src, raw, out>>

Released(t) ==
  /\ pc[t] = "release"
  /\ dead[t] = NoBody
  /\ Emptied(obj[t])
  /\ stage' = [stage EXCEPT ![obj[t]] = "free"]
  /\ kind' = [kind EXCEPT ![obj[t]] = "ScriptPubkey"]
  /\ len' = [len EXCEPT ![obj[t]] = 0]
  /\ GoIdle(t)
  /\ UNCHANGED <<slot, use, content>>

-----------------------------------------------------------------------------
(* ToBytes: the stream hands one piece after another to the callback.      *)

ToBytes(t) ==
  /\ Idle(t)
  /\ \E h \in Handle : /\ stage[h] = "live"
                       /\ kind[h] # "TransactionOutput"
                       /\ obj' = [obj EXCEPT ![t] = h]
  /\ pc' = [pc EXCEPT ![t] = "read"]
  /\ UNCHANGED <<heapVars, src, raw, dead, out>>

Write(t) ==
  /\ pc[t] = "read"
  /\ Len(out[t]) < len[obj[t]]
  /\ out' = [out EXCEPT ![t] = Append(@, content[slot[<<obj[t], Len(@) + 1>>]])]
  /\ UNCHANGED <<heapVars, pc, obj, src, raw, dead>>

\* 0 once everything is written.
WriteDone(t) ==
  /\ pc[t] = "read"
  /\ Len(out[t]) = len[obj[t]]
  /\ GoIdle(t)
  /\ UNCHANGED heapVars

\* The callback reported a failure: WriterStream throws and ToBytes returns -1.
WriteFailed(t) ==
  /\ pc[t] = "read"
  /\ GoIdle(t)
  /\ UNCHANGED heapVars

-----------------------------------------------------------------------------
Init ==
  /\ stage = [h \in Handle |-> "free"]
  /\ kind = [h \in Handle |-> "ScriptPubkey"]
  /\ len = [h \in Handle |-> 0]
  /\ slot = [s \in Slot |-> NoBody]
  /\ use = [b \in Body |-> 0]
  /\ content = [b \in Body |-> NoContent]
  /\ pc = [t \in Thread |-> "idle"]
  /\ obj = [t \in Thread |-> NoHandle]
  /\ src = [t \in Thread |-> NoSource]
  /\ raw = [t \in Thread |-> NoRaw]
  /\ dead = [t \in Thread |-> NoBody]
  /\ out = [t \in Thread |-> <<>>]

\* What a thread in the middle of a call does next.
Continue(t) ==
  \/ Deserialize(t) \/ CopyRef(t) \/ CopyData(t) \/ Return(t) \/ Throw(t)
  \/ Release(t) \/ Destroy(t) \/ Released(t)
  \/ Write(t) \/ WriteDone(t) \/ WriteFailed(t)

Call(t) ==
  \/ NewBlock(t) \/ NewTransaction(t) \/ NewScriptPubkey(t)
  \/ NewTransactionOutput(t)
  \/ CopyBlock(t) \/ CopyTransaction(t)
  \/ CopyTransactionOutput(t) \/ CopyScriptPubkey(t)
  \/ Free(t) \/ ToBytes(t)

Next == \E t \in Thread : Call(t) \/ Continue(t)

Spec == Init /\ [][Next]_vars

\* The operating system keeps running every thread that is inside a call.
Fairness == \A t \in Thread : WF_vars(Continue(t))
FairSpec == Spec /\ Fairness

-----------------------------------------------------------------------------
(* Properties.                                                             *)

TypeOK ==
  /\ stage \in [Handle -> {"free", "building", "live", "dying"}]
  /\ kind \in [Handle -> Kind]
  /\ len \in [Handle -> 0..MaxTxs]
  /\ slot \in [Slot -> Body \cup {NoBody}]
  /\ use \in [Body -> Nat]
  /\ content \in [Body -> Content \cup {NoContent}]
  /\ pc \in [Thread -> {"idle", "new", "copy", "release", "read"}]
  /\ obj \in [Thread -> Handle \cup {NoHandle}]
  /\ src \in [Thread -> [h : Handle \cup {NoHandle}, off : 0..(MaxTxs - 1)]]
  /\ raw \in [Thread -> Raw]
  /\ dead \in [Thread -> Body \cup {NoBody}]
  /\ out \in [Thread -> SeqUpTo(Content)]

\* The reference count of a CTransaction is the number of CTransactionRefs that
\* refer to it, wherever they are: in live objects, in a half-copied vtx, in an
\* object that an unwinding or a _Free has only half destroyed.
Refs(b) == {s \in Slot : slot[s] = b}
RefCount == \A b \in Body : use[b] = Cardinality(Refs(b))

\* Every CTransactionRef of a live object refers to memory that is allocated,
\* whatever other threads copy, free or fail to build at the same time: what
\* GetTransaction and GetOutput lend can be read as long as the object lives.
NoDangling ==
  \A h \in Handle : stage[h] = "live" =>
    \A k \in 1..len[h] : slot[<<h, k>>] # NoBody /\ content[slot[<<h, k>>]] # NoContent

\* A body that a thread is about to destroy is allocated, has no reference left
\* and is nobody else's to destroy: no double free, no use after free.
DestroyedOnce ==
  \A t \in Thread : dead[t] # NoBody =>
    /\ content[dead[t]] # NoContent
    /\ \A s \in Slot : slot[s] # dead[t]
    /\ \A u \in Thread \ {t} : dead[u] # dead[t]

\* Between calls, every allocated body belongs to a live object: nothing is
\* left behind by _Free, nor by a construction that failed in the middle.
NoLeak ==
  (\A t \in Thread : Idle(t)) =>
    \A b \in Body : content[b] # NoContent =>
      \E s \in Slot : slot[s] = b /\ stage[s[1]] = "live"

\* What ToBytes has passed to the callback is at any time a prefix of the value
\* of its object, though other threads free and copy objects that share it.
Serialized ==
  \A t \in Thread : pc[t] = "read" =>
    out[t] = SubSeq(Value(obj[t]), 1, Len(out[t]))

\* Whatever a copy has made so far equals the part of the source that was asked
\* for: the element that GetTransaction or GetOutput lent, not its neighbour, and
\* also after other threads have freed objects that share it.
CopyOfPart ==
  \A t \in Thread : pc[t] = "copy" =>
    \A k \in 1..len[obj[t]] :
      slot[<<obj[t], k>>] # NoBody =>
        content[slot[<<obj[t], k>>]] = content[slot[<<src[t].h, src[t].off + k>>]]

\* The members of an object that are there.
Held(h) == {k \in 1..len[h] : slot[<<h, k>>] # NoBody}

\* How many steps a call has left at most: a failed construction releases what it
\* has built, a release drops every member and destroys those it was the last to
\* refer to, a reader writes the rest; each ends with a step of its own.
Work(t) ==
  CASE Idle(t) -> 0
    [] pc[t] = "read" -> len[obj[t]] - Len(out[t]) + 1
    [] pc[t] = "release" -> 2 * Cardinality(Held(obj[t])) + 1 + (IF dead[t] = NoBody THEN 0 ELSE 1)
    [] OTHER -> 3 * len[obj[t]] + 2 - Cardinality(Held(obj[t]))

\* A call is over after a number of its own steps that depends on the size of its
\* object only: every step of the thread brings the end nearer and none of another
\* thread moves it away, though both count, drop and destroy the same bodies.
CallsBounded ==
  [][\A t \in Thread :
       /\ Work(t)' \in 0..(3 * MaxTxs + 2)
       /\ Continue(t) => Work(t)' < Work(t)
       /\ ~Idle(t) /\ ~Continue(t) => Work(t)' = Work(t)]_vars

\* Every call returns, however the calls of other threads interleave with it.
CallsReturn == \A t \in Thread : pc[t] # "idle" ~> pc[t] = "idle"

-----------------------------------------------------------------------------
(* The inductive invariant behind RefCount, NoDangling, DestroyedOnce and  *)
(* NoLeak.                                                                 *)

\* A thread builds, destroys or reads an object that is at that stage; a copy
\* reads slots that its source has.
CallShape ==
  \A t \in Thread :
    /\ pc[t] \in {"new", "copy"} => obj[t] \in Handle /\ stage[obj[t]] = "building"
    /\ pc[t] = "release" => obj[t] \in Handle /\ stage[obj[t]] = "dying"
    /\ pc[t] = "read" => obj[t] \in Handle /\ stage[obj[t]] = "live"
    /\ pc[t] = "new" => Len(raw[t].txs) = len[obj[t]]
    /\ pc[t] = "copy" => /\ src[t].h \in Handle
                         /\ stage[src[t].h] = "live"
                         /\ src[t].off + len[obj[t]] <= len[src[t].h]
    /\ dead[t] # NoBody => pc[t] = "release"

\* An object that is not live is one thread's own.
Modifying(t) == pc[t] \in {"new", "copy", "release"}
OneOwner ==
  /\ \A t, u \in Thread :
       Modifying(t) /\ Modifying(u) /\ obj[t] = obj[u] => t = u
  /\ \A h \in Handle : stage[h] \in {"building", "dying"} =>
       \E t \in Thread : Modifying(t) /\ obj[t] = h

\* Slots beyond the length are empty, those of a live object are not.
SlotShape ==
  \A h \in Handle :
    /\ \A k \in Pos : k > len[h] => slot[<<h, k>>] = NoBody
    /\ stage[h] = "live" => Filled(h)
    /\ stage[h] = "free" => len[h] = 0

\* The memory of a body is allocated while it is counted, and after that until
\* the thread that dropped the last reference destroys it.
BodyShape ==
  /\ \A b \in Body : use[b] # 0 => content[b] # NoContent
  /\ \A t \in Thread : dead[t] # NoBody =>
       /\ use[dead[t]] = 0
       /\ content[dead[t]] # NoContent
       /\ \A u \in Thread : dead[u] = dead[t] => u = t
  /\ \A b \in Body : use[b] = 0 /\ content[b] # NoContent =>
       \E t \in Thread : dead[t] = b

IInv == /\ TypeOK
        /\ RefCount
        /\ CallShape
        /\ OneOwner
        /\ SlotShape
        /\ BodyShape

-----------------------------------------------------------------------------
\* What the client sees: objects are values.  An object under construction or
\* being destroyed is not there.
valueBar == [h \in Handle |-> IF stage[h] = "live" THEN Value(h) ELSE NoContent]
kindBar == [h \in Handle |-> IF stage[h] = "live" THEN kind[h] ELSE "none"]

Values == INSTANCE ObjectValues
            WITH value <- valueBar, type <- kindBar, NoValue <- NoContent

\* The reference counted objects implement plain values.
ImplementsValues == Values!Spec
=============================================================================
