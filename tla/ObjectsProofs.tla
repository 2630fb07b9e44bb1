--------------------------- MODULE ObjectsProofs ---------------------------
(***************************************************************************)
(* Proofs about Objects: for any number of threads, objects, shared        *)
(* transactions and transactions per block.  Counts are exact, nothing     *)
(* dangles or leaks, and objects are the plain values of ObjectValues.     *)
(***************************************************************************)
EXTENDS Objects, FiniteSetTheorems, SequenceTheorems, TLAPS

-----------------------------------------------------------------------------
(* Facts about the operators.                                              *)

\* What was parsed from the bytes is content.
LEMMA ElementType ==
  ASSUME NEW S, NEW q \in SeqUpTo(S)
  PROVE  /\ Len(q) \in 0..MaxTxs
         /\ \A k \in 1..Len(q) : q[k] \in S
BY MaxTxsAssumption DEF SeqUpTo

\* One more piece fits while there is one to write.
LEMMA AppendType ==
  ASSUME NEW S, NEW q \in SeqUpTo(S), NEW x \in S, Len(q) < MaxTxs
  PROVE  Append(q, x) \in SeqUpTo(S)
<1>1. PICK n \in 0..MaxTxs : q \in [1..n -> S]
  BY DEF SeqUpTo
<1>2. Len(q) = n /\ q \in Seq(S)
  BY <1>1
<1>3. Append(q, x) \in [1..(n + 1) -> S]
  <2>1. Append(q, x) \in Seq(S) /\ Len(Append(q, x)) = n + 1
    BY <1>2
  <2> QED
    BY <2>1, LenProperties
<1>4. n + 1 \in 0..MaxTxs
  BY <1>2, MaxTxsAssumption
<1> QED
  BY <1>3, <1>4 DEF SeqUpTo

\* The empty sequence is what every call starts from.
LEMMA EmptyType ==
  ASSUME NEW S
  PROVE  <<>> \in SeqUpTo(S)
<1>1. <<>> \in [1..0 -> S]
  OBVIOUS
<1> QED
  BY <1>1, MaxTxsAssumption DEF SeqUpTo

\* The slots that refer to a body are finitely many, so they can be counted.
LEMMA FiniteRefs ==
  ASSUME NEW b
  PROVE  /\ IsFiniteSet(Refs(b))
         /\ Cardinality(Refs(b)) \in Nat
         /\ Cardinality(Refs(b)) = 0 <=> Refs(b) = {}
<1>1. IsFiniteSet(Pos)
  BY FS_Interval, MaxTxsAssumption DEF Pos
<1>2. IsFiniteSet(Slot)
  BY <1>1, FS_Product, FiniteAssumption DEF Slot
<1>3. IsFiniteSet(Refs(b))
  BY <1>2, FS_Subset DEF Refs
<1> QED
  BY <1>3, FS_CardinalityType, FS_EmptySet

\* A body that a slot refers to is counted.
LEMMA Referenced ==
  ASSUME TypeOK, RefCount, NEW s \in Slot, slot[s] # NoBody
  PROVE  /\ slot[s] \in Body
         /\ use[slot[s]] # 0
<1>1. slot[s] \in Body /\ s \in Refs(slot[s])
  BY DEF TypeOK, Refs
<1> QED
  BY <1>1, FiniteRefs DEF RefCount

\* Writing a reference into an empty slot, and counting it, keeps the count.
LEMMA AddRef ==
  ASSUME TypeOK, RefCount, NEW s \in Slot, NEW b \in Body,
         slot[s] = NoBody,
         slot' = [slot EXCEPT ![s] = b],
         use' = [use EXCEPT ![b] = use[b] + 1]
  PROVE  RefCount'
<1>1. Refs(b)' = Refs(b) \cup {s}
  BY NullAssumption DEF TypeOK, Refs
<1>2. s \notin Refs(b)
  BY NullAssumption DEF Refs
<1>3. \A c \in Body \ {b} : Refs(c)' = Refs(c)
  BY NullAssumption DEF TypeOK, Refs
<1>4. Cardinality(Refs(b)') = Cardinality(Refs(b)) + 1
  BY <1>1, <1>2, FiniteRefs, FS_AddElement
<1> QED
  BY <1>3, <1>4 DEF TypeOK, RefCount

\* Clearing a slot and dropping its reference keeps the count, and the body
\* has no reference left exactly if the count was 1.
LEMMA DropRef ==
  ASSUME TypeOK, RefCount, NEW s \in Slot, NEW b \in Body, slot[s] = b,
         slot' = [slot EXCEPT ![s] = NoBody],
         use' = [use EXCEPT ![b] = use[b] - 1]
  PROVE  /\ RefCount'
         /\ use[b] \in Nat \ {0}
         /\ use'[b] = use[b] - 1
<1>1. use[b] \in Nat /\ use[b] # 0
  BY Referenced, NullAssumption DEF TypeOK
<1>2. Refs(b)' = Refs(b) \ {s} /\ s \in Refs(b)
  BY NullAssumption DEF TypeOK, Refs
<1>3. \A c \in Body \ {b} : Refs(c)' = Refs(c)
  BY NullAssumption DEF TypeOK, Refs
<1>4. Cardinality(Refs(b)') = Cardinality(Refs(b)) - 1
  <2>1. IsFiniteSet(Refs(b))
    BY FiniteRefs
  <2>2. Cardinality(Refs(b) \ {s}) = Cardinality(Refs(b)) - 1
    BY ONLY <1>2, <2>1, FS_RemoveElement
  <2> QED
    BY <1>2, <2>2
<1>5. use'[b] = use[b] - 1 /\ \A c \in Body \ {b} : use'[c] = use[c]
  BY DEF TypeOK
<1>6. use[b] = Cardinality(Refs(b))
  BY DEF RefCount
<1>7. use'[b] = Cardinality(Refs(b)')
  BY <1>4, <1>5, <1>6
<1>8. \A c \in Body \ {b} : use'[c] = Cardinality(Refs(c)')
  BY <1>3, <1>5 DEF RefCount
<1> QED
  BY <1>1, <1>5, <1>7, <1>8 DEF RefCount

-----------------------------------------------------------------------------
(* The inductive invariant.                                                *)

LEMMA InitInv == Init => IInv
<1> SUFFICES ASSUME Init PROVE IInv
  OBVIOUS
<1>1. TypeOK
  BY EmptyType, MaxTxsAssumption DEF Init, TypeOK, Kind, NoSource, NoRaw, Raw
<1>2. RefCount
  <2>1. \A b \in Body : Refs(b) = {}
    BY NullAssumption DEF Init, Refs
  <2> QED
    BY <2>1, FS_EmptySet DEF RefCount, Init
<1>3. CallShape /\ OneOwner
  BY DEF Init, CallShape, OneOwner, Modifying
<1>4. SlotShape
  BY DEF Init, SlotShape, Slot, Filled
<1>5. BodyShape
  BY NullAssumption DEF Init, BodyShape
<1> QED
  BY <1>1, <1>2, <1>3, <1>4, <1>5 DEF IInv

\* Every call that makes an object starts by reserving its cell.
LEMMA BeginInv ==
  ASSUME IInv, NEW t \in Thread, NEW h \in Handle, NEW kd \in Kind,
         NEW n \in 0..MaxTxs, NEW act \in {"new", "copy"},
         Begin(t, h, kd, n, act),
         src' \in [Thread -> [h : Handle \cup {NoHandle}, off : 0..(MaxTxs - 1)]],
         raw' \in [Thread -> Raw],
         \A u \in Thread \ {t} : src'[u] = src[u] /\ raw'[u] = raw[u],
         act = "new" => Len(raw'[t].txs) = n,
         act = "copy" => /\ src'[t].h \in Handle
                         /\ stage[src'[t].h] = "live"
                         /\ src'[t].off + n <= len[src'[t].h]
  PROVE  IInv'
<1> USE DEF IInv, Begin, Idle
<1>1. TypeOK'
  BY DEF TypeOK
<1>2. RefCount'
  BY DEF RefCount, Refs
<1>3. CallShape'
  <2> SUFFICES ASSUME NEW u \in Thread
               PROVE  CallShape!(u)'
    BY DEF CallShape
  <2>1. CASE u = t
    BY <2>1 DEF CallShape, TypeOK
  <2>2. CASE u # t
    BY <2>2 DEF CallShape, TypeOK
  <2> QED
    BY <2>1, <2>2
<1>4. OneOwner'
  BY DEF OneOwner, Modifying, CallShape, TypeOK
<1>5. SlotShape'
  BY DEF SlotShape, TypeOK, Filled, Pos
<1>6. BodyShape'
  BY DEF BodyShape
<1> QED
  BY <1>1, <1>2, <1>3, <1>4, <1>5, <1>6

LEMMA NewInv ==
  ASSUME IInv, NEW t \in Thread,
         NewBlock(t) \/ NewTransaction(t) \/ NewScriptPubkey(t)
  PROVE  IInv'
<1>1. PICK r \in Raw, kd \in Kind : NewFrom(t, kd, r)
  BY DEF NewBlock, NewTransaction, NewScriptPubkey, Kind
<1>2. PICK h \in Handle : Begin(t, h, kd, Len(r.txs), "new")
  BY <1>1 DEF NewFrom
<1>3. r.txs \in SeqUpTo(Content) /\ Len(r.txs) \in 0..MaxTxs
  BY ElementType DEF Raw
<1>4. /\ raw' = [raw EXCEPT ![t] = r]
      /\ src' = src
  BY <1>1 DEF NewFrom
<1>5. /\ src' \in [Thread -> [h : Handle \cup {NoHandle}, off : 0..(MaxTxs - 1)]]
      /\ raw' \in [Thread -> Raw]
      /\ raw'[t] = r
      /\ \A u \in Thread \ {t} : src'[u] = src[u] /\ raw'[u] = raw[u]
  BY <1>4 DEF IInv, TypeOK
<1> QED
  BY <1>2, <1>3, <1>5, BeginInv

\* Copying n slots that the source has, from the one after off.
LEMMA CopyFromInv ==
  ASSUME IInv, NEW t \in Thread, NEW s \in Handle, NEW off \in 0..(MaxTxs - 1),
         NEW kd \in Kind, NEW n \in 0..MaxTxs, off + n <= len[s],
         CopyFrom(t, s, off, kd, n)
  PROVE  IInv'
<1>1. PICK h \in Handle : Begin(t, h, kd, n, "copy")
  BY DEF CopyFrom
<1>2. /\ src' = [src EXCEPT ![t] = [h |-> s, off |-> off]]
      /\ raw' = raw
      /\ stage[s] = "live"
  BY DEF CopyFrom
<1>3. /\ src' \in [Thread -> [h : Handle \cup {NoHandle}, off : 0..(MaxTxs - 1)]]
      /\ raw' \in [Thread -> Raw]
      /\ src'[t].h = s /\ src'[t].off = off
      /\ \A u \in Thread \ {t} : src'[u] = src[u] /\ raw'[u] = raw[u]
  BY <1>2 DEF IInv, TypeOK
<1> QED
  BY <1>1, <1>2, <1>3, BeginInv

LEMMA CopyInv ==
  ASSUME IInv, NEW t \in Thread,
         \/ CopyBlock(t) \/ CopyTransaction(t) \/ CopyTransactionOutput(t)
         \/ CopyScriptPubkey(t) \/ NewTransactionOutput(t)
  PROVE  IInv'
<1> USE MaxTxsAssumption
<1>1. ASSUME CopyBlock(t) PROVE IInv'
  <2>1. PICK s \in Handle : CopyFrom(t, s, 0, "Block", len[s])
    BY <1>1 DEF CopyBlock
  <2>2. len[s] \in 0..MaxTxs
    BY DEF IInv, TypeOK
  <2> QED
    BY <2>1, <2>2, CopyFromInv DEF Kind
<1>2. ASSUME NEW s \in Handle, NEW i \in 1..len[s], NEW kd \in Kind,
             CopyFrom(t, s, i - 1, kd, 1)
      PROVE  IInv'
  <2>1. len[s] \in 0..MaxTxs
    BY DEF IInv, TypeOK
  <2>2. i - 1 \in 0..(MaxTxs - 1) /\ i - 1 + 1 <= len[s] /\ 1 \in 0..MaxTxs
    BY <2>1
  <2> QED
    BY <1>2, <2>2, CopyFromInv
<1>3. ASSUME CopyTransaction(t) PROVE IInv'
  BY <1>2, <1>3 DEF CopyTransaction, Kind
<1>4. ASSUME CopyTransactionOutput(t) PROVE IInv'
  BY <1>2, <1>4 DEF CopyTransactionOutput, Kind
<1>5. ASSUME CopyScriptPubkey(t) PROVE IInv'
  BY <1>2, <1>5 DEF CopyScriptPubkey, Kind
<1>6. ASSUME NewTransactionOutput(t) PROVE IInv'
  BY <1>2, <1>6 DEF NewTransactionOutput, Kind
<1> QED
  BY <1>1, <1>3, <1>4, <1>5, <1>6

\* One more slot of the object under construction refers to a body, which is a
\* fresh one or one that is in use already.
LEMMA FillInv ==
  ASSUME IInv, NEW t \in Thread, NEW k \in Pos, NEW b \in Body, NEW c \in Content,
         pc[t] \in {"new", "copy"}, NextSlot(obj[t], k),
         \/ Allocate(<<obj[t], k>>, b, c)
         \/ use[b] # 0 /\ Share(<<obj[t], k>>, b),
         UNCHANGED <<stage, kind, len, callVars>>
  PROVE  IInv'
<1> USE DEF IInv
<1> DEFINE s == <<obj[t], k>>
<1>1. /\ obj[t] \in Handle /\ stage[obj[t]] = "building"
      /\ s \in Slot /\ slot[s] = NoBody
      /\ k \in 1..len[obj[t]]
  BY DEF CallShape, NextSlot, Slot
<1>2. /\ slot' = [slot EXCEPT ![s] = b]
      /\ use' = [use EXCEPT ![b] = use[b] + 1]
      /\ use[b] \in Nat
      /\ content'[b] # NoContent
      /\ \A d \in Body \ {b} : content'[d] = content[d]
      /\ content' \in [Body -> Content \cup {NoContent}]
      /\ \A u \in Thread : dead[u] # b
  <2>1. CASE Allocate(s, b, c)
    <3>1. use[b] = 0
      BY <2>1 DEF Allocate, BodyShape, TypeOK
    <3>2. \A u \in Thread : dead[u] # b
      BY <2>1, NullAssumption DEF Allocate, BodyShape
    <3> QED
      BY <2>1, <3>1, <3>2, NullAssumption DEF Allocate, TypeOK
  <2>2. CASE use[b] # 0 /\ Share(s, b)
    <3>1. content[b] # NoContent
      BY <2>2 DEF BodyShape
    <3>2. \A u \in Thread : dead[u] # b
      BY <2>2, NullAssumption DEF BodyShape
    <3> QED
      BY <2>2, <3>1, <3>2 DEF Share, TypeOK
  <2> QED
    BY <2>1, <2>2
<1>3. UNCHANGED <<stage, kind, len, pc, obj, src, raw, dead, out>>
  BY DEF callVars
<1>4. TypeOK'
  BY <1>1, <1>2, <1>3 DEF TypeOK
<1>5. RefCount'
  BY <1>1, <1>2, AddRef
<1>6. CallShape' /\ OneOwner'
  BY <1>3 DEF CallShape, OneOwner, Modifying
<1>7. SlotShape'
  <2>1. \A z \in Slot : z # s => slot'[z] = slot[z]
    BY <1>1, <1>2 DEF TypeOK
  <2>2. \A h \in Handle : stage[h] = "live" => Filled(h)'
    BY <1>1, <1>2, <1>3, NullAssumption DEF SlotShape, Filled, TypeOK, Slot, Pos
  <2>3. \A h \in Handle : \A j \in Pos : j > len[h] => slot'[<<h, j>>] = NoBody
    BY <1>1, <1>2, <2>1 DEF SlotShape, TypeOK, Slot, Pos
  <2> QED
    BY <1>3, <2>2, <2>3 DEF SlotShape
<1>8. BodyShape'
  BY <1>2, <1>3, NullAssumption DEF BodyShape, TypeOK
<1> QED
  BY <1>4, <1>5, <1>6, <1>7, <1>8

\* The slot that a copy reads next refers to a body that is in use.
LEMMA SourceInUse ==
  ASSUME IInv, NEW t \in Thread, pc[t] = "copy",
         NEW k \in Pos, k \in 1..len[obj[t]]
  PROVE  LET b == slot[<<src[t].h, src[t].off + k>>]
         IN  b \in Body /\ use[b] # 0 /\ content[b] \in Content
<1> USE DEF IInv
<1> DEFINE s == <<src[t].h, src[t].off + k>>
<1>1. /\ src[t].h \in Handle /\ stage[src[t].h] = "live"
      /\ src[t].off + len[obj[t]] <= len[src[t].h]
      /\ src[t].off \in Nat /\ len[obj[t]] \in Nat
      /\ len[src[t].h] \in 0..MaxTxs
  BY DEF CallShape, TypeOK
<1>2. src[t].off + k \in 1..len[src[t].h] /\ src[t].off + k \in Pos
  BY <1>1, MaxTxsAssumption DEF Pos
<1>3. s \in Slot /\ slot[s] # NoBody
  BY <1>1, <1>2 DEF SlotShape, Filled, Slot
<1>4. slot[s] \in Body /\ use[slot[s]] # 0
  BY <1>3, Referenced
<1> QED
  BY <1>4 DEF BodyShape, TypeOK

LEMMA DeserializeInv ==
  ASSUME IInv, NEW t \in Thread, Deserialize(t)
  PROVE  IInv'
<1>1. PICK k \in Pos, b \in Body :
        /\ NextSlot(obj[t], k)
        /\ Allocate(<<obj[t], k>>, b, raw[t].txs[k])
  BY DEF Deserialize
<1>2. raw[t].txs[k] \in Content
  BY <1>1, ElementType DEF Deserialize, IInv, CallShape, TypeOK, Raw, NextSlot
<1> QED
  BY <1>1, <1>2, FillInv DEF Deserialize

LEMMA CopyRefInv ==
  ASSUME IInv, NEW t \in Thread, CopyRef(t)
  PROVE  IInv'
<1> DEFINE B(k) == slot[<<src[t].h, src[t].off + k>>]
<1>1. PICK k \in Pos : NextSlot(obj[t], k) /\ Share(<<obj[t], k>>, B(k))
  BY DEF CopyRef
<1>2. B(k) \in Body /\ use[B(k)] # 0 /\ content[B(k)] \in Content
  BY <1>1, SourceInUse DEF CopyRef, NextSlot
<1> QED
  BY <1>1, <1>2, FillInv DEF CopyRef

LEMMA CopyDataInv ==
  ASSUME IInv, NEW t \in Thread, CopyData(t)
  PROVE  IInv'
<1> DEFINE B == slot[<<src[t].h, src[t].off + 1>>]
<1>1. PICK b \in Body :
        NextSlot(obj[t], 1) /\ Allocate(<<obj[t], 1>>, b, content[B])
  BY DEF CopyData
<1>2. 1 \in Pos
  BY MaxTxsAssumption DEF Pos
<1>3. B \in Body /\ use[B] # 0 /\ content[B] \in Content
  BY <1>1, <1>2, SourceInUse DEF CopyData, NextSlot
<1> QED
  BY <1>1, <1>2, <1>3, FillInv DEF CopyData

\* A call ends: nothing changes but what the thread does.
LEMMA GoIdleType ==
  ASSUME TypeOK, NEW t \in Thread, GoIdle(t)
  PROVE  /\ pc' \in [Thread -> {"idle", "new", "copy", "release", "read"}]
         /\ obj' \in [Thread -> Handle \cup {NoHandle}]
         /\ src' \in [Thread -> [h : Handle \cup {NoHandle}, off : 0..(MaxTxs - 1)]]
         /\ raw' \in [Thread -> Raw]
         /\ dead' = dead
         /\ out' \in [Thread -> SeqUpTo(Content)]
         /\ pc'[t] = "idle"
         /\ \A u \in Thread \ {t} : /\ pc'[u] = pc[u] /\ obj'[u] = obj[u]
                                    /\ src'[u] = src[u] /\ raw'[u] = raw[u]
<1>1. NoRaw \in Raw /\ NoSource \in [h : Handle \cup {NoHandle}, off : 0..(MaxTxs - 1)]
  BY EmptyType, MaxTxsAssumption DEF NoRaw, Raw, NoSource
<1>2. out' = [out EXCEPT ![t] = <<>>]
  BY DEF GoIdle
<1>3. out' \in [Thread -> SeqUpTo(Content)]
  BY <1>2, EmptyType DEF TypeOK
<1> QED
  BY <1>1, <1>3 DEF GoIdle, TypeOK

LEMMA ReturnInv ==
  ASSUME IInv, NEW t \in Thread, Return(t)
  PROVE  IInv'
<1> USE DEF IInv
<1> DEFINE h == obj[t]
<1>1. /\ h \in Handle /\ stage[h] = "building" /\ Filled(h)
      /\ pc[t] \in {"new", "copy"} /\ dead[t] = NoBody
      /\ stage' = [stage EXCEPT ![h] = "live"]
      /\ GoIdle(t)
      /\ UNCHANGED <<kind, len, slot, use, content>>
  BY DEF Return, CallShape
<1>2. TypeOK'
  BY <1>1, GoIdleType DEF TypeOK
<1>3. RefCount'
  BY <1>1 DEF RefCount, Refs
<1>4. CallShape'
  <2>1. \A u \in Thread \ {t} : Modifying(u) => obj[u] # h
    BY <1>1 DEF OneOwner, Modifying
  <2> SUFFICES ASSUME NEW u \in Thread
               PROVE  CallShape!(u)'
    BY DEF CallShape
  <2>2. CASE u = t
    BY <1>1, <2>2, GoIdleType
  <2>3. CASE u # t
    BY <1>1, <2>1, <2>3, GoIdleType DEF CallShape, TypeOK, Modifying
  <2> QED
    BY <2>2, <2>3
<1>5. OneOwner'
  <2>1. \A u \in Thread : Modifying(u)' => u # t /\ Modifying(u) /\ obj'[u] = obj[u]
    BY <1>1, GoIdleType DEF Modifying
  <2>2. \A u \in Thread \ {t} : Modifying(u) => Modifying(u)' /\ obj'[u] = obj[u]
    BY <1>1, GoIdleType DEF Modifying
  <2>3. \A u \in Thread, v \in Thread :
          Modifying(u)' /\ Modifying(v)' /\ obj'[u] = obj'[v] => u = v
    BY <2>1 DEF OneOwner
  <2>4. ASSUME NEW g \in Handle \ {h}, stage'[g] \in {"building", "dying"}
        PROVE  \E u \in Thread : Modifying(u)' /\ obj'[u] = g
    <3>1. stage'[g] = stage[g]
      BY <1>1 DEF TypeOK
    <3>2. PICK u \in Thread : Modifying(u) /\ obj[u] = g
      BY <2>4, <3>1 DEF OneOwner
    <3>3. u # t
      BY <3>2
    <3> QED
      BY <2>2, <3>2, <3>3
  <2>5. stage'[h] \notin {"building", "dying"}
    BY <1>1 DEF TypeOK
  <2> QED
    BY <2>3, <2>4, <2>5 DEF OneOwner
<1>6. SlotShape'
  BY <1>1 DEF SlotShape, Filled, TypeOK
<1>7. BodyShape'
  BY <1>1, GoIdleType DEF BodyShape
<1> QED
  BY <1>2, <1>3, <1>4, <1>5, <1>6, <1>7

LEMMA ThrowInv ==
  ASSUME IInv, NEW t \in Thread, Throw(t)
  PROVE  IInv'
<1> USE DEF IInv, Throw
<1>1. obj[t] \in Handle /\ stage[obj[t]] = "building"
  BY DEF CallShape
<1>2. NoRaw \in Raw /\ NoSource \in [h : Handle \cup {NoHandle}, off : 0..(MaxTxs - 1)]
  BY EmptyType, MaxTxsAssumption DEF NoRaw, Raw, NoSource
<1>3. TypeOK'
  BY <1>1, <1>2 DEF TypeOK
<1>4. RefCount'
  BY DEF RefCount, Refs
<1>5. CallShape'
  <2>1. \A u \in Thread \ {t} : Modifying(u) => obj[u] # obj[t]
    BY DEF OneOwner, Modifying
  <2> SUFFICES ASSUME NEW u \in Thread
               PROVE  CallShape!(u)'
    BY DEF CallShape
  <2>2. CASE u = t
    BY <1>1, <2>2 DEF TypeOK
  <2>3. CASE u # t
    BY <1>1, <2>1, <2>3 DEF CallShape, TypeOK, Modifying
  <2> QED
    BY <2>2, <2>3
<1>6. OneOwner'
  BY <1>1 DEF OneOwner, Modifying, TypeOK
<1>7. SlotShape'
  BY <1>1 DEF SlotShape, Filled, TypeOK
<1>8. BodyShape'
  BY DEF BodyShape
<1> QED
  BY <1>3, <1>4, <1>5, <1>6, <1>7, <1>8

LEMMA FreeInv ==
  ASSUME IInv, NEW t \in Thread, Free(t)
  PROVE  IInv'
<1> USE DEF IInv, Free, MayFree, Idle
<1>1. PICK h \in Handle : /\ MayFree(h)
                          /\ stage' = [stage EXCEPT ![h] = "dying"]
                          /\ obj' = [obj EXCEPT ![t] = h]
  OBVIOUS
<1>2. TypeOK'
  BY <1>1 DEF TypeOK
<1>3. RefCount'
  BY DEF RefCount, Refs
<1>4. CallShape'
  <2>1. \A u \in Thread : pc[u] = "copy" => src[u].h # h
    BY <1>1 DEF InUse
  <2>2. \A u \in Thread : pc[u] = "read" => obj[u] # h
    BY <1>1 DEF InUse
  <2> QED
    BY <1>1, <2>1, <2>2 DEF CallShape, TypeOK
<1>5. OneOwner'
  BY <1>1 DEF OneOwner, Modifying, TypeOK, CallShape
<1>6. SlotShape'
  BY <1>1 DEF SlotShape, Filled, TypeOK
<1>7. BodyShape'
  BY DEF BodyShape
<1> QED
  BY <1>2, <1>3, <1>4, <1>5, <1>6, <1>7

LEMMA ReleaseInv ==
  ASSUME IInv, NEW t \in Thread, Release(t)
  PROVE  IInv'
<1> USE DEF IInv
<1>1. PICK k \in 1..len[obj[t]] :
        slot[<<obj[t], k>>] # NoBody /\ Drop(t, <<obj[t], k>>)
  BY DEF Release
<1> DEFINE s == <<obj[t], k>>
<1>2. /\ pc[t] = "release" /\ dead[t] = NoBody
      /\ obj[t] \in Handle /\ stage[obj[t]] = "dying" /\ s \in Slot
      /\ UNCHANGED <<stage, kind, len, pc, obj, src, raw, out>>
  <2>1. /\ pc[t] = "release" /\ dead[t] = NoBody
        /\ UNCHANGED <<stage, kind, len, pc, obj, src, raw, out>>
    BY DEF Release
  <2>2. obj[t] \in Handle /\ stage[obj[t]] = "dying"
    BY <2>1 DEF CallShape
  <2>3. len[obj[t]] \in 0..MaxTxs
    BY <2>2 DEF TypeOK
  <2> QED
    BY <2>1, <2>2, <2>3, MaxTxsAssumption DEF Slot, Pos
<1>3. PICK b \in Body : b = slot[s]
  BY <1>1, <1>2, Referenced
<1>4. /\ use' = [use EXCEPT ![b] = use[b] - 1]
      /\ slot' = [slot EXCEPT ![s] = NoBody]
      /\ dead' = [dead EXCEPT ![t] = IF use[b] = 1 THEN b ELSE NoBody]
      /\ content' = content
  BY <1>1, <1>3 DEF Drop
<1>5. RefCount' /\ use[b] \in Nat \ {0} /\ use'[b] = use[b] - 1
  BY <1>2, <1>3, <1>4, DropRef
<1>6. TypeOK'
  <2>1. use[b] - 1 \in Nat
    BY <1>5
  <2>2. use' \in [Body -> Nat]
    BY <1>4, <2>1 DEF TypeOK
  <2>3. /\ slot' \in [Slot -> Body \cup {NoBody}]
        /\ dead' \in [Thread -> Body \cup {NoBody}]
    BY <1>4 DEF TypeOK
  <2> QED
    BY <1>2, <1>4, <2>2, <2>3 DEF TypeOK
<1>7. CallShape' /\ OneOwner'
  BY <1>2, <1>4 DEF CallShape, OneOwner, Modifying, TypeOK
<1>8. SlotShape'
  BY <1>2, <1>4 DEF SlotShape, Filled, TypeOK, Slot, Pos
<1>9. BodyShape'
  <2>1. /\ content[b] # NoContent
        /\ \A u \in Thread : dead[u] # b
        /\ \A c \in Body \ {b} : use'[c] = use[c]
    BY <1>4, <1>5, NullAssumption DEF BodyShape, TypeOK
  <2>2. /\ dead'[t] = IF use'[b] = 0 THEN b ELSE NoBody
        /\ \A u \in Thread \ {t} : dead'[u] = dead[u]
    BY <1>4, <1>5 DEF TypeOK
  <2> QED
    BY <1>2, <1>4, <1>5, <2>1, <2>2, NullAssumption DEF BodyShape, TypeOK
<1> QED
  BY <1>5, <1>6, <1>7, <1>8, <1>9

LEMMA DestroyInv ==
  ASSUME IInv, NEW t \in Thread, Destroy(t)
  PROVE  IInv'
<1> USE DEF IInv, Destroy
<1>1. TypeOK'
  BY DEF TypeOK
<1>2. RefCount'
  BY DEF RefCount, Refs
<1>3. CallShape' /\ OneOwner'
  BY DEF CallShape, OneOwner, Modifying, TypeOK
<1>4. SlotShape'
  BY DEF SlotShape, Filled
<1>5. BodyShape'
  BY NullAssumption DEF BodyShape, TypeOK
<1> QED
  BY <1>1, <1>2, <1>3, <1>4, <1>5

LEMMA ReleasedInv ==
  ASSUME IInv, NEW t \in Thread, Released(t)
  PROVE  IInv'
<1> USE DEF IInv
<1> DEFINE h == obj[t]
<1>1. /\ h \in Handle /\ stage[h] = "dying" /\ Emptied(h)
      /\ pc[t] = "release" /\ dead[t] = NoBody
      /\ stage' = [stage EXCEPT ![h] = "free"]
      /\ kind' = [kind EXCEPT ![h] = "ScriptPubkey"]
      /\ len' = [len EXCEPT ![h] = 0]
      /\ GoIdle(t)
      /\ UNCHANGED <<slot, use, content>>
  BY DEF Released, CallShape
<1>2. TypeOK'
  BY <1>1, GoIdleType, MaxTxsAssumption DEF TypeOK, Kind
<1>3. RefCount'
  BY <1>1 DEF RefCount, Refs
<1>4. CallShape'
  <2>1. \A u \in Thread \ {t} : Modifying(u) => obj[u] # h
    BY <1>1 DEF OneOwner, Modifying
  <2> SUFFICES ASSUME NEW u \in Thread
               PROVE  CallShape!(u)'
    BY DEF CallShape
  <2>2. CASE u = t
    BY <1>1, <2>2, GoIdleType
  <2>3. CASE u # t
    BY <1>1, <2>1, <2>3, GoIdleType DEF CallShape, TypeOK, Modifying
  <2> QED
    BY <2>2, <2>3
<1>5. OneOwner'
  <2>1. \A u \in Thread : Modifying(u)' => u # t /\ Modifying(u) /\ obj'[u] = obj[u]
    BY <1>1, GoIdleType DEF Modifying
  <2>2. \A u \in Thread \ {t} : Modifying(u) => Modifying(u)' /\ obj'[u] = obj[u]
    BY <1>1, GoIdleType DEF Modifying
  <2>3. \A u \in Thread, v \in Thread :
          Modifying(u)' /\ Modifying(v)' /\ obj'[u] = obj'[v] => u = v
    BY <2>1 DEF OneOwner
  <2>4. \A g \in Handle \ {h} : stage'[g] \in {"building", "dying"} =>
          \E u \in Thread : Modifying(u)' /\ obj'[u] = g
    BY <1>1, <2>2 DEF OneOwner, TypeOK
  <2>5. stage'[h] \notin {"building", "dying"}
    BY <1>1 DEF TypeOK
  <2> QED
    BY <2>3, <2>4, <2>5 DEF OneOwner
<1>6. SlotShape'
  <2>1. \A k \in Pos : slot[<<h, k>>] = NoBody
    BY <1>1 DEF SlotShape, Emptied, TypeOK, Pos
  <2> QED
    BY <1>1, <2>1 DEF SlotShape, Filled, TypeOK
<1>7. BodyShape'
  BY <1>1, GoIdleType DEF BodyShape
<1> QED
  BY <1>2, <1>3, <1>4, <1>5, <1>6, <1>7

LEMMA ReadInv ==
  ASSUME IInv, NEW t \in Thread,
         ToBytes(t) \/ Write(t) \/ WriteDone(t) \/ WriteFailed(t)
  PROVE  IInv'
<1> USE DEF IInv
<1>1. heapVars' = heapVars /\ dead' = dead
  BY DEF ToBytes, Write, WriteDone, WriteFailed, GoIdle
<1>2. RefCount' /\ SlotShape' /\ BodyShape'
  BY <1>1 DEF heapVars, RefCount, Refs, SlotShape, Filled, BodyShape
<1>3. ASSUME ToBytes(t) PROVE TypeOK' /\ CallShape' /\ OneOwner'
  <2>1. PICK h \in Handle : stage[h] = "live" /\ obj' = [obj EXCEPT ![t] = h]
    BY <1>3 DEF ToBytes
  <2>2. /\ pc[t] = "idle" /\ pc' = [pc EXCEPT ![t] = "read"]
        /\ UNCHANGED <<stage, kind, len, slot, use, content, src, raw, dead, out>>
    BY <1>3 DEF ToBytes, heapVars, Idle
  <2>3. TypeOK'
    BY <2>1, <2>2 DEF TypeOK
  <2>4. CallShape'
    BY <2>1, <2>2 DEF CallShape, TypeOK
  <2>5. OneOwner'
    BY <2>1, <2>2 DEF OneOwner, Modifying, TypeOK
  <2> QED
    BY <2>3, <2>4, <2>5
<1>4. ASSUME Write(t) PROVE TypeOK' /\ CallShape' /\ OneOwner'
  <2> DEFINE k == Len(out[t]) + 1
             x == content[slot[<<obj[t], k>>]]
  <2>1. /\ obj[t] \in Handle /\ stage[obj[t]] = "live"
        /\ len[obj[t]] \in 0..MaxTxs /\ Len(out[t]) \in Nat
        /\ k \in 1..len[obj[t]] /\ k \in Pos
    <3>1. /\ pc[t] = "read" /\ Len(out[t]) < len[obj[t]]
          /\ out[t] \in SeqUpTo(Content)
      BY <1>4 DEF Write, TypeOK
    <3>2. Len(out[t]) \in 0..MaxTxs
      BY <3>1, ElementType
    <3>3. obj[t] \in Handle /\ stage[obj[t]] = "live"
      BY <3>1 DEF CallShape
    <3>4. len[obj[t]] \in 0..MaxTxs
      BY <3>3 DEF TypeOK
    <3> QED
      BY <3>1, <3>2, <3>3, <3>4, MaxTxsAssumption DEF Pos
  <2>2. slot[<<obj[t], k>>] \in Body /\ use[slot[<<obj[t], k>>]] # 0
    BY <2>1, Referenced DEF SlotShape, Filled, Slot
  <2>3. x \in Content
    BY <2>2 DEF BodyShape, TypeOK
  <2>4. out' = [out EXCEPT ![t] = Append(out[t], x)]
    BY <1>4 DEF Write
  <2>5. out' \in [Thread -> SeqUpTo(Content)]
    BY <1>4, <2>1, <2>3, <2>4, AppendType, MaxTxsAssumption DEF Write, TypeOK
  <2> QED
    <3>1. UNCHANGED <<stage, kind, len, slot, use, content, pc, obj, src, raw, dead>>
      BY <1>4 DEF Write, heapVars
    <3>2. TypeOK'
      BY <2>5, <3>1 DEF TypeOK
    <3> QED
      BY <3>1, <3>2 DEF CallShape, OneOwner, Modifying
<1>5. ASSUME pc[t] = "read", GoIdle(t), UNCHANGED heapVars
      PROVE  TypeOK' /\ CallShape' /\ OneOwner'
  <2>1. UNCHANGED <<stage, kind, len, slot, use, content>>
    BY <1>5 DEF heapVars
  <2>2. TypeOK'
    BY <1>5, <2>1, GoIdleType DEF TypeOK
  <2>3. CallShape'
    <3> SUFFICES ASSUME NEW u \in Thread
                 PROVE  CallShape!(u)'
      BY DEF CallShape
    <3>1. CASE u = t
      BY <1>5, <2>1, <3>1, GoIdleType DEF CallShape
    <3>2. CASE u # t
      <4>1. /\ pc'[u] = pc[u] /\ obj'[u] = obj[u] /\ src'[u] = src[u] /\ raw'[u] = raw[u]
            /\ dead' = dead /\ stage' = stage /\ len' = len
        BY <1>5, <2>1, <3>2, GoIdleType
      <4>2. CallShape!(u)
        BY DEF CallShape
      <4> QED
        BY <4>1, <4>2
    <3> QED
      BY <3>1, <3>2
  <2>4. \A u \in Thread : /\ Modifying(u)' = Modifying(u)
                          /\ Modifying(u) => obj'[u] = obj[u]
    BY <1>5, GoIdleType DEF Modifying
  <2>5. OneOwner'
    BY <2>1, <2>4 DEF OneOwner
  <2> QED
    BY <2>2, <2>3, <2>5
<1> QED
  BY <1>2, <1>3, <1>4, <1>5 DEF WriteDone, WriteFailed

LEMMA NextInv == IInv /\ [Next]_vars => IInv'
<1> SUFFICES ASSUME IInv, [Next]_vars PROVE IInv'
  OBVIOUS
<1>1. ASSUME NEW t \in Thread, Call(t) PROVE IInv'
  BY <1>1, NewInv, CopyInv, FreeInv, ReadInv DEF Call
<1>2. ASSUME NEW t \in Thread, Continue(t) PROVE IInv'
  BY <1>2, DeserializeInv, CopyRefInv, CopyDataInv, ReturnInv, ThrowInv,
     ReleaseInv, DestroyInv, ReleasedInv, ReadInv DEF Continue
<1>3. ASSUME UNCHANGED vars PROVE IInv'
  BY <1>3 DEF vars, heapVars, callVars, IInv, TypeOK, RefCount, Refs, CallShape,
     OneOwner, Modifying, SlotShape, Filled, BodyShape
<1> QED
  BY <1>1, <1>2, <1>3 DEF Next

-----------------------------------------------------------------------------
(* What follows from it.                                                   *)

\* Counts are exact and every object is built and destroyed by one thread (all of
\* Objects).
THEOREM Invariance == Spec => []IInv
BY InitInv, NextInv, PTL DEF Spec

\* The variables keep their types: among others no count drops below zero.
THEOREM TypeCorrect == Spec => []TypeOK
BY Invariance, PTL DEF IInv

\* The reference counts are exact at every moment, between any two steps of any
\* number of concurrent copies, constructions, unwindings and frees.
THEOREM CountsAreExact == Spec => []RefCount
BY Invariance, PTL DEF IInv

\* No reference inside a live object dangles.
THEOREM NoDanglingReference == Spec => []NoDangling
<1>1. IInv => NoDangling
  <2> SUFFICES ASSUME IInv, NEW h \in Handle, stage[h] = "live",
                      NEW k \in 1..len[h]
               PROVE  slot[<<h, k>>] # NoBody /\ content[slot[<<h, k>>]] # NoContent
    BY DEF NoDangling
  <2>1. len[h] \in 0..MaxTxs
    BY DEF IInv, TypeOK
  <2>2. <<h, k>> \in Slot
    BY <2>1, MaxTxsAssumption DEF Slot, Pos
  <2>3. slot[<<h, k>>] # NoBody
    BY DEF IInv, SlotShape, Filled
  <2>4. slot[<<h, k>>] \in Body /\ use[slot[<<h, k>>]] # 0
    BY <2>2, <2>3, Referenced DEF IInv
  <2> QED
    BY <2>3, <2>4 DEF IInv, BodyShape
<1> QED
  BY <1>1, Invariance, PTL

\* Each body is destroyed once, by the thread that dropped the last reference,
\* and nothing refers to it any more.
THEOREM NoDoubleFree == Spec => []DestroyedOnce
<1>1. IInv => DestroyedOnce
  <2> SUFFICES ASSUME IInv, NEW t \in Thread, dead[t] # NoBody
               PROVE  /\ content[dead[t]] # NoContent
                      /\ \A s \in Slot : slot[s] # dead[t]
                      /\ \A u \in Thread \ {t} : dead[u] # dead[t]
    BY DEF DestroyedOnce
  <2>1. use[dead[t]] = 0 /\ content[dead[t]] # NoContent
    BY DEF IInv, BodyShape
  <2>2. \A s \in Slot : slot[s] # NoBody => use[slot[s]] # 0
    BY Referenced DEF IInv
  <2>3. \A s \in Slot : slot[s] # dead[t]
    BY <2>1, <2>2
  <2>4. \A u \in Thread \ {t} : dead[u] # dead[t]
    BY DEF IInv, BodyShape
  <2> QED
    BY <2>1, <2>3, <2>4
<1> QED
  BY <1>1, Invariance, PTL

\* Between calls all allocated memory belongs to live objects, also after
\* constructions that failed.
THEOREM NothingLeaks == Spec => []NoLeak
<1>1. IInv => NoLeak
  <2> SUFFICES ASSUME IInv, \A t \in Thread : Idle(t),
                      NEW b \in Body, content[b] # NoContent
               PROVE  \E s \in Slot : slot[s] = b /\ stage[s[1]] = "live"
    BY DEF NoLeak
  <2>1. \A t \in Thread : dead[t] = NoBody
    BY DEF IInv, CallShape, Idle
  <2>2. use[b] # 0
    BY <2>1, NullAssumption DEF IInv, BodyShape
  <2>3. Refs(b) # {}
    BY <2>2, FiniteRefs DEF IInv, RefCount
  <2>4. PICK s \in Slot : slot[s] = b
    BY <2>3 DEF Refs
  <2>5. PICK h \in Handle, k \in Pos : s = <<h, k>>
    BY DEF Slot
  <2>6. stage[h] \notin {"building", "dying"}
    BY DEF IInv, OneOwner, Modifying, Idle
  <2>7. stage[h] # "free"
    <3>1. SUFFICES ASSUME stage[h] = "free" PROVE FALSE
      OBVIOUS
    <3>2. len[h] = 0 /\ k > len[h]
      BY <3>1, MaxTxsAssumption DEF IInv, SlotShape, Pos
    <3>3. slot[<<h, k>>] = NoBody
      BY <3>2 DEF IInv, SlotShape
    <3> QED
      BY <2>4, <2>5, <3>3, NullAssumption
  <2>8. stage[h] = "live"
    BY <2>6, <2>7 DEF IInv, TypeOK
  <2> QED
    BY <2>4, <2>5, <2>8
<1> QED
  BY <1>1, Invariance, PTL

-----------------------------------------------------------------------------
(* Objects are values: what a copy, a reader or a client sees of an object *)
(* does not change while other threads build and destroy objects that      *)
(* share its bodies.                                                       *)

-----------------------------------------------------------------------------
(* What a step leaves alone.                                               *)

\* The memory of a body that a slot refers to.
LEMMA InMemory ==
  ASSUME IInv, NEW s \in Slot, slot[s] # NoBody
  PROVE  /\ slot[s] \in Body
         /\ content[slot[s]] \in Content
         /\ \A t \in Thread : dead[t] # slot[s]
<1>1. slot[s] \in Body /\ use[slot[s]] # 0
  BY Referenced DEF IInv
<1> QED
  BY <1>1, NullAssumption DEF IInv, BodyShape, TypeOK

\* The steps that write slots or contents: a reference is put into an empty slot of an
\* object under construction, one of a dying object is dropped, a body that nothing
\* refers to is destroyed; no other step does.
LEMMA Writes ==
  ASSUME IInv, [Next]_vars
  PROVE  \/ \E t \in Thread, k \in Pos :
              /\ pc[t] \in {"new", "copy"} /\ NextSlot(obj[t], k)
              /\ \E b \in Body : \/ \E c : Allocate(<<obj[t], k>>, b, c)
                                 \/ slot' = [slot EXCEPT ![<<obj[t], k>>] = b] /\ content' = content
         \/ \E t \in Thread, k \in Pos :
              /\ pc[t] = "release"
              /\ slot' = [slot EXCEPT ![<<obj[t], k>>] = NoBody] /\ content' = content
         \/ \E t \in Thread :
              /\ dead[t] # NoBody
              /\ content' = [content EXCEPT ![dead[t]] = NoContent]
              /\ slot' = slot
         \/ UNCHANGED <<slot, content>>
<1>1. CASE UNCHANGED vars
  BY <1>1 DEF vars, heapVars
<1>2. ASSUME NEW t \in Thread, Call(t) PROVE UNCHANGED <<slot, content>>
  BY <1>2 DEF Call, NewBlock, NewTransaction, NewScriptPubkey, NewFrom, NewTransactionOutput,
     CopyBlock, CopyTransaction, CopyTransactionOutput, CopyScriptPubkey, CopyFrom, Begin,
     Free, ToBytes, heapVars
<1>3. ASSUME NEW t \in Thread,
             Return(t) \/ Throw(t) \/ Released(t) \/ Write(t) \/ WriteDone(t) \/ WriteFailed(t)
      PROVE  UNCHANGED <<slot, content>>
  BY <1>3 DEF Return, Throw, Released, Write, WriteDone, WriteFailed, heapVars
<1>4. ASSUME NEW t \in Thread, Deserialize(t)
      PROVE  \E k \in Pos : /\ pc[t] \in {"new", "copy"} /\ NextSlot(obj[t], k)
                            /\ \E b \in Body : \E c : Allocate(<<obj[t], k>>, b, c)
  BY <1>4 DEF Deserialize
<1>5. ASSUME NEW t \in Thread, CopyData(t)
      PROVE  \E k \in Pos : /\ pc[t] \in {"new", "copy"} /\ NextSlot(obj[t], k)
                            /\ \E b \in Body : \E c : Allocate(<<obj[t], k>>, b, c)
  BY <1>5, MaxTxsAssumption DEF CopyData, Pos
<1>6. ASSUME NEW t \in Thread, CopyRef(t)
      PROVE  \E k \in Pos, b \in Body :
               /\ pc[t] \in {"new", "copy"} /\ NextSlot(obj[t], k)
               /\ slot' = [slot EXCEPT ![<<obj[t], k>>] = b] /\ content' = content
  <2>1. PICK k \in Pos : /\ NextSlot(obj[t], k)
                         /\ Share(<<obj[t], k>>, slot[<<src[t].h, src[t].off + k>>])
    BY <1>6 DEF CopyRef
  <2>2. slot[<<src[t].h, src[t].off + k>>] \in Body
    BY <1>6, <2>1, SourceInUse DEF CopyRef, NextSlot
  <2> QED
    BY <1>6, <2>1, <2>2 DEF CopyRef, Share
<1>7. ASSUME NEW t \in Thread, Release(t)
      PROVE  \E k \in Pos :
               /\ pc[t] = "release"
               /\ slot' = [slot EXCEPT ![<<obj[t], k>>] = NoBody] /\ content' = content
  <2>1. PICK k \in 1..len[obj[t]] : Drop(t, <<obj[t], k>>) /\ pc[t] = "release"
    BY <1>7 DEF Release
  <2>2. len[obj[t]] \in 0..MaxTxs
    BY <2>1 DEF IInv, CallShape, TypeOK
  <2>3. k \in Pos
    BY <2>2, MaxTxsAssumption DEF Pos
  <2>4. slot' = [slot EXCEPT ![<<obj[t], k>>] = NoBody] /\ content' = content
    BY <2>1 DEF Drop
  <2> QED
    BY <2>1, <2>3, <2>4
<1>8. ASSUME NEW t \in Thread, Destroy(t)
      PROVE  /\ dead[t] # NoBody
             /\ content' = [content EXCEPT ![dead[t]] = NoContent]
             /\ slot' = slot
  BY <1>8 DEF Destroy
<1> QED
  BY <1>1, <1>2, <1>3, <1>4, <1>5, <1>6, <1>7, <1>8 DEF Next, Continue

\* A reference in an object that is not dying stays, and what it refers to with it.
LEMMA Kept ==
  ASSUME IInv, [Next]_vars, NEW h \in Handle, stage[h] # "dying",
         NEW j \in Pos, slot[<<h, j>>] # NoBody
  PROVE  /\ slot'[<<h, j>>] = slot[<<h, j>>]
         /\ content'[slot[<<h, j>>]] = content[slot[<<h, j>>]]
<1> DEFINE s == <<h, j>>
<1>1. /\ s \in Slot /\ slot \in [Slot -> Body \cup {NoBody}]
      /\ content \in [Body -> Content \cup {NoContent}]
  BY DEF Slot, IInv, TypeOK
<1>2. slot[s] \in Body /\ content[slot[s]] \in Content /\ \A t \in Thread : dead[t] # slot[s]
  BY <1>1, InMemory
<1>3. ASSUME NEW t \in Thread, NEW k \in Pos, pc[t] \in {"new", "copy"}, NextSlot(obj[t], k)
      PROVE  <<obj[t], k>> # s
  BY <1>3 DEF NextSlot
<1>4. ASSUME NEW t \in Thread, NEW k \in Pos, pc[t] = "release"
      PROVE  <<obj[t], k>> # s
  BY <1>4 DEF IInv, CallShape
<1> QED
  BY <1>1, <1>2, <1>3, <1>4, Writes, NullAssumption DEF Allocate

\* Kind and length are set when an object is begun and reset when its cell is free.
LEMMA ShapeKept ==
  ASSUME IInv, [Next]_vars, NEW h \in Handle, stage[h] \in {"building", "live"}
  PROVE  kind'[h] = kind[h] /\ len'[h] = len[h]
<1>1. CASE UNCHANGED vars
  BY <1>1 DEF vars, heapVars
<1>2. ASSUME NEW t \in Thread, NEW g \in Handle, NEW kd, NEW n, NEW act, Begin(t, g, kd, n, act)
      PROVE  kind'[h] = kind[h] /\ len'[h] = len[h]
  BY <1>2 DEF Begin, IInv, TypeOK
<1>3. ASSUME NEW t \in Thread, Call(t) PROVE kind'[h] = kind[h] /\ len'[h] = len[h]
  <2>1. CASE Free(t) \/ ToBytes(t)
    BY <2>1 DEF Free, ToBytes, heapVars
  <2>2. CASE ~(Free(t) \/ ToBytes(t))
    BY <1>2, <1>3, <2>2 DEF Call, NewBlock, NewTransaction, NewScriptPubkey, NewFrom,
       NewTransactionOutput, CopyBlock, CopyTransaction, CopyTransactionOutput,
       CopyScriptPubkey, CopyFrom
  <2> QED
    BY <2>1, <2>2
<1>4. ASSUME NEW t \in Thread, Released(t) PROVE kind'[h] = kind[h] /\ len'[h] = len[h]
  BY <1>4 DEF Released, IInv, CallShape, TypeOK
<1>5. ASSUME NEW t \in Thread, Continue(t), ~Released(t) PROVE UNCHANGED <<kind, len>>
  BY <1>5 DEF Continue, Deserialize, CopyRef, CopyData, Return, Throw, Release, Destroy, Write,
     WriteDone, WriteFailed, heapVars
<1> QED
  BY <1>1, <1>3, <1>4, <1>5 DEF Next

\* A live object has a value.
LEMMA ValueType ==
  ASSUME IInv, NEW h \in Handle, stage[h] = "live"
  PROVE  /\ len[h] \in 0..MaxTxs
         /\ Value(h) \in [1..len[h] -> Content]
         /\ Value(h) \in Seq(Content) /\ Len(Value(h)) = len[h]
<1>1. len[h] \in 0..MaxTxs
  BY DEF IInv, TypeOK
<1>2. ASSUME NEW k \in 1..len[h] PROVE content[slot[<<h, k>>]] \in Content
  <2>1. <<h, k>> \in Slot
    BY <1>1, MaxTxsAssumption DEF Pos, Slot
  <2>2. slot[<<h, k>>] # NoBody
    BY DEF IInv, SlotShape, Filled
  <2> QED
    BY <2>1, <2>2, InMemory
<1>3. Value(h) \in [1..len[h] -> Content]
  BY <1>2 DEF Value
<1> HIDE DEF Value
<1> QED
  BY <1>1, <1>3

\* And it has the same value after any step.
LEMMA ValueKept ==
  ASSUME IInv, [Next]_vars, NEW h \in Handle, stage[h] = "live"
  PROVE  Value(h)' = Value(h) /\ len'[h] = len[h]
<1>1. len[h] \in 0..MaxTxs /\ len'[h] = len[h]
  BY ShapeKept DEF IInv, TypeOK
<1>2. ASSUME NEW k \in 1..len[h]
      PROVE  /\ content[slot[<<h, k>>]] \in Content
             /\ content'[slot'[<<h, k>>]] = content[slot[<<h, k>>]]
  <2>1. k \in Pos /\ <<h, k>> \in Slot
    BY <1>1, MaxTxsAssumption DEF Pos, Slot
  <2>2. slot[<<h, k>>] # NoBody
    BY DEF IInv, SlotShape, Filled
  <2> QED
    BY <2>1, <2>2, Kept, InMemory
<1> QED
  BY <1>1, <1>2 DEF Value

-----------------------------------------------------------------------------
(* What ToBytes has written.                                               *)

\* Each piece that the callback has got is what the object holds at its place; a call
\* that is no ToBytes has written nothing.
Pieces ==
  \A t \in Thread :
    /\ pc[t] = "read" =>
         /\ Len(out[t]) <= len[obj[t]]
         /\ \A k \in 1..Len(out[t]) : out[t][k] = Value(obj[t])[k]
    /\ pc[t] # "read" => out[t] = <<>>

LEMMA InitPieces == Init => Pieces
BY DEF Init, Pieces

\* A step of thread t leaves the calls of the others alone; and as far as its own call
\* is a ToBytes, it begins with nothing written, writes a piece, or ends.
LEMMA CallSteps ==
  ASSUME IInv, NEW t \in Thread, Call(t) \/ Continue(t)
  PROVE  /\ \A u \in Thread \ {t} : /\ pc'[u] = pc[u] /\ obj'[u] = obj[u] /\ src'[u] = src[u]
                                    /\ out'[u] = out[u]
         /\ \/ Write(t)
            \/ pc[t] # "read" /\ out' = out
            \/ pc'[t] = "idle" /\ out'[t] = <<>>
<1> USE DEF IInv, TypeOK
<1>1. CASE \E h \in Handle : \E kd, n, act : Begin(t, h, kd, n, act)
                                         /\ \/ UNCHANGED src
                                            \/ \E x : src' = [src EXCEPT ![t] = x]
  BY <1>1 DEF Begin, Idle
<1>2. ASSUME NewBlock(t) \/ NewTransaction(t) \/ NewScriptPubkey(t)
      PROVE  \E h \in Handle : \E kd, n, act : Begin(t, h, kd, n, act) /\ UNCHANGED src
  BY <1>2 DEF NewBlock, NewTransaction, NewScriptPubkey, NewFrom
<1>3. ASSUME \/ NewTransactionOutput(t) \/ CopyBlock(t) \/ CopyTransaction(t)
             \/ CopyTransactionOutput(t) \/ CopyScriptPubkey(t)
      PROVE  \E h \in Handle : \E kd, n, act :
               Begin(t, h, kd, n, act) /\ \E x : src' = [src EXCEPT ![t] = x]
  BY <1>3 DEF NewTransactionOutput, CopyBlock, CopyTransaction, CopyTransactionOutput,
     CopyScriptPubkey, CopyFrom
<1>4. CASE Free(t) \/ ToBytes(t)
  BY <1>4 DEF Free, ToBytes, Idle, heapVars
<1>5. CASE Deserialize(t) \/ CopyRef(t) \/ CopyData(t) \/ Throw(t) \/ Release(t) \/ Destroy(t)
  BY <1>5 DEF Deserialize, CopyRef, CopyData, Throw, Release, Destroy, callVars, CallShape
<1>6. CASE GoIdle(t)
  BY <1>6 DEF GoIdle
<1>7. CASE Write(t)
  BY <1>7 DEF Write
<1> QED
  BY <1>1, <1>2, <1>3, <1>4, <1>5, <1>6, <1>7
  DEF Call, Continue, Return, Released, WriteDone, WriteFailed

\* What has been written is a sequence.
LEMMA OutType ==
  ASSUME IInv, NEW t \in Thread
  PROVE  out[t] \in Seq(Content) /\ Len(out[t]) \in Nat
<1>0. out[t] \in SeqUpTo(Content)
  BY DEF IInv, TypeOK
<1>1. PICK n \in 0..MaxTxs : out[t] \in [1..n -> Content]
  BY <1>0 DEF SeqUpTo
<1> QED
  BY <1>1

LEMMA NextPieces == IInv /\ Pieces /\ [Next]_vars => Pieces'
<1> SUFFICES ASSUME IInv, Pieces, [Next]_vars PROVE Pieces'
  OBVIOUS
<1>0. IInv'
  BY NextInv
<1>1. ASSUME NEW u \in Thread, NEW h \in Handle, pc[u] = "read", obj[u] = h
      PROVE  /\ stage[h] = "live"
             /\ len[h] \in Nat /\ len'[h] = len[h]
             /\ Value(h)' = Value(h)
             /\ \A k \in 1..len[h] : Value(h)[k] = content[slot[<<h, k>>]]
  <2>1. stage[h] = "live" /\ len[h] \in Nat
    BY <1>1 DEF IInv, CallShape, TypeOK
  <2>2. \A k \in 1..len[h] : Value(h)[k] = content[slot[<<h, k>>]]
    BY DEF Value
  <2> QED
    BY <2>1, <2>2, ValueKept
<1>2. ASSUME NEW u \in Thread, pc[u] = "read" PROVE obj[u] \in Handle
  BY <1>2 DEF IInv, CallShape
<1>3. ASSUME NEW u \in Thread, pc'[u] = pc[u], obj'[u] = obj[u], out'[u] = out[u]
      PROVE  Pieces!(u)'
  <2>1. CASE pc[u] = "read"
    <3>1. PICK h \in Handle : obj[u] = h
      BY <1>2, <2>1
    <3>2. /\ Value(h)' = Value(h) /\ len'[h] = len[h]
          /\ Len(out[u]) <= len[h]
          /\ \A k \in 1..Len(out[u]) : out[u][k] = Value(h)[k]
      BY <1>1, <2>1, <3>1 DEF Pieces
    <3>3. obj'[u] = h /\ pc'[u] = "read"
      BY <1>3, <2>1, <3>1
    <3>4. Value(obj[u])' = Value(h)'
      BY <3>3
    <3> QED
      BY <1>3, <3>2, <3>3, <3>4
  <2>2. CASE pc[u] # "read"
    BY <1>3, <2>2 DEF Pieces
  <2> QED
    BY <2>1, <2>2
<1>4. CASE UNCHANGED vars
  BY <1>3, <1>4 DEF vars, callVars, Pieces
<1>5. ASSUME NEW t \in Thread, Call(t) \/ Continue(t) PROVE Pieces'
  <2> SUFFICES ASSUME NEW u \in Thread PROVE Pieces!(u)'
    BY DEF Pieces
  <2>1. CASE u # t
    BY <1>3, <1>5, <2>1, CallSteps
  <2>2. CASE u = t /\ Write(t)
    <3> DEFINE n == Len(out[t])
    <3>1. pc[t] = "read" /\ n < len[obj[t]] /\ pc' = pc /\ obj' = obj
      BY <2>2 DEF Write
    <3>2. PICK h \in Handle : obj[t] = h
      BY <1>2, <3>1
    <3>3. /\ Value(h)' = Value(h) /\ len'[h] = len[h] /\ len[h] \in Nat
          /\ Value(h)[n + 1] = content[slot[<<h, n + 1>>]]
          /\ \A k \in 1..n : out[t][k] = Value(h)[k]
      BY <1>1, <3>1, <3>2, OutType DEF Pieces
    <3>4. out'[t] = Append(out[t], content[slot[<<h, n + 1>>]])
      BY <2>2, <3>2 DEF Write, IInv, TypeOK
    <3>5. /\ Len(out'[t]) = n + 1
          /\ \A k \in 1..(n + 1) :
               out'[t][k] = IF k = n + 1 THEN content[slot[<<h, n + 1>>]] ELSE out[t][k]
      BY <3>4, OutType
    <3>6. ASSUME NEW k \in 1..(n + 1) PROVE out'[t][k] = Value(h)[k]
      <4>1. CASE k = n + 1
        BY <3>3, <3>5, <4>1
      <4>2. CASE k # n + 1
        <5>1. n \in Nat /\ k \in 1..n
          BY <4>2, OutType
        <5> HIDE DEF n
        <5> QED
          BY <3>3, <3>5, <4>2, <5>1
      <4> QED
        BY <4>1, <4>2
    <3>7. obj'[t] = h /\ pc'[t] = "read"
      BY <3>1, <3>2
    <3>8. Value(obj[t])' = Value(h)'
      BY <3>7
    <3> QED
      BY <2>2, <3>1, <3>2, <3>3, <3>5, <3>6, <3>7, <3>8, OutType
  <2>3. CASE u = t /\ ~Write(t)
    <3>1. out'[t] = <<>>
      BY <1>5, <2>3, CallSteps DEF Pieces
    <3>2. pc'[t] = "read" => len'[obj'[t]] \in Nat
      BY <1>0 DEF IInv, CallShape, TypeOK
    <3> QED
      BY <2>3, <3>1, <3>2
  <2> QED
    BY <2>1, <2>2, <2>3
<1> QED
  BY <1>4, <1>5 DEF Next

\* What ToBytes has passed on is a prefix of the value of its object, for as long as
\* it takes and whatever is freed and copied meanwhile.
THEOREM ToBytesIsSerialized == Spec => []Serialized
<1>1. IInv /\ Pieces => Serialized
  <2> SUFFICES ASSUME IInv, Pieces, NEW t \in Thread, pc[t] = "read"
               PROVE  out[t] = SubSeq(Value(obj[t]), 1, Len(out[t]))
    BY DEF Serialized
  <2> DEFINE n == Len(out[t])
             v == Value(obj[t])
  <2>1. out[t] \in Seq(Content) /\ n \in Nat
    BY OutType
  <2>2. obj[t] \in Handle /\ stage[obj[t]] = "live"
    BY DEF IInv, CallShape
  <2>3. /\ n <= len[obj[t]] /\ len[obj[t]] \in Nat
        /\ \A k \in 1..n : out[t][k] = v[k]
    BY <2>2 DEF Pieces, IInv, TypeOK
  <2>4. v \in [1..len[obj[t]] -> Content]
    BY <2>2, ValueType
  <2> HIDE DEF v, n
  <2>5. \A k \in 1..n : v[k] \in Content
    BY <2>1, <2>3, <2>4
  <2>6. /\ SubSeq(v, 1, n) \in Seq(Content)
        /\ Len(SubSeq(v, 1, n)) = n
        /\ \A k \in 1..n : SubSeq(v, 1, n)[k] = v[k]
    BY <2>1, <2>5, SubSeqProperties
  <2>7. \A k \in 1..n : out[t][k] = SubSeq(v, 1, n)[k]
    BY <2>3, <2>6
  <2> QED
    BY <2>1, <2>6, <2>7, SeqEqual DEF n, v
<1>2. Spec => []Pieces
  BY InitPieces, NextPieces, Invariance, PTL DEF Spec
<1> QED
  BY <1>1, <1>2, Invariance, PTL

-----------------------------------------------------------------------------
(* What _Copy has copied.                                                  *)

\* A slot is filled by the call that makes its object.
LEMMA Filling ==
  ASSUME IInv, NEW t \in Thread, Call(t) \/ Continue(t), NEW h \in Handle, NEW j \in Pos,
         slot[<<h, j>>] = NoBody, slot'[<<h, j>>] # NoBody
  PROVE  obj[t] = h /\ (Deserialize(t) \/ CopyRef(t) \/ CopyData(t))
<1>1. <<h, j>> \in Slot /\ slot \in [Slot -> Body \cup {NoBody}]
  BY DEF Slot, IInv, TypeOK
<1>2. ASSUME UNCHANGED slot PROVE FALSE
  BY <1>2
<1>3. ~Call(t)
  BY <1>2 DEF Call, NewBlock, NewTransaction, NewScriptPubkey, NewFrom, NewTransactionOutput,
     CopyBlock, CopyTransaction, CopyTransactionOutput, CopyScriptPubkey, CopyFrom, Begin,
     Free, ToBytes, heapVars
<1>4. ~(Return(t) \/ Throw(t) \/ Destroy(t) \/ Released(t) \/ Write(t) \/ WriteDone(t)
        \/ WriteFailed(t))
  BY <1>2 DEF Return, Throw, Destroy, Released, Write, WriteDone, WriteFailed, heapVars
<1>5. ~Release(t)
  <2> SUFFICES ASSUME Release(t) PROVE FALSE
    OBVIOUS
  <2>1. PICK k : Drop(t, <<obj[t], k>>)
    BY DEF Release
  <2>2. slot' = [slot EXCEPT ![<<obj[t], k>>] = NoBody]
    BY <2>1 DEF Drop
  <2> QED
    BY <1>1, <2>2
<1>6. Deserialize(t) \/ CopyRef(t) \/ CopyData(t)
  BY <1>3, <1>4, <1>5 DEF Continue
<1>7. PICK k, b : slot' = [slot EXCEPT ![<<obj[t], k>>] = b]
  BY <1>6 DEF Deserialize, CopyRef, CopyData, Allocate, Share
<1> QED
  BY <1>1, <1>6, <1>7

\* What a copy reads is there, and stays.
LEMMA SourceKept ==
  ASSUME IInv, [Next]_vars, NEW t \in Thread, pc[t] = "copy",
         NEW k \in Pos, k \in 1..len[obj[t]]
  PROVE  LET s == <<src[t].h, src[t].off + k>>
         IN  slot'[s] = slot[s] /\ content'[slot[s]] = content[slot[s]]
<1> DEFINE h == src[t].h
           j == src[t].off + k
<1>1. h \in Handle /\ stage[h] = "live"
  BY DEF IInv, CallShape
<1>2. j \in 1..len[h] /\ j \in Pos
  BY <1>1, MaxTxsAssumption DEF IInv, CallShape, TypeOK, Pos
<1>3. slot[<<h, j>>] # NoBody
  BY <1>1, <1>2 DEF IInv, SlotShape, Filled
<1> QED
  BY <1>1, <1>2, <1>3, Kept

LEMMA NextCopyOfPart == IInv /\ CopyOfPart /\ [Next]_vars => CopyOfPart'
<1> SUFFICES ASSUME IInv, CopyOfPart, [Next]_vars PROVE CopyOfPart'
  OBVIOUS
<1> DEFINE Source(t, k) == <<src[t].h, src[t].off + k>>
<1>1. ASSUME NEW u \in Thread, pc[u] = "copy"
      PROVE  /\ obj[u] \in Handle /\ stage[obj[u]] = "building"
             /\ len'[obj[u]] = len[obj[u]] /\ len[obj[u]] \in 0..MaxTxs
  <2>1. obj[u] \in Handle /\ stage[obj[u]] = "building"
    BY <1>1 DEF IInv, CallShape
  <2> QED
    BY <2>1, ShapeKept DEF IInv, TypeOK
\* What had been copied before the step.
<1>2. ASSUME NEW u \in Thread, pc[u] = "copy", NEW k \in 1..len[obj[u]],
             slot[<<obj[u], k>>] # NoBody
      PROVE  content'[slot'[<<obj[u], k>>]] = content'[slot'[Source(u, k)]]
  <2>1. k \in Pos
    BY <1>1, <1>2, MaxTxsAssumption DEF Pos
  <2>2. content[slot[<<obj[u], k>>]] = content[slot[Source(u, k)]]
    BY <1>2 DEF CopyOfPart
  <2> QED
    BY <1>1, <1>2, <2>1, <2>2, Kept, SourceKept
\* What it copies.
<1>3. ASSUME NEW t \in Thread, CopyRef(t) \/ CopyData(t), NEW k \in 1..len[obj[t]],
             slot[<<obj[t], k>>] = NoBody, slot'[<<obj[t], k>>] # NoBody
      PROVE  content'[slot'[<<obj[t], k>>]] = content'[slot'[Source(t, k)]]
  <2>1. pc[t] = "copy" /\ k \in Pos /\ <<obj[t], k>> \in Slot
    BY <1>1, <1>3, MaxTxsAssumption DEF CopyRef, CopyData, Pos, Slot
  <2>2. /\ slot'[Source(t, k)] = slot[Source(t, k)]
        /\ content'[slot[Source(t, k)]] = content[slot[Source(t, k)]]
    BY <1>3, <2>1, SourceKept
  <2>3. slot \in [Slot -> Body \cup {NoBody}] /\ content \in [Body -> Content \cup {NoContent}]
    BY DEF IInv, TypeOK
  <2>4. CASE CopyRef(t)
    <3>1. PICK j \in Pos : Share(<<obj[t], j>>, slot[Source(t, j)])
      BY <2>4 DEF CopyRef
    <3>2. slot' = [slot EXCEPT ![<<obj[t], j>>] = slot[Source(t, j)]] /\ content' = content
      BY <3>1 DEF Share
    <3>3. j = k
      BY <1>3, <2>1, <2>3, <3>2
    <3> QED
      BY <2>1, <2>2, <2>3, <3>2, <3>3
  <2>5. CASE CopyData(t)
    <3>1. PICK b \in Body : Allocate(<<obj[t], 1>>, b, content[slot[Source(t, 1)]])
      BY <2>5 DEF CopyData
    <3>2. /\ slot' = [slot EXCEPT ![<<obj[t], 1>>] = b]
          /\ content' = [content EXCEPT ![b] = content[slot[Source(t, 1)]]]
      BY <3>1 DEF Allocate
    <3>3. k = 1
      BY <1>3, <2>1, <2>3, <3>2
    <3> QED
      BY <2>1, <2>2, <2>3, <3>2, <3>3
  <2> QED
    BY <1>3, <2>4, <2>5
<1>4. CASE UNCHANGED vars
  BY <1>4 DEF vars, heapVars, callVars, CopyOfPart
<1>5. ASSUME NEW t \in Thread, Call(t) \/ Continue(t) PROVE CopyOfPart'
  <2> SUFFICES ASSUME NEW u \in Thread, pc'[u] = "copy",
                      NEW k \in 1..len'[obj'[u]], slot'[<<obj'[u], k>>] # NoBody
               PROVE  content'[slot'[<<obj'[u], k>>]]
                        = content'[slot'[<<src'[u].h, src'[u].off + k>>]]
    BY DEF CopyOfPart
  <2>1. CASE u # t
    <3>1. pc[u] = "copy" /\ obj'[u] = obj[u] /\ src'[u] = src[u]
      BY <1>5, <2>1, CallSteps
    <3>2. k \in 1..len[obj[u]] /\ k \in Pos
      BY <1>1, <3>1, MaxTxsAssumption DEF Pos
    <3>3. slot[<<obj[u], k>>] # NoBody
      <4> SUFFICES ASSUME slot[<<obj[u], k>>] = NoBody PROVE FALSE
        OBVIOUS
      <4>1. obj[t] = obj[u] /\ (Deserialize(t) \/ CopyRef(t) \/ CopyData(t))
        BY <1>1, <1>5, <3>1, <3>2, Filling
      <4> QED
        BY <2>1, <3>1, <4>1 DEF Deserialize, CopyRef, CopyData, IInv, OneOwner, Modifying
    <3> QED
      BY <1>2, <3>1, <3>2, <3>3
  <2>2. CASE u = t /\ pc[t] = "copy"
    <3>1. obj'[t] = obj[t] /\ src'[t] = src[t]
      BY <1>5, <2>2 DEF Call, Continue, NewBlock, NewTransaction, NewScriptPubkey, NewFrom,
         NewTransactionOutput, CopyBlock, CopyTransaction, CopyTransactionOutput,
         CopyScriptPubkey, CopyFrom, Begin, Free, ToBytes, Idle, Deserialize, CopyRef, CopyData,
         Return, Throw, GoIdle, Release, Destroy, Released, Write, WriteDone, WriteFailed,
         callVars, IInv, TypeOK
    <3>2. k \in 1..len[obj[t]] /\ k \in Pos
      BY <1>1, <2>2, <3>1, MaxTxsAssumption DEF Pos
    <3>3. CASE slot[<<obj[t], k>>] # NoBody
      BY <1>2, <2>2, <3>1, <3>2, <3>3
    <3>4. CASE slot[<<obj[t], k>>] = NoBody
      <4>1. CopyRef(t) \/ CopyData(t)
        BY <1>1, <1>5, <2>2, <3>1, <3>2, <3>4, Filling DEF Deserialize
      <4> QED
        BY <1>3, <2>2, <3>1, <3>2, <3>4, <4>1
    <3> QED
      BY <3>3, <3>4
  <2>3. CASE u = t /\ pc[t] # "copy"
    <3>1. PICK h \in Handle : \E kd, n, act : Begin(t, h, kd, n, act)
      BY <1>5, <2>3 DEF Call, Continue, NewBlock, NewTransaction, NewScriptPubkey, NewFrom,
         NewTransactionOutput, CopyBlock, CopyTransaction, CopyTransactionOutput,
         CopyScriptPubkey, CopyFrom, Free, ToBytes, Deserialize, CopyRef, CopyData,
         Return, Throw, GoIdle, Release, Destroy, Released, Write, WriteDone, WriteFailed,
         callVars, IInv, TypeOK
    <3>2. stage[h] = "free" /\ obj'[t] = h /\ slot' = slot
      BY <3>1 DEF Begin, IInv, TypeOK
    <3>3. k \in Pos /\ k > len[h]
      <4>1. IInv'
        BY NextInv
      <4>2. len'[h] \in 0..MaxTxs /\ len[h] = 0
        BY <3>2, <4>1 DEF IInv, TypeOK, SlotShape
      <4> QED
        BY <2>3, <3>2, <4>2, MaxTxsAssumption DEF Pos
    <3>4. slot[<<h, k>>] = NoBody
      BY <3>2, <3>3 DEF IInv, SlotShape
    <3> QED
      BY <2>3, <3>2, <3>4
  <2> QED
    BY <2>1, <2>2, <2>3
<1> QED
  BY <1>4, <1>5 DEF Next

\* A copy has at any time copied what its source holds at the places that were asked
\* for, while other threads free the objects that it shares bodies with.
THEOREM CopiesThePart == Spec => []CopyOfPart
<1>1. Init => CopyOfPart
  BY DEF Init, CopyOfPart
<1> QED
  BY <1>1, NextCopyOfPart, Invariance, PTL DEF Spec

-----------------------------------------------------------------------------
(* The objects implement plain values.                                     *)

\* An object that is no block has one body.
OneBody ==
  \A h \in Handle : stage[h] \in {"building", "live"} /\ kind[h] # "Block" => len[h] = 1

\* Objects are begun with the members of their type.
LEMMA BeginShape ==
  ASSUME NEW t \in Thread, Call(t)
  PROVE  \/ \E h \in Handle, kd \in Kind : \E n, act :
              Begin(t, h, kd, n, act) /\ (kd # "Block" => n = 1)
         \/ Free(t)
         \/ ToBytes(t)
<1>1. CASE NewBlock(t) \/ NewTransaction(t) \/ NewScriptPubkey(t)
  BY <1>1 DEF NewBlock, NewTransaction, NewScriptPubkey, NewFrom, Kind
<1>2. CASE CopyBlock(t) \/ CopyTransaction(t) \/ CopyTransactionOutput(t) \/ CopyScriptPubkey(t)
           \/ NewTransactionOutput(t)
  BY <1>2 DEF CopyBlock, CopyTransaction, CopyTransactionOutput, CopyScriptPubkey,
     NewTransactionOutput, CopyFrom, Kind
<1> QED
  BY <1>1, <1>2 DEF Call

\* Which objects are there changes when a call returns one and when one is freed.
LEMMA Presence ==
  ASSUME IInv, [Next]_vars
  PROVE  \/ \A h \in Handle : stage'[h] = "live" <=> stage[h] = "live"
         \/ \E h \in Handle : /\ stage[h] = "building" /\ Filled(h)
                              /\ stage' = [stage EXCEPT ![h] = "live"]
                              /\ UNCHANGED <<kind, len, slot, content>>
         \/ \E h \in Handle : stage[h] = "live" /\ stage' = [stage EXCEPT ![h] = "dying"]
<1>1. CASE UNCHANGED vars
  BY <1>1 DEF vars, heapVars
<1>2. ASSUME NEW t \in Thread, Call(t), ~Free(t)
      PROVE  \A h \in Handle : stage'[h] = "live" <=> stage[h] = "live"
  BY <1>2, BeginShape DEF Begin, ToBytes, heapVars, IInv, TypeOK
<1>3. ASSUME NEW t \in Thread, Free(t)
      PROVE  \E h \in Handle : stage[h] = "live" /\ stage' = [stage EXCEPT ![h] = "dying"]
  BY <1>3 DEF Free, MayFree
<1>4. ASSUME NEW t \in Thread, Return(t)
      PROVE  \E h \in Handle : /\ stage[h] = "building" /\ Filled(h)
                               /\ stage' = [stage EXCEPT ![h] = "live"]
                               /\ UNCHANGED <<kind, len, slot, content>>
  BY <1>4 DEF Return, IInv, CallShape
<1>5. ASSUME NEW t \in Thread, Throw(t) \/ Released(t)
      PROVE  \A h \in Handle : stage'[h] = "live" <=> stage[h] = "live"
  BY <1>5 DEF Throw, Released, IInv, CallShape, TypeOK
<1>6. ASSUME NEW t \in Thread, Continue(t), ~Return(t), ~Throw(t), ~Released(t)
      PROVE  UNCHANGED stage
  BY <1>6 DEF Continue, Deserialize, CopyRef, CopyData, Release, Destroy, Write, WriteDone,
     WriteFailed, heapVars
<1> QED
  BY <1>1, <1>2, <1>3, <1>4, <1>5, <1>6 DEF Next

LEMMA NextOneBody == IInv /\ OneBody /\ [Next]_vars => OneBody'
<1> SUFFICES ASSUME IInv, OneBody, [Next]_vars,
                    NEW g \in Handle, stage'[g] \in {"building", "live"}, kind'[g] # "Block"
             PROVE  len'[g] = 1
  BY DEF OneBody
<1>1. CASE stage[g] \in {"building", "live"}
  BY <1>1, ShapeKept DEF OneBody
<1>2. CASE stage[g] \notin {"building", "live"}
  <2>1. PICK t \in Thread : Call(t) \/ Continue(t)
    BY <1>2 DEF Next, vars, heapVars
  <2>2. ~Continue(t)
    BY <1>2 DEF Continue, Deserialize, CopyRef, CopyData, Return, Throw, Release, Destroy,
       Released, Write, WriteDone, WriteFailed, heapVars, IInv, TypeOK, CallShape
  <2>3. ~Free(t) /\ ~ToBytes(t)
    BY <1>2 DEF Free, ToBytes, heapVars, IInv, TypeOK
  <2>4. PICK h \in Handle, kd \in Kind :
          \E n, act : Begin(t, h, kd, n, act) /\ (kd # "Block" => n = 1)
    BY <2>1, <2>2, <2>3, BeginShape
  <2> QED
    BY <1>2, <2>4 DEF Begin, IInv, TypeOK
<1> QED
  BY <1>1, <1>2

\* Every step makes one value, forgets one, or changes none.
LEMMA StepImplements ==
  IInv /\ OneBody /\ [Next]_vars => [Values!Next]_<<valueBar, kindBar>>
<1> SUFFICES ASSUME IInv, OneBody, [Next]_vars
             PROVE  [Values!Next]_<<valueBar, kindBar>>
  OBVIOUS
<1>1. CASE \A h \in Handle : stage'[h] = "live" <=> stage[h] = "live"
  <2>1. ASSUME NEW h \in Handle, stage[h] = "live"
        PROVE  Value(h)' = Value(h) /\ kind'[h] = kind[h]
    BY <2>1, ValueKept, ShapeKept
  <2> QED
    BY <1>1, <2>1 DEF valueBar, kindBar
<1>2. ASSUME NEW h \in Handle, stage[h] = "building", Filled(h),
             stage' = [stage EXCEPT ![h] = "live"], UNCHANGED <<kind, len, slot, content>>
      PROVE  Values!Next
  <2>1. /\ kind[h] \in Kind /\ len[h] \in 0..MaxTxs /\ (kind[h] # "Block" => len[h] = 1)
    BY <1>2 DEF IInv, TypeOK, OneBody
  <2>2. Value(h) \in [1..len[h] -> Content]
    <3>1. ASSUME NEW k \in 1..len[h] PROVE content[slot[<<h, k>>]] \in Content
      <4>1. <<h, k>> \in Slot
        BY <2>1, MaxTxsAssumption DEF Pos, Slot
      <4> QED
        BY <1>2, <4>1, InMemory DEF Filled
    <3> QED
      BY <3>1 DEF Value
  <2>3. Value(h) \in Values!ValueOf(kind[h])
    BY <2>1, <2>2, MaxTxsAssumption DEF Values!ValueOf
  <2>4. \A g \in Handle : Value(g)' = Value(g)
    BY <1>2 DEF Value
  <2>5. \A g \in Handle : stage'[g] = IF g = h THEN "live" ELSE stage[g]
    BY <1>2 DEF IInv, TypeOK
  <2>6. /\ valueBar' = [valueBar EXCEPT ![h] = Value(h)]
        /\ kindBar' = [kindBar EXCEPT ![h] = kind[h]]
    BY <1>2, <2>4, <2>5 DEF valueBar, kindBar
  <2>7. kindBar[h] = "none"
    BY <1>2 DEF kindBar
  <2>8. Values!New(h)
    BY <2>1, <2>3, <2>6, <2>7 DEF Values!New, Values!Make, Values!Exists, Values!Kind, Kind
  <2> QED
    BY <2>8 DEF Values!Next
<1>3. ASSUME NEW h \in Handle, stage[h] = "live", stage' = [stage EXCEPT ![h] = "dying"]
      PROVE  Values!Next
  <2>1. \A g \in Handle : stage'[g] = IF g = h THEN "dying" ELSE stage[g]
    BY <1>3 DEF IInv, TypeOK
  <2>2. ASSUME NEW g \in Handle, stage[g] = "live"
        PROVE  Value(g)' = Value(g) /\ kind'[g] = kind[g]
    BY <2>2, ValueKept, ShapeKept
  <2>3. /\ valueBar' = [valueBar EXCEPT ![h] = NoContent]
        /\ kindBar' = [kindBar EXCEPT ![h] = "none"]
    BY <2>1, <2>2 DEF valueBar, kindBar
  <2>4. kindBar[h] # "none"
    BY <1>3 DEF kindBar, IInv, TypeOK, Kind
  <2> QED
    BY <2>3, <2>4 DEF Values!Next, Values!Free, Values!Exists
<1> QED
  BY <1>1, <1>2, <1>3, Presence

\* What any number of threads do to reference counted objects is what ObjectValues
\* says of plain values: no call of a thread can tell that objects share memory.
THEOREM Refinement == Spec => ImplementsValues
<1>1. Init => Values!Init
  BY DEF Init, Values!Init, valueBar, kindBar
<1>2. Init => OneBody
  BY DEF Init, OneBody
<1>3. Spec => []OneBody
  BY <1>2, NextOneBody, Invariance, PTL DEF Spec
<1> QED
  BY <1>1, <1>3, StepImplements, Invariance, PTL DEF Spec, ImplementsValues, Values!Spec
-----------------------------------------------------------------------------
(* Calls end: what a call has left to do is bounded and gets less.         *)

\* The members that are there can be counted.
LEMMA HeldType ==
  ASSUME NEW h, len[h] \in Nat
  PROVE  IsFiniteSet(Held(h)) /\ Cardinality(Held(h)) \in 0..len[h]
<1>1. IsFiniteSet(1..len[h]) /\ Cardinality(1..len[h]) = len[h]
  <2>1. \A n \in Nat : IsFiniteSet(1..n) /\ Cardinality(1..n) = n
    BY FS_Interval
  <2> QED
    BY <2>1
<1>2. Held(h) \in SUBSET (1..len[h])
  BY DEF Held
<1>3. IsFiniteSet(Held(h)) /\ Cardinality(Held(h)) <= len[h]
  BY <1>1, <1>2, FS_Subset
<1> QED
  BY <1>3, FS_CardinalityType

\* A thread inside of a call has an object of some length.
LEMMA CallType ==
  ASSUME IInv, NEW t \in Thread, ~Idle(t)
  PROVE  /\ obj[t] \in Handle /\ len[obj[t]] \in 0..MaxTxs
         /\ stage[obj[t]] # "free"
         /\ pc[t] = "read" \/ Modifying(t)
         /\ dead[t] # NoBody => pc[t] = "release"
BY DEF IInv, TypeOK, CallShape, Idle, Modifying

\* There is never more to do than building the largest object, and taking it apart
\* again.
LEMMA WorkType ==
  ASSUME IInv, Pieces, NEW t \in Thread
  PROVE  Work(t) \in 0..(3 * MaxTxs + 2)
<1>1. CASE Idle(t)
  BY <1>1, MaxTxsAssumption DEF Work, Idle
<1>2. CASE ~Idle(t)
  <2>1. len[obj[t]] \in 0..MaxTxs
    BY <1>2, CallType
  <2>2. Cardinality(Held(obj[t])) \in 0..len[obj[t]]
    BY <2>1, HeldType
  <2>3. pc[t] = "read" => Len(out[t]) \in 0..len[obj[t]]
    BY <2>1, OutType DEF Pieces
  <2>4. CASE pc[t] = "read"
    BY <2>1, <2>3, <2>4, MaxTxsAssumption DEF Work, Idle
  <2>5. CASE pc[t] = "release"
    <3>1. Work(t) \in {2 * Cardinality(Held(obj[t])) + 1, 2 * Cardinality(Held(obj[t])) + 2}
      BY <2>1, <2>2, <2>5 DEF Work, Idle
    <3> QED
      BY <2>1, <2>2, <3>1, MaxTxsAssumption
  <2>6. CASE pc[t] \in {"new", "copy"}
    <3>1. Work(t) = 3 * len[obj[t]] + 2 - Cardinality(Held(obj[t]))
      BY <2>6 DEF Work, Idle
    <3> QED
      BY <2>1, <2>2, <3>1, MaxTxsAssumption
  <2> QED
    BY <1>2, <2>4, <2>5, <2>6, CallType DEF Modifying
<1> QED
  BY <1>1, <1>2

\* A step writes the slots and the length of the object that its thread makes or
\* destroys, or begins a free cell; what a thread has to destroy is its own matter.
LEMMA OwnSlots ==
  ASSUME IInv, NEW t \in Thread, Call(t) \/ Continue(t)
  PROVE  /\ \/ slot' = slot
            \/ Modifying(t) /\ \E k, x : slot' = [slot EXCEPT ![<<obj[t], k>>] = x]
         /\ \/ len' = len
            \/ Modifying(t) /\ \E n : len' = [len EXCEPT ![obj[t]] = n]
            \/ \E h \in Handle : \E n : stage[h] = "free" /\ len' = [len EXCEPT ![h] = n]
         /\ \/ dead' = dead
            \/ \E x : dead' = [dead EXCEPT ![t] = x]
<1>1. CASE Call(t)
  <2>1. CASE Free(t) \/ ToBytes(t)
    BY <2>1 DEF Free, ToBytes, heapVars
  <2>2. CASE \E h \in Handle : \E kd, n, act : Begin(t, h, kd, n, act)
    BY <2>2 DEF Begin
  <2> QED
    BY <1>1, <2>1, <2>2, BeginShape
<1>2. CASE Deserialize(t) \/ CopyRef(t) \/ CopyData(t)
  BY <1>2 DEF Deserialize, CopyRef, CopyData, Allocate, Share, Modifying, callVars
<1>3. CASE Release(t)
  BY <1>3 DEF Release, Drop, Modifying
<1>4. CASE Released(t)
  BY <1>4 DEF Released, GoIdle, Modifying
<1>5. CASE Return(t) \/ Throw(t) \/ Destroy(t) \/ Write(t) \/ WriteDone(t) \/ WriteFailed(t)
  BY <1>5 DEF Return, Throw, Destroy, Write, WriteDone, WriteFailed, GoIdle, heapVars
<1> QED
  BY <1>1, <1>2, <1>3, <1>4, <1>5 DEF Continue

\* What one thread does makes the calls of the others no longer.
LEMMA OthersWork ==
  ASSUME IInv, NEW t \in Thread, Call(t) \/ Continue(t), NEW u \in Thread \ {t}, ~Idle(u)
  PROVE  Work(u)' = Work(u)
<1>1. pc'[u] = pc[u] /\ obj'[u] = obj[u] /\ out'[u] = out[u]
  BY CallSteps
<1>2. PICK h \in Handle : h = obj[u] /\ stage[h] # "free" /\ (pc[u] = "read" \/ Modifying(u))
  BY CallType
<1>3. Modifying(t) => obj[t] # h
  <2>1. Modifying(t) => stage[obj[t]] \in {"building", "dying"}
    BY DEF IInv, CallShape, Modifying
  <2>2. pc[u] = "read" => stage[h] = "live"
    BY <1>2 DEF IInv, CallShape
  <2> QED
    BY <1>2, <2>1, <2>2 DEF IInv, OneOwner
<1>4. len'[h] = len[h]
  BY <1>2, <1>3, OwnSlots DEF IInv, TypeOK
<1>5. dead'[u] = dead[u]
  BY OwnSlots DEF IInv, TypeOK
<1>6. \A k \in 1..len[h] : slot'[<<h, k>>] = slot[<<h, k>>]
  <2>1. CASE slot' = slot
    BY <2>1
  <2>2. CASE Modifying(t) /\ \E k, x : slot' = [slot EXCEPT ![<<obj[t], k>>] = x]
    <3>1. PICK k, x : slot' = [slot EXCEPT ![<<obj[t], k>>] = x]
      BY <2>2
    <3>2. \A j \in 1..len[h] : <<obj[t], k>> # <<h, j>> /\ <<h, j>> \in Slot
      <4>1. len[h] \in 0..MaxTxs
        BY DEF IInv, TypeOK
      <4> QED
        BY <1>3, <2>2, <4>1, MaxTxsAssumption DEF Slot, Pos
    <3> QED
      BY <3>1, <3>2 DEF IInv, TypeOK
  <2> QED
    BY <2>1, <2>2, OwnSlots
<1>7. Held(h)' = Held(h)
  BY <1>4, <1>6 DEF Held
<1>8. Held(obj[u])' = Held(h)'
  BY <1>1, <1>2
<1>9. Cardinality(Held(obj[u]))' = Cardinality(Held(obj[u]))
  BY <1>2, <1>7, <1>8
<1>10. len'[obj'[u]] = len[obj[u]]
  BY <1>1, <1>2, <1>4
<1> QED
  BY <1>1, <1>5, <1>9, <1>10 DEF Work, Idle

\* A member that is put into an empty place is one more that is there.
LEMMA FillsOne ==
  ASSUME IInv, NEW t \in Thread, Deserialize(t) \/ CopyRef(t) \/ CopyData(t)
  PROVE  Cardinality(Held(obj[t])') = Cardinality(Held(obj[t])) + 1
<1> DEFINE h == obj[t]
<1>1. PICK k \in Pos, b \in Body :
        /\ pc[t] \in {"new", "copy"} /\ NextSlot(h, k)
        /\ slot' = [slot EXCEPT ![<<h, k>>] = b]
        /\ UNCHANGED <<len, obj>>
  <2>1. CASE Deserialize(t)
    BY <2>1 DEF Deserialize, Allocate, callVars
  <2>2. CASE CopyData(t)
    <3>1. PICK b \in Body : NextSlot(h, 1) /\ slot' = [slot EXCEPT ![<<h, 1>>] = b]
      BY <2>2 DEF CopyData, Allocate
    <3>2. 1 \in Pos /\ pc[t] \in {"new", "copy"} /\ UNCHANGED <<len, obj>>
      BY <2>2, MaxTxsAssumption DEF CopyData, Pos, callVars
    <3> QED
      BY <3>1, <3>2
  <2>3. CASE CopyRef(t)
    <3>1. PICK k \in Pos : /\ pc[t] = "copy" /\ NextSlot(h, k)
                           /\ Share(<<h, k>>, slot[<<src[t].h, src[t].off + k>>])
                           /\ UNCHANGED <<len, obj>>
      BY <2>3 DEF CopyRef, callVars
    <3>2. slot[<<src[t].h, src[t].off + k>>] \in Body
      BY <3>1, SourceInUse DEF NextSlot
    <3> QED
      BY <3>1, <3>2 DEF Share
  <2> QED
    BY <2>1, <2>2, <2>3
<1>2. h \in Handle /\ len[h] \in 0..MaxTxs
  BY <1>1 DEF IInv, TypeOK, CallShape
<1>3. \A j \in 1..len[h] : <<h, j>> \in Slot
  BY <1>2, MaxTxsAssumption DEF Slot, Pos
<1>4. Held(h)' = Held(h) \cup {k} /\ k \notin Held(h)
  BY <1>1, <1>2, <1>3, NullAssumption DEF Held, NextSlot, IInv, TypeOK
<1>5. IsFiniteSet(Held(h))
  BY <1>2, HeldType
<1> QED
  BY ONLY <1>4, <1>5, FS_AddElement

\* One that is dropped is one less.
LEMMA DropsOne ==
  ASSUME IInv, NEW t \in Thread, Release(t)
  PROVE  Cardinality(Held(obj[t])') = Cardinality(Held(obj[t])) - 1
<1> DEFINE h == obj[t]
<1>1. PICK k \in 1..len[h] : slot[<<h, k>>] # NoBody /\ Drop(t, <<h, k>>)
  BY DEF Release
<1>2. h \in Handle /\ len[h] \in 0..MaxTxs /\ UNCHANGED <<len, obj>>
  BY DEF Release, IInv, TypeOK, CallShape
<1>3. \A j \in 1..len[h] : <<h, j>> \in Slot
  BY <1>2, MaxTxsAssumption DEF Slot, Pos
<1>4. Held(h)' = Held(h) \ {k} /\ k \in Held(h)
  BY <1>1, <1>2, <1>3 DEF Held, Drop, IInv, TypeOK
<1>5. IsFiniteSet(Held(h))
  BY <1>2, HeldType
<1> QED
  BY ONLY <1>4, <1>5, FS_RemoveElement

\* Every step of a call brings its end nearer, giving up a construction included.
LEMMA OwnWork ==
  ASSUME IInv, Pieces, NEW t \in Thread, Continue(t)
  PROVE  Work(t)' < Work(t)
<1> DEFINE h == obj[t]
           n == len[h]
           c == Cardinality(Held(h))
<1>0. ~Idle(t)
  BY DEF IInv, CallShape, Continue, Deserialize, CopyRef, CopyData, Return, Throw, Release,
     Destroy, Released, Write, WriteDone, WriteFailed, Idle
<1>1. h \in Handle /\ n \in 0..MaxTxs /\ c \in 0..n
  <2>1. h \in Handle /\ n \in 0..MaxTxs
    BY <1>0, CallType
  <2> QED
    BY <2>1, HeldType
<1>2. CASE Deserialize(t) \/ CopyRef(t) \/ CopyData(t)
  <2>1. pc[t] \in {"new", "copy"} /\ UNCHANGED <<len, obj, pc>>
    BY <1>2 DEF Deserialize, CopyRef, CopyData, callVars
  <2>2. Work(t) = 3 * n + 2 - c /\ Work(t)' = 3 * n + 2 - Cardinality(Held(h)')
    BY <2>1 DEF Work, Idle
  <2> QED
    BY <1>1, <1>2, <2>2, FillsOne
<1>3. CASE Throw(t)
  <2>1. /\ pc[t] \in {"new", "copy"} /\ UNCHANGED <<slot, len, obj, dead>>
        /\ pc'[t] = "release" /\ dead[t] = NoBody
    BY <1>3 DEF Throw, IInv, TypeOK, CallShape
  <2>2. Held(h)' = Held(h)
    BY <2>1 DEF Held
  <2>3. Work(t) = 3 * n + 2 - c /\ Work(t)' = 2 * c + 1
    BY <1>1, <2>1, <2>2 DEF Work, Idle
  <2> QED
    BY <1>1, <2>3
<1>4. CASE Release(t)
  <2>1. /\ pc[t] = "release" /\ UNCHANGED <<len, obj, pc>> /\ dead[t] = NoBody
    BY <1>4 DEF Release
  <2>2. Cardinality(Held(h)') = c - 1
    BY <1>4, DropsOne
  <2>3. Work(t) = 2 * c + 1 /\ Work(t)' \in {2 * (c - 1) + 1, 2 * (c - 1) + 2}
    BY <1>1, <2>1, <2>2 DEF Work, Idle
  <2> QED
    BY <1>1, <2>3
<1>5. CASE Destroy(t)
  <2>1. /\ pc[t] = "release" /\ UNCHANGED <<slot, len, obj, pc>>
        /\ dead[t] # NoBody /\ dead'[t] = NoBody
    BY <1>5 DEF Destroy, IInv, TypeOK, CallShape
  <2>2. Held(h)' = Held(h)
    BY <2>1 DEF Held
  <2>3. Work(t) = 2 * c + 2 /\ Work(t)' = 2 * c + 1
    BY <1>1, <2>1, <2>2 DEF Work, Idle
  <2> QED
    BY <1>1, <2>3
<1>6. CASE Write(t)
  <2>1. pc[t] = "read" /\ UNCHANGED <<len, obj, pc>>
    BY <1>6 DEF Write, heapVars
  <2>2. Len(out[t]) \in Nat /\ Len(out'[t]) = Len(out[t]) + 1
    <3>1. \E x : out'[t] = Append(out[t], x)
      BY <1>6 DEF Write, IInv, TypeOK
    <3> QED
      BY <3>1, OutType
  <2>3. Work(t) = n - Len(out[t]) + 1 /\ Work(t)' = n - (Len(out[t]) + 1) + 1
    BY <2>1, <2>2 DEF Work, Idle
  <2> QED
    BY <1>1, <2>2, <2>3
<1>7. CASE GoIdle(t)
  <2>1. pc'[t] = "idle"
    BY <1>7 DEF GoIdle, IInv, TypeOK
  <2>2. Work(t)' = 0
    BY <2>1 DEF Work, Idle
  <2>3. Work(t) > 0
    <3>1. CASE pc[t] = "read"
      <4>1. Len(out[t]) \in 0..n
        BY <3>1, OutType DEF Pieces
      <4>2. Work(t) = n - Len(out[t]) + 1
        BY <3>1 DEF Work, Idle
      <4> QED
        BY <1>1, <4>1, <4>2
    <3>2. CASE pc[t] = "release"
      <4>1. Work(t) \in {2 * c + 1, 2 * c + 2}
        BY <1>1, <3>2 DEF Work, Idle
      <4> QED
        BY <1>1, <4>1
    <3>3. CASE pc[t] \in {"new", "copy"}
      <4>1. Work(t) = 3 * n + 2 - c
        BY <3>3 DEF Work, Idle
      <4> QED
        BY <1>1, <4>1
    <3> QED
      BY <1>0, <3>1, <3>2, <3>3, CallType DEF Modifying
  <2> QED
    BY <2>2, <2>3
<1> QED
  BY <1>2, <1>3, <1>4, <1>5, <1>6, <1>7
  DEF Continue, Return, Released, WriteDone, WriteFailed

\* Whatever the other threads do meanwhile, a call is over after at most as many of its
\* own steps as its object's size allows: nobody makes it wait or start again.
THEOREM CallsAreBounded == Spec => CallsBounded
<1> DEFINE InRange == \A t \in Thread : Work(t) \in 0..(3 * MaxTxs + 2)
           Nearer == \A t \in Thread :
                       /\ Continue(t) => Work(t)' < Work(t)
                       /\ ~Idle(t) /\ ~Continue(t) => Work(t)' = Work(t)
<1>1. IInv /\ Pieces => InRange
  BY WorkType
<1>2. ASSUME IInv, Pieces, [Next]_vars PROVE Nearer
  <2>1. ASSUME NEW t \in Thread, Continue(t) PROVE Work(t)' < Work(t)
    BY <1>2, <2>1, OwnWork
  <2>2. ASSUME NEW t \in Thread, ~Idle(t), ~Continue(t) PROVE Work(t)' = Work(t)
    <3>1. CASE UNCHANGED vars
      BY <3>1 DEF vars, heapVars, callVars, Work, Held, Idle
    <3>2. CASE Next
      <4>1. PICK u \in Thread : Call(u) \/ Continue(u)
        BY <3>2 DEF Next
      <4>2. ~Call(t)
        BY <2>2, BeginShape DEF Begin, Free, ToBytes
      <4> QED
        BY <1>2, <2>2, <4>1, <4>2, OthersWork
    <3> QED
      BY <1>2, <3>1, <3>2
  <2> QED
    BY <2>1, <2>2
<1>3. InRange' /\ Nearer => \A t \in Thread :
                             /\ Work(t)' \in 0..(3 * MaxTxs + 2)
                             /\ Continue(t) => Work(t)' < Work(t)
                             /\ ~Idle(t) /\ ~Continue(t) => Work(t)' = Work(t)
  OBVIOUS
<1>4. Spec => []Pieces
  BY InitPieces, NextPieces, Invariance, PTL DEF Spec
<1> HIDE DEF InRange, Nearer
<1> QED
  BY <1>1, <1>2, <1>3, <1>4, Invariance, PTL DEF Spec, CallsBounded
=============================================================================
