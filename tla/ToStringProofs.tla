-------------------------- MODULE ToStringProofs --------------------------
(***************************************************************************)
(* Proofs about ToString, for any table of names and any size of buffer.   *)
(***************************************************************************)
EXTENDS ToString, FiniteSetTheorems, TLAPS

LEMMA BlankType == Blank \in [Cell -> Int] /\ \A j \in Cell : Blank[j] = Old
BY DEF Blank, Old

\* What vsnprintf leaves behind the buffer and in front of it.
LEMMA PutFrame ==
  ASSUME NEW m \in [Cell -> Int], NEW at \in Nat, NEW sz \in Nat, NEW n \in Nat, NEW c \in Nat
  PROVE  /\ Put(m, at, sz, n, c) \in [Cell -> Int]
         /\ \A j \in Cell : (j < at \/ j >= at + sz) => Put(m, at, sz, n, c)[j] = m[j]
BY CapacityAssumption DEF Put, Cell, Lesser, Nul

\* Printing the next piece behind a text so far printed, or into a fresh buffer, is
\* like printing both at once.
LEMMA PutAppends ==
  ASSUME NEW m \in [Cell -> Int], NEW num \in Nat, NEW size \in Nat, NEW n \in Nat,
         NEW sz \in Nat, sz = IF num < size THEN size - num ELSE 0, NEW before,
         (num = 0 /\ m = before) \/ PrintedOver(m, num, size, before)
  PROVE  PrintedOver(Put(m, num, sz, n, num), num + n, size, before)
<1> SUFFICES ASSUME NEW j \in Cell, j < size
             PROVE  Put(m, num, sz, n, num)[j]
                      = IF j < Lesser(num + n, size - 1) THEN j
                        ELSE IF j = Lesser(num + n, size - 1) THEN Nul
                        ELSE before[j]
  BY DEF PrintedOver
<1>1. j \in Nat
  BY CapacityAssumption DEF Cell
<1>2. CASE num = 0 /\ m = before
  BY <1>1, <1>2 DEF Put, Lesser
<1>3. CASE ~(num = 0 /\ m = before)
  BY <1>1, <1>3 DEF Put, Lesser, PrintedOver
<1> QED
  BY <1>2, <1>3

LEMMA PrintedIsOverBlank ==
  ASSUME NEW m, NEW n, NEW sz, PrintedOver(m, n, sz, Blank)
  PROVE  Printed(m, n, sz)
BY BlankType DEF PrintedOver, Printed

LEMMA NamesAreNat ==
  Len(NameLen) \in Nat /\ Flag # {} /\ \A f \in Flag : f \in Nat /\ f # Unknown /\ NameLen[f] \in Nat
<1>1. NameLen \in Seq(Nat) /\ NameLen # <<>>
  BY NameLenAssumption
<1>2. Len(NameLen) \in Nat /\ Len(NameLen) # 0 /\ \A f \in 1..Len(NameLen) : NameLen[f] \in Nat
  BY <1>1
<1>3. 1 \in Flag
  BY <1>2 DEF Flag
<1> QED
  BY <1>2, <1>3 DEF Flag, Unknown

-----------------------------------------------------------------------------
(* Counting characters.                                                    *)

\* The characters of one more name are as many as it has.
LEMMA OneMoreName ==
  ASSUME NEW S, IsFiniteSet(Characters(S)), NEW f \in Flag, f \notin S
  PROVE  /\ IsFiniteSet(Characters(S \cup {f}))
         /\ Cardinality(Characters(S \cup {f})) = Cardinality(Characters(S)) + NameLen[f]
<1> DEFINE n == NameLen[f]
           T == {f} \X (1..n)
           g == [k \in 1..n |-> <<f, k>>]
<1>1. n \in Nat
  BY NamesAreNat
<1>2. IsFiniteSet(1..n) /\ Cardinality(1..n) = n
  <2> HIDE DEF n
  <2>1. /\ IsFiniteSet(1..n)
        /\ Cardinality(1..n) = IF 1 > n THEN 0 ELSE (n - 1) + 1
    BY ONLY <1>1, FS_Interval
  <2> QED
    BY ONLY <1>1, <2>1
<1>3. g \in Bijection(1..n, T)
  BY DEF Bijection, Injection, Surjection, IsInjective
<1>4. IsFiniteSet(T) /\ Cardinality(T) = n
  BY <1>2, <1>3, FS_Bijection DEF ExistsBijection
<1>5. Characters(S \cup {f}) = Characters(S) \cup T
  BY DEF Characters
<1>6. Characters(S) \cap T = {}
  BY DEF Characters
<1>7. Cardinality(Characters(S) \cap T) = 0
  BY <1>6, FS_EmptySet
<1>8. Cardinality(Characters(S)) \in Nat
  BY FS_CardinalityType
<1>9. /\ IsFiniteSet(Characters(S) \cup T)
      /\ Cardinality(Characters(S) \cup T) = Cardinality(Characters(S)) + n
  <2> HIDE DEF T
  <2>1. /\ IsFiniteSet(Characters(S) \cup T)
        /\ Cardinality(Characters(S) \cup T)
             = Cardinality(Characters(S)) + Cardinality(T) - Cardinality(Characters(S) \cap T)
    BY <1>4, FS_Union
  <2> HIDE DEF n
  <2> QED
    BY <1>1, <1>4, <1>7, <1>8, <2>1
<1> HIDE DEF T
<1> QED
  BY <1>5, <1>9

LEMMA NoNames == IsFiniteSet(Characters({})) /\ Cardinality(Characters({})) = 0
<1>1. Characters({}) = {}
  BY DEF Characters
<1> QED
  BY <1>1, FS_EmptySet

\* A name more in a text: its characters, and a separator if it is not the first.
LEMMA OneMoreJoined ==
  ASSUME NEW S \in SUBSET Flag, IsFiniteSet(Characters(S)), NEW f \in Flag, f \notin S
  PROVE  /\ IsFiniteSet(Characters(S \cup {f}))
         /\ Joined(S \cup {f}) = IF S = {} THEN NameLen[f] ELSE Joined(S) + NameLen[f] + Sep
<1>1. IsFiniteSet(S)
  <2>1. IsFiniteSet(Flag)
    BY NamesAreNat, FS_Interval DEF Flag
  <2> QED
    BY <2>1, FS_Subset
<1>2. /\ Cardinality(S) \in Nat /\ Cardinality(S \cup {f}) = Cardinality(S) + 1
      /\ S = {} => Cardinality(S) = 0
  BY <1>1, FS_CardinalityType, FS_AddElement, FS_EmptySet
<1>3. /\ IsFiniteSet(Characters(S \cup {f}))
      /\ Cardinality(Characters(S \cup {f})) = Cardinality(Characters(S)) + NameLen[f]
      /\ Cardinality(Characters(S)) \in Nat /\ NameLen[f] \in Nat
  BY OneMoreName, FS_CardinalityType, NamesAreNat
<1>4. S = {} => Cardinality(Characters(S)) = 0
  BY NoNames
<1>5. Joined(S \cup {f}) = (Cardinality(Characters(S)) + NameLen[f]) + (3 * Cardinality(S))
  BY <1>2, <1>3 DEF Joined, Sep
<1>6. CASE S = {}
  BY <1>2, <1>3, <1>4, <1>5, <1>6
<1>7. CASE S # {}
  <2>1. Joined(S) = Cardinality(Characters(S)) + (3 * (Cardinality(S) - 1))
    BY DEF Joined, Sep
  <2> QED
    BY <1>2, <1>3, <1>5, <1>7, <2>1 DEF Sep
<1> QED
  BY <1>3, <1>6, <1>7

-----------------------------------------------------------------------------
(* The inductive invariant.                                                *)

LEMMA InitInv == Init => IInv
<1> SUFFICES ASSUME Init PROVE IInv
  OBVIOUS
<1>1. TypeOK
  BY BlankType, NamesAreNat DEF Init, TypeOK
<1>2. NoOverrun
  BY BlankType DEF Init, NoOverrun
<1>3. LikeSnprintf /\ LengthIsTotal /\ WholeText
  BY DEF Init, LikeSnprintf, LengthIsTotal, WholeText
<1>4. Fresh /\ Context /\ Counted /\ Prefix /\ Asked /\ Sized
  BY DEF Init, Fresh, Context, Counted, Prefix, Asked, Sized
<1> QED
  BY <1>1, <1>2, <1>3, <1>4 DEF IInv

\* The beginning of a call, or of nothing, with memory that holds no text yet.
LEMMA SetupInv ==
  ASSUME IInv, NEW p \in {"idle", "body"}, NEW m \in {"direct", "query", "fill", "measure", "describe"},
         NEW w \in Convertible \cup {Nothing}, NEW l \in Nat, NEW memory \in [Cell -> Int],
         \A j \in Cell : j >= l => memory[j] = Old,
         p = "body" => w \in Convertible,
         IF m = "fill" THEN /\ memory = [Blank EXCEPT ![l - 1] = Nul]
                            /\ Unknown \notin w.flags /\ l = TextLen(w) + 1
         ELSE memory = Blank,
         Setup(p, m, w, l, memory)
  PROVE  IInv'
<1> USE DEF Setup
<1>1. TypeOK'
  BY NamesAreNat DEF TypeOK
<1>2. NoOverrun'
  BY DEF NoOverrun
<1>3. LikeSnprintf' /\ LengthIsTotal' /\ WholeText' /\ Fresh' /\ Context' /\ Counted'
  BY DEF LikeSnprintf, LengthIsTotal, WholeText, Fresh, Context, Counted
<1>4. Asked'
  BY DEF Asked, Convertible
<1>5. Prefix'
  BY DEF Prefix, Before, Blank, Cell
<1>6. Sized'
  BY DEF Sized, TextLen, FlagsLen, Joined, Characters, Flag
<1> QED
  BY <1>1, <1>2, <1>3, <1>4, <1>5, <1>6 DEF IInv

\* The end of a call.
LEMMA ReturnInv ==
  ASSUME IInv, pc \in {"body", "loop"}, NEW r \in Nat \cup {-1}, Return(r),
         UNCHANGED <<ctx, i, first>>,
         mem' \in [Cell -> Int], \A j \in Cell : j >= len => mem'[j] = Old,
         what.fn = "flags" => /\ r = IF Unknown \in what.flags THEN -1 ELSE FlagsLen(what.flags)
                              /\ Unknown \notin what.flags => r \in Nat /\ PrintedOver(mem', r, len, Before),
         what.fn = "object" => /\ r = what.n /\ r \in Nat
                               /\ \A j \in Cell : mem'[j] = IF j < Lesser(r, len) THEN j ELSE Before[j]
  PROVE  IInv'
<1> USE DEF Return
<1>1. TypeOK'
  BY DEF IInv, TypeOK
<1>2. NoOverrun'
  BY DEF NoOverrun
<1>3. LikeSnprintf'
  <2> SUFFICES ASSUME mode = "direct", what.fn = "flags", r >= 0
               PROVE  Printed(mem', r, len)
    BY DEF LikeSnprintf
  <2>1. Before = Blank /\ Unknown \notin what.flags
    BY DEF Before
  <2> QED
    BY <2>1, PrintedIsOverBlank
<1>4. LengthIsTotal'
  BY DEF LengthIsTotal, FlagsLen, Joined, Characters, Flag
<1>5. WholeText'
  <2> SUFFICES ASSUME mode = "fill"
               PROVE  /\ len = r + 1
                      /\ \A j \in 0..(r - 1) : mem'[j] = j
                      /\ mem'[r] = Nul
    BY DEF WholeText
  <2>1. what \in Convertible /\ Unknown \notin what.flags /\ len = TextLen(what) + 1
    BY DEF IInv, Asked, Sized
  <2>2. TextLen(what) <= Capacity
    BY <2>1, RoomAssumption
  <2>3. what.fn \in {"flags", "object"}
    BY <2>1 DEF Convertible
  <2>4. r \in Nat /\ r = TextLen(what)
    BY <2>1, <2>3 DEF TextLen
  <2>5. \A j \in 0..r : j \in Cell
    BY <2>2, <2>4, CapacityAssumption DEF Cell
  <2>6. len = r + 1 /\ r \in 0..r
    BY <2>1, <2>4
  <2>7. CASE what.fn = "flags"
    <3>1. PrintedOver(mem', r, r + 1, Before)
      BY <2>1, <2>6, <2>7
    <3>2. \A j \in 0..r : mem'[j] = IF j < r THEN j ELSE Nul
      BY <2>4, <2>5, <3>1 DEF PrintedOver, Lesser
    <3>3. mem'[r] = Nul
      BY <2>4, <2>6, <3>2
    <3>4. \A j \in 0..(r - 1) : j \in 0..r /\ j < r
      BY <2>4
    <3>5. \A j \in 0..(r - 1) : mem'[j] = j
      BY <3>2, <3>4
    <3> QED
      BY <2>6, <3>3, <3>5
  <2>8. CASE what.fn = "object"
    <3>1. Before = [Blank EXCEPT ![r] = Nul]
      <4>1. len - 1 = r
        BY <2>4, <2>6
      <4> QED
        BY <4>1 DEF Before
    <3>2. Before[r] = Nul
      BY <2>5, <2>6, <3>1 DEF Blank
    <3>3. \A j \in 0..r : mem'[j] = IF j < r THEN j ELSE Before[j]
      BY <2>4, <2>5, <2>6, <2>8 DEF Lesser
    <3> QED
      BY <2>4, <2>6, <3>2, <3>3
  <2> QED
    BY <2>3, <2>7, <2>8
<1>6. Fresh' /\ Context' /\ Counted' /\ Prefix'
  BY DEF Fresh, Context, Counted, Prefix
<1>7. Asked' /\ Sized'
  BY DEF IInv, Asked, Sized, Convertible, TextLen, FlagsLen, Joined, Characters, Flag
<1> QED
  BY <1>1, <1>2, <1>3, <1>4, <1>5, <1>6, <1>7 DEF IInv

\* A whole word in one call of snprintf.
LEMMA WordInv ==
  ASSUME IInv, NEW set, NEW n \in Nat, Word(set, n), Unknown \notin set, n = FlagsLen(set)
  PROVE  IInv'
<1>1. mem \in [Cell -> Int] /\ len \in Nat /\ pc = "body" /\ mem = Before
  BY DEF IInv, TypeOK, Word, Prefix
<1>2. mem' \in [Cell -> Int] /\ \A j \in Cell : j >= len => mem'[j] = Old
  <2>1. mem' = Put(mem, 0, len, n, 0)
    BY DEF Word
  <2>2. \A j \in Cell : j >= len => Put(mem, 0, len, n, 0)[j] = mem[j]
    BY <1>1, PutFrame
  <2> QED
    BY <1>1, <2>1, <2>2, PutFrame DEF IInv, NoOverrun
<1>3. PrintedOver(mem', n, len, Before)
  <2>1. len = IF 0 < len THEN len - 0 ELSE 0
    BY <1>1
  <2>2. 0 \in Nat /\ 0 + n = n
    OBVIOUS
  <2>3. PrintedOver(Put(mem, 0, len, n, 0), 0 + n, len, Before)
    BY ONLY <1>1, <2>1, <2>2, n \in Nat, PutAppends
  <2>4. PrintedOver(Put(mem, 0, len, n, 0), n, len, Before)
    BY ONLY <2>2, <2>3
  <2> QED
    BY <2>4 DEF Word
<1>4. what.fn = "flags" /\ what.flags = set /\ Return(n) /\ UNCHANGED <<ctx, i, first>>
  BY DEF Word
<1> QED
  BY <1>1, <1>2, <1>3, <1>4, ReturnInv

\* What flags have been met, after one of them and after another.
LEMMA MetMore ==
  ASSUME IInv, pc = "loop", i \in Flag
  PROVE  /\ Met \in SUBSET Flag /\ i \notin Met /\ what.flags \subseteq Flag
         /\ {f \in what.flags : f < i + 1} = IF i \in what.flags THEN Met \cup {i} ELSE Met
<1>1. what.flags \subseteq Flag
  <2>1. what.flags \subseteq Flag \cup {Unknown}
    BY DEF IInv, TypeOK, Convertible, Nothing
  <2> QED
    BY <2>1 DEF IInv, Counted
<1>2. \A f \in what.flags : f \in Nat
  BY <1>1, NamesAreNat
<1>3. i \in Nat
  BY NamesAreNat
<1> QED
  BY <1>1, <1>2, <1>3 DEF Met

LEMMA PrintInv == ASSUME IInv, PrintName PROVE IInv'
<1> DEFINE r == NameLen[i] + IF first THEN 0 ELSE Sep
<1>1. /\ mem \in [Cell -> Int] /\ len \in Nat /\ i \in Flag /\ i \in Nat
      /\ ctx \in [buffer : Nat, bufsz : Nat, num : Nat]
      /\ pc = "loop" /\ pc' = pc /\ mode' = mode /\ what' = what /\ len' = len
      /\ first' = FALSE /\ i' = i + 1 /\ i \in what.flags /\ NameLen[i] \in Nat
  BY NamesAreNat DEF IInv, TypeOK, PrintName
<1>2. r \in Nat
  BY <1>1 DEF Sep
<1>3. /\ ctx.buffer = ctx.num
      /\ ctx.bufsz = IF ctx.num < len THEN len - ctx.num ELSE 0
      /\ first => ctx.num = 0
  BY <1>1 DEF IInv, Context, Counted
<1>4. /\ mem' = Put(mem, ctx.num, ctx.bufsz, r, ctx.num)
      /\ ctx' = [buffer |-> ctx.num + r,
                 bufsz |-> IF r < ctx.bufsz THEN ctx.bufsz - r ELSE 0,
                 num |-> ctx.num + r]
  BY <1>3 DEF PrintName, Advance
<1>11. ctx.num \in Nat /\ ctx.bufsz \in Nat
  BY <1>1
<1>9. Counted'
  <2>1. /\ Met \in SUBSET Flag /\ i \notin Met
        /\ Met' = Met \cup {i}
    BY <1>1, MetMore DEF Met
  <2>2. /\ IsFiniteSet(Characters(Met))
        /\ IF first THEN ctx.num = 0 /\ Met = {} ELSE ctx.num = Joined(Met) /\ Met # {}
    BY <1>1 DEF IInv, Counted
  <2>3. /\ IsFiniteSet(Characters(Met \cup {i}))
        /\ Joined(Met \cup {i}) = IF Met = {} THEN NameLen[i] ELSE Joined(Met) + NameLen[i] + Sep
    BY <1>1, <2>1, <2>2, OneMoreJoined
  <2>4. ctx'.num = ctx.num + r
    BY <1>4
  <2>5. ctx'.num = Joined(Met \cup {i})
    <3>1. CASE first
      BY <1>1, <2>2, <2>3, <2>4, <3>1
    <3>2. CASE ~first
      <4>1. Joined(Met) = ctx.num
        BY <2>2, <3>2
      <4> QED
        BY <1>1, <1>11, <2>2, <2>3, <2>4, <3>2, <4>1 DEF Sep
    <3> QED
      BY <3>1, <3>2
  <2>6. Characters(Met)' = Characters(Met') /\ Joined(Met)' = Joined(Met')
    BY DEF Characters, Joined
  <2>7. Met' # {}
    BY <2>1
  <2> HIDE DEF r
  <2> QED
    BY <1>1, <2>1, <2>3, <2>5, <2>6, <2>7 DEF IInv, Counted, Flag
<1> HIDE DEF r
<1>5. TypeOK'
  <2>1. ctx' \in [buffer : Nat, bufsz : Nat, num : Nat]
    BY <1>1, <1>2, <1>4
  <2>2. mem' \in [Cell -> Int]
    BY <1>1, <1>2, <1>4, <1>11, PutFrame
  <2>3. i' \in 1..(Len(NameLen) + 1)
    BY <1>1, NamesAreNat DEF Flag
  <2> QED
    BY <1>1, <2>1, <2>2, <2>3 DEF PrintName, IInv, TypeOK
<1>6. NoOverrun'
  <2>1. ASSUME NEW j \in Cell, j >= len
        PROVE  mem'[j] = Old
    <3>1. CASE ctx.num < len
      <4>1. j >= ctx.num + ctx.bufsz
        BY <1>1, <1>3, <2>1, <3>1, CapacityAssumption DEF Cell
      <4> QED
        <5>1. Put(mem, ctx.num, ctx.bufsz, r, ctx.num)[j] = mem[j]
          <6>1. j \in Nat
            BY CapacityAssumption DEF Cell
          <6> QED
            BY <1>2, <1>11, <4>1, <6>1 DEF Put, Lesser
        <5> QED
          BY <1>4, <2>1, <5>1 DEF IInv, NoOverrun
    <3>2. CASE ~(ctx.num < len)
      <4>1. ctx.bufsz = 0
        BY <1>3, <3>2
      <4>2. Put(mem, ctx.num, ctx.bufsz, r, ctx.num)[j] = mem[j]
        BY <4>1 DEF Put
      <4> QED
        BY <1>4, <2>1, <4>2 DEF IInv, NoOverrun
    <3> QED
      BY <3>1, <3>2
  <2> QED
    BY <1>1, <2>1 DEF NoOverrun
<1>7. LikeSnprintf' /\ LengthIsTotal' /\ WholeText' /\ Fresh'
  BY <1>1 DEF LikeSnprintf, LengthIsTotal, WholeText, Fresh
<1>8. Context'
  BY <1>1, <1>2, <1>3, <1>4 DEF Context
<1>10. Prefix'
  <2>1. (ctx.num = 0 /\ mem = Before) \/ PrintedOver(mem, ctx.num, len, Before)
    BY <1>1, <1>3 DEF IInv, Prefix
  <2>2. PrintedOver(Put(mem, ctx.num, ctx.bufsz, r, ctx.num), ctx.num + r, len, Before)
    BY <1>1, <1>2, <1>3, <1>11, <2>1, PutAppends
  <2>3. Before' = Before
    BY <1>1 DEF Before
  <2>4. PrintedOver(mem', ctx'.num, len', Before')
    BY <1>1, <1>4, <2>2, <2>3
  <2>5. PrintedOver(mem, ctx.num, len, Before)' = PrintedOver(mem', ctx'.num, len', Before')
    BY DEF PrintedOver
  <2> QED
    BY <1>1, <2>4, <2>5 DEF Prefix
<1>12. Asked' /\ Sized'
  BY <1>1 DEF IInv, Asked, Sized, Convertible, TextLen, FlagsLen, Joined, Characters, Flag
<1> QED
  BY <1>5, <1>6, <1>7, <1>8, <1>9, <1>10, <1>12 DEF IInv

LEMMA SkipInv == ASSUME IInv, Skip PROVE IInv'
<1> USE DEF IInv, Skip
<1>1. TypeOK'
  BY NamesAreNat DEF TypeOK, Flag
<1>2. Met' = Met
  BY MetMore DEF Met
<1>3. Counted'
  BY <1>2 DEF Counted, Joined, Characters, Flag
<1>4. NoOverrun' /\ LikeSnprintf' /\ LengthIsTotal' /\ WholeText' /\ Fresh' /\ Context'
  BY DEF NoOverrun, LikeSnprintf, LengthIsTotal, WholeText, Fresh, Context
<1>5. Prefix' /\ Asked' /\ Sized'
  BY DEF Prefix, Before, PrintedOver, Asked, Sized, Convertible, TextLen, FlagsLen, Joined, Characters,
     Flag
<1> QED
  BY <1>1, <1>3, <1>4, <1>5

LEMMA LeaveInv == ASSUME IInv, Leave PROVE IInv'
<1>1. /\ pc = "loop" /\ ctx.num \in Nat /\ i = Len(NameLen) + 1
      /\ what.fn = "flags" /\ Unknown \notin what.flags /\ what.flags \notin {Flag, {}}
  BY NamesAreNat DEF IInv, TypeOK, Leave, Flag, Counted
<1>2. Met = what.flags
  <2>1. what.flags \subseteq Flag
    BY <1>1 DEF IInv, TypeOK, Convertible, Nothing
  <2>2. \A f \in what.flags : f < i
    BY <1>1, <2>1, NamesAreNat DEF Flag
  <2> QED
    BY <2>2 DEF Met
<1>3. ~first /\ ctx.num = FlagsLen(what.flags)
  BY <1>1, <1>2 DEF IInv, Counted, FlagsLen
<1>4. PrintedOver(mem, ctx.num, len, Before)
  BY <1>1, <1>3 DEF IInv, Prefix
<1>5. Return(ctx.num) /\ UNCHANGED <<ctx, i, first, mem>>
  BY DEF Leave
<1>6. mem \in [Cell -> Int] /\ \A j \in Cell : j >= len => mem[j] = Old
  BY DEF IInv, TypeOK, NoOverrun
<1> QED
  BY <1>1, <1>3, <1>4, <1>5, <1>6, ReturnInv

LEMMA CopyStringInv == ASSUME IInv, CopyString PROVE IInv'
<1>1. mem \in [Cell -> Int] /\ len \in Nat /\ what.n \in Nat /\ what.fn = "object" /\ pc = "body"
  <2>1. what \in Convertible \cup {Nothing} /\ mem \in [Cell -> Int] /\ len \in Nat
    BY DEF IInv, TypeOK
  <2>2. what.n \in Nat
    <3>1. CASE what = Nothing
      BY <3>1 DEF Nothing
    <3>2. CASE what \in [fn : {"object"}, flags : {{}}, n : ObjectLen]
      <4>1. what.n \in ObjectLen
        BY <3>2
      <4> QED
        BY <4>1, ObjectLenAssumption
    <3> QED
      BY <2>1, <3>1, <3>2 DEF CopyString, Convertible
  <2> QED
    BY <2>1, <2>2 DEF CopyString
<1>2. mem' \in [Cell -> Int] /\ \A j \in Cell : j >= len => mem'[j] = Old
  BY <1>1, CapacityAssumption DEF CopyString, CopyText, Lesser, Cell, IInv, NoOverrun
<1>3. \A j \in Cell : mem'[j] = IF j < Lesser(what.n, len) THEN j ELSE Before[j]
  BY <1>1 DEF CopyString, CopyText, IInv, Prefix
<1> QED
  BY <1>1, <1>2, <1>3, ReturnInv DEF CopyString

LEMMA NextInv == IInv /\ [Next]_vars => IInv'
<1> SUFFICES ASSUME IInv, [Next]_vars PROVE IInv'
  OBVIOUS
<1>1. CASE Direct
  <2>1. PICK w \in Convertible, l \in 0..Capacity : Begin("direct", w, l, Blank)
    BY <1>1 DEF Direct
  <2>2. l \in Nat
    BY CapacityAssumption
  <2> QED
    BY <2>1, <2>2, BlankType, SetupInv DEF Begin
<1>2. CASE Query
  <2>1. PICK w \in Convertible : Begin("query", w, 0, Blank)
    BY <1>2 DEF Query
  <2> QED
    BY <2>1, BlankType, SetupInv DEF Begin
<1>3. CASE All
  <2>1. Unknown \notin Flag /\ FlagsLen(Flag) = 3
    BY NamesAreNat DEF FlagsLen
  <2> QED
    BY <1>3, <2>1, WordInv DEF All
<1>4. CASE None
  <2>1. FlagsLen({}) = 4
    BY NamesAreNat DEF FlagsLen
  <2> QED
    BY <1>4, <2>1, WordInv DEF None
<1>5. CASE Invalid
  <2>1. mem \in [Cell -> Int] /\ \A j \in Cell : j >= len => mem[j] = Old
    BY DEF IInv, TypeOK, NoOverrun
  <2> QED
    BY <1>5, <2>1, ReturnInv DEF Invalid
<1>6. CASE EnterLoop
  <2> USE <1>6 DEF IInv, EnterLoop
  <2>1. TypeOK'
    BY DEF TypeOK
  <2>2. NoOverrun' /\ LikeSnprintf' /\ LengthIsTotal' /\ WholeText' /\ Fresh'
    BY DEF NoOverrun, LikeSnprintf, LengthIsTotal, WholeText, Fresh
  <2>3. Context'
    BY DEF TypeOK, Fresh, Context
  <2>4. Counted'
    <3>1. \A f \in what.flags : f \in Flag
      BY DEF TypeOK, Convertible, Nothing
    <3>2. Met' = {}
      BY <3>1, NamesAreNat DEF Met, Fresh, Flag
    <3>3. IsFiniteSet(Characters(Met'))
      BY <3>2, NoNames
    <3> QED
      BY <3>2, <3>3 DEF Counted, Fresh, Characters, Flag
  <2>5. Prefix'
    BY DEF Prefix, Before, Fresh
  <2>6. Asked' /\ Sized'
    BY DEF Asked, Sized, Convertible, TextLen, FlagsLen, Joined, Characters, Flag
  <2> QED
    BY <2>1, <2>2, <2>3, <2>4, <2>5, <2>6
<1>7. CASE PrintName
  BY <1>7, PrintInv
<1>8. CASE Skip
  BY <1>8, SkipInv
<1>9. CASE Leave
  BY <1>9, LeaveInv
<1>10. CASE CopyString
  BY <1>10, CopyStringInv
<1>11. CASE Fail \/ NoMemory \/ Throws
  <2> USE <1>11 DEF Fail, NoMemory, Throws, IInv
  <2>1. TypeOK'
    BY DEF TypeOK
  <2>2. NoOverrun' /\ LikeSnprintf' /\ WholeText'
    BY DEF NoOverrun, LikeSnprintf, WholeText, Asked
  <2>3. LengthIsTotal'
    BY DEF LengthIsTotal, FlagsLen, Joined, Characters, Flag
  <2>4. Fresh' /\ Context' /\ Counted' /\ Prefix'
    BY DEF Fresh, Context, Counted, Prefix
  <2>5. Asked' /\ Sized'
    BY DEF Asked, Sized, TextLen, FlagsLen, Joined, Characters, Flag
  <2> QED
    BY <2>1, <2>2, <2>3, <2>4, <2>5
<1>12. CASE Fill
  <2>1. ret \in Nat /\ ret + 1 \in Nat /\ what \in Convertible /\ (ret + 1) - 1 = ret
    BY <1>12 DEF Fill, IInv, TypeOK, Asked
  <2>3. Unknown \notin what.flags /\ ret = TextLen(what)
    <3>1. CASE what.fn = "flags"
      BY <1>12, <2>1, <3>1 DEF Fill, IInv, LengthIsTotal, TextLen
    <3>2. CASE what.fn = "object"
      BY <1>12, <2>1, <3>2 DEF Fill, IInv, Asked, TextLen, Convertible
    <3> QED
      BY <2>1, <3>1, <3>2 DEF Convertible
  <2> DEFINE memory == [Blank EXCEPT ![ret] = Nul]
  <2>2. memory \in [Cell -> Int] /\ \A j \in Cell : j >= ret + 1 => memory[j] = Old
    <3>1. memory \in [Cell -> Int]
      <4>1. memory = [j \in Cell |-> IF j = ret THEN Nul ELSE Old]
        BY DEF Blank
      <4>2. Nul \in Int /\ Old \in Int
        BY DEF Nul, Old
      <4> HIDE DEF memory
      <4> QED
        BY <4>1, <4>2
    <3>2. ASSUME NEW j \in Cell, j >= ret + 1 PROVE memory[j] = Old
      <4>1. j # ret
        BY <2>1, <3>2, CapacityAssumption DEF Cell
      <4> QED
        BY <4>1, BlankType DEF Blank
    <3> QED
      BY <3>1, <3>2
  <2> DEFINE size == ret + 1
  <2>4. Setup("body", "fill", what, size, memory)
    BY <1>12 DEF Fill, Begin
  <2>5. /\ size \in Nat /\ memory = [Blank EXCEPT ![size - 1] = Nul]
        /\ \A j \in Cell : j >= size => memory[j] = Old
    BY <2>1, <2>2
  <2>6. size = TextLen(what) + 1
    BY <2>3
  <2> HIDE DEF memory, size
  <2> QED
    BY ONLY IInv, <2>1, <2>2, <2>3, <2>4, <2>5, <2>6, SetupInv
<1>15. CASE Measure
  <2>1. PICK w \in Convertible : Begin("measure", w, 0, Blank)
    BY <1>15 DEF Measure
  <2> QED
    BY <2>1, BlankType, SetupInv DEF Begin
<1>16. CASE Describe
  <2>1. ret + 1 \in Nat /\ what \in Convertible
    BY <1>16 DEF Describe, IInv, TypeOK, Asked
  <2>2. Setup("body", "describe", what, ret + 1, Blank)
    BY <1>16 DEF Describe, Begin
  <2> QED
    BY ONLY IInv, <2>1, <2>2, BlankType, SetupInv
<1>13. CASE Accept
  BY <1>13, BlankType, SetupInv DEF Accept
<1>14. CASE UNCHANGED vars
  BY <1>14 DEF vars, IInv, TypeOK, NoOverrun, LikeSnprintf, LengthIsTotal, WholeText, Fresh, Context,
     Counted, Met, Prefix, Before, PrintedOver, Asked, Sized, Convertible, TextLen, FlagsLen, Joined,
     Characters, Flag
<1> QED
  BY <1>1, <1>2, <1>3, <1>4, <1>5, <1>6, <1>7, <1>8, <1>9, <1>10, <1>11, <1>12, <1>13, <1>14,
     <1>15, <1>16
  DEF Next

-----------------------------------------------------------------------------
(* The theorems.                                                           *)

\* The strengthened invariant: the context is where the printed characters end, they are
\* the names met so far with separators between them, and the buffer holds what one
\* snprintf of them would have left there.
THEOREM Invariance == Spec => []IInv
BY InitInv, NextInv, PTL DEF Spec

\* BtcK_VerificationFlags_ToString and the std::string::copy of the other ToString
\* functions stay inside the buffer, for any names, any text and any size.
THEOREM StaysInBuffer == Spec => []NoOverrun
BY Invariance, PTL DEF IInv

\* The pieces that BtcK_VerificationFlags_ToString prints leave in the buffer what one
\* snprintf of the whole text leaves, wherever the buffer ends.
THEOREM PrintsLikeSnprintf == Spec => []LikeSnprintf
BY Invariance, PTL DEF IInv

\* The returned length is that of the text, whatever the buffer was (the num of struct
\* PrintContext counts what was to be printed).
THEOREM LengthsAreTotal == Spec => []LengthIsTotal
BY Invariance, PTL DEF IInv

\* The string that to_string_ and Python's to_string make holds the whole text, with its
\* terminator in place.
THEOREM StringsAreWhole == Spec => []WholeText
BY Invariance, PTL DEF IInv

\* The variables keep their types; in particular, bufsz does not wrap around.
THEOREM TypeCorrect == Spec => []TypeOK
BY Invariance, PTL DEF IInv
=============================================================================
