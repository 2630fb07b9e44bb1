------------------------------ MODULE ToString ------------------------------
(***************************************************************************)
(* The ToString functions, which write a text into a buffer of the caller  *)
(* and return its full length, and the callers in the C++ wrapper and the  *)
(* Python binding, which call twice: once for the length, once for the     *)
(* text; and the description of a transaction in Swift, which does so with *)
(* a buffer of its own and looks for the terminator.                       *)
(*                                                                         *)
(* BtcK_VerificationFlags_ToString prints piece by piece through a context *)
(* that tracks the rest of the buffer; the functions of Block, Transaction *)
(* and TransactionOutput copy from a std::string.  The characters of a     *)
(* text are its positions 0, 1, 2, ...; what they spell does not matter.   *)
(***************************************************************************)
EXTENDS Integers, Sequences, FiniteSets

CONSTANTS
  NameLen,     \* lengths of the names in flag_table
  ObjectLen,   \* lengths that the text of an object may have
  Capacity     \* size of the memory around the buffer

ASSUME NameLenAssumption == NameLen \in Seq(Nat) \ {<<>>}
ASSUME ObjectLenAssumption == ObjectLen \subseteq Nat
ASSUME CapacityAssumption == Capacity \in Nat

VARIABLES
  pc,     \* "idle" between calls, "loop" in the loop over the table,
          \* "returned" when ToString has returned the length to a wrapper,
          \* "done" when the conversion is over, "thrown" when it has thrown
  mode,   \* who calls: C code ("direct"), C++ or Python for the length
          \* ("query") and the text ("fill"), Swift likewise ("measure",
          \* "describe")
  what,   \* what is converted: the flags, or an object by its text's length
  len,    \* the size of the buffer; 0 goes with a null pointer
  ctx,    \* struct PrintContext: offset into the buffer, bufsz, num
  i,      \* index into flag_table
  first,  \* nothing printed yet
  mem,    \* the memory from the start of the buffer on
  ret     \* the return value

vars == <<pc, mode, what, len, ctx, i, first, mem, ret>>

Flag == 1..Len(NameLen)
Unknown == 0             \* stands for the bits outside of BtcK_VerificationFlags_ALL
Sep == 3                 \* " | "

Cell == 0..Capacity
Nul == -1
Old == -2                \* what was there before

Lesser(a, b) == IF a < b THEN a ELSE b

-----------------------------------------------------------------------------
(* Writing into a buffer.                                                  *)

\* vsnprintf of n characters, the first of which is character c of the text, to
\* a buffer of size sz at offset at.
PutFault(m, at, sz, n, c) ==
  [j \in Cell |->
     IF sz > 0 /\ at <= j /\ j < at + Lesser(n, sz) THEN c + (j - at)
     ELSE IF sz > 0 /\ j = at + Lesser(n, sz) THEN Nul
     ELSE m[j]]

Put(m, at, sz, n, c) ==
  [j \in Cell |->
     IF sz > 0 /\ at <= j /\ j < at + Lesser(n, sz - 1) THEN c + (j - at)
     ELSE IF sz > 0 /\ j = at + Lesser(n, sz - 1) THEN Nul
     ELSE m[j]]

\* std::string::copy: no terminator.
CopyText(m, sz, n) == [j \in Cell |-> IF j < Lesser(n, sz) THEN j ELSE m[j]]

-----------------------------------------------------------------------------
(* A call begins.                                                          *)

Blank == [j \in Cell |-> Old]

Setup(p, m, w, l, memory) ==
  /\ pc' = p
  /\ mode' = m
  /\ what' = w
  /\ len' = l
  /\ ctx' = [buffer |-> 0, bufsz |-> l, num |-> 0]
  /\ i' = 1
  /\ first' = TRUE
  /\ mem' = memory
  /\ ret' = 0

Begin(m, w, l, memory) == Setup("body", m, w, l, memory)

Convertible == [fn : {"flags"}, flags : SUBSET (Flag \cup {Unknown}), n : {0}]
                 \cup [fn : {"object"}, flags : {{}}, n : ObjectLen]

\* C code gives any buffer.
Direct ==
  /\ pc = "idle"
  /\ \E w \in Convertible, l \in 0..Capacity :
       Begin("direct", w, l, Blank)

\* to_string_ and Python's to_string ask for the length first.
Query ==
  /\ pc = "idle"
  /\ \E w \in Convertible : Begin("query", w, 0, Blank)

\* Swift's description of a transaction does, too.
Measure ==
  /\ pc = "idle"
  /\ \E w \in Convertible : w.fn = "object" /\ Begin("measure", w, 0, Blank)

-----------------------------------------------------------------------------
(* BtcK_VerificationFlags_ToString.                                        *)

Return(r) ==
  /\ ret' = r
  /\ pc' = IF mode \in {"query", "measure"} THEN "returned" ELSE "done"
  /\ UNCHANGED <<mode, what, len>>

\* Exactly all flags, or none: one word of length n.
Word(set, n) ==
  /\ pc = "body" /\ what.fn = "flags"
  /\ what.flags = set
  /\ mem' = Put(mem, 0, len, n, 0)
  /\ Return(n)
  /\ UNCHANGED <<ctx, i, first>>

All == Word(Flag, 3)
None == Word({}, 4)

Invalid ==
  /\ pc = "body" /\ what.fn = "flags"
  /\ Unknown \in what.flags
  /\ Return(-1)
  /\ UNCHANGED <<ctx, i, first, mem>>

EnterLoop ==
  /\ pc = "body" /\ what.fn = "flags"
  /\ what.flags \notin {Flag, {}} /\ Unknown \notin what.flags
  /\ pc' = "loop"
  /\ UNCHANGED <<mode, what, len, ctx, i, first, mem, ret>>

\* print(&ctx, ...) of a piece of r characters.  The fault: num counts what
\* was stored rather than what was to be stored.
StoredFault(r) ==
  ctx' = [buffer |-> ctx.buffer + r,
          bufsz |-> IF r < ctx.bufsz THEN ctx.bufsz - r ELSE 0,
          num |-> ctx.num + Lesser(r, ctx.bufsz)]

Advance(r) ==
  ctx' = [buffer |-> ctx.buffer + r,
          bufsz |-> IF r < ctx.bufsz THEN ctx.bufsz - r ELSE 0,
          num |-> ctx.num + r]

PrintName ==
  /\ pc = "loop" /\ i \in Flag /\ i \in what.flags
  /\ LET r == NameLen[i] + IF first THEN 0 ELSE Sep IN
     /\ mem' = Put(mem, ctx.buffer, ctx.bufsz, r, ctx.num)
     /\ Advance(r)
  /\ first' = FALSE
  /\ i' = i + 1
  /\ UNCHANGED <<pc, mode, what, len, ret>>

Skip ==
  /\ pc = "loop" /\ i \in Flag /\ i \notin what.flags
  /\ i' = i + 1
  /\ UNCHANGED <<pc, mode, what, len, ctx, first, mem, ret>>

Leave ==
  /\ pc = "loop" /\ i \notin Flag
  /\ Return(ctx.num)
  /\ UNCHANGED <<ctx, i, first, mem>>

-----------------------------------------------------------------------------
(* ToString of Block, Transaction and TransactionOutput.                   *)

CopyString ==
  /\ pc = "body" /\ what.fn = "object"
  /\ mem' = CopyText(mem, len, what.n)
  /\ Return(what.n)
  /\ UNCHANGED <<ctx, i, first>>

\* No memory for the std::string: nothing catches that on the way to the caller.
Throws ==
  /\ pc = "body" /\ what.fn = "object"
  /\ pc' = "thrown"
  /\ UNCHANGED <<mode, what, len, ctx, i, first, mem, ret>>

-----------------------------------------------------------------------------
(* The wrappers, when they have the length.                                *)

\* They throw, or set ValueError; Swift returns the empty string.
Fail ==
  /\ pc = "returned"
  /\ ret < 0 \/ (mode = "measure" /\ ret = 0)
  /\ pc' = "done"
  /\ UNCHANGED <<mode, what, len, ctx, i, first, mem, ret>>

\* There is no memory for the string.
NoMemory ==
  /\ pc = "returned" /\ mode = "query" /\ ret >= 0
  /\ pc' = "done"
  /\ UNCHANGED <<mode, what, len, ctx, i, first, mem, ret>>

\* The new string has ret characters, and a terminator of its own.
FillFault ==
  /\ pc = "returned" /\ mode = "query" /\ ret >= 0
  /\ Begin("fill", what, ret, [Blank EXCEPT ![ret] = Nul])

Fill ==
  /\ pc = "returned" /\ mode = "query" /\ ret >= 0
  /\ Begin("fill", what, ret + 1, [Blank EXCEPT ![ret] = Nul])

\* Swift's buffer is raw memory of the same size.
Describe ==
  /\ pc = "returned" /\ mode = "measure" /\ ret > 0
  /\ Begin("describe", what, ret + 1, Blank)

-----------------------------------------------------------------------------
Nothing == [fn |-> "nothing", flags |-> {}, n |-> 0]

Init ==
  /\ pc = "idle"
  /\ mode = "direct"
  /\ what = Nothing
  /\ len = 0
  /\ ctx = [buffer |-> 0, bufsz |-> 0, num |-> 0]
  /\ i = 1
  /\ first = TRUE
  /\ mem = Blank
  /\ ret = 0

\* The caller uses the text and drops its buffer; nothing is kept for the next call.
Accept == pc \in {"done", "thrown"} /\ Setup("idle", "direct", Nothing, 0, Blank)

Next == \/ Direct \/ Query \/ Measure
        \/ All \/ None \/ Invalid \/ EnterLoop \/ PrintName \/ Skip \/ Leave
        \/ CopyString \/ Throws
        \/ Fail \/ NoMemory \/ Fill \/ Describe
        \/ Accept

Spec == Init /\ [][Next]_vars

-----------------------------------------------------------------------------
(* Properties.                                                             *)

TypeOK ==
  /\ pc \in {"idle", "body", "loop", "returned", "done", "thrown"}
  /\ mode \in {"direct", "query", "fill", "measure", "describe"}
  /\ what \in Convertible \cup {Nothing}
  /\ len \in Nat
  /\ ctx \in [buffer : Nat, bufsz : Nat, num : Nat]
  /\ i \in 1..(Len(NameLen) + 1)
  /\ first \in BOOLEAN
  /\ mem \in [Cell -> Int]
  /\ ret \in Nat \cup {-1}

\* No piece is written past the end of the buffer, whichever piece the end falls
\* into and however many follow it.
NoOverrun == \A j \in Cell : j >= len => mem[j] = Old

\* One snprintf of a text of n characters into a buffer of size sz left memory m.
Printed(m, n, sz) ==
  \A j \in Cell : j < sz =>
    m[j] = IF j < Lesser(n, sz - 1) THEN j
           ELSE IF j = Lesser(n, sz - 1) THEN Nul
           ELSE Old

\* Piece by piece printing gives what one snprintf of the whole text gives: the
\* text, cut off to leave room for the terminator, and the full length.
LikeSnprintf ==
  (pc = "done" /\ mode = "direct" /\ what.fn = "flags" /\ ret >= 0) => Printed(mem, ret, len)

\* The text of a combination of flags, from its definition: the characters of the
\* names, and the separators between them.  The returned length is the text's,
\* whatever the buffer.
Characters(set) == UNION {{f} \X (1..NameLen[f]) : f \in set}
Joined(set) == Cardinality(Characters(set)) + Sep * (Cardinality(set) - 1)

FlagsLen(set) ==
  IF set = Flag THEN 3
  ELSE IF set = {} THEN 4
  ELSE Joined(set)

LengthIsTotal ==
  (pc \in {"returned", "done"} /\ what.fn = "flags") =>
    ret = IF Unknown \in what.flags THEN -1 ELSE FlagsLen(what.flags)

\* The memory that is looked at has room for every text.
TextLen(w) == IF w.fn = "flags" THEN FlagsLen(w.flags) ELSE w.n
ASSUME RoomAssumption == \A w \in Convertible : Unknown \notin w.flags => TextLen(w) <= Capacity

\* The two calls of a wrapper fit together: the string holds the whole text and
\* its terminator is in place, with either kind of ToString.
WholeText ==
  (pc = "done" /\ mode = "fill") =>
    /\ len = ret + 1
    /\ \A j \in 0..(ret - 1) : mem[j] = j
    /\ mem[ret] = Nul

-----------------------------------------------------------------------------
(* What every step preserves, the reason for the properties.               *)

\* A call begins with a context of the whole buffer, at the first flag.
Fresh ==
  pc = "body" =>
    /\ ctx = [buffer |-> 0, bufsz |-> len, num |-> 0]
    /\ i = 1 /\ first

\* The context is where the printed characters end; bufsz is what is left of the
\* buffer, or zero beyond its end.
Context ==
  pc = "loop" =>
    /\ ctx.buffer = ctx.num
    /\ ctx.bufsz = IF ctx.num < len THEN len - ctx.num ELSE 0

\* What is printed are the flags below i, and nothing as long as none has been met.
Met == {f \in what.flags : f < i}

Counted ==
  pc = "loop" =>
    /\ what.fn = "flags" /\ what.flags \notin {Flag, {}} /\ Unknown \notin what.flags
    /\ IsFiniteSet(Characters(Met))
    /\ IF first THEN ctx.num = 0 /\ Met = {}
       ELSE ctx.num = Joined(Met) /\ Met # {}

\* The buffer holds what one snprintf of the text so far would have left there; a
\* std::string comes with a terminator.
Before == IF mode = "fill" THEN [Blank EXCEPT ![len - 1] = Nul] ELSE Blank

PrintedOver(m, n, sz, before) ==
  \A j \in Cell : j < sz =>
    m[j] = IF j < Lesser(n, sz - 1) THEN j
           ELSE IF j = Lesser(n, sz - 1) THEN Nul
           ELSE before[j]

Prefix ==
  /\ pc = "body" => mem = Before
  /\ pc = "loop" => IF first THEN mem = Before ELSE PrintedOver(mem, ctx.num, len, Before)

\* Only the first call of a wrapper returns to it for more, and with the length.
Asked ==
  /\ pc \in {"body", "loop", "returned"} => what \in Convertible
  /\ pc = "returned" => /\ mode \in {"query", "measure"}
                        /\ what.fn = "object" => ret = what.n

\* The second call has a buffer for the text of a valid object, and its terminator.
Sized == mode = "fill" => Unknown \notin what.flags /\ len = TextLen(what) + 1

IInv ==
  /\ TypeOK
  /\ NoOverrun /\ LikeSnprintf /\ LengthIsTotal /\ WholeText
  /\ Fresh /\ Context /\ Counted /\ Prefix /\ Asked /\ Sized
=============================================================================
