---------------------------- MODULE OwnedValues ----------------------------
(***************************************************************************)
(* What a wrapper of the C API promises to a program in a language with    *)
(* names for objects: every name that owns stands for a value of its own.  *)
(* A value is read from bytes, put together, or copied out of a value that *)
(* another name stands for; it moves from name to name, and is gone when   *)
(* its name is.  There are no pointers, views, counts or policies here.    *)
(***************************************************************************)
CONSTANTS
  Name,
  Value,
  PartOf,   \* [Value -> SUBSET Value], the parts that a value has
  Raw,      \* the values that the program has the bytes of
  Nothing

VARIABLE val  \* what each name stands for

\* What is inside of a value: itself, its transactions, their outputs, their scripts.
WithParts(S) == S \cup UNION {PartOf[x] : x \in S}
Inside(x) == WithParts(WithParts(WithParts({x})))

\* What the program has somewhere.
Present == UNION {Inside(val[m]) : m \in {k \in Name : val[k] # Nothing}}

Make(n, x) ==
  /\ val[n] = Nothing
  /\ val' = [val EXCEPT ![n] = x]

New(n) == \E x \in Raw : Make(n, x)

\* An output, put together from a script and an amount.
NewAround(n) == \E x \in Value : PartOf[x] \cap Present # {} /\ Make(n, x)

Copy(n) == \E x \in Present : Make(n, x)

\* What n has stood for is gone.
Move(n, m) ==
  /\ n # m
  /\ val' = [val EXCEPT ![n] = val[m], ![m] = Nothing]

Forget(n) == val' = [val EXCEPT ![n] = Nothing]

Init == val = [n \in Name |-> Nothing]

Next == \E n \in Name :
          \/ New(n) \/ NewAround(n) \/ Copy(n) \/ Forget(n)
          \/ \E m \in Name : Move(n, m)

Spec == Init /\ [][Next]_val
=============================================================================
