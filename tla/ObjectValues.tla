--------------------------- MODULE ObjectValues ---------------------------
(***************************************************************************)
(* What the C API promises of its objects: each is a value of its own.     *)
(* _New makes one, _Copy makes another with the same value or with the     *)
(* value of a part of it, _Free removes one, and nothing else changes any. *)
(* There is no sharing, no reference count and nothing half done here.     *)
(***************************************************************************)
EXTENDS Naturals, Sequences

CONSTANTS Handle, Content, MaxTxs, NoValue

VARIABLES value,  \* what each object holds; NoValue if there is no object
          type    \* its C type, "none" if there is no object

Kind == {"Block", "Transaction", "TransactionOutput", "ScriptPubkey"}

\* What can be made from an object: a copy of a part that it lends, or (a
\* TransactionOutput, given a script) an object around such a copy.
Part == [Block |-> {"Transaction", "TransactionOutput", "ScriptPubkey"},
         Transaction |-> {"Transaction", "TransactionOutput", "ScriptPubkey"},
         TransactionOutput |-> {"TransactionOutput", "ScriptPubkey"},
         ScriptPubkey |-> {"TransactionOutput", "ScriptPubkey"}]

ValueOf(kd) == UNION {[1..n -> Content] : n \in IF kd = "Block" THEN 0..MaxTxs ELSE {1}}

Exists(h) == type[h] # "none"

Make(h, kd, v) ==
  /\ ~Exists(h)
  /\ value' = [value EXCEPT ![h] = v]
  /\ type' = [type EXCEPT ![h] = kd]

\* From bytes.
New(h) == \E kd \in Kind : \E v \in ValueOf(kd) : Make(h, kd, v)

\* Of a whole object.
Copy(h, s) == Exists(s) /\ Make(h, type[s], value[s])

\* From the i-th transaction of s, or the output or the script in it.
CopyPart(h, s) ==
  /\ Exists(s)
  /\ \E i \in 1..Len(value[s]), kd \in Part[type[s]] :
       Make(h, kd, <<value[s][i]>>)

Free(h) ==
  /\ Exists(h)
  /\ value' = [value EXCEPT ![h] = NoValue]
  /\ type' = [type EXCEPT ![h] = "none"]

Init ==
  /\ value = [h \in Handle |-> NoValue]
  /\ type = [h \in Handle |-> "none"]

Next == \E h \in Handle : \/ New(h)
                          \/ Free(h)
                          \/ \E s \in Handle : Copy(h, s) \/ CopyPart(h, s)

Spec == Init /\ [][Next]_<<value, type>>
=============================================================================
