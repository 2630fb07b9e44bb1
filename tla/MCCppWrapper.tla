---------------------------- MODULE MCCppWrapper ----------------------------
(* Instance of CppWrapper for TLC: a block "b" with the transaction "t",     *)
(* that with the outputs "o" and "q", and both of them with the script "s".  *)
(* The program has the bytes of a block, a transaction "u" and a script.     *)
EXTENDS CppWrapper, TLC

Types == [b |-> "block", t |-> "transaction", u |-> "transaction",
          o |-> "transaction_output", q |-> "transaction_output", s |-> "script_pubkey"]
AllValues == DOMAIN Types
Parts == [b |-> {"t"}, t |-> {"o", "q"}, u |-> {"q"}, o |-> {"s"}, q |-> {"s"}, s |-> {}]
Bytes == {"b", "u", "s"}
Symmetry == Permutations(Var) \cup Permutations(Obj)
=============================================================================
