------------------------------- MODULE Verify -------------------------------
(***************************************************************************)
(* ScriptPubkey.verify: from the arguments of the caller, a program in     *)
(* Python or in C++, to the call of VerifyScript or to the error that says *)
(* which argument is wrong.                                                *)
(*                                                                         *)
(* The Python binding collects pointers to the spent outputs.  It gets     *)
(* them from the items of a sequence, which are objects with a reference   *)
(* count: the items of a list or a tuple belong to that, and whatever else *)
(* the program passes is first made a list of, whose items nothing else    *)
(* refers to when they are made on demand, like those of                   *)
(* Transaction.outputs.  The C++ wrapper passes on the caller's array.     *)
(***************************************************************************)
EXTENDS Integers, SequencesExt, FiniteSetsExt

CONSTANTS
  Output,     \* cells for TransactionOutput objects
  Garbage,    \* what is read from a cell that is no object
  Flag,       \* the flags of BtcK_VerificationFlags_ALL that checks ask for, and others
  VERIFY_P2SH, VERIFY_WITNESS, VERIFY_TAPROOT,  \* those that are asked for
  VERIFY_CLEANSTACK, \* a flag of the kernel that is not in ALL
  MaxInputs   \* bound on the inputs of tx_to, on spent_outputs and on input_index

ASSUME FlagAssumption ==
  /\ {VERIFY_P2SH, VERIFY_WITNESS, VERIFY_TAPROOT} \subseteq Flag
  /\ VERIFY_CLEANSTACK \notin Flag
  /\ VERIFY_P2SH # VERIFY_WITNESS /\ VERIFY_P2SH # VERIFY_TAPROOT /\ VERIFY_WITNESS # VERIFY_TAPROOT
ASSUME CellAssumption == IsFiniteSet(Output) /\ Garbage \notin Output
ASSUME MaxInputsAssumption == MaxInputs \in Nat

VARIABLES
  pc,      \* "idle" between calls; the next step of a call; "done" when it has returned
  call,    \* the arguments
  count,   \* the reference count of an output: 0 if it is no object
  seq,     \* the list of PySequence_Fast, of which it has references unless it is the caller's
  array,   \* the array of convert_tx_outputs is allocated
  data,    \* the outputs whose addresses convert_tx_outputs has stored
  copied,  \* the outputs that BtcK_ScriptPubkey_Verify has copied
  ran,     \* the arguments with which VerifyScript is called
  result   \* what the call has returned or raised

vars == <<pc, call, count, seq, array, data, copied, ran, result>>

ALL == Flag
Results == {"none", "true", "false", "TypeError", "MemoryError", "bad_alloc",
            "invalid_flags", "invalid_flags_combination", "spent_outputs_required",
            "spent_outputs_mismatch", "tx_input_index"}

\* spent_outputs: None or left out; a list or a tuple; another sequence, whose
\* items are made when it is asked for them; or something that is no sequence.
\* "typed" is the position of the first item that is no TransactionOutput, or 0.
Lists == SeqOf(Output, MaxInputs)
Fresh == {s \in Lists : IsInjective(s)}
Spent == [kind : {"none", "other"}, items : {<<>>}, untyped : {0}]
         \cup [kind : {"list", "span"}, items : Lists, untyped : 0..MaxInputs]
         \cup [kind : {"lazy"}, items : Fresh, untyped : 0..MaxInputs]

Call == {c \in [client : {"python", "cpp"}, spent : Spent, inputs : 0..MaxInputs,
                index : 0..MaxInputs, flags : SUBSET (Flag \cup {VERIFY_CLEANSTACK}),
                parses : BOOLEAN] :
           /\ c.spent.untyped \in 0..Len(c.spent.items)
           /\ (c.client = "cpp") <=> (c.spent.kind = "span")
           /\ (c.client = "cpp") => (c.parses /\ c.spent.untyped = 0)}

NoCall == [client |-> "cpp", spent |-> [kind |-> "span", items |-> <<>>, untyped |-> 0],
           inputs |-> 0, index |-> 0, flags |-> {}, parses |-> TRUE]
NotRun == [flags |-> {VERIFY_CLEANSTACK}, index |-> 0, outputs |-> <<>>]

Has(f) == f \in call.flags

\* The references that a list has of an output.
References(s, o) == Cardinality({i \in DOMAIN s : s[i] = o})

-----------------------------------------------------------------------------
(* The arguments (script_pubkey.c; btck.hpp for C++).                      *)

\* A caller keeps the items of its list, tuple or array for the time of the call.
Held(c, o) == IF c.spent.kind \in {"list", "span"} THEN References(c.spent.items, o) ELSE 0

Start(c) ==
  /\ pc = "idle"
  /\ call' = c
  /\ count' = [o \in Output |-> Held(c, o)]
  /\ data' = IF c.client = "cpp" THEN c.spent.items ELSE <<>>
  /\ UNCHANGED <<seq, array, copied, ran, result>>
  /\ pc' = IF c.client = "cpp" THEN "copy" ELSE "convert"

Verify == \E c \in Call : Start(c)

\* What a call hands back ends it.  Nothing of a call is left for the next one: an
\* array that is still allocated cannot be reached any more.
Return(value) ==
  /\ pc' = "done"
  /\ result' = value

Continue ==
  /\ pc = "done"
  /\ pc' = "idle"
  /\ call' = NoCall
  /\ count' = [o \in Output |-> 0]
  /\ seq' = <<>> /\ array' = FALSE /\ data' = <<>> /\ copied' = <<>>
  /\ ran' = NotRun
  /\ result' = "none"

ConvertNone ==
  /\ pc = "convert" /\ call.spent.kind = "none"
  /\ pc' = "parse"
  /\ UNCHANGED <<call, count, seq, array, data, copied, ran, result>>

ConvertOther ==
  /\ pc = "convert" /\ call.spent.kind = "other"
  /\ Return("TypeError")
  /\ UNCHANGED <<call, count, seq, array, data, copied, ran>>

\* PySequence_Fast returns a list or a tuple as it is, and makes a list of the
\* items of anything else.
ConvertSequence ==
  /\ pc = "convert" /\ call.spent.kind \in {"list", "lazy"}
  /\ seq' = call.spent.items
  /\ count' = [o \in Output |-> count[o] + (IF call.spent.kind = "lazy" THEN References(seq', o) ELSE 0)]
  /\ pc' = "allocate"
  /\ UNCHANGED <<call, array, data, copied, ran, result>>

\* Py_DECREF(seq): a list that was made for the call goes, and its references.
\* The fault drops those of the caller's list too.
DroppedFault == [o \in Output |-> count[o] - References(seq, o)]
Dropped == [o \in Output |-> count[o] - (IF call.spent.kind = "lazy" THEN References(seq, o) ELSE 0)]

Drop ==
  /\ seq' = <<>>
  /\ count' = Dropped

Allocate ==
  /\ pc = "allocate"
  /\ array' = TRUE
  /\ pc' = "collect"
  /\ UNCHANGED <<call, count, seq, data, copied, ran, result>>

AllocateFails ==
  /\ pc = "allocate"
  /\ Drop
  /\ Return("MemoryError")
  /\ UNCHANGED <<call, array, data, copied, ran>>

Collect ==
  LET i == Len(data) + 1 IN
  /\ pc = "collect" /\ i <= Len(seq)
  /\ i # call.spent.untyped
  /\ data' = Append(data, seq[i])
  /\ UNCHANGED <<pc, call, count, seq, array, copied, ran, result>>

CollectFails ==
  /\ pc = "collect" /\ Len(data) < Len(seq)
  /\ Len(data) + 1 = call.spent.untyped
  /\ Drop
  /\ array' = FALSE
  /\ data' = <<>>
  /\ Return("TypeError")
  /\ UNCHANGED <<call, copied, ran>>

CollectedFault ==
  /\ pc = "collect" /\ Len(data) = Len(seq)
  /\ pc' = "parse"
  /\ UNCHANGED <<call, count, seq, array, data, copied, ran, result>>

Collected ==
  /\ pc = "collect" /\ Len(data) = Len(seq)
  /\ Drop
  /\ pc' = "parse"
  /\ UNCHANGED <<call, array, data, copied, ran, result>>

\* input_index and flags are parsed after spent_outputs.
Parse ==
  /\ pc = "parse" /\ call.parses
  /\ pc' = "copy"
  /\ UNCHANGED <<call, count, seq, array, data, copied, ran, result>>

ParseFails ==
  /\ pc = "parse" /\ ~call.parses
  /\ Return("TypeError")
  /\ UNCHANGED <<call, count, seq, array, data, copied, ran>>

-----------------------------------------------------------------------------
(* BtcK_ScriptPubkey_Verify (btck_script_pubkey.cpp).                      *)

Read(o) == IF count[o] > 0 THEN o ELSE Garbage

Copy ==
  LET i == Len(copied) + 1 IN
  /\ pc = "copy" /\ i <= Len(data)
  /\ copied' = Append(copied, Read(data[i]))
  /\ UNCHANGED <<pc, call, count, seq, array, data, ran, result>>

CopyFails ==
  /\ pc = "copy"
  /\ Return("bad_alloc")
  /\ UNCHANGED <<call, count, seq, array, data, copied, ran>>

Copied ==
  /\ pc = "copy" /\ Len(copied) = Len(data)
  /\ pc' = "flags"
  /\ UNCHANGED <<call, count, seq, array, data, copied, ran, result>>

\* One check: it throws the error if the condition holds and goes on otherwise.
Check(at, error, wrong, next) ==
  /\ pc = at
  /\ IF wrong THEN Return(error) ELSE pc' = next /\ UNCHANGED result
  /\ UNCHANGED <<call, count, seq, array, data, copied, ran>>

CheckFlags == Check("flags", "invalid_flags", ~(call.flags \subseteq ALL), "combination")

CombinationFault ==
  Check("combination", "invalid_flags_combination",
        Has(VERIFY_CLEANSTACK) /\ ~Has(VERIFY_P2SH) /\ ~Has(VERIFY_WITNESS), "required")

CheckCombination ==
  Check("combination", "invalid_flags_combination",
        (Has(VERIFY_CLEANSTACK) /\ ~Has(VERIFY_P2SH) /\ ~Has(VERIFY_WITNESS)) \/ (Has(VERIFY_WITNESS) /\ ~Has(VERIFY_P2SH)), "required")

CheckRequired == Check("required", "spent_outputs_required", Has(VERIFY_TAPROOT) /\ copied = <<>>, "mismatch")

CheckMismatch ==
  Check("mismatch", "spent_outputs_mismatch", copied # <<>> /\ Len(copied) # call.inputs, "index")

IndexFault == Check("index", "tx_input_index", call.index > call.inputs, "run")

CheckIndex == Check("index", "tx_input_index", call.index >= call.inputs, "run")

\* The outputs are moved into the transaction data for taproot only.
Run ==
  /\ pc = "run"
  /\ ran' = [flags |-> call.flags, index |-> call.index,
             outputs |-> IF Has(VERIFY_TAPROOT) THEN copied ELSE <<>>]
  /\ \E r \in {"true", "false"} : Return(r)
  /\ UNCHANGED <<call, count, seq, array, data, copied>>

RunFails ==
  /\ pc = "run"
  /\ Return("bad_alloc")
  /\ UNCHANGED <<call, count, seq, array, data, copied, ran>>

-----------------------------------------------------------------------------
Init ==
  /\ pc = "idle"
  /\ call = NoCall
  /\ count = [o \in Output |-> 0]
  /\ seq = <<>>
  /\ array = FALSE
  /\ data = <<>>
  /\ copied = <<>>
  /\ ran = NotRun
  /\ result = "none"

Convert ==
  \/ ConvertNone \/ ConvertOther \/ ConvertSequence
  \/ Allocate \/ AllocateFails
  \/ Collect \/ CollectFails \/ Collected
  \/ Parse \/ ParseFails

Library ==
  \/ Copy \/ CopyFails \/ Copied
  \/ CheckFlags \/ CheckCombination \/ CheckRequired \/ CheckMismatch \/ CheckIndex
  \/ Run \/ RunFails

Next == Verify \/ Convert \/ Library \/ Continue

Spec == Init /\ [][Next]_vars

-----------------------------------------------------------------------------
(* Properties.                                                             *)

\* Every call is at one of its steps, with counts of references that are never negative.
TypeOK ==
  /\ pc \in {"idle", "convert", "allocate", "collect", "parse", "copy", "flags",
             "combination", "required", "mismatch", "index", "run", "done"}
  /\ call \in Call
  /\ count \in [Output -> 0..MaxInputs]
  /\ seq \in Lists /\ data \in Lists /\ array \in BOOLEAN
  /\ copied \in SeqOf(Output \cup {Garbage}, MaxInputs)
  /\ result \in Results

\* What is asserted below VerifyScript holds when it is called: flags are known and
\* VERIFY_WITNESS comes with VERIFY_P2SH, the input exists, and with VERIFY_TAPROOT there is an output
\* for every input (verify in btck_script_pubkey.cpp).
ScriptCanRun ==
  ran # NotRun =>
    /\ ran.flags \subseteq ALL
    /\ VERIFY_WITNESS \in ran.flags => VERIFY_P2SH \in ran.flags
    /\ ran.index < call.inputs
    /\ VERIFY_TAPROOT \in ran.flags => Len(ran.outputs) = call.inputs

\* What is wrong with the arguments, by the message of each error
\* (verification_error.c), whatever the order in which it is found out.
Wrong(error) ==
  CASE error = "invalid_flags" -> \E f \in call.flags : f \notin ALL
    [] error = "invalid_flags_combination" -> Has(VERIFY_WITNESS) /\ ~Has(VERIFY_P2SH)
    [] error = "spent_outputs_required" -> Has(VERIFY_TAPROOT) /\ Len(call.spent.items) = 0
    [] error = "spent_outputs_mismatch" -> Len(call.spent.items) \notin {0, call.inputs}
    [] error = "tx_input_index" -> call.index + 1 > call.inputs

Complaints == {"invalid_flags", "invalid_flags_combination", "spent_outputs_required",
               "spent_outputs_mismatch", "tx_input_index"}

\* An error of verification_error names something that is wrong, and a verdict on
\* the script is never given when something is wrong, from Python or from C++.
ErrorsAreTrue ==
  /\ result \in Complaints => Wrong(result)
  /\ result \in {"true", "false"} => \A e \in Complaints : ~Wrong(e)

\* What convert_tx_outputs makes an array of.
Converts == call.spent.kind \in {"list", "lazy"}

\* However a call ends, and wherever its conversion fails, the reference counts of
\* the spent outputs are what they were when it began: nothing that the caller holds
\* is released, and no reference made for the call stays (convert_tx_outputs).  What
\* does stay is the array of their addresses: of every call whose sequence has been
\* converted, whatever it returns, and of no other.
OnlyArrayStays ==
  pc = "done" =>
    /\ \A o \in Output : count[o] = Held(call, o)
    /\ array <=> Converts /\ call.spent.untyped = 0 /\ result # "MemoryError"

\* The outputs of a list, a tuple or an array are those the script runs with.
HeldAreRead ==
  call.spent.kind \in {"list", "span"} =>
    copied = SubSeq(call.spent.items, 1, Len(copied))

\* What is copied is alive: whatever sequence of outputs the program has passed
\* (btck.pyi declares typing.Sequence), the library reads its items.
SequencesAreRead == \A i \in DOMAIN copied : copied[i] # Garbage

-----------------------------------------------------------------------------
(* The inductive invariant behind TypeOK, ScriptCanRun, ErrorsAreTrue,     *)
(* OnlyArrayStays and HeldAreRead.                                         *)

Items == call.spent.items
Kept == call.spent.kind \in {"list", "span"}

Converting == {"idle", "convert", "allocate", "collect", "parse"}
Checking == {"flags", "combination", "required", "mismatch", "index", "run"}

\* A call is at one of its steps; C++'s has nothing to convert.
CallShape ==
  /\ pc \in Converting \cup Checking \cup {"copy", "done"}
  /\ call \in Call
  /\ pc = "idle" => call = NoCall
  /\ pc \in {"convert", "allocate", "collect", "parse"} => call.client = "python"

\* The list is there while it is read, and its references are counted as long.
ListShape ==
  /\ seq = IF pc \in {"allocate", "collect"} THEN Items ELSE <<>>
  /\ count = [o \in Output |->
                Held(call, o) + (IF call.spent.kind = "lazy" THEN References(seq, o) ELSE 0)]

\* The pointers are those of the first items, and of all when it is the library's turn.
DataShape ==
  /\ data \in Seq(Output)
  /\ Len(data) <= Len(Items)
  /\ \A i \in 1..Len(data) : data[i] = Items[i]
  /\ pc \in {"idle", "convert", "allocate"} /\ call.client = "python" => data = <<>>
  /\ pc \in {"parse", "copy"} \cup Checking => Len(data) = Len(Items)

\* So are the copies, if the items are kept.
CopyShape ==
  /\ copied \in Seq(Output \cup {Garbage})
  /\ Len(copied) <= Len(Items)
  /\ Kept => \A i \in 1..Len(copied) : copied[i] = Items[i]
  /\ pc \in Converting => copied = <<>>
  /\ pc \in Checking => Len(copied) = Len(Items)

\* What a step of the checks can rely on.
Passed ==
  CASE pc = "combination" -> {"invalid_flags"}
    [] pc = "required" -> {"invalid_flags", "invalid_flags_combination"}
    [] pc = "mismatch" -> Complaints \ {"spent_outputs_mismatch", "tx_input_index"}
    [] pc = "index" -> Complaints \ {"tx_input_index"}
    [] pc = "run" -> Complaints
    [] OTHER -> {}

\* Checks that are passed are satisfied, and the script runs after all of them.
VerdictShape ==
  /\ result \in Results
  /\ \A e \in Passed : ~Wrong(e)
  /\ pc # "done" => ran = NotRun /\ result = "none"
  /\ ran # NotRun =>
       /\ \A e \in Complaints : ~Wrong(e)
       /\ ran.flags = call.flags /\ ran.index = call.index
       /\ Has(VERIFY_TAPROOT) => Len(ran.outputs) = Len(Items)

IInv ==
  /\ CallShape
  /\ ListShape
  /\ DataShape
  /\ CopyShape
  /\ VerdictShape
  /\ ErrorsAreTrue

\* Next to it: the array is there from its allocation on, unless an item ends the
\* conversion, and items that have been collected were outputs.
ArrayShape ==
  /\ array \in BOOLEAN
  /\ pc \in {"idle", "convert", "allocate"} => ~array
  /\ pc \in {"allocate", "collect"} => Converts
  /\ pc = "collect" => array /\ call.spent.untyped \notin 1..Len(data)
  /\ pc \in {"parse", "copy"} \cup Checking =>
       /\ array <=> Converts
       /\ array => call.spent.untyped = 0
  /\ pc = "done" => (array <=> Converts /\ call.spent.untyped = 0 /\ result # "MemoryError")
=============================================================================
