------------------------------ MODULE ErrorApi ------------------------------
(***************************************************************************)
(* How an error crosses the C API.  A C++ exception inside a library call  *)
(* is turned into a BtcK_Error (three allocations, each of which may fail),*)
(* handed to the caller through struct BtcK_Error**, and turned back into  *)
(* an exception by the C++ wrapper or the Python binding, which release    *)
(* it.  When there is no memory for the error itself the call reports the  *)
(* static OOM_ERROR, which all threads share and nobody may release.       *)
(***************************************************************************)
EXTENDS Integers, FiniteSets

CONSTANTS
  Thread,   \* threads that call the library
  Code,     \* error codes
  Null,     \* the null pointer
  OOM       \* the address of OOM_ERROR

ASSUME PointerAssumption == Null # OOM /\ Null # "object" /\ {Null, OOM} \cap Thread = {}

VARIABLES
  pc,      \* where the thread is
  call,    \* the call it made: which function, from where, with an err or not
  exc,     \* the exception that ended the call; NoException if none did
  new,     \* what BtcK_Error_New has put together so far
  err,     \* the caller's struct BtcK_Error*
  ret,     \* the return value: Null stands for any value-initialized Ret{}
  raised,  \* the exception the caller ends up with
  refused, \* history: an allocation for this call's error was refused
  live     \* allocated memory: <<owner, part>>

vars == <<pc, call, exc, new, err, ret, raised, refused, live>>

\* Exceptions by what TranslateException distinguishes.  A category is that of a
\* std::system_error; "std" is any other std::exception.
Category == {"generic", "system", "VerificationError", "iostream"}
Exception ==
  [kind : {"bad_alloc", "std", "unknown", "runtime_error"}, code : {-1}]
    \cup [kind : Category, code : Code]
NoException == [kind |-> "none", code |-> -1]
BadAlloc == [kind |-> "bad_alloc", code |-> -1]

\* What library code may throw.
Thrown == {e \in Exception : e.kind # "runtime_error"}

\* Functions with an err parameter return a new object or, Verify, 1 or 0.
Function == {"New", "Verify"}
Result == [New |-> {"object"}, Verify |-> {"true", Null}]

\* The C++ wrapper (invoke) and most of the Python binding pass an err; the
\* constructors of Python's Block and Transaction pass NULL, and C code may.
Call == [fn : Function, caller : {"cpp", "python"}, err : {TRUE}]
          \cup [fn : {"New"}, caller : {"python"}, err : {FALSE}]
          \cup [fn : Function, caller : {"c"}, err : BOOLEAN]

Parts == {"struct", "domain", "message"}
Static == {OOM} \X Parts

\* An error is named after the thread whose call allocated it.
Fields(p) == {p} \X Parts

Idle(t) == pc[t] = "idle"

-----------------------------------------------------------------------------
(* TranslateException: the domain and the code of the error.               *)

\* Faulty variants of the definitions that follow them are named ...Fault; no
\* specification uses them.  Here: bad_alloc is caught as a std::exception.
DomainFault(e) ==
  CASE e.kind \in Category -> e.kind
    [] OTHER -> "Unknown"

Domain(e) ==
  CASE e.kind = "bad_alloc" -> "Memory"
    [] e.kind \in Category -> e.kind
    [] OTHER -> "Unknown"

NoError == [domain |-> "none", code |-> -1]
OomError == [domain |-> "Memory", code |-> -1]

\* What reading an error yields.
Read(t) == IF err[t] = OOM THEN OomError
                           ELSE [domain |-> Domain(exc[t]), code |-> exc[t].code]

-----------------------------------------------------------------------------
(* The library call and WrapFn.                                            *)

Start(t) ==
  /\ Idle(t)
  /\ \E c \in Call : call' = [call EXCEPT ![t] = c]
  /\ pc' = [pc EXCEPT ![t] = "body"]
  /\ exc' = [exc EXCEPT ![t] = NoException]
  /\ err' = [err EXCEPT ![t] = Null]
  /\ ret' = [ret EXCEPT ![t] = Null]
  /\ raised' = [raised EXCEPT ![t] = NoException]
  /\ refused' = [refused EXCEPT ![t] = FALSE]
  /\ UNCHANGED <<new, live>>

Succeed(t) ==
  /\ pc[t] = "body"
  /\ \E r \in Result[call[t].fn] : ret' = [ret EXCEPT ![t] = r]
  /\ pc' = [pc EXCEPT ![t] = "returned"]
  /\ UNCHANGED <<call, exc, new, err, raised, refused, live>>

\* catch (...): without an err there is nothing to translate.
Catch(t) ==
  /\ pc[t] = "body"
  /\ \E e \in Thrown : exc' = [exc EXCEPT ![t] = e]
  /\ pc' = [pc EXCEPT ![t] = IF call[t].err THEN "malloc" ELSE "returned"]
  /\ UNCHANGED <<call, new, err, ret, raised, refused, live>>

-----------------------------------------------------------------------------
(* BtcK_Error_New and BtcK_Error_Free.                                     *)

Acquire(t, part) ==
  /\ live' = live \cup {<<t, part>>}
  /\ new' = [new EXCEPT ![t] = @ \cup {part}]
  /\ UNCHANGED refused

Refuse(t) ==
  /\ refused' = [refused EXCEPT ![t] = TRUE]
  /\ UNCHANGED <<live, new>>

Malloc(t) ==
  /\ pc[t] = "malloc"
  /\ \/ Acquire(t, "struct") /\ pc' = [pc EXCEPT ![t] = "domain"]
     \/ Refuse(t) /\ pc' = [pc EXCEPT ![t] = "check"]
  /\ UNCHANGED <<call, exc, err, ret, raised>>

\* Both strings are duplicated, also when the first duplication fails.
DupDomain(t) ==
  /\ pc[t] = "domain"
  /\ Acquire(t, "domain") \/ Refuse(t)
  /\ pc' = [pc EXCEPT ![t] = "message"]
  /\ UNCHANGED <<call, exc, err, ret, raised>>

DupMessage(t) ==
  /\ pc[t] = "message"
  /\ Acquire(t, "message") \/ Refuse(t)
  /\ pc' = [pc EXCEPT ![t] = "check"]
  /\ UNCHANGED <<call, exc, err, ret, raised>>

\* Faulty: the static error is taken for an allocated one.
FreedFault(p) == IF p = Null THEN {} ELSE Fields(p)

\* Nothing happens for NULL and OOM_ERROR.
Freed(p) == IF p \in {Null, OOM} THEN {} ELSE Fields(p)

\* Faulty: an incomplete error is dropped, not freed.
CheckFault(t) ==
  /\ pc[t] = "check"
  /\ err' = [err EXCEPT ![t] = IF new[t] = Parts THEN t ELSE OOM]
  /\ UNCHANGED live
  /\ new' = [new EXCEPT ![t] = {}]
  /\ pc' = [pc EXCEPT ![t] = "returned"]
  /\ UNCHANGED <<call, exc, ret, raised, refused>>

\* A complete error, or OOM_ERROR after releasing an incomplete one; then
\* *err is set and the call returns Ret{}.
Check(t) ==
  /\ pc[t] = "check"
  /\ \/ /\ new[t] = Parts
        /\ err' = [err EXCEPT ![t] = t]
        /\ UNCHANGED live
     \/ /\ new[t] # Parts
        /\ err' = [err EXCEPT ![t] = OOM]
        /\ live' = live \ Freed(t)
  /\ new' = [new EXCEPT ![t] = {}]
  /\ pc' = [pc EXCEPT ![t] = "returned"]
  /\ UNCHANGED <<call, exc, ret, raised, refused>>

-----------------------------------------------------------------------------
(* The caller.                                                             *)

\* invoke and translate_error: "generic", "system" and "VerificationError" are
\* the domains the wrapper knows to be categories.
ToCpp(e) ==
  CASE e.domain = "Memory" -> BadAlloc
    [] e.domain \in {"generic", "system", "VerificationError"} ->
         [kind |-> e.domain, code |-> e.code]
    [] OTHER -> [kind |-> "runtime_error", code |-> -1]

\* Python's SetError; its exceptions carry no code.
ToPython(e) ==
  CASE e.domain = "Memory" -> BadAlloc
    [] e.domain = "VerificationError" -> [kind |-> "VerificationError", code |-> -1]
    [] OTHER -> [kind |-> "runtime_error", code |-> -1]

\* Making the exception may itself fail for want of memory.
Raise(t, e) ==
  /\ pc' = [pc EXCEPT ![t] = "release"]
  /\ \/ raised' = [raised EXCEPT ![t] = e] /\ UNCHANGED refused
     \/ raised' = [raised EXCEPT ![t] = BadAlloc] /\ refused' = [refused EXCEPT ![t] = TRUE]
  /\ UNCHANGED <<call, exc, new, err, ret, live>>

\* The exception is thrown while the unique_ptr still owns the error; its
\* destructor runs during the unwinding.
TranslateError(t) ==
  /\ pc[t] = "returned" /\ call[t].caller = "cpp" /\ err[t] # Null
  /\ Raise(t, ToCpp(Read(t)))

\* Faulty: the error is freed before its strings are used.
SetErrorFault(t) ==
  /\ call[t].caller = "python" /\ err[t] # Null
  /\ \/ /\ pc[t] = "returned"
        /\ live' = live \ Freed(err[t])
        /\ pc' = [pc EXCEPT ![t] = "freed"]
        /\ UNCHANGED <<call, exc, new, err, ret, raised, refused>>
     \/ pc[t] = "freed" /\ Raise(t, ToPython(Read(t)))

SetError(t) ==
  /\ pc[t] = "returned" /\ call[t].caller = "python" /\ err[t] # Null
  /\ Raise(t, ToPython(Read(t)))

\* C code reads what it wants of the error and frees it.
Inspect(t) ==
  /\ pc[t] = "returned" /\ call[t].caller = "c" /\ err[t] # Null
  /\ pc' = [pc EXCEPT ![t] = "release"]
  /\ UNCHANGED <<call, exc, new, err, ret, raised, refused, live>>

Release(t) ==
  /\ pc[t] = "release"
  /\ live' = live \ Freed(err[t])
  /\ err' = [err EXCEPT ![t] = Null]
  /\ pc' = [pc EXCEPT ![t] = "idle"]
  /\ UNCHANGED <<call, exc, new, ret, raised, refused>>

\* No error was reported: the caller goes by the return value.
Accept(t) ==
  /\ pc[t] = "returned" /\ err[t] = Null
  /\ pc' = [pc EXCEPT ![t] = "idle"]
  /\ UNCHANGED <<call, exc, new, err, ret, raised, refused, live>>

-----------------------------------------------------------------------------
Init ==
  /\ pc = [t \in Thread |-> "idle"]
  /\ call = [t \in Thread |-> [fn |-> "New", caller |-> "c", err |-> TRUE]]
  /\ exc = [t \in Thread |-> NoException]
  /\ new = [t \in Thread |-> {}]
  /\ err = [t \in Thread |-> Null]
  /\ ret = [t \in Thread |-> "object"]
  /\ raised = [t \in Thread |-> NoException]
  /\ refused = [t \in Thread |-> FALSE]
  /\ live = Static

Step(t) ==
  \/ Start(t) \/ Succeed(t) \/ Catch(t)
  \/ Malloc(t) \/ DupDomain(t) \/ DupMessage(t) \/ Check(t)
  \/ TranslateError(t) \/ SetError(t) \/ Inspect(t)
  \/ Release(t) \/ Accept(t)

Next == \E t \in Thread : Step(t)

Spec == Init /\ [][Next]_vars

-----------------------------------------------------------------------------
(* Properties.                                                             *)

TypeOK ==
  /\ pc \in [Thread -> {"idle", "body", "malloc", "domain", "message", "check",
                        "returned", "release"}]
  /\ call \in [Thread -> Call]
  /\ exc \in [Thread -> Thrown \cup {NoException}]
  /\ new \in [Thread -> SUBSET Parts]
  /\ err \in [Thread -> Thread \cup {Null, OOM}]
  /\ ret \in [Thread -> {"object", "true", Null}]
  /\ raised \in [Thread -> [kind : {"bad_alloc", "runtime_error", "none"} \cup Category,
                            code : Code \cup {-1}]]
  /\ refused \in [Thread -> BOOLEAN]
  /\ live \subseteq (Thread \cup {OOM}) \X Parts

\* OOM_ERROR is never released, whoever is given it, how often and at the same
\* time as whom.
StaticAlive == Static \subseteq live

\* A thread outside of a call holds no memory of an error: not of one it was
\* given, nor of one that could not be completed.
ErrorsReleased == \A t \in Thread : Idle(t) => live \cap Fields(t) = {}

\* Whoever makes an exception of an error reads strings that are allocated.
ReadsLive ==
  [][\A t \in Thread : pc[t] # "release" /\ pc'[t] = "release"
       => Fields(err[t]) \subseteq live]_vars

\* What the caller of a wrapper should see of an exception of the library.
Expected(e, caller) ==
  CASE e.kind = "bad_alloc" -> e
    [] e.kind = "VerificationError" ->
         IF caller = "cpp" THEN e ELSE [e EXCEPT !.code = -1]
    [] e.kind \in {"generic", "system"} /\ caller = "cpp" -> e
    [] OTHER -> [kind |-> "runtime_error", code |-> -1]

\* An exception of the library comes out of a wrapper that passes an err as what it
\* was (any other type than theirs as a runtime error), or, if there was no memory
\* to describe it, as bad_alloc; a call that succeeds raises nothing.  The
\* constructors of Python's Block and Transaction pass none: there the exception
\* is lost, and that nothing was made shows in the null pointer only, as it does
\* for every function that makes an object.
ExceptionsCross ==
  \A t \in Thread : Idle(t) =>
    /\ call[t].caller # "c" =>
         IF exc[t] = NoException \/ ~call[t].err THEN raised[t] = NoException
         ELSE \/ raised[t] = Expected(exc[t], call[t].caller)
              \/ refused[t] /\ raised[t].kind = "bad_alloc"
    /\ call[t].fn = "New" => (ret[t] = Null <=> exc[t] # NoException)

-----------------------------------------------------------------------------
(* The inductive invariant: what is allocated for a thread's error, and    *)
(* what its call has come to, at each point of the call.                   *)

Owned(t) == live \cap Fields(t)

Outcome(t) ==
  IF exc[t] = NoException \/ call[t].caller = "c" \/ ~call[t].err
  THEN raised[t] = NoException
  ELSE \/ raised[t] = Expected(exc[t], call[t].caller)
       \/ refused[t] /\ raised[t] = BadAlloc

Progress(t) ==
  /\ pc[t] = "idle" =>
       /\ Owned(t) = {} /\ new[t] = {} /\ err[t] = Null
       /\ Outcome(t)
  /\ pc[t] = "body" =>
       /\ Owned(t) = {} /\ new[t] = {} /\ err[t] = Null
       /\ exc[t] = NoException /\ raised[t] = NoException
  /\ pc[t] \in {"malloc", "domain", "message", "check"} =>
       /\ Owned(t) = {t} \X new[t] /\ err[t] = Null
       /\ call[t].err /\ exc[t] # NoException /\ raised[t] = NoException
  /\ pc[t] = "malloc" => new[t] = {}
  /\ pc[t] = "domain" => new[t] = {"struct"}
  /\ pc[t] = "message" => /\ new[t] \subseteq {"struct", "domain"}
                          /\ "struct" \in new[t]
                          /\ "domain" \in new[t] \/ refused[t]
  /\ pc[t] = "check" => new[t] = Parts \/ refused[t]
  /\ pc[t] \in {"returned", "release"} =>
       /\ new[t] = {}
       /\ err[t] \in {Null, OOM, t}
       /\ Owned(t) = IF err[t] = t THEN Fields(t) ELSE {}
       /\ err[t] # Null => exc[t] # NoException /\ call[t].err
       /\ err[t] = OOM => refused[t]
       /\ err[t] = Null => exc[t] = NoException \/ ~call[t].err
  /\ pc[t] = "returned" => raised[t] = NoException
  /\ pc[t] = "release" => Outcome(t)

IInv == /\ TypeOK
        /\ StaticAlive
        /\ \A t \in Thread : Progress(t)

\* Next to it: a function that makes an object returns a null pointer if and only if
\* it has ended with an exception (Ret{}).
NullTells ==
  \A t \in Thread :
    /\ pc[t] = "body" => exc[t] = NoException /\ ret[t] = Null
    /\ pc[t] # "body" /\ call[t].fn = "New" => (ret[t] = Null <=> exc[t] # NoException)
=============================================================================
