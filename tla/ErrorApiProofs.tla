-------------------------- MODULE ErrorApiProofs --------------------------
(***************************************************************************)
(* Proofs about ErrorApi, for any number of threads and any error codes.   *)
(***************************************************************************)
EXTENDS ErrorApi, TLAPS

\* The errors of two threads, and the static one, share no memory.
LEMMA Disjoint ==
  /\ \A t \in Thread : Fields(t) \cap Static = {}
  /\ \A t, u \in Thread : t # u => Fields(t) \cap Fields(u) = {}
BY PointerAssumption DEF Fields, Static

\* A step that changes nothing of a thread's own leaves its progress alone.
LEMMA Unconcerned ==
  ASSUME NEW t \in Thread, Progress(t),
         pc'[t] = pc[t], call'[t] = call[t], exc'[t] = exc[t], new'[t] = new[t],
         err'[t] = err[t], raised'[t] = raised[t], refused'[t] = refused[t],
         Owned(t)' = Owned(t)
  PROVE  Progress(t)'
BY DEF Progress, Outcome

\* What an exception of the library turns into, when the error is complete.
LEMMA CppExpected ==
  ASSUME NEW e \in Thrown
  PROVE  ToCpp([domain |-> Domain(e), code |-> e.code]) = Expected(e, "cpp")
<1>1. CASE e.kind = "bad_alloc"
  BY <1>1 DEF Thrown, Exception, Domain, ToCpp, Expected, BadAlloc, Category
<1>2. CASE e.kind \in {"std", "unknown"}
  BY <1>2 DEF Thrown, Exception, Domain, ToCpp, Expected, BadAlloc, Category
<1>3. CASE e.kind \in Category
  BY <1>3 DEF Thrown, Exception, Domain, ToCpp, Expected, BadAlloc, Category
<1> QED
  BY <1>1, <1>2, <1>3 DEF Thrown, Exception

LEMMA PythonExpected ==
  ASSUME NEW e \in Thrown
  PROVE  ToPython([domain |-> Domain(e), code |-> e.code]) = Expected(e, "python")
<1>1. CASE e.kind = "bad_alloc"
  BY <1>1 DEF Thrown, Exception, Domain, ToPython, Expected, BadAlloc, Category
<1>2. CASE e.kind \in {"std", "unknown"}
  BY <1>2 DEF Thrown, Exception, Domain, ToPython, Expected, BadAlloc, Category
<1>3. CASE e.kind \in Category
  BY <1>3 DEF Thrown, Exception, Domain, ToPython, Expected, BadAlloc, Category
<1> QED
  BY <1>1, <1>2, <1>3 DEF Thrown, Exception

\* The exceptions a caller raises are of the kinds it knows.
LEMMA ExpectedType ==
  ASSUME NEW e \in Thrown, NEW c \in {"cpp", "python"}
  PROVE  Expected(e, c) \in
           [kind : {"bad_alloc", "runtime_error", "none"} \cup Category,
            code : Code \cup {-1}]
BY DEF Thrown, Exception, Expected, Category

-----------------------------------------------------------------------------
(* The inductive invariant.                                                *)

LEMMA InitInv == Init => IInv
<1> SUFFICES ASSUME Init PROVE IInv
  OBVIOUS
<1>1. TypeOK
  BY DEF Init, TypeOK, Call, Function, NoException, Static
<1>2. StaticAlive
  BY DEF Init, StaticAlive
<1>3. \A t \in Thread : Progress(t)
  BY Disjoint DEF Init, Progress, Outcome, Owned, NoException
<1> QED
  BY <1>1, <1>2, <1>3 DEF IInv

LEMMA StartInv ==
  ASSUME IInv, NEW t \in Thread, Start(t)
  PROVE  IInv'
<1> USE DEF IInv, Start, Idle
<1>1. TypeOK'
  <2>1. NoException \in [kind : {"bad_alloc", "runtime_error", "none"} \cup Category,
                         code : Code \cup {-1}]
    BY DEF NoException
  <2>2. call' \in [Thread -> Call]
    BY DEF TypeOK
  <2>3. raised' \in [Thread -> [kind : {"bad_alloc", "runtime_error", "none"} \cup Category,
                               code : Code \cup {-1}]]
    BY <2>1 DEF TypeOK
  <2>4. /\ pc' \in [Thread -> {"idle", "body", "malloc", "domain", "message", "check",
                              "returned", "release"}]
        /\ exc' \in [Thread -> Thrown \cup {NoException}]
        /\ err' \in [Thread -> Thread \cup {Null, OOM}]
        /\ ret' \in [Thread -> {"object", "true", Null}]
        /\ refused' \in [Thread -> BOOLEAN]
    BY DEF TypeOK
  <2>5. new' \in [Thread -> SUBSET Parts] /\ live' \subseteq (Thread \cup {OOM}) \X Parts
    BY DEF TypeOK
  <2> QED
    BY ONLY <2>2, <2>3, <2>4, <2>5 DEF TypeOK
<1>2. StaticAlive'
  BY DEF StaticAlive
<1>3. Progress(t)'
  BY DEF TypeOK, Progress, Owned, NoException
<1>4. \A u \in Thread \ {t} : Progress(u)'
  BY Unconcerned DEF TypeOK, Owned
<1> QED
  BY <1>1, <1>2, <1>3, <1>4

LEMMA SucceedInv ==
  ASSUME IInv, NEW t \in Thread, Succeed(t)
  PROVE  IInv'
<1> USE DEF IInv, Succeed
<1>1. TypeOK'
  <2>1. call[t].fn \in Function
    <3>1. call[t] \in Call
      BY DEF TypeOK
    <3> QED
      BY ONLY <3>1 DEF Call, Function
  <2>2. Result[call[t].fn] \subseteq {"object", "true", Null}
    BY <2>1 DEF Function, Result
  <2>3. ret' \in [Thread -> {"object", "true", Null}]
    BY <2>2 DEF TypeOK
  <2> QED
    BY <2>3 DEF TypeOK
<1>2. StaticAlive'
  BY DEF StaticAlive
<1>3. Progress(t)'
  BY PointerAssumption DEF TypeOK, Progress, Owned
<1>4. \A u \in Thread \ {t} : Progress(u)'
  BY Unconcerned DEF TypeOK, Owned
<1> QED
  BY <1>1, <1>2, <1>3, <1>4

LEMMA CatchInv ==
  ASSUME IInv, NEW t \in Thread, Catch(t)
  PROVE  IInv'
<1> USE DEF IInv, Catch
<1>1. TypeOK'
  BY DEF TypeOK
<1>2. StaticAlive'
  BY DEF StaticAlive
<1>3. Progress(t)'
  <2>1. exc'[t] # NoException
    BY DEF TypeOK, Thrown, Exception, NoException, Category
  <2> QED
    BY <2>1, PointerAssumption DEF TypeOK, Progress, Owned
<1>4. \A u \in Thread \ {t} : Progress(u)'
  BY Unconcerned DEF TypeOK, Owned
<1> QED
  BY <1>1, <1>2, <1>3, <1>4

\* One allocation for an error, granted or refused.
LEMMA AllocationLive ==
  ASSUME IInv, NEW t \in Thread, NEW part \in Parts,
         Acquire(t, part) \/ Refuse(t),
         Owned(t) = {t} \X new[t]
  PROVE  /\ Owned(t)' = {t} \X new'[t]
         /\ \A u \in Thread \ {t} : Owned(u)' = Owned(u)
         /\ StaticAlive'
         /\ live' \subseteq (Thread \cup {OOM}) \X Parts
         /\ new' \in [Thread -> SUBSET Parts]
         /\ refused' \in [Thread -> BOOLEAN]
<1>1. CASE Acquire(t, part)
  <2>1. /\ live' = live \cup {<<t, part>>}
        /\ new'[t] = new[t] \cup {part}
        /\ new' \in [Thread -> SUBSET Parts]
        /\ refused' = refused
    BY <1>1 DEF Acquire, IInv, TypeOK
  <2>2. <<t, part>> \in Fields(t) /\ \A u \in Thread \ {t} : <<t, part>> \notin Fields(u)
    BY DEF Fields
  <2>3. Owned(t)' = Owned(t) \cup {<<t, part>>}
    BY <2>1, <2>2 DEF Owned, Fields
  <2>4. \A u \in Thread \ {t} : Owned(u)' = Owned(u)
    BY <2>1, <2>2 DEF Owned, Fields
  <2>5. StaticAlive'
    BY <2>1 DEF IInv, StaticAlive, Static
  <2>6. live' \subseteq (Thread \cup {OOM}) \X Parts
    BY <2>1 DEF IInv, TypeOK
  <2> QED
    BY <2>1, <2>3, <2>4, <2>5, <2>6 DEF IInv, TypeOK
<1>2. CASE Refuse(t)
  <2>1. live' = live /\ new' = new /\ refused' \in [Thread -> BOOLEAN]
    BY <1>2 DEF Refuse, IInv, TypeOK
  <2>2. StaticAlive'
    BY <2>1 DEF StaticAlive, Static, IInv
  <2> QED
    BY <2>1, <2>2 DEF Owned, Fields, IInv, TypeOK
<1> QED
  BY <1>1, <1>2

LEMMA MallocInv ==
  ASSUME IInv, NEW t \in Thread, Malloc(t)
  PROVE  IInv'
<1> USE DEF IInv
<1>1. /\ Acquire(t, "struct") \/ Refuse(t)
      /\ "struct" \in Parts
      /\ pc[t] = "malloc"
      /\ pc' \in [Thread -> {"domain", "message", "check"} \cup {pc[u] : u \in Thread}]
      /\ \A u \in Thread \ {t} : pc'[u] = pc[u]
      /\ UNCHANGED <<call, exc, err, ret, raised>>
  BY DEF Malloc, TypeOK, Parts
<1>2. Owned(t) = {t} \X new[t]
  BY <1>1 DEF Progress
<1>3. TypeOK'
  BY <1>1, <1>2, AllocationLive DEF TypeOK
<1>4. StaticAlive'
  BY <1>1, <1>2, AllocationLive
<1>5. Progress(t)'
  <2>1. new[t] = {} /\ pc \in [Thread -> {"idle", "body", "malloc", "domain", "message",
                                          "check", "returned", "release"}]
    BY <1>1 DEF Progress, TypeOK
  <2>2. CASE Acquire(t, "struct") /\ pc' = [pc EXCEPT ![t] = "domain"]
    <3>1. new'[t] = {"struct"}
      BY <2>1, <2>2 DEF Acquire, TypeOK
    <3> QED
      BY <1>1, <1>2, <2>1, <2>2, <3>1, AllocationLive DEF Progress
  <2>3. CASE Refuse(t) /\ pc' = [pc EXCEPT ![t] = "check"]
    <3>1. new' = new /\ refused'[t]
      BY <2>3 DEF Refuse, TypeOK
    <3> QED
      BY <1>1, <1>2, <2>1, <2>3, <3>1, AllocationLive DEF Progress
  <2> QED
    BY <2>2, <2>3 DEF Malloc
<1>6. \A u \in Thread \ {t} : Progress(u)'
  <2>1. \A u \in Thread \ {t} : new'[u] = new[u] /\ refused'[u] = refused[u]
    BY <1>1 DEF Acquire, Refuse, TypeOK
  <2> QED
    BY <1>1, <1>2, <2>1, AllocationLive, Unconcerned
<1> QED
  BY <1>3, <1>4, <1>5, <1>6

LEMMA DupDomainInv ==
  ASSUME IInv, NEW t \in Thread, DupDomain(t)
  PROVE  IInv'
<1> USE DEF IInv
<1>1. /\ Acquire(t, "domain") \/ Refuse(t)
      /\ "domain" \in Parts
      /\ pc[t] = "domain"
      /\ pc' \in [Thread -> {"domain", "message", "check"} \cup {pc[u] : u \in Thread}]
      /\ \A u \in Thread \ {t} : pc'[u] = pc[u]
      /\ UNCHANGED <<call, exc, err, ret, raised>>
  BY DEF DupDomain, TypeOK, Parts
<1>2. Owned(t) = {t} \X new[t]
  BY <1>1 DEF Progress
<1>3. TypeOK'
  BY <1>1, <1>2, AllocationLive DEF TypeOK
<1>4. StaticAlive'
  BY <1>1, <1>2, AllocationLive
<1>5. Progress(t)'
  <2>1. /\ pc'[t] = "message" /\ Owned(t)' = {t} \X new'[t]
        /\ call'[t] = call[t] /\ exc'[t] = exc[t] /\ err'[t] = err[t] /\ raised'[t] = raised[t]
    BY <1>1, <1>2, AllocationLive DEF DupDomain, TypeOK
  <2>2. /\ err[t] = Null /\ call[t].err /\ exc[t] # NoException /\ raised[t] = NoException
    BY <1>1 DEF Progress
  <2>3. new[t] = {"struct"}
    BY <1>1 DEF Progress
  <2>4. /\ new'[t] \subseteq {"struct", "domain"} /\ "struct" \in new'[t]
        /\ "domain" \in new'[t] \/ refused'[t]
    <3>1. CASE Acquire(t, "domain")
      <4>1. new'[t] = new[t] \cup {"domain"} /\ refused' = refused
        BY <3>1 DEF Acquire, TypeOK
      <4> QED
        BY <2>3, <4>1 DEF Parts
    <3>2. CASE Refuse(t)
      <4>1. new' = new /\ refused'[t]
        BY <3>2 DEF Refuse, TypeOK
      <4> QED
        BY <2>3, <4>1 DEF Parts
    <3> QED
      BY <1>1, <3>1, <3>2
  <2> QED
    BY ONLY <2>1, <2>2, <2>4 DEF Progress
<1>6. \A u \in Thread \ {t} : Progress(u)'
  <2>1. \A u \in Thread \ {t} : new'[u] = new[u] /\ refused'[u] = refused[u]
    BY <1>1 DEF Acquire, Refuse, TypeOK
  <2> QED
    BY <1>1, <1>2, <2>1, AllocationLive, Unconcerned
<1> QED
  BY <1>3, <1>4, <1>5, <1>6

LEMMA DupMessageInv ==
  ASSUME IInv, NEW t \in Thread, DupMessage(t)
  PROVE  IInv'
<1> USE DEF IInv
<1>1. /\ Acquire(t, "message") \/ Refuse(t)
      /\ "message" \in Parts
      /\ pc[t] = "message"
      /\ pc' \in [Thread -> {"domain", "message", "check"} \cup {pc[u] : u \in Thread}]
      /\ \A u \in Thread \ {t} : pc'[u] = pc[u]
      /\ UNCHANGED <<call, exc, err, ret, raised>>
  BY DEF DupMessage, TypeOK, Parts
<1>2. Owned(t) = {t} \X new[t]
  BY <1>1 DEF Progress
<1>3. TypeOK'
  BY <1>1, <1>2, AllocationLive DEF TypeOK
<1>4. StaticAlive'
  BY <1>1, <1>2, AllocationLive
<1>5. Progress(t)'
  <2>1. /\ pc'[t] = "check" /\ Owned(t)' = {t} \X new'[t]
        /\ call'[t] = call[t] /\ exc'[t] = exc[t] /\ err'[t] = err[t] /\ raised'[t] = raised[t]
    BY <1>1, <1>2, AllocationLive DEF DupMessage, TypeOK
  <2>2. /\ err[t] = Null /\ call[t].err /\ exc[t] # NoException /\ raised[t] = NoException
    BY <1>1 DEF Progress
  <2>3. /\ new[t] \subseteq {"struct", "domain"} /\ "struct" \in new[t]
        /\ "domain" \in new[t] \/ refused[t]
    BY <1>1 DEF Progress
  <2>4. new'[t] = Parts \/ refused'[t]
    <3>1. CASE Acquire(t, "message")
      <4>1. new'[t] = new[t] \cup {"message"} /\ refused' = refused
        BY <3>1 DEF Acquire, TypeOK
      <4> QED
        BY <2>3, <4>1 DEF Parts
    <3>2. CASE Refuse(t)
      <4>1. new' = new /\ refused'[t]
        BY <3>2 DEF Refuse, TypeOK
      <4> QED
        BY <2>3, <4>1 DEF Parts
    <3> QED
      BY <1>1, <3>1, <3>2
  <2> QED
    BY ONLY <2>1, <2>2, <2>4 DEF Progress
<1>6. \A u \in Thread \ {t} : Progress(u)'
  <2>1. \A u \in Thread \ {t} : new'[u] = new[u] /\ refused'[u] = refused[u]
    BY <1>1 DEF Acquire, Refuse, TypeOK
  <2> QED
    BY <1>1, <1>2, <2>1, AllocationLive, Unconcerned
<1> QED
  BY <1>3, <1>4, <1>5, <1>6

\* Releasing an error touches no memory but its own, and never the static one.
LEMMA FreedLive ==
  ASSUME IInv, NEW t \in Thread, NEW p \in {Null, OOM, t},
         live' = live \ Freed(p),
         Owned(t) \subseteq Freed(p)
  PROVE  /\ Owned(t)' = {}
         /\ \A u \in Thread \ {t} : Owned(u)' = Owned(u)
         /\ StaticAlive'
         /\ live' \subseteq (Thread \cup {OOM}) \X Parts
<1>1. Freed(p) \subseteq Fields(t)
  BY PointerAssumption DEF Freed
<1>2. Owned(t)' = {}
  BY DEF Owned
<1>3. \A u \in Thread \ {t} : Owned(u)' = Owned(u)
  BY <1>1, Disjoint DEF Owned
<1>4. StaticAlive'
  BY <1>1, Disjoint DEF StaticAlive, IInv
<1> QED
  BY <1>2, <1>3, <1>4 DEF IInv, TypeOK

LEMMA CheckInv ==
  ASSUME IInv, NEW t \in Thread, Check(t)
  PROVE  IInv'
<1> USE DEF IInv
<1>1. /\ pc[t] = "check"
      /\ pc' = [pc EXCEPT ![t] = "returned"]
      /\ new' = [new EXCEPT ![t] = {}]
      /\ UNCHANGED <<call, exc, ret, raised, refused>>
      /\ Owned(t) = {t} \X new[t]
  BY DEF Check, Progress
<1>2. CASE new[t] = Parts
  <2>1. err' = [err EXCEPT ![t] = t] /\ live' = live
    BY <1>2 DEF Check
  <2>2. TypeOK' /\ StaticAlive'
    BY <1>1, <2>1 DEF TypeOK, StaticAlive
  <2>3. Progress(t)'
    BY <1>1, <1>2, <2>1, PointerAssumption DEF TypeOK, Progress, Owned, Fields
  <2>4. \A u \in Thread \ {t} : Progress(u)'
    BY <1>1, <2>1, Unconcerned DEF TypeOK, Owned
  <2> QED
    BY <2>2, <2>3, <2>4
<1>3. CASE new[t] # Parts
  <2>1. err' = [err EXCEPT ![t] = OOM] /\ live' = live \ Freed(t)
    BY <1>3 DEF Check
  <2>2. Freed(t) = Fields(t)
    BY PointerAssumption DEF Freed
  <2>3. Owned(t) \subseteq Freed(t)
    BY <2>2 DEF Owned
  <2>4. TypeOK' /\ StaticAlive'
    BY <1>1, <2>1, <2>3, FreedLive DEF TypeOK
  <2>5. Progress(t)'
    <3>1. /\ pc'[t] = "returned" /\ new'[t] = {} /\ err'[t] = OOM /\ Owned(t)' = {}
          /\ exc'[t] = exc[t] /\ raised'[t] = raised[t] /\ refused'[t] = refused[t]
          /\ call'[t] = call[t]
      BY <1>1, <2>1, <2>3, FreedLive DEF TypeOK
    <3>2. exc[t] # NoException /\ raised[t] = NoException /\ refused[t] /\ call[t].err
      BY <1>1, <1>3 DEF Progress
    <3>3. OOM # t /\ OOM # Null
      BY PointerAssumption
    <3> QED
      BY ONLY <3>1, <3>2, <3>3 DEF Progress
  <2>6. \A u \in Thread \ {t} : Progress(u)'
    BY <1>1, <2>1, <2>3, FreedLive, Unconcerned DEF TypeOK
  <2> QED
    BY <2>4, <2>5, <2>6
<1> QED
  BY <1>2, <1>3

\* The caller raises what it is told to, or bad_alloc; it then owns what it
\* owned before.
LEMMA RaiseStep ==
  ASSUME IInv, NEW t \in Thread, NEW e, Raise(t, e),
         e \in [kind : {"bad_alloc", "runtime_error", "none"} \cup Category,
                code : Code \cup {-1}]
  PROVE  /\ TypeOK' /\ StaticAlive'
         /\ raised'[t] = e \/ (refused'[t] /\ raised'[t] = BadAlloc)
         /\ \A u \in Thread \ {t} : Progress(u)'
<1> USE DEF IInv
<1>1. /\ pc' = [pc EXCEPT ![t] = "release"]
      /\ UNCHANGED <<call, exc, new, err, ret, live>>
      /\ \/ raised' = [raised EXCEPT ![t] = e] /\ refused' = refused
         \/ /\ raised' = [raised EXCEPT ![t] = BadAlloc]
            /\ refused' = [refused EXCEPT ![t] = TRUE]
  BY DEF Raise
<1>2. BadAlloc \in [kind : {"bad_alloc", "runtime_error", "none"} \cup Category,
                    code : Code \cup {-1}]
  BY DEF BadAlloc
<1>3. TypeOK' /\ StaticAlive'
  <2>1. /\ pc' \in [Thread -> {"idle", "body", "malloc", "domain", "message", "check",
                              "returned", "release"}]
        /\ refused' \in [Thread -> BOOLEAN]
    BY <1>1 DEF TypeOK
  <2>2. raised' \in [Thread -> [kind : {"bad_alloc", "runtime_error", "none"} \cup Category,
                               code : Code \cup {-1}]]
    BY <1>1, <1>2 DEF TypeOK
  <2> QED
    BY <1>1, <2>1, <2>2 DEF TypeOK, StaticAlive
<1>4. raised'[t] = e \/ (refused'[t] /\ raised'[t] = BadAlloc)
  BY <1>1 DEF TypeOK
<1>5. \A u \in Thread \ {t} : Progress(u)'
  BY <1>1, Unconcerned DEF TypeOK, Owned
<1> QED
  BY <1>3, <1>4, <1>5

\* What the caller makes of an error is what is expected of the exception behind
\* it, or the error was OOM_ERROR.
LEMMA RaiseInv ==
  ASSUME IInv, NEW t \in Thread, pc[t] = "returned", err[t] # Null,
         NEW e, Raise(t, e),
         \/ call[t].caller = "cpp" /\ e = ToCpp(Read(t))
         \/ call[t].caller = "python" /\ e = ToPython(Read(t))
  PROVE  IInv'
<1> USE DEF IInv
<1>1. /\ exc[t] \in Thrown /\ exc[t] # NoException
      /\ err[t] = OOM => refused[t]
      /\ call[t].err
      /\ call[t].caller \in {"cpp", "python"}
  BY DEF TypeOK, Progress
<1>2. e = IF err[t] = OOM THEN BadAlloc ELSE Expected(exc[t], call[t].caller)
  BY <1>1, CppExpected, PythonExpected DEF Read, OomError, ToCpp, ToPython
<1>3. BadAlloc \in [kind : {"bad_alloc", "runtime_error", "none"} \cup Category,
                    code : Code \cup {-1}]
  BY DEF BadAlloc
<1>4. e \in [kind : {"bad_alloc", "runtime_error", "none"} \cup Category,
             code : Code \cup {-1}]
  BY <1>1, <1>2, <1>3, ExpectedType
<1>5. /\ TypeOK' /\ StaticAlive'
      /\ raised'[t] = e \/ (refused'[t] /\ raised'[t] = BadAlloc)
      /\ \A u \in Thread \ {t} : Progress(u)'
  BY <1>4, RaiseStep
<1>6. /\ pc'[t] = "release" /\ (refused[t] => refused'[t])
      /\ UNCHANGED <<call, exc, new, err, ret, live>>
  BY DEF Raise, TypeOK
<1>7. Outcome(t)'
  BY <1>1, <1>2, <1>5, <1>6 DEF Outcome
<1>8. Progress(t)'
  BY <1>6, <1>7 DEF Progress, Owned
<1> QED
  BY <1>5, <1>8

LEMMA InspectInv ==
  ASSUME IInv, NEW t \in Thread, Inspect(t)
  PROVE  IInv'
<1> USE DEF IInv, Inspect
<1>1. TypeOK' /\ StaticAlive'
  BY DEF TypeOK, StaticAlive
<1>2. Progress(t)'
  BY DEF TypeOK, Progress, Outcome, Owned
<1>3. \A u \in Thread \ {t} : Progress(u)'
  BY Unconcerned DEF TypeOK, Owned
<1> QED
  BY <1>1, <1>2, <1>3

LEMMA ReleaseInv ==
  ASSUME IInv, NEW t \in Thread, Release(t)
  PROVE  IInv'
<1> USE DEF IInv, Release
<1>1. err[t] \in {Null, OOM, t} /\ new[t] = {} /\ Outcome(t)
  BY DEF Progress
<1>2. Owned(t) \subseteq Freed(err[t])
  BY PointerAssumption DEF Progress, Freed, Owned
<1>3. TypeOK' /\ StaticAlive'
  BY <1>1, <1>2, FreedLive DEF TypeOK
<1>4. Progress(t)'
  <2>1. /\ pc'[t] = "idle" /\ new'[t] = {} /\ err'[t] = Null /\ Owned(t)' = {}
    BY <1>1, <1>2, FreedLive DEF TypeOK
  <2>2. Outcome(t)'
    BY <1>1 DEF Outcome
  <2> QED
    BY ONLY <2>1, <2>2 DEF Progress
<1>5. \A u \in Thread \ {t} : Progress(u)'
  BY <1>1, <1>2, FreedLive, Unconcerned DEF TypeOK
<1> QED
  BY <1>3, <1>4, <1>5

LEMMA AcceptInv ==
  ASSUME IInv, NEW t \in Thread, Accept(t)
  PROVE  IInv'
<1> USE DEF IInv, Accept
<1>1. TypeOK' /\ StaticAlive'
  BY DEF TypeOK, StaticAlive
<1>2. Outcome(t)
  BY DEF Progress, Outcome
<1>3. Progress(t)'
  BY <1>2, PointerAssumption DEF TypeOK, Progress, Outcome, Owned
<1>4. \A u \in Thread \ {t} : Progress(u)'
  BY Unconcerned DEF TypeOK, Owned
<1> QED
  BY <1>1, <1>3, <1>4

LEMMA NextInv == IInv /\ [Next]_vars => IInv'
<1> SUFFICES ASSUME IInv, [Next]_vars PROVE IInv'
  OBVIOUS
<1>1. ASSUME NEW t \in Thread, TranslateError(t) PROVE IInv'
  BY <1>1, RaiseInv DEF TranslateError
<1>2. ASSUME NEW t \in Thread, SetError(t) PROVE IInv'
  BY <1>2, RaiseInv DEF SetError
<1>3. ASSUME NEW t \in Thread, Step(t) PROVE IInv'
  BY <1>1, <1>2, <1>3, StartInv, SucceedInv, CatchInv, MallocInv, DupDomainInv,
     DupMessageInv, CheckInv, InspectInv, ReleaseInv, AcceptInv DEF Step
<1>4. ASSUME UNCHANGED vars PROVE IInv'
  BY <1>4, Unconcerned DEF vars, IInv, TypeOK, StaticAlive, Owned
<1> QED
  BY <1>3, <1>4 DEF Next

\* A function that makes an object returns a null pointer if and only if it throws:
\* what it returns is set when its body ends and stays.
LEMMA NullTellsStep ==
  ASSUME IInv, NullTells, [Next]_vars
  PROVE  NullTells'
<1>1. ASSUME NEW u \in Thread, UNCHANGED <<call, exc, ret>>,
             pc'[u] = pc[u] \/ (pc[u] # "body" /\ pc'[u] # "body")
      PROVE  /\ pc'[u] = "body" => exc'[u] = NoException /\ ret'[u] = Null
             /\ pc'[u] # "body" /\ call'[u].fn = "New" => (ret'[u] = Null <=> exc'[u] # NoException)
  BY <1>1 DEF NullTells
<1>2. ASSUME UNCHANGED <<call, exc, ret>>, NEW t \in Thread, pc[t] # "body",
             \E p : pc' = [pc EXCEPT ![t] = p] /\ p # "body"
      PROVE  NullTells'
  BY <1>1, <1>2 DEF IInv, TypeOK, NullTells
<1>3. ASSUME NEW t \in Thread, Start(t) PROVE NullTells'
  BY <1>3 DEF Start, Idle, IInv, TypeOK, NullTells
<1>4. ASSUME NEW t \in Thread, Succeed(t) PROVE NullTells'
  <2>1. call[t].fn = "New" => ret'[t] = "object"
    BY <1>4 DEF Succeed, IInv, TypeOK, Result
  <2> QED
    BY <1>4, <2>1, PointerAssumption DEF Succeed, IInv, TypeOK, NullTells
<1>5. ASSUME NEW t \in Thread, Catch(t) PROVE NullTells'
  <2>1. exc'[t] # NoException
    BY <1>5 DEF Catch, IInv, TypeOK, Thrown, Exception, NoException, Category
  <2> QED
    BY <1>5, <2>1 DEF Catch, IInv, TypeOK, NullTells
<1>6. ASSUME NEW t \in Thread,
             Malloc(t) \/ DupDomain(t) \/ DupMessage(t) \/ Check(t) \/ TranslateError(t)
               \/ SetError(t) \/ Inspect(t) \/ Release(t) \/ Accept(t)
      PROVE  NullTells'
  BY <1>2, <1>6 DEF Malloc, DupDomain, DupMessage, Check, TranslateError, SetError, Raise,
     Inspect, Release, Accept
<1>7. CASE UNCHANGED vars
  BY <1>7 DEF vars, NullTells
<1> QED
  BY <1>3, <1>4, <1>5, <1>6, <1>7 DEF Next, Step

-----------------------------------------------------------------------------
(* What follows from it.                                                   *)

\* What a thread has allocated for its error, and what has become of its exception, at
\* every point of a call (error.cpp and those who call it).
THEOREM Invariance == Spec => []IInv
BY InitInv, NextInv, PTL DEF Spec

\* The variables keep their types (WrapFn, BtcK_Error_New and who reads the error).
THEOREM TypeCorrect == Spec => []TypeOK
<1>1. IInv => TypeOK
  BY DEF IInv
<1> QED
  BY <1>1, Invariance, PTL

\* OOM_ERROR survives every use that any number of threads make of it.
THEOREM OomErrorSurvives == Spec => []StaticAlive
BY Invariance, PTL DEF IInv

\* No error is leaked, whichever of its three allocations fails.
THEOREM NoErrorLeaks == Spec => []ErrorsReleased
<1>1. IInv => ErrorsReleased
  BY DEF IInv, ErrorsReleased, Progress, Idle, Owned
<1> QED
  BY <1>1, Invariance, PTL

\* Whoever passes an err raises what the library threw, or bad_alloc if there was no
\* memory to say it; nothing is invented.  An exception of a function that makes an
\* object shows in the null pointer, also to those who pass no err and lose it, as the
\* constructors of Python's Block and Transaction do.
THEOREM ErrorsCrossTheApi == Spec => []ExceptionsCross
<1>1. IInv /\ NullTells => ExceptionsCross
  <2> SUFFICES ASSUME IInv, NullTells, NEW t \in Thread, Idle(t)
               PROVE  /\ call[t].caller # "c" =>
                           IF exc[t] = NoException \/ ~call[t].err
                           THEN raised[t] = NoException
                           ELSE \/ raised[t] = Expected(exc[t], call[t].caller)
                                \/ refused[t] /\ raised[t].kind = "bad_alloc"
                      /\ call[t].fn = "New" => (ret[t] = Null <=> exc[t] # NoException)
    BY DEF ExceptionsCross
  <2>1. Outcome(t)
    BY DEF IInv, Progress, Idle
  <2> QED
    BY <2>1 DEF Outcome, BadAlloc, NullTells, Idle
<1>2. Init => NullTells
  BY PointerAssumption DEF Init, NullTells
<1>3. IInv /\ NullTells /\ [Next]_vars => NullTells'
  BY NullTellsStep
<1> QED
  BY <1>1, <1>2, <1>3, Invariance, PTL DEF Spec

\* Whoever turns an error into an exception reads memory that is allocated.
THEOREM ErrorsAreReadable == Spec => ReadsLive
<1>1. ASSUME IInv, Next, NEW t \in Thread, pc[t] # "release", pc'[t] = "release"
      PROVE  Fields(err[t]) \subseteq live
  <2>1. PICK u \in Thread : Step(u)
    BY <1>1 DEF Next
  <2>2. u = t /\ pc[t] = "returned" /\ err[t] # Null
    BY <1>1, <2>1 DEF Step, Start, Succeed, Catch, Malloc, DupDomain, DupMessage,
       Check, TranslateError, SetError, Inspect, Release, Accept, Raise, IInv, TypeOK
  <2>3. CASE err[t] = t
    BY <1>1, <2>2, <2>3 DEF IInv, Progress, Owned
  <2>4. CASE err[t] = OOM
    BY <1>1, <2>4 DEF IInv, StaticAlive, Static, Fields
  <2> QED
    BY <1>1, <2>2, <2>3, <2>4 DEF IInv, Progress
<1>2. ASSUME IInv, [Next]_vars
      PROVE  [\A t \in Thread : pc[t] # "release" /\ pc'[t] = "release"
                => Fields(err[t]) \subseteq live]_vars
  BY <1>1, <1>2
<1> QED
  BY <1>2, Invariance, PTL DEF Spec, ReadsLive
=============================================================================
