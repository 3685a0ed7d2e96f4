-------------------------- MODULE TracerStackProofs --------------------------
(***************************************************************************)
(* Proofs about TracerStack, for every set of promises and contexts, every *)
(* bound, and passes that end anywhere: its stacks agree, it accounts for  *)
(* every call, and it implements CallLog.                                  *)
(***************************************************************************)
EXTENDS TracerStack, FiniteSetTheorems, FunctionTheorems, SequenceTheorems, TLAPS

-----------------------------------------------------------------------------
(* Facts about positions, for any sequence of events. *)

(* The positions selected by Upto are finitely many, at most i of them. *)
LEMMA UptoFinite ==
  ASSUME NEW s, NEW T, NEW i \in Nat
  PROVE  /\ IsFiniteSet(Upto(s, T, i))
         /\ Cardinality(Upto(s, T, i)) \in Nat
         /\ Cardinality(Upto(s, T, i)) <= i
<1>1. IsFiniteSet(1..i) /\ Cardinality(1..i) = i
  BY FS_Interval
<1>2. Upto(s, T, i) \subseteq 1..i
  BY DEF Upto, Between
<1> QED
  BY <1>1, <1>2, FS_Subset, FS_CardinalityType

(* A selected last position counts one more than the positions before it. *)
LEMMA UptoStep ==
  ASSUME NEW s, NEW T, NEW i \in Nat \ {0}
  PROVE  Cardinality(Upto(s, T, i)) =
           Cardinality(Upto(s, T, i - 1)) + (IF s[i].type \in T THEN 1 ELSE 0)
<1> DEFINE A == Upto(s, T, i - 1)
<1>1. IsFiniteSet(A) /\ i \notin A
  <2>1. i - 1 \in Nat
    OBVIOUS
  <2>2. IsFiniteSet(A)
    BY <2>1, UptoFinite
  <2>3. i \notin 1..(i - 1)
    OBVIOUS
  <2> QED
    BY <2>2, <2>3 DEF Upto, Between
<1>2. CASE s[i].type \in T
  <2>1. Upto(s, T, i) = A \cup {i}
    BY <1>2 DEF Upto, Between
  <2> QED
    BY <1>1, <1>2, <2>1, FS_AddElement
<1>3. CASE s[i].type \notin T
  <2>1. Upto(s, T, i) = A
    BY <1>3 DEF Upto, Between
  <2>2. Cardinality(A) \in Nat
    BY <1>1, FS_CardinalityType
  <2> QED
    BY <1>3, <2>1, <2>2
<1> QED
  BY <1>2, <1>3

(* Upto depends only on the sequence up to the position it stops at. *)
LEMMA UptoPrefix ==
  ASSUME NEW s, NEW t, NEW T, NEW i \in Nat,
         \A j \in 1..i : s[j] = t[j]
  PROVE  Upto(s, T, i) = Upto(t, T, i)
  BY DEF Upto, Between

(* The positions selected above n, and those up to n, partition the rest. *)
LEMMA UptoSplit ==
  ASSUME NEW s, NEW T, NEW n \in Nat, NEW m \in Nat, n <= m
  PROVE  /\ IsFiniteSet(Between(s, T, n, m))
         /\ Cardinality(Between(s, T, n, m)) \in Nat
         /\ Cardinality(Upto(s, T, m)) =
              Cardinality(Upto(s, T, n)) + Cardinality(Between(s, T, n, m))
<1> DEFINE U == Between(s, T, n, m)
           A == Upto(s, T, n)
<1>1. IsFiniteSet(A) /\ IsFiniteSet(Upto(s, T, m))
  BY UptoFinite
<1>2. Upto(s, T, m) = A \cup U /\ A \cap U = {}
  BY DEF Upto, Between
<1>3. IsFiniteSet(U)
  BY <1>1, <1>2, FS_Subset
<1>4. Cardinality(A \cup U) = Cardinality(A) + Cardinality(U) - Cardinality(A \cap U)
  BY <1>1, <1>3, FS_Union
<1>5. Cardinality(A \cap U) = 0
  BY <1>2, FS_EmptySet
<1>6. Cardinality(A) \in Nat /\ Cardinality(U) \in Nat
  BY <1>1, <1>3, FS_CardinalityType
<1> QED
  BY <1>2, <1>3, <1>4, <1>5, <1>6

(* A selected position is counted, among the positions selected up to m. *)
LEMMA UptoIndex ==
  ASSUME NEW s, NEW T, NEW m \in Nat, NEW i \in Upto(s, T, m)
  PROVE  /\ i \in 1..m /\ s[i].type \in T
         /\ Cardinality(Upto(s, T, i)) \in 1..Cardinality(Upto(s, T, m))
<1>1. i \in 1..m /\ s[i].type \in T
  BY DEF Upto, Between
<1>2. Cardinality(Upto(s, T, i)) = Cardinality(Upto(s, T, i - 1)) + 1
  BY <1>1, UptoStep
<1>3. Cardinality(Upto(s, T, i - 1)) \in Nat
  BY <1>1, UptoFinite
<1> DEFINE U == Between(s, T, i, m)
<1>4. Cardinality(U) \in Nat
      /\ Cardinality(Upto(s, T, m)) = Cardinality(Upto(s, T, i)) + Cardinality(U)
  BY <1>1, UptoSplit
<1> QED
  BY <1>1, <1>2, <1>3, <1>4

-----------------------------------------------------------------------------
(* A stack that agrees with full_stack keeps agreeing when both change. *)

LEMMA AgreesEmpty ==
  ASSUME NEW R, NEW s \in Seq(R), NEW T
  PROVE  Agrees(s, <<>>, T)
<1>1. Upto(<<>>, T, Len(<<>>)) = {}
  BY DEF Upto, Between
<1>2. Cardinality({}) = 0
  BY FS_EmptySet
<1>3. Len(s) \in Nat
  OBVIOUS
<1>4. Len(s) - Cardinality(Upto(<<>>, T, Len(<<>>))) >= 0
  BY <1>1, <1>2, <1>3
<1> QED
  BY <1>1, <1>4 DEF Agrees

(* An event of another type pushed on full_stack alone. *)
LEMMA AgreesPushOther ==
  ASSUME NEW R, NEW s \in Seq(R), NEW S, NEW fs \in Seq(S), NEW e \in S, NEW T,
         e.type \notin T, Agrees(s, fs, T)
  PROVE  Agrees(s, Append(fs, e), T)
<1> DEFINE n == Len(fs)
           gs == Append(fs, e)
<1>1. n \in Nat /\ Len(gs) = n + 1 /\ gs[n + 1] = e /\ \A j \in 1..n : gs[j] = fs[j]
  OBVIOUS
<1>2. ASSUME NEW i \in 1..n
      PROVE  Upto(gs, T, i) = Upto(fs, T, i)
  <2>1. i \in Nat /\ \A j \in 1..i : gs[j] = fs[j]
    BY <1>1
  <2> QED
    BY <2>1, UptoPrefix
<1>3. Upto(gs, T, n + 1) = Upto(fs, T, n)
  BY <1>1 DEF Upto, Between
<1>4. \A i \in Upto(fs, T, n) : i \in 1..n
  BY DEF Upto, Between
<1> HIDE DEF gs, n
<1>5. Agrees(s, gs, T)
  BY <1>1, <1>2, <1>3, <1>4 DEF Agrees, n
<1> QED
  BY <1>5 DEF gs

(* An event of one of the types pushed on both. *)
LEMMA AgreesPush ==
  ASSUME NEW R, NEW s \in Seq(R), NEW S, NEW fs \in Seq(S), NEW e \in S \cap R, NEW T,
         e.type \in T, Agrees(s, fs, T)
  PROVE  Agrees(Append(s, e), Append(fs, e), T)
<1> DEFINE n == Len(fs)
           gs == Append(fs, e)
           t  == Append(s, e)
           total == Cardinality(Upto(fs, T, n))
           base == Len(s) - total
<1>1. n \in Nat /\ Len(gs) = n + 1 /\ gs[n + 1] = e /\ \A j \in 1..n : gs[j] = fs[j]
  OBVIOUS
<1>2. Len(t) = Len(s) + 1 /\ t[Len(s) + 1] = e /\ \A j \in 1..Len(s) : t[j] = s[j]
  OBVIOUS
<1>3. ASSUME NEW i \in 1..n
      PROVE  Upto(gs, T, i) = Upto(fs, T, i)
  <2>1. i \in Nat /\ \A j \in 1..i : gs[j] = fs[j]
    BY <1>1
  <2> QED
    BY <2>1, UptoPrefix
<1>4. Upto(gs, T, n) = Upto(fs, T, n)
  BY <1>1, UptoPrefix
<1>5. Cardinality(Upto(gs, T, n + 1)) = total + 1
  <2> HIDE DEF gs, n
  <2>1. n + 1 \in Nat \ {0} /\ (n + 1) - 1 = n /\ gs[n + 1].type \in T
    BY <1>1
  <2>2. Cardinality(Upto(gs, T, n + 1)) = Cardinality(Upto(gs, T, (n + 1) - 1)) + 1
    BY <2>1, UptoStep
  <2> QED
    BY <2>1, <2>2, <1>4 DEF total
<1>6. total \in Nat
  BY <1>1, UptoFinite
<1>7. base >= 0 /\ \A i \in Upto(fs, T, n) : s[base + Cardinality(Upto(fs, T, i))] = fs[i]
  BY DEF Agrees
<1>8. Len(t) - Cardinality(Upto(gs, T, Len(gs))) = base
  BY <1>1, <1>2, <1>5, <1>6
<1>9. ASSUME NEW i \in Upto(gs, T, Len(gs))
      PROVE  t[base + Cardinality(Upto(gs, T, i))] = gs[i]
  <2>1. CASE i = n + 1
    BY <2>1, <1>1, <1>2, <1>5, <1>6
  <2>2. CASE i # n + 1
    <3>1. i \in Upto(fs, T, n) /\ i \in 1..n
      BY <2>2, <1>1 DEF Upto, Between
    <3>2. Cardinality(Upto(fs, T, i)) \in 1..total
      BY <3>1, <1>1, UptoIndex
    <3>3. base + Cardinality(Upto(fs, T, i)) \in 1..Len(s)
      BY <3>2, <1>6, <1>7
    <3> QED
      BY <3>1, <3>3, <1>1, <1>2, <1>3, <1>7
  <2> QED
    BY <2>1, <2>2
<1> QED
  BY <1>7, <1>8, <1>9 DEF Agrees

(* full_stack truncated to n, and one element dropped for each event lost: *)
(* every element dropped is the event it is dropped for.                   *)
LEMMA AgreesTruncate ==
  ASSUME NEW R, NEW s \in Seq(R), NEW S, NEW fs \in Seq(S), NEW T,
         NEW n \in 0..Len(fs), Agrees(s, fs, T)
  PROVE  LET U == Between(fs, T, n, Len(fs)) IN
         /\ PopsMatch(s, fs, U)
         /\ Cardinality(U) \in 0..Len(s)
         /\ Agrees(DropTop(s, Cardinality(U)), SubSeq(fs, 1, n), T)
<1> DEFINE m == Len(fs)
           U == Between(fs, T, n, m)
           total == Cardinality(Upto(fs, T, m))
           base == Len(s) - total
           gs == SubSeq(fs, 1, n)
           t == DropTop(s, Cardinality(U))
<1>1. m \in Nat /\ n \in Nat /\ n <= m /\ Len(s) \in Nat
  OBVIOUS
<1>2. Cardinality(U) \in Nat /\ total = Cardinality(Upto(fs, T, n)) + Cardinality(U)
  BY <1>1, UptoSplit
<1>3. Cardinality(Upto(fs, T, n)) \in Nat
  BY <1>1, UptoFinite
<1>4. base >= 0 /\ \A i \in Upto(fs, T, m) : s[base + Cardinality(Upto(fs, T, i))] = fs[i]
  BY DEF Agrees
<1>5. Cardinality(U) \in 0..Len(s)
  BY <1>1, <1>2, <1>3, <1>4
<1>6. ASSUME NEW i \in U
      PROVE  SameEvent(s[Len(s) + 1 - Cardinality({j \in U : i <= j})], fs[i])
  <2>1. i \in 1..m /\ i - 1 \in Nat /\ fs[i].type \in T /\ i \in Upto(fs, T, m)
    BY <1>1 DEF Upto, Between
  <2> DEFINE V == Between(fs, T, i - 1, m)
  <2>2. {j \in U : i <= j} = V
    BY <2>1, <1>1 DEF Between
  <2>3. Cardinality(V) \in Nat /\ total = Cardinality(Upto(fs, T, i - 1)) + Cardinality(V)
    <3>1. i - 1 <= m
      BY <2>1, <1>1
    <3> QED
      BY <3>1, <2>1, <1>1, UptoSplit
  <2>4. Cardinality(Upto(fs, T, i)) = Cardinality(Upto(fs, T, i - 1)) + 1
    BY <2>1, UptoStep
  <2>5. Cardinality(Upto(fs, T, i - 1)) \in Nat
    BY <2>1, UptoFinite
  <2>6. Len(s) + 1 - Cardinality(V) = base + Cardinality(Upto(fs, T, i))
    BY <2>3, <2>4, <2>5, <1>1
  <2>7. s[Len(s) + 1 - Cardinality(V)] = fs[i]
    BY <2>1, <2>6, <1>4
  <2> QED
    BY <2>2, <2>7 DEF SameEvent
<1>7. PopsMatch(s, fs, U)
  <2> HIDE DEF U
  <2>1. Cardinality(U) <= Len(s)
    BY <1>1, <1>5
  <2> QED
    BY <1>6, <2>1 DEF PopsMatch
<1>8. Len(gs) = n /\ \A j \in 1..n : gs[j] = fs[j]
  BY <1>1
<1>9. ASSUME NEW i \in 0..n
      PROVE  Upto(gs, T, i) = Upto(fs, T, i)
  <2>1. i \in Nat /\ \A j \in 1..i : gs[j] = fs[j]
    BY <1>8, <1>1
  <2> QED
    BY <2>1, UptoPrefix
<1>10. Len(t) = Len(s) - Cardinality(U) /\ \A j \in 1..(Len(s) - Cardinality(U)) : t[j] = s[j]
  BY <1>5, <1>1 DEF DropTop
<1>11. Len(t) - Cardinality(Upto(gs, T, Len(gs))) = base
  BY <1>1, <1>2, <1>3, <1>8, <1>9, <1>10
<1>12. ASSUME NEW i \in Upto(gs, T, Len(gs))
       PROVE  t[base + Cardinality(Upto(gs, T, i))] = gs[i]
  <2>1. i \in Upto(fs, T, n) /\ i \in Upto(fs, T, m) /\ i \in 1..n
    BY <1>1, <1>8, <1>9 DEF Upto, Between
  <2>2. Cardinality(Upto(fs, T, i)) \in 1..Cardinality(Upto(fs, T, n))
    BY <2>1, <1>1, UptoIndex
  <2>3. base + Cardinality(Upto(fs, T, i)) \in 1..(Len(s) - Cardinality(U))
    BY <2>2, <1>1, <1>2, <1>3, <1>4
  <2> QED
    BY <2>1, <2>3, <1>4, <1>8, <1>9, <1>10
<1>13. Agrees(t, gs, T)
  BY <1>4, <1>11, <1>12 DEF Agrees
<1> QED
  BY <1>5, <1>7, <1>13

(* A single pop from full_stack: an event of another type leaves s alone. *)
LEMMA AgreesPopOther ==
  ASSUME NEW R, NEW s \in Seq(R), NEW S, NEW fs \in Seq(S), fs # <<>>, NEW T,
         Last(fs).type \notin T, Agrees(s, fs, T)
  PROVE  Agrees(s, Front(fs), T)
<1> DEFINE n == Len(fs) - 1
           U == Between(fs, T, n, Len(fs))
<1>1. n \in 0..Len(fs) /\ n \in Nat /\ n + 1 = Len(fs)
  OBVIOUS
<1>2. U = {}
  BY <1>1 DEF Last, Between
<1>3. Cardinality(U) = 0
  BY <1>2, FS_EmptySet
<1>4. Agrees(DropTop(s, Cardinality(U)), SubSeq(fs, 1, n), T)
  BY <1>1, AgreesTruncate
<1>5. DropTop(s, 0) = s
  BY DEF DropTop
<1> QED
  BY <1>3, <1>4, <1>5 DEF Front

(* A single pop from both: the tops are the same event. *)
LEMMA AgreesPop ==
  ASSUME NEW R, NEW s \in Seq(R), NEW S, NEW fs \in Seq(S), fs # <<>>, NEW T,
         Last(fs).type \in T, Agrees(s, fs, T)
  PROVE  s # <<>> /\ Last(s) = Last(fs) /\ Agrees(Front(s), Front(fs), T)
<1> DEFINE m == Len(fs)
           n == m - 1
           U == Between(fs, T, n, m)
           total == Cardinality(Upto(fs, T, m))
<1>1. n \in 0..m /\ n \in Nat /\ n + 1 = m /\ m \in Nat \ {0} /\ Len(s) \in Nat
  OBVIOUS
<1>2. U = {m}
  BY <1>1 DEF Last, Between
<1>3. Cardinality(U) = 1
  BY <1>2, FS_Singleton
<1>4. Agrees(DropTop(s, Cardinality(U)), SubSeq(fs, 1, n), T) /\ Cardinality(U) \in 0..Len(s)
  BY <1>1, AgreesTruncate
<1>5. s # <<>> /\ Agrees(Front(s), Front(fs), T)
  BY <1>1, <1>3, <1>4 DEF DropTop, Front
<1>6. m \in Upto(fs, T, m)
  BY <1>1 DEF Upto, Between, Last
<1>7. s[Len(s) - total + total] = fs[m]
  BY <1>6 DEF Agrees
<1>8. total \in Nat
  BY <1>1, UptoFinite
<1>9. Last(s) = Last(fs)
  BY <1>1, <1>7, <1>8 DEF Last
<1> QED
  BY <1>5, <1>9
-----------------------------------------------------------------------------
(* The inductive invariant.  Its parts need each other: the exit handlers    *)
(* find the right call only because full_stack mirrors the interpreter, and  *)
(* function_exit_ finds it on top of call_stack_ only because that agrees    *)
(* with full_stack.                                                          *)

(* A context that is live is live once: a jump has one place to stop at. *)
ContextsDistinct ==
  \A i, j \in DOMAIN frames : frames[i] = frames[j] /\ frames[i].type = "CONTEXT" => i = j

IInv ==
  /\ TypeOK
  /\ FullStackMirrors
  /\ CallStackAgrees
  /\ TraceNests
  /\ NeverFails
  /\ ContextsDistinct

(* With a call on top, the topmost CALL is the top. *)
LEMMA LastCallIsTop ==
  ASSUME NEW fs \in Seq(StackEvents), fs # <<>>, Last(fs).type = "CALL"
  PROVE  LastCallId(fs) = Last(fs).id
<1> DEFINE C == Upto(fs, {"CALL"}, Len(fs))
<1>1. Len(fs) \in C /\ \A j \in C : j \in Nat /\ j <= Len(fs)
  BY DEF Upto, Between, Last
<1>2. (CHOOSE i \in C : \A j \in C : j <= i) = Len(fs)
  BY <1>1
<1> QED
  BY <1>1, <1>2 DEF LastCallId, Last

LEMMA InitIInv == Init => IInv
<1> SUFFICES ASSUME Init PROVE IInv
  OBVIOUS
<1>1. TypeOK
  <2>1. \A S : <<>> \in Seq(S)
    OBVIOUS
  <2>2. 0 \in 0..MaxCalls
    BY BoundsAssumption
  <2>3. misnested \in BOOLEAN
    BY DEF Init
  <2> QED
    BY <2>1, <2>2, <2>3 DEF Init, TypeOK
<1>2. Agrees(<<>>, <<>>, {"CALL"}) /\ Agrees(<<>>, <<>>, {"CALL", "PROMISE"})
  <2>1. <<>> \in Seq({})
    OBVIOUS
  <2> QED
    BY <2>1, AgreesEmpty
<1> QED
  BY <1>1, <1>2 DEF Init, IInv, FullStackMirrors, CallStackAgrees, TraceNests, NeverFails,
                    ContextsDistinct

LEMMA NextIInv == IInv /\ [Next]_vars => IInv'
<1> SUFFICES ASSUME IInv, [Next]_vars PROVE IInv'
  OBVIOUS
<1> DEFINE B == CallEvents \cup PromiseEvents
<1>a. /\ TypeOK /\ full_stack = frames /\ Agrees(call_stack, full_stack, {"CALL"})
      /\ ~misnested /\ Agrees(open, full_stack, {"CALL", "PROMISE"}) /\ status # "failed"
      /\ ContextsDistinct
  BY DEF IInv, FullStackMirrors, CallStackAgrees, TraceNests, NeverFails
<1>b. /\ full_stack \in Seq(StackEvents) /\ call_stack \in Seq(CallEvents)
      /\ open \in Seq(B)
  BY <1>a DEF TypeOK
<1>z. ASSUME TypeOK', full_stack' = frames', Agrees(call_stack', full_stack', {"CALL"}),
             ~misnested', Agrees(open', full_stack', {"CALL", "PROMISE"}), status' # "failed",
             ContextsDistinct'
      PROVE  IInv'
  BY <1>z DEF IInv, FullStackMirrors, CallStackAgrees, TraceNests, NeverFails
<1>p. ASSUME NEW e, frames' = Append(frames, e), e.type = "CONTEXT" => ~Live(e)
      PROVE  ContextsDistinct'
  <2>1. frames \in Seq(StackEvents)
    BY <1>a DEF TypeOK
  <2>2. /\ DOMAIN frames = 1..Len(frames) /\ DOMAIN frames' = 1..(Len(frames) + 1)
        /\ frames'[Len(frames) + 1] = e /\ \A i \in 1..Len(frames) : frames'[i] = frames[i]
    BY <2>1, <1>p
  <2>3. Len(frames) \in Nat
    BY <2>1
  <2> QED
    BY <2>2, <2>3, <1>a, <1>p DEF ContextsDistinct, Live
<1>q. ASSUME NEW n \in 0..Len(frames), frames' = SubSeq(frames, 1, n)
      PROVE  ContextsDistinct'
  <2>1. frames \in Seq(StackEvents)
    BY <1>a DEF TypeOK
  <2>2. /\ DOMAIN frames = 1..Len(frames) /\ DOMAIN frames' = 1..n
        /\ \A i \in 1..n : frames'[i] = frames[i]
    BY <2>1, <1>q
  <2> QED
    BY <2>2, <1>a DEF ContextsDistinct
<1>r. ASSUME frames # <<>>, frames' = Front(frames)
      PROVE  ContextsDistinct'
  <2>1. frames \in Seq(StackEvents)
    BY <1>a DEF TypeOK
  <2>2. Len(frames) - 1 \in 0..Len(frames)
    BY <2>1, <1>r
  <2> QED
    BY <2>2, <1>q, <1>r DEF Front
<1>1. CASE DyntraceEntry
  BY <1>1, <1>a DEF DyntraceEntry, IInv, TypeOK, FullStackMirrors, CallStackAgrees,
                    TraceNests, NeverFails, ContextsDistinct, state, analysis, trace
<1>2. CASE DyntraceExit
  <2>1. TypeOK'
    BY <1>2, <1>a DEF DyntraceExit, TypeOK, analysis
  <2>2. Agrees(call_stack, <<>>, {"CALL"})
    BY <1>b, AgreesEmpty
  <2>3. Agrees(<<>>, <<>>, {"CALL", "PROMISE"})
    <3>1. <<>> \in Seq({})
      OBVIOUS
    <3> QED
      BY <3>1, AgreesEmpty
  <2>4. ContextsDistinct'
    BY <1>2 DEF DyntraceExit, ContextsDistinct
  <2> QED
    BY <1>2, <1>a, <1>z, <2>1, <2>2, <2>3, <2>4 DEF DyntraceExit, analysis
<1>3. ASSUME NEW fn \in FunctionTypes, CallEntry(fn)
      PROVE  IInv'
  <2> DEFINE e == CallEvent(call_id_counter + 1, fn)
  <2>1. call_id_counter + 1 \in 1..MaxCalls
    BY <1>3, <1>a, BoundsAssumption DEF CallEntry, TypeOK
  <2>2. e \in CallEvents /\ e \in StackEvents /\ e \in B /\ e.type = "CALL" /\ e.id = call_id_counter + 1
    BY <2>1 DEF CallEvent, CallEvents, StackEvents
  <2> HIDE DEF e
  <2>3. /\ frames' = Append(frames, e) /\ full_stack' = Append(full_stack, e)
        /\ call_stack' = Append(call_stack, e) /\ open' = Append(open, e)
        /\ calls' = calls /\ misnested' = misnested /\ status' = status /\ phase' = phase
        /\ call_id_counter' = call_id_counter + 1
    BY <1>3, <2>2 DEF CallEntry, Enter, FunctionEntry, TraceBegin, e
  <2>4. TypeOK'
    BY <2>1, <2>2, <2>3, <1>a DEF TypeOK
  <2>5. Agrees(call_stack', full_stack', {"CALL"})
    BY <2>2, <2>3, <1>a, <1>b, AgreesPush
  <2>6. Agrees(open', full_stack', {"CALL", "PROMISE"})
    BY <2>2, <2>3, <1>a, <1>b, AgreesPush
  <2>7. ContextsDistinct'
    BY <2>2, <2>3, <1>p
  <2> QED
    BY <2>3, <2>4, <2>5, <2>6, <2>7, <1>a, <1>z
<1>4. ASSUME NEW fn \in FunctionTypes, CallExit(fn)
      PROVE  IInv'
  <2>1. PICK id \in 1..call_id_counter : Leave(CallEvent(id, fn))
    BY <1>4 DEF CallExit
  <2>2. /\ full_stack # <<>> /\ Last(full_stack) = CallEvent(id, fn)
        /\ frames' = Front(full_stack) /\ full_stack' = Front(full_stack)
    BY <1>4, <2>1, <1>a DEF CallExit, Leave
  <2>3. Last(full_stack).type = "CALL" /\ Last(full_stack).id = id
    BY <2>2 DEF CallEvent
  <2>4. LastCallId(full_stack) = id
    BY <2>2, <2>3, <1>b, LastCallIsTop
  <2>5. /\ call_stack # <<>> /\ Last(call_stack) = Last(full_stack)
        /\ Agrees(Front(call_stack), Front(full_stack), {"CALL"})
    BY <2>2, <2>3, <1>a, <1>b, AgreesPop
  <2>6. /\ open # <<>> /\ Last(open) = Last(full_stack)
        /\ Agrees(Front(open), Front(full_stack), {"CALL", "PROMISE"})
    BY <2>2, <2>3, <1>a, <1>b, AgreesPop
  <2>7. /\ status' = "running" /\ call_stack' = Front(call_stack) /\ calls' = calls \cup {id}
    BY <1>4, <2>3, <2>4, <2>5 DEF CallExit, FunctionExit, FunctionExitMatches
  <2>8. open' = Front(open) /\ ~misnested' /\ misnested' \in BOOLEAN
    BY <1>4, <2>3, <2>4, <2>6, <1>a DEF CallExit, TraceFinish
  <2>9. phase' = phase /\ call_id_counter' = call_id_counter
    BY <1>4 DEF CallExit
  <2>10. /\ Front(full_stack) \in Seq(StackEvents) /\ Front(call_stack) \in Seq(CallEvents)
         /\ Front(open) \in Seq(B)
    BY <2>2, <2>5, <2>6, <1>b DEF Front
  <2>11. TypeOK'
    <3>0. call_id_counter \in 0..MaxCalls /\ calls \subseteq 1..MaxCalls /\ id \in 1..call_id_counter
      BY <1>a DEF TypeOK
    <3>1. calls' \subseteq 1..MaxCalls
      <4>1. id \in 1..MaxCalls
        BY <3>0, BoundsAssumption
      <4> QED
        BY <2>7, <3>0, <4>1
    <3> QED
      BY <2>2, <2>7, <2>8, <2>9, <2>10, <3>1, <1>a DEF TypeOK
  <2>12. ContextsDistinct'
    BY <2>2, <1>a, <1>r
  <2> QED
    BY <2>2, <2>5, <2>6, <2>7, <2>8, <2>11, <2>12, <1>z
<1>5. ASSUME NEW p \in Promises, PromiseForceEntry(p)
      PROVE  IInv'
  <2> DEFINE e == PromiseEvent(p)
  <2>1. e \in StackEvents /\ e \in B /\ e.type = "PROMISE"
    BY DEF PromiseEvent, PromiseEvents, StackEvents
  <2>2. /\ frames' = Append(frames, e) /\ full_stack' = Append(full_stack, e)
        /\ open' = Append(open, e) /\ misnested' = misnested
        /\ status' \in {"running", "undefined"} /\ phase' = phase
        /\ call_id_counter' = call_id_counter /\ call_stack' = call_stack /\ calls' = calls
    BY <1>5 DEF PromiseForceEntry, Enter, TraceBegin, analysis
  <2> HIDE DEF e
  <2>3. TypeOK'
    BY <2>1, <2>2, <1>a DEF TypeOK
  <2>4. Agrees(call_stack', full_stack', {"CALL"})
    BY <2>1, <2>2, <1>a, <1>b, AgreesPushOther
  <2>5. Agrees(open', full_stack', {"CALL", "PROMISE"})
    BY <2>1, <2>2, <1>a, <1>b, AgreesPush
  <2>6. ContextsDistinct'
    BY <2>1, <2>2, <1>p
  <2> QED
    BY <2>2, <2>3, <2>4, <2>5, <2>6, <1>a, <1>z
<1>6. ASSUME NEW p \in Promises, PromiseForceExit(p)
      PROVE  IInv'
  <2>1. /\ full_stack # <<>> /\ Last(full_stack) = PromiseEvent(p)
        /\ frames' = Front(full_stack) /\ full_stack' = Front(full_stack)
        /\ phase' = phase /\ status' = status /\ call_id_counter' = call_id_counter
        /\ call_stack' = call_stack /\ calls' = calls
    BY <1>6, <1>a DEF PromiseForceExit, Leave, analysis
  <2>2. Last(full_stack).type = "PROMISE" /\ Last(full_stack).id = p
    BY <2>1 DEF PromiseEvent
  <2>3. Agrees(call_stack, Front(full_stack), {"CALL"})
    BY <2>1, <2>2, <1>a, <1>b, AgreesPopOther
  <2>4. /\ open # <<>> /\ Last(open) = Last(full_stack)
        /\ Agrees(Front(open), Front(full_stack), {"CALL", "PROMISE"})
    BY <2>1, <2>2, <1>a, <1>b, AgreesPop
  <2>5. open' = Front(open) /\ ~misnested' /\ misnested' \in BOOLEAN
    BY <1>6, <2>2, <2>4, <1>a DEF PromiseForceExit, TraceFinish
  <2>6. Front(full_stack) \in Seq(StackEvents) /\ Front(open) \in Seq(B)
    BY <2>1, <2>4, <1>b DEF Front
  <2>7. TypeOK'
    BY <2>1, <2>5, <2>6, <1>a DEF TypeOK
  <2>8. ContextsDistinct'
    BY <2>1, <1>a, <1>r
  <2> QED
    BY <2>1, <2>3, <2>4, <2>5, <2>7, <2>8, <1>a, <1>z
<1>7. ASSUME NEW c \in Contexts, ContextEntry(c)
      PROVE  IInv'
  <2> DEFINE e == ContextEvent(c)
  <2>1. e \in StackEvents /\ e.type = "CONTEXT"
    BY DEF ContextEvent, ContextEvents, StackEvents
  <2>2. /\ frames' = Append(frames, e) /\ full_stack' = Append(full_stack, e)
        /\ UNCHANGED <<phase, status, call_id_counter, call_stack, calls, open, misnested>>
    BY <1>7 DEF ContextEntry, Enter, analysis, trace
  <2> HIDE DEF e
  <2>3. TypeOK'
    BY <2>1, <2>2, <1>a DEF TypeOK
  <2>4. /\ Agrees(call_stack, Append(full_stack, e), {"CALL"})
        /\ Agrees(open, Append(full_stack, e), {"CALL", "PROMISE"})
    BY <2>1, <1>a, <1>b, AgreesPushOther
  <2>5. ContextsDistinct'
    <3>1. ~Live(e)
      BY <1>7 DEF ContextEntry, e
    <3> QED
      BY <3>1, <2>2, <1>p
  <2> QED
    BY <2>2, <2>3, <2>4, <2>5, <1>a, <1>z
<1>8. ASSUME NEW c \in Contexts, ContextExit(c)
      PROVE  IInv'
  <2>1. /\ full_stack # <<>> /\ Last(full_stack) = ContextEvent(c)
        /\ frames' = Front(full_stack)
        /\ UNCHANGED <<phase, status, call_id_counter, call_stack, calls, open, misnested>>
    BY <1>8, <1>a DEF ContextExit, Leave, analysis, trace
  <2>2. full_stack' = Front(full_stack)
    BY <1>8, <2>1 DEF ContextExit, SameEvent
  <2>3. Last(full_stack).type = "CONTEXT"
    BY <2>1 DEF ContextEvent
  <2>4. /\ Agrees(call_stack, Front(full_stack), {"CALL"})
        /\ Agrees(open, Front(full_stack), {"CALL", "PROMISE"})
    BY <2>1, <2>3, <1>a, <1>b, AgreesPopOther
  <2>5. Front(full_stack) \in Seq(StackEvents)
    BY <2>1, <1>b DEF Front
  <2>6. TypeOK'
    BY <2>1, <2>2, <2>5, <1>a DEF TypeOK
  <2>7. ContextsDistinct'
    BY <2>1, <1>a, <1>r
  <2> QED
    BY <2>1, <2>2, <2>4, <2>6, <2>7, <1>a, <1>z
<1>9. ASSUME NEW c \in Contexts \cup {TopLevel}, ContextJump(c)
      PROVE  IInv'
  <2>1. PICK n \in 0..Len(full_stack) :
          /\ UnwindsTo(n, c)
          /\ full_stack' = SubSeq(full_stack, 1, n)
          /\ UnwindCalls(Unwound(n, {"CALL"}))
          /\ TraceUnwind(Unwound(n, {"CALL", "PROMISE"}))
    BY <1>9 DEF ContextJump
  <2>2. \A i \in 1..Len(full_stack) :
          /\ full_stack[i] \in StackEvents
          /\ SameEvent(full_stack[i], ContextEvent(c)) <=> full_stack[i] = ContextEvent(c)
    <3>1. ASSUME NEW e \in StackEvents
          PROVE  SameEvent(e, ContextEvent(c)) <=> e = ContextEvent(c)
      BY DEF StackEvents, CallEvents, PromiseEvents, ContextEvents, ContextEvent, SameEvent
    <3>2. \A i \in 1..Len(full_stack) : full_stack[i] \in StackEvents
      BY <1>b
    <3> QED
      BY <3>1, <3>2
  <2>3. frames' = SubSeq(frames, 1, n)
    <3>1. CASE c = TopLevel /\ frames' = <<>>
      <4>1. ContextEvent(c) \notin StackEvents
        BY <3>1, TopLevelAssumption
           DEF StackEvents, CallEvents, PromiseEvents, ContextEvents, ContextEvent
      <4>2. n = 0
        BY <2>1, <2>2, <4>1 DEF UnwindsTo
      <4> QED
        BY <3>1, <4>2
    <3>2. CASE \E i \in DOMAIN frames : frames[i] = ContextEvent(c) /\ frames' = SubSeq(frames, 1, i)
      <4>1. PICK i \in DOMAIN frames : frames[i] = ContextEvent(c) /\ frames' = SubSeq(frames, 1, i)
        BY <3>2
      <4>2. i \in 1..Len(full_stack) /\ full_stack[i] = ContextEvent(c) /\ Len(full_stack) \in Nat
        BY <4>1, <1>a, <1>b
      <4>3. i <= n
        BY <4>2, <2>1, <2>2 DEF UnwindsTo
      <4>4. n \in 1..Len(full_stack) /\ full_stack[n] = ContextEvent(c)
        BY <4>2, <4>3, <2>1, <2>2 DEF UnwindsTo
      <4>5. n \in DOMAIN frames /\ frames[n] = frames[i] /\ frames[i].type = "CONTEXT"
        BY <4>1, <4>2, <4>4, <1>a, <1>b DEF ContextEvent
      <4>6. n = i
        BY <4>1, <4>5, <1>a DEF ContextsDistinct
      <4> QED
        BY <4>1, <4>6
    <3> QED
      BY <1>9, <3>1, <3>2 DEF ContextJump, JumpTo
  <2> DEFINE U == Unwound(n, {"CALL"})
             W == Unwound(n, {"CALL", "PROMISE"})
  <2>4. /\ PopsMatch(call_stack, full_stack, U) /\ Cardinality(U) \in 0..Len(call_stack)
        /\ Agrees(DropTop(call_stack, Cardinality(U)), SubSeq(full_stack, 1, n), {"CALL"})
    BY <1>a, <1>b, AgreesTruncate DEF Unwound
  <2>5. /\ PopsMatch(open, full_stack, W) /\ Cardinality(W) \in 0..Len(open)
        /\ Agrees(DropTop(open, Cardinality(W)), SubSeq(full_stack, 1, n), {"CALL", "PROMISE"})
    BY <1>a, <1>b, AgreesTruncate DEF Unwound
  <2>6. /\ status' = "running" /\ call_stack' = DropTop(call_stack, Cardinality(U))
        /\ calls' = calls \cup {full_stack[i].id : i \in U}
    BY <2>1, <2>4 DEF UnwindCalls
  <2>7. open' = DropTop(open, Cardinality(W)) /\ misnested' = FALSE
    BY <2>1, <2>5, <1>a DEF TraceUnwind, TypeOK
  <2>8. phase' = phase /\ call_id_counter' = call_id_counter
    BY <1>9 DEF ContextJump
  <2>9. /\ SubSeq(full_stack, 1, n) \in Seq(StackEvents)
        /\ DropTop(call_stack, Cardinality(U)) \in Seq(CallEvents)
        /\ DropTop(open, Cardinality(W)) \in Seq(B)
    BY <2>4, <2>5, <1>b DEF DropTop
  <2>10. calls' \subseteq 1..MaxCalls
    <3>1. \A i \in U : full_stack[i].id \in 1..MaxCalls
      <4>1. \A i \in U : full_stack[i] \in StackEvents /\ full_stack[i].type = "CALL"
        BY <2>2 DEF Unwound, Between
      <4>2. \A e \in StackEvents : e.type = "CALL" => e.id \in 1..MaxCalls
        BY DEF StackEvents, CallEvents, PromiseEvents, ContextEvents
      <4> QED
        BY <4>1, <4>2
    <3> QED
      BY <2>6, <3>1, <1>a DEF TypeOK
  <2>11. TypeOK'
    BY <2>1, <2>3, <2>6, <2>7, <2>8, <2>9, <2>10, <1>a DEF TypeOK
  <2>12. ContextsDistinct'
    BY <2>3, <1>a, <1>q
  <2> QED
    BY <2>1, <2>3, <2>4, <2>5, <2>6, <2>7, <2>11, <2>12, <1>a, <1>z
<1>10. CASE UNCHANGED vars
  BY <1>10 DEF vars, state, analysis, trace, IInv, TypeOK, FullStackMirrors, CallStackAgrees,
               TraceNests, NeverFails, ContextsDistinct
<1> QED
  BY <1>1, <1>2, <1>3, <1>4, <1>5, <1>6, <1>7, <1>8, <1>9, <1>10 DEF Next

LEMMA SpecIInv == Spec => []IInv
  BY InitIInv, NextIInv, PTL DEF Spec

(* Type correctness, for every instance. *)
THEOREM TypeCorrect == Spec => []TypeOK
<1>1. IInv => TypeOK
  BY DEF IInv
<1> QED
  BY <1>1, SpecIInv, PTL

(* full_stack is the interpreter's stack between any two probes. *)
THEOREM StackMirrored == Spec => []FullStackMirrors
<1>1. IInv => FullStackMirrors
  BY DEF IInv
<1> QED
  BY <1>1, SpecIInv, PTL

(* The strictness analysis and the probes agree on the calls in progress. *)
THEOREM StacksAgree == Spec => []CallStackAgrees
<1>1. IInv => CallStackAgrees
  BY DEF IInv
<1> QED
  BY <1>1, SpecIInv, PTL

(* The exit(EXIT_FAILURE) of function_exit_ is unreachable. *)
THEOREM NoFailure == Spec => []NeverFails
<1>1. IInv => NeverFails
  BY DEF IInv
<1> QED
  BY <1>1, SpecIInv, PTL

(* The trace's BEGIN and FINISH records nest. *)
THEOREM TraceWellNested == Spec => []TraceNests
<1>1. IInv => TraceNests
  BY DEF IInv
<1> QED
  BY <1>1, SpecIInv, PTL

-----------------------------------------------------------------------------
(* More facts about positions. *)

(* Counting grows strictly from one selected position to the next. *)
LEMMA UptoStrict ==
  ASSUME NEW s, NEW T, NEW m \in Nat, NEW i \in Upto(s, T, m), NEW j \in Upto(s, T, m), i < j
  PROVE  Cardinality(Upto(s, T, i)) < Cardinality(Upto(s, T, j))
<1>1. i \in Nat /\ j \in Nat \ {0} /\ j - 1 \in Nat /\ i <= j - 1 /\ s[j].type \in T
  BY UptoIndex
<1>2. Cardinality(Upto(s, T, j)) = Cardinality(Upto(s, T, j - 1)) + 1
  BY <1>1, UptoStep
<1> DEFINE V == Between(s, T, i, j - 1)
<1>3. Cardinality(V) \in Nat /\ Cardinality(Upto(s, T, j - 1)) = Cardinality(Upto(s, T, i)) + Cardinality(V)
  BY <1>1, UptoSplit
<1>4. Cardinality(Upto(s, T, i)) \in Nat
  BY <1>1, UptoFinite
<1> QED
  BY <1>2, <1>3, <1>4

(* Each number from c + 1 to the count of all is the count at some selected  *)
(* position above n, where c is the count up to n.                           *)
LEMMA UptoOnto ==
  ASSUME NEW s, NEW T, NEW n \in Nat, NEW m \in Nat, n <= m,
         NEW k \in (Cardinality(Upto(s, T, n)) + 1)..Cardinality(Upto(s, T, m))
  PROVE  \E i \in Between(s, T, n, m) : Cardinality(Upto(s, T, i)) = k
<1> DEFINE U == Between(s, T, n, m)
           c == Cardinality(Upto(s, T, n))
           total == Cardinality(Upto(s, T, m))
           K == (c + 1)..total
           f == [i \in U |-> Cardinality(Upto(s, T, i))]
<1>1. c \in Nat /\ total \in Nat
  BY UptoFinite
<1>2. IsFiniteSet(U) /\ Cardinality(U) \in Nat /\ total = c + Cardinality(U)
  BY UptoSplit
<1>3. ASSUME NEW i \in U
      PROVE  i \in Upto(s, T, m) /\ i \in Nat /\ Cardinality(Upto(s, T, i)) \in K
  <2>1. i \in (n + 1)..m /\ i \in Upto(s, T, m) /\ s[i].type \in T
    BY DEF Upto, Between
  <2>2. Cardinality(Upto(s, T, i)) \in 1..total
    BY <2>1, UptoIndex
  <2>3. i \in Nat \ {0} /\ i - 1 \in Nat /\ n <= i - 1
    BY <2>1
  <2>4. Cardinality(Upto(s, T, i)) = Cardinality(Upto(s, T, i - 1)) + 1
    BY <2>1, <2>3, UptoStep
  <2> DEFINE V == Between(s, T, n, i - 1)
  <2>5. Cardinality(V) \in Nat /\ Cardinality(Upto(s, T, i - 1)) = c + Cardinality(V)
    BY <2>3, UptoSplit
  <2> QED
    BY <2>1, <2>2, <2>3, <2>4, <2>5, <1>1
<1>4. f \in [U -> K]
  BY <1>3
<1>5. ASSUME NEW i \in U, NEW j \in U, f[i] = f[j]
      PROVE  i = j
  <2>1. i \in Nat /\ j \in Nat /\ i \in Upto(s, T, m) /\ j \in Upto(s, T, m)
    BY <1>3
  <2>2. Cardinality(Upto(s, T, i)) = Cardinality(Upto(s, T, j)) /\ Cardinality(Upto(s, T, i)) \in K
    BY <1>3, <1>5
  <2>3. ~(i < j) /\ ~(j < i)
    BY <2>1, <2>2, <1>1, UptoStrict
  <2> QED
    BY <2>1, <2>3
<1>6. f \in Injection(U, K)
  <2> HIDE DEF f, U, K
  <2> QED
    BY <1>4, <1>5, Fun_IsInj
<1>7. IsFiniteSet(K) /\ Cardinality(K) = Cardinality(U)
  <2>1. c + 1 \in Int /\ total \in Int
    BY <1>1
  <2>2. IsFiniteSet(K) /\ Cardinality(K) = IF c + 1 > total THEN 0 ELSE total - (c + 1) + 1
    BY <2>1, FS_Interval
  <2> QED
    BY <2>2, <1>1, <1>2
<1>8. f \in Surjection(U, K)
  <2> HIDE DEF f, U, K
  <2> QED
    BY <1>6, <1>7, FS_Injection
<1>9. PICK i \in U : f[i] = k
  <2>1. k \in K
    OBVIOUS
  <2> HIDE DEF f, U, K
  <2> QED
    BY <1>8, <2>1, Fun_SurjectionProperties
<1> QED
  BY <1>9

(* What an unwinding drops from a stack that agrees with full_stack is just  *)
(* the events it is dropped for.                                             *)
LEMMA DroppedEvents ==
  ASSUME NEW R, NEW s \in Seq(R), NEW S, NEW fs \in Seq(S), NEW T,
         NEW n \in 0..Len(fs), Agrees(s, fs, T)
  PROVE  LET U == Between(fs, T, n, Len(fs)) IN
         /\ \A j \in (Len(s) - Cardinality(U) + 1)..Len(s) : \E i \in U : s[j] = fs[i]
         /\ \A i \in U : \E j \in (Len(s) - Cardinality(U) + 1)..Len(s) : s[j] = fs[i]
<1> DEFINE m == Len(fs)
           U == Between(fs, T, n, m)
           total == Cardinality(Upto(fs, T, m))
           c == Cardinality(Upto(fs, T, n))
           base == Len(s) - total
           J == (Len(s) - Cardinality(U) + 1)..Len(s)
<1>1. m \in Nat /\ n \in Nat /\ n <= m /\ Len(s) \in Nat
  OBVIOUS
<1>2. Cardinality(U) \in Nat /\ total = c + Cardinality(U)
  BY <1>1, UptoSplit
<1>3. c \in Nat /\ total \in Nat
  BY <1>1, UptoFinite
<1>4. base >= 0 /\ \A i \in Upto(fs, T, m) : s[base + Cardinality(Upto(fs, T, i))] = fs[i]
  BY DEF Agrees
<1>5. \A i \in U : i \in Upto(fs, T, m)
  BY <1>1 DEF Upto, Between
<1>6. ASSUME NEW j \in J
      PROVE  \E i \in U : s[j] = fs[i]
  <2> DEFINE k == j - base
             u == Cardinality(U)
             l == Len(s)
  <2>1. k \in (c + 1)..total /\ j = base + k
    <3>1. j \in (l - u + 1)..l /\ l \in Nat /\ u \in Nat /\ total = c + u
      BY <1>1, <1>2
    <3>2. base = l - total /\ k = j - base
      OBVIOUS
    <3> HIDE DEF U, total, c, J, m, base, k, l, u
    <3> QED
      BY <3>1, <3>2, <1>3
  <2>2. PICK i \in U : Cardinality(Upto(fs, T, i)) = k
    <3> HIDE DEF k, c, total, U
    <3> QED
      BY <2>1, <1>1, UptoOnto DEF c, total, U
  <2> QED
    BY <2>1, <2>2, <1>4, <1>5
<1>7. ASSUME NEW i \in U
      PROVE  \E j \in J : s[j] = fs[i]
  <2> DEFINE V == Between(fs, T, n, i - 1)
  <2>1. i \in Nat \ {0} /\ i - 1 \in Nat /\ n <= i - 1 /\ fs[i].type \in T
    BY <1>1 DEF Between
  <2>2. Cardinality(Upto(fs, T, i)) = Cardinality(Upto(fs, T, i - 1)) + 1
    BY <2>1, UptoStep
  <2>3. Cardinality(V) \in Nat /\ Cardinality(Upto(fs, T, i - 1)) = c + Cardinality(V)
    BY <2>1, <1>1, UptoSplit
  <2>4. Cardinality(Upto(fs, T, i)) \in 1..total
    BY <1>1, <1>5, UptoIndex
  <2>5. base + Cardinality(Upto(fs, T, i)) \in J
    BY <2>2, <2>3, <2>4, <1>1, <1>2, <1>3
  <2> QED
    BY <2>5, <1>4, <1>5
<1> QED
  BY <1>6, <1>7

(* How the count of all selected positions changes with the stack. *)
LEMMA CountAppend ==
  ASSUME NEW S, NEW fs \in Seq(S), NEW e \in S, NEW T
  PROVE  Cardinality(Upto(Append(fs, e), T, Len(Append(fs, e)))) =
           Cardinality(Upto(fs, T, Len(fs))) + (IF e.type \in T THEN 1 ELSE 0)
<1> DEFINE n == Len(fs)
           gs == Append(fs, e)
<1>1. n \in Nat /\ Len(gs) = n + 1 /\ gs[n + 1] = e /\ \A j \in 1..n : gs[j] = fs[j]
  OBVIOUS
<1> HIDE DEF gs, n
<1>2. Upto(gs, T, n) = Upto(fs, T, n)
  BY <1>1, UptoPrefix
<1>3. n + 1 \in Nat \ {0} /\ (n + 1) - 1 = n
  BY <1>1
<1>4. Cardinality(Upto(gs, T, n + 1)) =
        Cardinality(Upto(gs, T, (n + 1) - 1)) + (IF gs[n + 1].type \in T THEN 1 ELSE 0)
  BY <1>3, UptoStep
<1>5. Cardinality(Upto(gs, T, Len(gs))) = Cardinality(Upto(fs, T, n)) + (IF e.type \in T THEN 1 ELSE 0)
  BY <1>1, <1>2, <1>3, <1>4
<1> QED
  BY <1>5 DEF gs, n

LEMMA CountTruncate ==
  ASSUME NEW S, NEW fs \in Seq(S), NEW T, NEW n \in 0..Len(fs)
  PROVE  Cardinality(Upto(SubSeq(fs, 1, n), T, Len(SubSeq(fs, 1, n)))) =
           Cardinality(Upto(fs, T, Len(fs))) - Cardinality(Between(fs, T, n, Len(fs)))
<1> DEFINE gs == SubSeq(fs, 1, n)
           m == Len(fs)
<1>1. n \in Nat /\ m \in Nat /\ n <= m /\ Len(gs) = n /\ \A j \in 1..n : gs[j] = fs[j]
  OBVIOUS
<1> HIDE DEF gs, m
<1>2. Upto(gs, T, n) = Upto(fs, T, n)
  BY <1>1, UptoPrefix
<1>3. /\ Cardinality(Between(fs, T, n, m)) \in Nat
      /\ Cardinality(Upto(fs, T, m)) = Cardinality(Upto(fs, T, n)) + Cardinality(Between(fs, T, n, m))
  BY <1>1, UptoSplit
<1>4. Cardinality(Upto(fs, T, n)) \in Nat
  BY <1>1, UptoFinite
<1>5. Cardinality(Upto(gs, T, Len(gs))) = Cardinality(Upto(fs, T, m)) - Cardinality(Between(fs, T, n, m))
  BY <1>1, <1>2, <1>3, <1>4
<1> QED
  BY <1>5 DEF gs, m

-----------------------------------------------------------------------------
(* What each action does to the log, given the inductive invariant: a step   *)
(* drops the elements above n of full_stack, and with them as many of the    *)
(* other two stacks, or it pushes one event, or it leaves them alone.        *)

Brackets == {"CALL", "PROMISE"}

(* A push of e. *)
Pushes(e) ==
  /\ full_stack' = Append(full_stack, e)
  /\ open' = IF e.type \in Brackets THEN Append(open, e) ELSE open
  /\ calls' = calls
  /\ IF e.type = "CALL"
     THEN call_stack' = Append(call_stack, e) /\ call_id_counter' = call_id_counter + 1
                                              /\ e.id = call_id_counter + 1
     ELSE call_stack' = call_stack /\ call_id_counter' = call_id_counter

(* A pop of all events above position n of full_stack. *)
Pops(n) ==
  LET U == Unwound(n, {"CALL"})
      W == Unwound(n, Brackets)
  IN
  /\ full_stack' = SubSeq(full_stack, 1, n)
  /\ call_stack' = DropTop(call_stack, Cardinality(U)) /\ Cardinality(U) \in 0..Len(call_stack)
  /\ open' = DropTop(open, Cardinality(W)) /\ Cardinality(W) \in 0..Len(open)
  /\ calls' = calls \cup {full_stack[i].id : i \in U}
  /\ call_id_counter' = call_id_counter

(* A pop of one event, in the form of an unwinding to the position below it. *)
LEMMA PopOne ==
  ASSUME IInv, full_stack # <<>>, full_stack' = Front(full_stack),
         NEW e, e = Last(full_stack), call_id_counter' = call_id_counter,
         call_stack' = (IF e.type = "CALL" THEN Front(call_stack) ELSE call_stack),
         calls' = (IF e.type = "CALL" THEN calls \cup {e.id} ELSE calls),
         open' = (IF e.type \in Brackets THEN Front(open) ELSE open)
  PROVE  Pops(Len(full_stack) - 1) /\ Len(full_stack) - 1 \in 0..Len(full_stack)
<1> DEFINE m == Len(full_stack)
           n == m - 1
           U == Unwound(n, {"CALL"})
           W == Unwound(n, Brackets)
<1>1. /\ full_stack \in Seq(StackEvents) /\ call_stack \in Seq(CallEvents)
      /\ open \in Seq(CallEvents \cup PromiseEvents)
      /\ Agrees(call_stack, full_stack, {"CALL"}) /\ Agrees(open, full_stack, Brackets)
  BY DEF IInv, TypeOK, CallStackAgrees, TraceNests, Brackets
<1>2. n \in 0..m /\ n + 1 = m /\ m \in Nat \ {0} /\ e = full_stack[m]
  BY <1>1 DEF Last
<1>3. U = (IF e.type = "CALL" THEN {m} ELSE {}) /\ W = (IF e.type \in Brackets THEN {m} ELSE {})
  BY <1>2 DEF Unwound, Between
<1>4. Cardinality({m}) = 1 /\ Cardinality({}) = 0
  BY FS_Singleton, FS_EmptySet
<1>5. Cardinality(U) \in 0..Len(call_stack) /\ Cardinality(W) \in 0..Len(open)
  BY <1>1, <1>2, AgreesTruncate DEF Unwound
<1>6. call_stack' = DropTop(call_stack, Cardinality(U)) /\ open' = DropTop(open, Cardinality(W))
  <2>1. DropTop(call_stack, 0) = call_stack /\ DropTop(open, 0) = open
    BY <1>1 DEF DropTop
  <2> QED
    BY <2>1, <1>3, <1>4 DEF DropTop, Front
<1>7. calls' = calls \cup {full_stack[i].id : i \in U}
  BY <1>2, <1>3
<1>8. full_stack' = SubSeq(full_stack, 1, n)
  BY DEF Front
<1> QED
  BY <1>2, <1>5, <1>6, <1>7, <1>8 DEF Pops

(* Every step is a push, a pop, the end of a pass, or changes none of this. *)
LEMMA StepKinds ==
  ASSUME IInv, [Next]_vars
  PROVE  \/ UNCHANGED <<full_stack, open, calls, call_stack, call_id_counter>>
         \/ /\ phase' = "idle" /\ full_stack' = <<>> /\ open' = <<>>
            /\ UNCHANGED <<calls, call_stack, call_id_counter>>
         \/ \E e \in StackEvents : Pushes(e)
         \/ \E n \in 0..Len(full_stack) : Pops(n)
<1>1. /\ full_stack \in Seq(StackEvents) /\ call_stack \in Seq(CallEvents)
      /\ open \in Seq(CallEvents \cup PromiseEvents) /\ full_stack = frames
      /\ Agrees(call_stack, full_stack, {"CALL"}) /\ Agrees(open, full_stack, Brackets)
  BY DEF IInv, TypeOK, FullStackMirrors, CallStackAgrees, TraceNests, Brackets
<1>2. CASE DyntraceEntry \/ DyntraceExit \/ UNCHANGED vars
  BY <1>2 DEF DyntraceEntry, DyntraceExit, vars, state, analysis, trace
<1>3. ASSUME NEW fn \in FunctionTypes, CallEntry(fn)
      PROVE  \E e \in StackEvents : Pushes(e)
  <2> DEFINE e == CallEvent(call_id_counter + 1, fn)
  <2>1. call_id_counter + 1 \in 1..MaxCalls
    BY <1>3, BoundsAssumption DEF CallEntry, IInv, TypeOK
  <2>2. e \in StackEvents /\ e.type = "CALL" /\ e.id = call_id_counter + 1
    BY <2>1 DEF CallEvent, CallEvents, StackEvents
  <2> HIDE DEF e
  <2>3. Pushes(e)
    BY <1>3, <2>2 DEF CallEntry, FunctionEntry, TraceBegin, Pushes, Brackets, e
  <2> QED
    BY <2>2, <2>3
<1>4. ASSUME NEW p \in Promises, PromiseForceEntry(p)
      PROVE  \E e \in StackEvents : Pushes(e)
  <2>1. PromiseEvent(p) \in StackEvents /\ PromiseEvent(p).type = "PROMISE"
    BY DEF PromiseEvent, PromiseEvents, StackEvents
  <2>2. Pushes(PromiseEvent(p))
    BY <1>4, <2>1 DEF PromiseForceEntry, TraceBegin, Pushes, Brackets, analysis
  <2> QED
    BY <2>1, <2>2
<1>5. ASSUME NEW c \in Contexts, ContextEntry(c)
      PROVE  \E e \in StackEvents : Pushes(e)
  <2>1. ContextEvent(c) \in StackEvents /\ ContextEvent(c).type = "CONTEXT"
    BY DEF ContextEvent, ContextEvents, StackEvents
  <2>2. Pushes(ContextEvent(c))
    BY <1>5, <2>1 DEF ContextEntry, Pushes, Brackets, analysis, trace
  <2> QED
    BY <2>1, <2>2
<1>6. ASSUME NEW fn \in FunctionTypes, CallExit(fn)
      PROVE  \E n \in 0..Len(full_stack) : Pops(n)
  <2>1. PICK id \in 1..call_id_counter : Leave(CallEvent(id, fn))
    BY <1>6 DEF CallExit
  <2>2. full_stack # <<>> /\ Last(full_stack) = CallEvent(id, fn) /\ full_stack' = Front(full_stack)
    BY <1>6, <2>1, <1>1 DEF CallExit, Leave
  <2>3. Last(full_stack).type = "CALL" /\ Last(full_stack).id = id
    BY <2>2 DEF CallEvent
  <2>4. LastCallId(full_stack) = id
    BY <2>2, <2>3, <1>1, LastCallIsTop
  <2>5. call_stack # <<>> /\ Last(call_stack) = Last(full_stack)
    BY <2>2, <2>3, <1>1, AgreesPop
  <2>6. open # <<>> /\ Last(open) = Last(full_stack)
    BY <2>2, <2>3, <1>1, AgreesPop DEF Brackets
  <2>7. /\ call_stack' = Front(call_stack) /\ calls' = calls \cup {id}
        /\ open' = Front(open) /\ call_id_counter' = call_id_counter
    BY <1>6, <2>3, <2>4, <2>5, <2>6 DEF CallExit, FunctionExit, FunctionExitMatches, TraceFinish
  <2> QED
    BY <2>2, <2>3, <2>7, PopOne DEF Brackets
<1>7. ASSUME NEW p \in Promises, PromiseForceExit(p)
      PROVE  \E n \in 0..Len(full_stack) : Pops(n)
  <2>1. /\ full_stack # <<>> /\ Last(full_stack) = PromiseEvent(p) /\ full_stack' = Front(full_stack)
        /\ call_stack' = call_stack /\ calls' = calls /\ call_id_counter' = call_id_counter
    BY <1>7, <1>1 DEF PromiseForceExit, Leave, analysis
  <2>2. Last(full_stack).type = "PROMISE" /\ Last(full_stack).id = p
    BY <2>1 DEF PromiseEvent
  <2>3. open # <<>> /\ Last(open) = Last(full_stack)
    BY <2>1, <2>2, <1>1, AgreesPop DEF Brackets
  <2>4. open' = Front(open)
    BY <1>7, <2>2, <2>3 DEF PromiseForceExit, TraceFinish
  <2> QED
    BY <2>1, <2>2, <2>4, PopOne DEF Brackets
<1>8. ASSUME NEW c \in Contexts, ContextExit(c)
      PROVE  \E n \in 0..Len(full_stack) : Pops(n)
  <2>1. /\ full_stack # <<>> /\ Last(full_stack) = ContextEvent(c)
        /\ UNCHANGED <<call_id_counter, call_stack, calls, open>>
    BY <1>8, <1>1 DEF ContextExit, Leave, analysis, trace
  <2>2. full_stack' = Front(full_stack)
    BY <1>8, <2>1 DEF ContextExit, SameEvent
  <2>3. Last(full_stack).type = "CONTEXT"
    BY <2>1 DEF ContextEvent
  <2> QED
    BY <2>1, <2>2, <2>3, PopOne DEF Brackets
<1>9. ASSUME NEW c \in Contexts \cup {TopLevel}, ContextJump(c)
      PROVE  \E n \in 0..Len(full_stack) : Pops(n)
  <2>1. PICK n \in 0..Len(full_stack) :
          /\ full_stack' = SubSeq(full_stack, 1, n)
          /\ UnwindCalls(Unwound(n, {"CALL"}))
          /\ TraceUnwind(Unwound(n, Brackets))
    BY <1>9 DEF ContextJump, Brackets
  <2> DEFINE U == Unwound(n, {"CALL"})
             W == Unwound(n, Brackets)
  <2>2. PopsMatch(call_stack, full_stack, U) /\ Cardinality(U) \in 0..Len(call_stack)
    BY <1>1, AgreesTruncate DEF Unwound
  <2>3. PopsMatch(open, full_stack, W) /\ Cardinality(W) \in 0..Len(open)
    BY <1>1, AgreesTruncate DEF Unwound
  <2>4. call_id_counter' = call_id_counter
    BY <1>9 DEF ContextJump
  <2> QED
    BY <2>1, <2>2, <2>3, <2>4 DEF Pops, UnwindCalls, TraceUnwind
<1> QED
  BY <1>2, <1>3, <1>4, <1>5, <1>6, <1>7, <1>8, <1>9 DEF Next

-----------------------------------------------------------------------------
(* Every call is accounted for: the ids a pop makes inactive are those it    *)
(* takes off call_stack_, and the others stay.                               *)

LEMMA InitAccounted == Init => CallsAccounted
<1> SUFFICES ASSUME Init PROVE CallsAccounted
  OBVIOUS
<1>1. ActiveCalls = {} /\ calls = {} /\ call_stack = <<>> /\ 1..call_id_counter = {}
  BY DEF Init, ActiveCalls
<1> QED
  BY <1>1 DEF CallsAccounted

LEMMA AccountedPush ==
  ASSUME IInv, CallsAccounted, NEW e \in StackEvents, Pushes(e)
  PROVE  CallsAccounted'
<1>1. CASE e.type # "CALL"
  BY <1>1 DEF Pushes, CallsAccounted, ActiveCalls
<1>2. CASE e.type = "CALL"
  <2> DEFINE l == Len(call_stack)
             c == call_id_counter
  <2>1. /\ c \in Nat /\ e.id = c + 1 /\ call_id_counter' = c + 1 /\ calls' = calls
        /\ call_stack' = Append(call_stack, e) /\ call_stack \in Seq(CallEvents)
    BY <1>2, BoundsAssumption DEF Pushes, IInv, TypeOK
  <2>2. /\ l \in Nat /\ DOMAIN call_stack = 1..l /\ DOMAIN call_stack' = 1..l \cup {l + 1}
        /\ call_stack'[l + 1] = e /\ l + 1 \notin 1..l
        /\ \A j \in 1..l : call_stack'[j] = call_stack[j]
    BY <2>1
  <2> HIDE DEF l, c
  <2>3. ActiveCalls' = ActiveCalls \cup {c + 1}
    BY <2>1, <2>2 DEF ActiveCalls
  <2>4. 1..(c + 1) = 1..c \cup {c + 1} /\ c + 1 \notin 1..c
    BY <2>1
  <2>5. /\ ActiveCalls \cup calls = 1..c /\ ActiveCalls \cap calls = {}
        /\ \A i, j \in 1..l : call_stack[i].id = call_stack[j].id => i = j
    BY <2>2 DEF CallsAccounted, c
  <2>6. \A j \in 1..l : call_stack[j].id # c + 1
    BY <2>2, <2>4, <2>5 DEF ActiveCalls
  <2>7. \A i, j \in 1..l \cup {l + 1} : call_stack'[i].id = call_stack'[j].id => i = j
    BY <2>1, <2>2, <2>5, <2>6
  <2>8. ActiveCalls' \cup calls' = 1..call_id_counter' /\ ActiveCalls' \cap calls' = {}
    BY <2>1, <2>3, <2>4, <2>5
  <2> QED
    BY <2>2, <2>7, <2>8 DEF CallsAccounted
<1> QED
  BY <1>1, <1>2

LEMMA AccountedPop ==
  ASSUME IInv, CallsAccounted, NEW n \in 0..Len(full_stack), Pops(n)
  PROVE  CallsAccounted'
<1> DEFINE U == Unwound(n, {"CALL"})
           k == Cardinality(U)
           l == Len(call_stack)
           D == {call_stack[j].id : j \in (l - k + 1)..l}
<1>1. /\ full_stack \in Seq(StackEvents) /\ call_stack \in Seq(CallEvents)
      /\ Agrees(call_stack, full_stack, {"CALL"})
  BY DEF IInv, TypeOK, CallStackAgrees
<1>2. /\ \A j \in (l - k + 1)..l : \E i \in U : call_stack[j] = full_stack[i]
      /\ \A i \in U : \E j \in (l - k + 1)..l : call_stack[j] = full_stack[i]
  <2> HIDE DEF l
  <2> QED
    BY <1>1, DroppedEvents DEF Unwound, l
<1>3. D = {full_stack[i].id : i \in U}
  <2> HIDE DEF U, k, l
  <2> QED
    BY <1>2
<1>4. /\ l \in Nat /\ k \in 0..l /\ DOMAIN call_stack = 1..l
      /\ call_stack' = SubSeq(call_stack, 1, l - k) /\ calls' = calls \cup D
      /\ call_id_counter' = call_id_counter
  <2>1. /\ k \in 0..l /\ call_stack' = SubSeq(call_stack, 1, l - k)
        /\ calls' = calls \cup {full_stack[i].id : i \in U}
        /\ call_id_counter' = call_id_counter
    BY DEF Pops, DropTop
  <2>2. l \in Nat /\ DOMAIN call_stack = 1..l
    BY <1>1
  <2> HIDE DEF U, k, l, D
  <2> QED
    BY <2>1, <2>2, <1>3
<1>5. DOMAIN call_stack' = 1..(l - k) /\ \A j \in 1..(l - k) : call_stack'[j] = call_stack[j]
  <2> HIDE DEF k
  <2> QED
    BY <1>1, <1>4
<1> HIDE DEF U, k, l
<1>6. /\ 1..l = 1..(l - k) \cup ((l - k + 1)..l)
      /\ 1..(l - k) \cap ((l - k + 1)..l) = {}
  BY <1>4
<1>7. /\ ActiveCalls \cup calls = 1..call_id_counter /\ ActiveCalls \cap calls = {}
      /\ \A i, j \in 1..l : call_stack[i].id = call_stack[j].id => i = j
  BY <1>4 DEF CallsAccounted
<1>8. ActiveCalls' = {call_stack[j].id : j \in 1..(l - k)}
  BY <1>5 DEF ActiveCalls
<1>9. ActiveCalls = ActiveCalls' \cup D
  BY <1>4, <1>6, <1>8 DEF ActiveCalls
<1>10. ActiveCalls' \cap D = {}
  BY <1>6, <1>7, <1>8
<1>11. \A i, j \in 1..(l - k) : call_stack'[i].id = call_stack'[j].id => i = j
  BY <1>5, <1>6, <1>7
<1>12. ActiveCalls' \cup calls' = 1..call_id_counter' /\ ActiveCalls' \cap calls' = {}
  <2> HIDE DEF D
  <2> QED
    BY <1>4, <1>7, <1>9, <1>10
<1> QED
  BY <1>5, <1>11, <1>12 DEF CallsAccounted

-----------------------------------------------------------------------------
(* The invariant under which each step is one of CallLog: what is open is    *)
(* open in this pass, so that its calls are all still active.                *)

OpenIsExact == Len(open) = Cardinality(Upto(full_stack, Brackets, Len(full_stack)))

LInv == IInv /\ CallsAccounted /\ OpenIsExact

LEMMA InitLInv == Init => LInv
<1> SUFFICES ASSUME Init PROVE LInv
  OBVIOUS
<1>1. full_stack = <<>> /\ open = <<>>
  BY DEF Init
<1>2. Upto(<<>>, Brackets, Len(<<>>)) = {}
  BY DEF Upto, Between
<1>3. OpenIsExact
  BY <1>1, <1>2, FS_EmptySet DEF OpenIsExact
<1> QED
  BY <1>3, InitIInv, InitAccounted DEF LInv

LEMMA NextLInv == LInv /\ [Next]_vars => LInv'
<1> SUFFICES ASSUME LInv, [Next]_vars PROVE LInv'
  OBVIOUS
<1>1. IInv /\ CallsAccounted /\ OpenIsExact /\ IInv'
  BY NextIInv DEF LInv
<1>2. full_stack \in Seq(StackEvents) /\ open \in Seq(CallEvents \cup PromiseEvents)
  BY <1>1 DEF IInv, TypeOK
<1>3. CASE UNCHANGED <<full_stack, open, calls, call_stack, call_id_counter>>
  BY <1>1, <1>3 DEF LInv, CallsAccounted, ActiveCalls, OpenIsExact
<1>4. CASE phase' = "idle" /\ full_stack' = <<>> /\ open' = <<>> /\ UNCHANGED <<calls, call_stack, call_id_counter>>
  <2>1. Upto(<<>>, Brackets, Len(<<>>)) = {}
    BY DEF Upto, Between
  <2>2. OpenIsExact'
    BY <1>4, <2>1, FS_EmptySet DEF OpenIsExact
  <2>3. CallsAccounted'
    BY <1>1, <1>4 DEF CallsAccounted, ActiveCalls
  <2> QED
    BY <1>1, <2>2, <2>3 DEF LInv
<1>5. ASSUME NEW e \in StackEvents, Pushes(e)
      PROVE  LInv'
  <2>1. CallsAccounted'
    BY <1>1, <1>5, AccountedPush
  <2>2. Cardinality(Upto(full_stack', Brackets, Len(full_stack'))) = Len(open) + (IF e.type \in Brackets THEN 1 ELSE 0)
    BY <1>1, <1>2, <1>5, CountAppend DEF Pushes, OpenIsExact
  <2>3. Len(open') = Len(open) + (IF e.type \in Brackets THEN 1 ELSE 0)
    BY <1>2, <1>5 DEF Pushes
  <2> QED
    BY <1>1, <2>1, <2>2, <2>3 DEF LInv, OpenIsExact
<1>6. ASSUME NEW n \in 0..Len(full_stack), Pops(n)
      PROVE  LInv'
  <2> DEFINE k == Cardinality(Unwound(n, Brackets))
  <2>1. CallsAccounted'
    BY <1>1, <1>6, AccountedPop
  <2>2. Cardinality(Upto(full_stack', Brackets, Len(full_stack'))) = Len(open) - k
    BY <1>1, <1>2, <1>6, CountTruncate DEF Pops, OpenIsExact, Unwound
  <2>3. Len(open') = Len(open) - k
    <3>1. k \in 0..Len(open) /\ open' = SubSeq(open, 1, Len(open) - k)
      BY <1>6 DEF Pops, DropTop
    <3> HIDE DEF k
    <3> QED
      BY <1>2, <3>1
  <2> QED
    BY <1>1, <2>1, <2>2, <2>3 DEF LInv, OpenIsExact
<1> QED
  BY <1>1, <1>3, <1>4, <1>5, <1>6, StepKinds

(* A call on full_stack is on call_stack_. *)
LEMMA StackedIsActive ==
  ASSUME IInv, NEW i \in Upto(full_stack, {"CALL"}, Len(full_stack))
  PROVE  full_stack[i].id \in ActiveCalls
<1> DEFINE m == Len(full_stack)
           total == Cardinality(Upto(full_stack, {"CALL"}, m))
           q == Cardinality(Upto(full_stack, {"CALL"}, i))
<1>1. m \in Nat /\ Len(call_stack) \in Nat /\ DOMAIN call_stack = 1..Len(call_stack)
  BY DEF IInv, TypeOK
<1>2. Len(call_stack) - total >= 0 /\ call_stack[Len(call_stack) - total + q] = full_stack[i]
  BY DEF IInv, CallStackAgrees, Agrees
<1>3. total \in Nat /\ q \in 1..total
  BY <1>1, UptoFinite, UptoIndex
<1>4. Len(call_stack) - total + q \in DOMAIN call_stack
  <2> HIDE DEF total, q
  <2> QED
    BY <1>1, <1>2, <1>3
<1> QED
  BY <1>2, <1>4 DEF ActiveCalls

(* The calls among the elements of open that a pop drops are the unwound     *)
(* calls, all of them active until then.                                     *)
LEMMA DroppedCalls ==
  ASSUME IInv, NEW n \in 0..Len(full_stack)
  PROVE  LET k == Cardinality(Unwound(n, Brackets))
             ids == {full_stack[i].id : i \in Unwound(n, {"CALL"})}
         IN  /\ k \in 0..Len(open)
             /\ Log!CallIds(SubSeq(open, Len(open) - k + 1, Len(open))) = ids
             /\ ids \subseteq ActiveCalls
<1> DEFINE W == Unwound(n, Brackets)
           U == Unwound(n, {"CALL"})
           k == Cardinality(W)
           l == Len(open)
           t == SubSeq(open, l - k + 1, l)
<1>1. /\ full_stack \in Seq(StackEvents) /\ open \in Seq(CallEvents \cup PromiseEvents)
      /\ Agrees(open, full_stack, Brackets)
  BY DEF IInv, TypeOK, TraceNests, Brackets
<1>2. k \in 0..l /\ l \in Nat
  BY <1>1, AgreesTruncate DEF Unwound
<1>3. /\ \A j \in (l - k + 1)..l : \E i \in W : open[j] = full_stack[i]
      /\ \A i \in W : \E j \in (l - k + 1)..l : open[j] = full_stack[i]
  <2> HIDE DEF l
  <2> QED
    BY <1>1, DroppedEvents DEF Unwound, l
<1>4. U = {i \in W : full_stack[i].type = "CALL"}
  BY DEF Unwound, Between, Brackets
<1> HIDE DEF W, U, k, l
<1>5. /\ DOMAIN t = 1..k /\ \A j \in 1..k : t[j] = open[l - k + j]
  BY <1>1, <1>2 DEF l
<1>6. Log!CallIds(t) = {t[j].id : j \in {i \in 1..k : t[i].type = "CALL"}}
  BY <1>5 DEF Log!CallIds
<1>7. \A j \in 1..k : \E i \in W : t[j] = full_stack[i]
  <2>1. \A j \in 1..k : l - k + j \in (l - k + 1)..l
    BY <1>2
  <2> TAKE j \in 1..k
  <2>2. PICK i \in W : open[l - k + j] = full_stack[i]
    BY <2>1, <1>3
  <2>3. t[j] = open[l - k + j]
    BY <1>5
  <2> QED
    BY <2>2, <2>3
<1>8. \A i \in W : \E j \in 1..k : t[j] = full_stack[i]
  <2>1. \A x \in (l - k + 1)..l : x - (l - k) \in 1..k /\ l - k + (x - (l - k)) = x
    BY <1>2
  <2>2. \A i \in W : \E x \in (l - k + 1)..l : open[x] = full_stack[i]
    BY <1>3
  <2> QED
    <3> TAKE i \in W
    <3>1. PICK x \in (l - k + 1)..l : open[x] = full_stack[i]
      BY <2>2
    <3>2. t[x - (l - k)] = open[x]
      BY <2>1, <1>5
    <3> QED
      BY <2>1, <3>1, <3>2
<1> HIDE DEF t
<1>9. Log!CallIds(t) = {full_stack[i].id : i \in U}
  <2>1. \A j \in 1..k : t[j].type = "CALL" => \E i \in U : t[j] = full_stack[i]
    BY <1>4, <1>7
  <2>2. \A i \in U : \E j \in 1..k : t[j].type = "CALL" /\ t[j] = full_stack[i]
    BY <1>4, <1>8
  <2> QED
    BY <1>6, <2>1, <2>2
<1>10. \A i \in U : full_stack[i].id \in ActiveCalls
  <2>1. U \subseteq Upto(full_stack, {"CALL"}, Len(full_stack))
    BY DEF U, Unwound, Upto, Between
  <2> QED
    BY <2>1, StackedIsActive
<1> QED
  BY <1>2, <1>9, <1>10 DEF W, U, k, l, t

(* The calls that are open are active. *)
LEMMA OpenCallsActive ==
  ASSUME LInv
  PROVE  Log!CallIds(open) \subseteq ActiveCalls
<1>1. /\ IInv /\ Len(full_stack) \in Nat /\ open \in Seq(CallEvents \cup PromiseEvents)
      /\ Len(open) \in Nat
  BY DEF LInv, IInv, TypeOK
<1>2. Unwound(0, Brackets) = Upto(full_stack, Brackets, Len(full_stack))
  BY DEF Unwound, Upto
<1>3. Cardinality(Unwound(0, Brackets)) = Len(open)
  BY <1>2 DEF LInv, OpenIsExact
<1>4. 0 \in 0..Len(full_stack)
  BY <1>1
<1>5. Log!CallIds(SubSeq(open, Len(open) - Len(open) + 1, Len(open))) \subseteq ActiveCalls
  BY <1>1, <1>3, <1>4, DroppedCalls
<1>6. SubSeq(open, Len(open) - Len(open) + 1, Len(open)) = open
  BY <1>1
<1> QED
  BY <1>5, <1>6

-----------------------------------------------------------------------------
(* Every step of TracerStack is a step of CallLog, or leaves it unchanged. *)
LEMMA StepRefines == LInv /\ [Next]_vars => [Log!Next]_<<open, calls>>
<1> SUFFICES ASSUME LInv, [Next]_vars PROVE [Log!Next]_<<open, calls>>
  OBVIOUS
<1>1. IInv /\ CallsAccounted /\ open \in Seq(CallEvents \cup PromiseEvents) /\ call_id_counter \in Nat
  BY BoundsAssumption DEF LInv, IInv, TypeOK
<1>2. CASE UNCHANGED <<full_stack, open, calls, call_stack, call_id_counter>>
  BY <1>2
<1>3. CASE phase' = "idle" /\ full_stack' = <<>> /\ open' = <<>> /\ UNCHANGED <<calls, call_stack, call_id_counter>>
  BY <1>3 DEF Log!Next, Log!EndOfPass
<1>4. ASSUME NEW e \in StackEvents, Pushes(e)
      PROVE  [Log!Next]_<<open, calls>>
  <2>1. CASE e.type \notin Brackets
    BY <1>4, <2>1 DEF Pushes
  <2>2. CASE e.type \in Brackets
    <3>1. e \in CallEvents \cup PromiseEvents
      BY <2>2 DEF StackEvents, ContextEvents, Brackets
    <3>2. e.type = "CALL" => e.id \notin calls \cup Log!CallIds(open)
      <4>1. calls \cup Log!CallIds(open) \subseteq 1..call_id_counter
        BY <1>1, OpenCallsActive DEF CallsAccounted
      <4>2. call_id_counter + 1 \notin 1..call_id_counter
        BY <1>1
      <4> QED
        BY <4>1, <4>2, <1>4 DEF Pushes
    <3>3. Log!Begin(e)
      BY <1>4, <2>2, <3>2 DEF Pushes, Log!Begin
    <3> QED
      BY <3>1, <3>3 DEF Log!Next
  <2> QED
    BY <2>1, <2>2
<1>5. ASSUME NEW n \in 0..Len(full_stack), Pops(n)
      PROVE  [Log!Next]_<<open, calls>>
  <2> DEFINE k == Cardinality(Unwound(n, Brackets))
             ids == {full_stack[i].id : i \in Unwound(n, {"CALL"})}
  <2>1. /\ k \in 0..Len(open) /\ ids \subseteq ActiveCalls
        /\ Log!CallIds(SubSeq(open, Len(open) - k + 1, Len(open))) = ids
    BY <1>1, DroppedCalls
  <2>2. open' = SubSeq(open, 1, Len(open) - k) /\ calls' = calls \cup ids
    BY <1>5 DEF Pops, DropTop
  <2>3. ids \cap calls = {}
    BY <1>1, <2>1 DEF CallsAccounted
  <2> HIDE DEF k, ids
  <2>4. CASE k = 0
    <3>1. SubSeq(open, Len(open) - k + 1, Len(open)) = <<>> /\ open' = open
      BY <1>1, <2>2, <2>4
    <3>2. ids = {}
      BY <2>1, <3>1 DEF Log!CallIds
    <3> QED
      BY <2>2, <3>1, <3>2
  <2>5. CASE k # 0
    <3>1. k \in 1..Len(open)
      BY <1>1, <2>1, <2>5
    <3>2. Log!Finish(k)
      BY <2>1, <2>2, <2>3 DEF Log!Finish
    <3> QED
      BY <3>1, <3>2 DEF Log!Next
  <2> QED
    BY <2>4, <2>5
<1> QED
  BY <1>1, <1>2, <1>3, <1>4, <1>5, StepKinds

LEMMA SpecLInv == Spec => []LInv
  BY InitLInv, NextLInv, PTL DEF Spec

(* No call is lost and none is written twice: every id given out is active   *)
(* without a row, or inactive with its row in the calls table.               *)
THEOREM AllCallsAccounted == Spec => []CallsAccounted
<1>1. LInv => CallsAccounted
  BY DEF LInv
<1> QED
  BY <1>1, SpecLInv, PTL

(* The trace and the calls table are together a behaviour of CallLog: a row  *)
(* is written in the step that closes the call's bracket, also by a jump     *)
(* that closes many.                                                         *)
THEOREM CallLogImplemented == Spec => ImplementsCallLog
<1>1. Init => Log!Init
  BY DEF Init, Log!Init
<1> QED
  BY <1>1, StepRefines, SpecLInv, PTL DEF Spec, ImplementsCallLog
-----------------------------------------------------------------------------
(* The topmost selected position of a stack is the one counted last. *)
LEMMA UptoLast ==
  ASSUME NEW s, NEW T, NEW m \in Nat, Upto(s, T, m) # {}
  PROVE  \E i \in Upto(s, T, m) :
           /\ Cardinality(Upto(s, T, i)) = Cardinality(Upto(s, T, m))
           /\ \A j \in Upto(s, T, m) : j <= i
<1> DEFINE total == Cardinality(Upto(s, T, m))
<1>1. total \in Nat \ {0}
  <2>1. PICK i \in Upto(s, T, m) : TRUE
    OBVIOUS
  <2>2. Cardinality(Upto(s, T, i)) \in 1..total /\ total \in Nat
    BY UptoIndex, UptoFinite
  <2> QED
    BY <2>2
<1>2. Cardinality(Upto(s, T, 0)) = 0
  <2>1. Upto(s, T, 0) = {}
    BY DEF Upto, Between
  <2> QED
    BY <2>1, FS_EmptySet
<1>3. PICK i \in Between(s, T, 0, m) : Cardinality(Upto(s, T, i)) = total
  <2>1. total \in (0 + 1)..total /\ 0 \in Nat /\ 0 <= m
    BY <1>1
  <2> HIDE DEF total
  <2> QED
    BY <2>1, <1>2, UptoOnto DEF total
<1>4. i \in Upto(s, T, m) /\ i \in Nat
  BY <1>3 DEF Upto, Between
<1>5. ASSUME NEW j \in Upto(s, T, m)
      PROVE  j <= i
  <2>1. j \in Nat
    BY DEF Upto, Between
  <2>2. Cardinality(Upto(s, T, j)) \in 1..total
    BY UptoIndex
  <2>3. ~(i < j)
    BY <1>1, <1>3, <1>4, <2>2, UptoStrict
  <2> QED
    BY <1>4, <2>1, <2>3
<1> QED
  BY <1>3, <1>4, <1>5

(* The caller in a call-graph row is the call that is innermost on           *)
(* full_stack and in the interpreter, unless the pass is at its top level.   *)
THEOREM GraphCallerIsParent == Spec => []CallerIsParent
<1>1. IInv => CallerIsParent
  <2> SUFFICES ASSUME IInv PROVE CallerIsParent
    OBVIOUS
  <2> DEFINE m == Len(full_stack)
             l == Len(call_stack)
             C == Upto(full_stack, {"CALL"}, m)
             total == Cardinality(C)
  <2>1. /\ frames = full_stack /\ m \in Nat /\ call_stack \in Seq(CallEvents)
        /\ l \in Nat /\ DOMAIN call_stack = 1..l /\ (call_stack = <<>> <=> l = 0)
    BY DEF IInv, TypeOK, FullStackMirrors
  <2>2. CASE C = {}
    <3>1. LastCallId(full_stack) = 0 /\ LastCallId(frames) = 0
      BY <2>1, <2>2 DEF LastCallId
    <3>2. CASE call_stack = <<>>
      BY <3>1, <3>2 DEF CallerIsParent, GraphCaller
    <3>3. CASE call_stack # <<>>
      <4>1. l \in DOMAIN call_stack /\ GraphCaller = call_stack[l].id
        BY <2>1, <3>3 DEF GraphCaller, Last
      <4> QED
        BY <3>1, <4>1 DEF CallerIsParent, ActiveCalls
    <3> QED
      BY <3>2, <3>3
  <2>3. CASE C # {}
    <3>1. PICK i \in C : /\ Cardinality(Upto(full_stack, {"CALL"}, i)) = total
                         /\ \A j \in C : j <= i
      BY <2>1, <2>3, UptoLast
    <3>2. \A k \in C : k \in Nat
      BY DEF Upto, Between
    <3>3. i = CHOOSE k \in C : \A j \in C : j <= k
      <4> HIDE DEF C
      <4>1. \A k \in C : (\A j \in C : j <= k) => k = i
        BY <3>1, <3>2
      <4> QED
        BY <3>1, <4>1
    <3>4. LastCallId(full_stack) = full_stack[i].id
      BY <2>3, <3>3 DEF LastCallId
    <3>5. total \in Nat /\ total >= 1
      BY <2>1, <3>1, UptoFinite, UptoIndex
    <3>6. l - total >= 0 /\ call_stack[l - total + total] = full_stack[i]
      <4>1. l - total >= 0 /\ call_stack[l - total + Cardinality(Upto(full_stack, {"CALL"}, i))] = full_stack[i]
        BY DEF IInv, CallStackAgrees, Agrees
      <4> QED
        BY <4>1, <3>1
    <3> HIDE DEF C, total, m, l
    <3>7. l - total + total = l /\ l # 0
      BY <2>1, <3>5, <3>6
    <3>8. GraphCaller = call_stack[l].id
      BY <2>1, <3>7 DEF GraphCaller, Last, l
    <3> QED
      BY <2>1, <3>4, <3>6, <3>7, <3>8 DEF CallerIsParent
  <2> QED
    BY <2>2, <2>3
<1> QED
  BY <1>1, SpecIInv, PTL
=============================================================================
