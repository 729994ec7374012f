------------------------- MODULE SchemaResolverProofs -------------------------
(* Proofs about SchemaResolver for every set of files, with any references, and *)
(* any depth of the stack.                                                      *)
EXTENDS SchemaResolver, FiniteSetTheorems, TLAPS

Frames == [of : Names \cup {"root"}, at : Nat]

\* A caller stands at the reference its callee resolves.
CallersWait ==
    \A n \in DOMAIN stack : n < Len(stack) => stack[n].at <= Len(RefsOf(stack[n].of))

\* Only readable files are registered, and only records memoized.
Registered ==
    /\ \A n \in named : files[n].kind # "broken"
    /\ \A n \in resolved : files[n].kind = "struct"

\* The inductive invariant.
CallInv == TypeOK /\ CallersWait /\ Registered /\ MarksExact

-----------------------------------------------------------------------------
\* What a file imports and refers to.
LEMMA FileFacts ==
    ASSUME files \in Suites
    PROVE  /\ \A n \in Names : files[n].imports \in Seq(Names) /\ files[n] \in File
           /\ \A n \in Names \cup {"root"} : RefsOf(n) \in Seq(Refs)
  BY ResolverAssumption DEF File, RefsOf

\* The innermost call, and the reference it stands at.
LEMMA TopFacts ==
    ASSUME TypeOK, stack # <<>>
    PROVE  /\ Len(stack) \in DOMAIN stack /\ DOMAIN stack = 1..Len(stack) /\ Len(stack) \in Nat
           /\ Top \in Frames /\ Top.at \in 1..Len(RefsOf(Top.of)) + 1
           /\ AtRef => Ref \in Refs
           /\ Ref \in named => Ref \in Names
<1>1. Len(stack) \in DOMAIN stack /\ DOMAIN stack = 1..Len(stack) /\ Len(stack) \in Nat
  BY DEF TypeOK
<1>2. Top \in Frames /\ Top.at \in 1..Len(RefsOf(Top.of)) + 1
  <2>1. stack \in Seq(Frames)
    BY DEF TypeOK, Frames
  <2>2. Top \in Frames
    BY <1>1, <2>1 DEF Top
  <2>3. Top.at \in 1..Len(RefsOf(Top.of)) + 1
    BY <1>1 DEF TypeOK, Top
  <2> QED
    BY <2>2, <2>3
<1>3. RefsOf(Top.of) \in Seq(Refs)
  BY <1>2, FileFacts DEF TypeOK, Frames
<1>4. AtRef => Ref \in Refs
  BY <1>2, <1>3 DEF AtRef, Ref
<1> QED
  BY <1>1, <1>2, <1>4 DEF TypeOK

\* A call that goes on to its next reference is the only one that changes.
LEMMA AdvancedFacts ==
    ASSUME NEW s \in Seq(Frames), s # <<>>
    PROVE  /\ Advanced(s) \in Seq(Frames) /\ Len(Advanced(s)) = Len(s)
           /\ DOMAIN Advanced(s) = DOMAIN s
           /\ \A n \in DOMAIN s : Advanced(s)[n].of = s[n].of
           /\ \A n \in DOMAIN s : n # Len(s) => Advanced(s)[n] = s[n]
           /\ Advanced(s)[Len(s)].at = s[Len(s)].at + 1
<1>1. Len(s) \in DOMAIN s /\ s[Len(s)] \in Frames
  OBVIOUS
<1> DEFINE f == [s[Len(s)] EXCEPT !.at = @ + 1]
<1>2. f \in Frames /\ f.of = s[Len(s)].of /\ f.at = s[Len(s)].at + 1
  BY <1>1 DEF Frames
<1>3. Advanced(s) = [s EXCEPT ![Len(s)] = f]
  BY DEF Advanced
<1> HIDE DEF f
<1> QED
  BY <1>1, <1>2, <1>3

\* What is left of the stack when a call returns to its caller.
LEMMA FrontFacts ==
    ASSUME NEW s \in Seq(Frames), Len(s) > 1
    PROVE  LET front == SubSeq(s, 1, Len(s) - 1) IN
           /\ front \in Seq(Frames) /\ front # <<>>
           /\ Len(front) = Len(s) - 1 /\ DOMAIN front = 1..Len(s) - 1
           /\ \A n \in DOMAIN front : front[n] = s[n]
<1>1. Len(s) \in Nat /\ DOMAIN s = 1..Len(s) /\ \A n \in 1..Len(s) : s[n] \in Frames
  OBVIOUS
<1> DEFINE front == SubSeq(s, 1, Len(s) - 1)
<1>2. front = [n \in 1..Len(s) - 1 |-> s[n]]
  BY <1>1
<1> HIDE DEF front
<1>3. DOMAIN front = 1..Len(s) - 1 /\ \A n \in DOMAIN front : front[n] = s[n]
  BY <1>2
<1>4. front \in Seq(Frames) /\ Len(front) = Len(s) - 1
  BY <1>1, <1>2
<1>5. front # <<>>
  BY <1>4
<1> QED
  BY <1>3, <1>4, <1>5 DEF front

-----------------------------------------------------------------------------
\* The calls that a step leaves in progress: the same ones, or one more, or one less.
Same == DOMAIN stack' = DOMAIN stack /\ \A n \in DOMAIN stack : stack'[n].of = stack[n].of

\* While imports are loaded no call is in progress.
LEMMA ImportStep == CallInv /\ Import => CallInv'
<1> SUFFICES ASSUME CallInv, Import PROVE CallInv'
  OBVIOUS
<1> USE DEF CallInv
<1>1. Head(pending) \in Names /\ Tail(pending) \in Seq(Names)
  BY DEF Import, TypeOK
<1>2. files[Head(pending)].imports \in Seq(Names)
  BY <1>1, FileFacts DEF TypeOK
<1>3. pending' \in Seq(Names) /\ seen' \subseteq Names /\ named' \subseteq seen' /\ named \subseteq named'
  <2>1. CASE pending' = Tail(pending) /\ UNCHANGED <<seen, named>>
    BY <1>1, <2>1 DEF TypeOK
  <2>2. CASE /\ pending' = files[Head(pending)].imports \o Tail(pending)
             /\ seen' = seen \cup {Head(pending)} /\ named' = named \cup {Head(pending)}
    <3>1. pending' \in Seq(Names)
      BY <1>1, <1>2, <2>2
    <3> QED
      BY <1>1, <2>2, <3>1 DEF TypeOK
  <2> QED
    BY <2>1, <2>2 DEF Import
<1>4. UNCHANGED <<files, stack, resolving, resolved, verdict>>
  BY DEF Import
<1>5. TypeOK'
  BY <1>3, <1>4 DEF TypeOK, RefsOf
<1>6. CallersWait' /\ MarksExact'
  BY <1>4 DEF CallersWait, MarksExact, RefsOf, Guarded
<1>7. Registered'
  BY <1>4 DEF Import, Registered
<1> QED
  BY <1>5, <1>6, <1>7

\* An error leaves no call in progress and no mark.
LEMMA FailStep ==
    ASSUME CallInv, NEW why \in {"unknown", "recursive", "overflow"}, Fail(why)
    PROVE  CallInv'
<1>1. stack' = <<>> /\ resolving' = {} /\ verdict' = why
  BY DEF Fail
<1>2. UNCHANGED <<files, pending, seen, named, resolved>>
  BY DEF Fail
<1>3. TypeOK'
  BY <1>1, <1>2, ResolverAssumption DEF CallInv, TypeOK
<1>4. CallersWait' /\ MarksExact' /\ Registered'
  BY <1>1, <1>2 DEF CallInv, CallersWait, MarksExact, Registered
<1> QED
  BY <1>3, <1>4 DEF CallInv

\* The call of the file under test is the first.
LEMMA BeginStep == CallInv /\ BeginResolve => CallInv'
<1> SUFFICES ASSUME CallInv, BeginResolve PROVE CallInv'
  OBVIOUS
<1>1. stack = <<>> /\ stack' = <<Frame("root")>>
  BY DEF BeginResolve, Loading
<1>2. UNCHANGED <<files, pending, seen, named, resolving, resolved, verdict>>
  BY DEF BeginResolve
<1>3. Len(RootRefs) \in Nat
  BY ResolverAssumption
<1>4. /\ DOMAIN stack' = {1} /\ Len(stack') = 1 /\ stack' \in Seq(Frames)
      /\ stack'[1].of = "root" /\ stack'[1].at = 1
  BY <1>1 DEF Frame, Frames
<1>5. TypeOK'
  BY <1>2, <1>3, <1>4, ResolverAssumption DEF CallInv, TypeOK, RefsOf, Frames
<1>6. CallersWait' /\ MarksExact' /\ Registered'
  BY <1>1, <1>2, <1>4 DEF CallInv, CallersWait, MarksExact, Registered
<1> QED
  BY <1>5, <1>6 DEF CallInv

\* A memoized record is passed over.
LEMMA MemoStep == CallInv /\ Memo => CallInv'
<1> SUFFICES ASSUME CallInv, Memo PROVE CallInv'
  OBVIOUS
<1>1. stack # <<>> /\ AtRef /\ stack' = Advanced(stack)
  BY DEF Memo, AtRef, Resolving
<1>2. UNCHANGED <<files, pending, seen, named, resolving, resolved, verdict>>
  BY DEF Memo
<1>3. stack \in Seq(Frames)
  BY DEF CallInv, TypeOK, Frames
<1>4. /\ stack' \in Seq(Frames) /\ Len(stack') = Len(stack) /\ Same
      /\ \A n \in DOMAIN stack : n # Len(stack) => stack'[n] = stack[n]
      /\ stack'[Len(stack)].at = Top.at + 1
  BY <1>1, <1>3, AdvancedFacts DEF Same, Top
<1>5. Top.at \in Nat /\ Top.at >= 1 /\ Top.at <= Len(RefsOf(Top.of)) /\ Top = stack[Len(stack)]
      /\ Len(RefsOf(Top.of)) \in Nat
  BY <1>1, TopFacts, FileFacts DEF CallInv, AtRef, Top, Frames, TypeOK
<1>6. \A n \in DOMAIN stack' : stack'[n].at \in 1..Len(RefsOf(stack'[n].of)) + 1
  BY <1>4, <1>5 DEF CallInv, TypeOK, Same
<1>7. TypeOK'
  BY <1>2, <1>4, <1>6 DEF CallInv, TypeOK, Same, RefsOf, Frames
<1>8. CallersWait' /\ MarksExact' /\ Registered'
  BY <1>2, <1>4 DEF CallInv, CallersWait, MarksExact, Registered, Same, RefsOf, Guarded
<1> QED
  BY <1>7, <1>8 DEF CallInv

\* A call for the entries of a type marks the type if it was not marked.
LEMMA DescendStep == CallInv /\ Descend => CallInv'
<1> SUFFICES ASSUME CallInv, Descend PROVE CallInv'
  OBVIOUS
<1>1. stack # <<>> /\ AtRef /\ Ref \in named /\ stack' = Append(stack, Frame(Ref))
  BY DEF Descend, AtRef, Resolving
<1>2. UNCHANGED <<files, pending, seen, named, resolved, verdict>>
  BY DEF Descend
<1>3. Ref \in Names /\ Ref # "root" /\ Len(RefsOf(Ref)) \in Nat
  BY <1>1, TopFacts, FileFacts, ResolverAssumption DEF CallInv, TypeOK
<1>4. stack \in Seq(Frames) /\ Len(stack) \in Nat /\ Len(stack) >= 1 /\ DOMAIN stack = 1..Len(stack)
  BY <1>1, TopFacts DEF CallInv, TypeOK, Frames
<1>5. Frame(Ref) \in Frames /\ Frame(Ref).of = Ref /\ Frame(Ref).at = 1
  BY <1>3 DEF Frame, Frames
<1>6. /\ stack' \in Seq(Frames) /\ Len(stack') = Len(stack) + 1
      /\ DOMAIN stack' = 1..Len(stack) + 1
      /\ \A n \in DOMAIN stack : stack'[n] = stack[n]
      /\ stack'[Len(stack) + 1].of = Ref /\ stack'[Len(stack) + 1].at = 1
  BY <1>1, <1>4, <1>5
<1>7. Len(stack) < MaxDepth /\ resolving' \subseteq named
  BY <1>1 DEF Descend, CallInv, TypeOK
<1>8. TypeOK'
  <2>1. Len(stack') <= MaxDepth
    BY <1>4, <1>6, <1>7, ResolverAssumption
  <2>2. ASSUME NEW n \in DOMAIN stack'
        PROVE  /\ stack'[n].of = "root" <=> n = 1
               /\ n > 1 => stack'[n].of \in named'
               /\ stack'[n].at \in 1..Len(RefsOf(stack'[n].of)) + 1
    <3>1. CASE n \in DOMAIN stack
      BY <1>2, <1>6, <3>1 DEF CallInv, TypeOK
    <3>2. CASE n = Len(stack) + 1
      <4>1. stack'[n].of = Ref /\ stack'[n].at = 1 /\ n # 1
        BY <1>4, <1>6, <3>2
      <4> QED
        BY <1>1, <1>2, <1>3, <4>1
    <3> QED
      BY <1>4, <1>6, <3>1, <3>2
  <2> QED
    BY <1>2, <1>6, <1>7, <2>1, <2>2 DEF CallInv, TypeOK, Frames, RefsOf
<1>9. CallersWait'
  <2>1. stack[Len(stack)].at <= Len(RefsOf(stack[Len(stack)].of))
    BY <1>1 DEF AtRef, Top
  <2> QED
    BY <1>2, <1>4, <1>6, <2>1 DEF CallInv, CallersWait, RefsOf
<1>10. MarksExact'
  <2>1. Guarded(Ref) => Ref \notin resolving /\ Ref \notin resolved
    BY DEF Descend, Guarded, CallInv, Registered
  <2>2. resolving' = IF Guarded(Ref) THEN resolving \cup {Ref} ELSE resolving
    BY DEF Descend
  <2>3. resolving' = {stack'[n].of : n \in {k \in DOMAIN stack' : k > 1 /\ Guarded(stack'[k].of)}}
    BY <1>4, <1>6, <2>2 DEF CallInv, MarksExact
  <2>4. ASSUME NEW j \in DOMAIN stack', NEW k \in DOMAIN stack', j < k, j > 1, Guarded(stack'[j].of)
        PROVE  stack'[j].of # stack'[k].of
    <3>1. j \in DOMAIN stack /\ stack'[j] = stack[j]
      BY <1>4, <1>6, <2>4
    <3>2. CASE k \in DOMAIN stack
      BY <1>6, <2>4, <3>1, <3>2 DEF CallInv, MarksExact
    <3>3. CASE k = Len(stack) + 1
      <4>1. stack[j].of \in resolving
        BY <2>4, <3>1 DEF CallInv, MarksExact
      <4> QED
        BY <1>6, <2>1, <2>4, <3>1, <3>3, <4>1
    <3> QED
      BY <1>4, <1>6, <3>2, <3>3
  <2>5. (resolved \cap resolving)' = {}
    BY <1>2, <2>1, <2>2 DEF CallInv, MarksExact
  <2>6. \A n : Guarded(n)' <=> Guarded(n)
    BY <1>2 DEF Guarded
  <2> QED
    BY <2>3, <2>4, <2>5, <2>6 DEF MarksExact
<1>11. Registered'
  BY <1>2 DEF CallInv, Registered
<1> QED
  BY <1>8, <1>9, <1>10, <1>11 DEF CallInv

\* A call that returns takes its own mark with it and no other's.
LEMMA ReturnStep == CallInv /\ Return => CallInv'
<1> SUFFICES ASSUME CallInv, Return PROVE CallInv'
  OBVIOUS
<1>1. UNCHANGED <<files, pending, seen, named>> /\ resolving' = resolving \ {Top.of}
  BY DEF Return
<1>2. stack \in Seq(Frames) /\ stack # <<>> /\ Len(stack) \in Nat /\ Len(stack) >= 1
      /\ DOMAIN stack = 1..Len(stack) /\ Top = stack[Len(stack)]
  BY TopFacts DEF Return, Resolving, CallInv, TypeOK, Frames, Top
<1>3. /\ resolved' \subseteq named /\ Registered' /\ (resolved \cap resolving)' = {}
  <2>1. Top.of # "root" => Top.of \in named
    BY <1>2 DEF CallInv, TypeOK
  <2> QED
    BY <1>1, <2>1 DEF Return, CallInv, TypeOK, Registered, MarksExact
<1>4. \A n : Guarded(n)' <=> Guarded(n)
  BY <1>1 DEF Guarded
<1>5. CASE Len(stack) = 1
  <2>1. stack' = <<>> /\ verdict' = "ok"
    BY <1>5 DEF Return
  <2>2. resolving' = {}
    BY <1>1, <1>2, <1>5 DEF CallInv, MarksExact
  <2>3. TypeOK'
    BY <1>1, <1>3, <2>1, <2>2, ResolverAssumption DEF CallInv, TypeOK
  <2>4. CallersWait' /\ MarksExact'
    BY <1>3, <2>1, <2>2 DEF CallersWait, MarksExact
  <2> QED
    BY <1>3, <2>3, <2>4 DEF CallInv
<1>6. CASE Len(stack) > 1
  <2> DEFINE front == SubSeq(stack, 1, Len(stack) - 1)
  <2>1. stack' = Advanced(front) /\ verdict' = verdict
    BY <1>2, <1>6 DEF Return
  <2>2. /\ front \in Seq(Frames) /\ front # <<>> /\ Len(front) = Len(stack) - 1
        /\ DOMAIN front = 1..Len(stack) - 1 /\ \A n \in DOMAIN front : front[n] = stack[n]
    BY <1>2, <1>6, FrontFacts
  <2> HIDE DEF front
  <2>3. /\ stack' \in Seq(Frames) /\ Len(stack') = Len(stack) - 1
        /\ DOMAIN stack' = 1..Len(stack) - 1
        /\ \A n \in DOMAIN stack' : stack'[n].of = stack[n].of
        /\ \A n \in DOMAIN stack' : n # Len(stack) - 1 => stack'[n] = stack[n]
        /\ stack'[Len(stack) - 1].at = stack[Len(stack) - 1].at + 1
    <3>1. /\ Advanced(front) \in Seq(Frames) /\ Len(Advanced(front)) = Len(front)
          /\ DOMAIN Advanced(front) = DOMAIN front
          /\ \A n \in DOMAIN front : Advanced(front)[n].of = front[n].of
          /\ \A n \in DOMAIN front : n # Len(front) => Advanced(front)[n] = front[n]
          /\ Advanced(front)[Len(front)].at = front[Len(front)].at + 1
      BY <2>2, AdvancedFacts
    <3>2. Len(front) \in DOMAIN front
      BY <1>2, <1>6, <2>2
    <3> QED
      BY <2>1, <2>2, <3>1, <3>2
  <2>4. \A n \in DOMAIN stack' : n \in DOMAIN stack /\ n < Len(stack)
    BY <1>2, <2>3
  <2>5. \A n \in DOMAIN stack' : stack'[n].at \in 1..Len(RefsOf(stack'[n].of)) + 1
    <3> SUFFICES ASSUME NEW n \in DOMAIN stack' PROVE stack'[n].at \in 1..Len(RefsOf(stack'[n].of)) + 1
      OBVIOUS
    <3>1. /\ stack[n].at \in 1..Len(RefsOf(stack[n].of)) + 1
          /\ stack[n].at <= Len(RefsOf(stack[n].of)) /\ stack'[n].of = stack[n].of
          /\ stack[n] \in Frames
      <4>1. n \in DOMAIN stack /\ n < Len(stack)
        BY <2>4
      <4>2. stack'[n].of = stack[n].of
        BY <2>3
      <4>3. stack[n] \in Frames
        BY <1>2, <4>1
      <4>4. stack[n].at \in 1..Len(RefsOf(stack[n].of)) + 1
        BY <4>1 DEF CallInv, TypeOK
      <4>5. stack[n].at <= Len(RefsOf(stack[n].of))
        BY <4>1 DEF CallInv, CallersWait
      <4> QED
        BY <4>2, <4>3, <4>4, <4>5
    <3>2. Len(RefsOf(stack[n].of)) \in Nat
      BY <3>1, FileFacts DEF CallInv, TypeOK, Frames
    <3>3. n \in Nat /\ n <= Len(stack) - 1
      BY <1>2, <2>3
    <3> QED
      BY <2>3, <3>1, <3>2, <3>3
  <2>6. TypeOK'
    <3>1. Len(stack') <= MaxDepth
      BY <1>2, <2>3, ResolverAssumption DEF CallInv, TypeOK
    <3>2. resolving' \cup resolved' \subseteq named'
      BY <1>1, <1>3 DEF CallInv, TypeOK
    <3>3. \A n \in DOMAIN stack' : /\ stack'[n].of = "root" <=> n = 1
                                   /\ n > 1 => stack'[n].of \in named'
                                   /\ stack'[n].at \in 1..Len(RefsOf(stack'[n].of)) + 1
      <4>1. \A n \in DOMAIN stack : (stack[n].of = "root" <=> n = 1) /\ (n > 1 => stack[n].of \in named)
        BY DEF CallInv, TypeOK
      <4> QED
        BY <1>1, <2>3, <2>4, <2>5, <4>1
    <3>4. UNCHANGED <<files, pending, seen, named, verdict>>
      BY <1>1, <2>1
    <3> QED
      BY <2>3, <3>1, <3>2, <3>3, <3>4 DEF CallInv, TypeOK, Frames, RefsOf
  <2>7. CallersWait'
    BY <1>1, <1>2, <2>3, <2>4 DEF CallInv, CallersWait, RefsOf
  <2>8. MarksExact'
    <3>1. \A j \in DOMAIN stack' : j > 1 /\ Guarded(stack[j].of) => stack[j].of # Top.of
      BY <1>2, <2>4 DEF CallInv, MarksExact
    <3>2. ASSUME NEW x PROVE x \in resolving' <=> \E n \in DOMAIN stack' :
                                n > 1 /\ Guarded(stack'[n].of) /\ stack'[n].of = x
      <4>1. x \in resolving <=> \E n \in DOMAIN stack : n > 1 /\ Guarded(stack[n].of) /\ stack[n].of = x
        BY DEF CallInv, MarksExact
      <4>2. \A n \in DOMAIN stack : n \in DOMAIN stack' \/ stack[n] = Top
        BY <1>2, <2>3
      <4> QED
        BY <1>1, <2>3, <2>4, <3>1, <4>1, <4>2
    <3>3. resolving' = {stack'[n].of : n \in {k \in DOMAIN stack' : k > 1 /\ Guarded(stack'[k].of)}}
      BY <3>2
    <3>4. \A j, k \in DOMAIN stack' :
             j < k /\ j > 1 /\ Guarded(stack'[j].of) => stack'[j].of # stack'[k].of
      BY <2>3, <2>4 DEF CallInv, MarksExact
    <3> QED
      BY <1>3, <1>4, <3>3, <3>4 DEF MarksExact
  <2> QED
    BY <1>3, <2>6, <2>7, <2>8 DEF CallInv
<1> QED
  BY <1>2, <1>5, <1>6

\* Every step keeps the invariant.
LEMMA CallStep == CallInv /\ [Next]_vars => CallInv'
<1> SUFFICES ASSUME CallInv, [Next]_vars PROVE CallInv'
  OBVIOUS
<1>1. CASE ImportFails
  <2>1. TypeOK'
    BY <1>1 DEF ImportFails, CallInv, TypeOK, RefsOf
  <2> QED
    BY <1>1, <2>1 DEF ImportFails, CallInv, CallersWait, Registered, MarksExact, RefsOf, Guarded
<1>2. CASE UnknownType \/ Recursive \/ Overflow
  BY <1>2, FailStep DEF UnknownType, Recursive, Overflow
<1>3. CASE UNCHANGED vars
  BY <1>3 DEF vars, CallInv, TypeOK, CallersWait, Registered, MarksExact, RefsOf, Guarded
<1> QED
  BY <1>1, <1>2, <1>3, ImportStep, BeginStep, MemoStep, DescendStep, ReturnStep
  DEF Next, Step, Ended

\* Before anything is loaded no call is in progress.
LEMMA CallInit == Init => CallInv
  BY ResolverAssumption
  DEF Init, CallInv, TypeOK, CallersWait, Registered, MarksExact, Frames

\* The variables keep their types, however the files refer to each other
\* (schema.go:200-212).
THEOREM TypeCorrect == Spec => []TypeOK
<1>1. CallInv => TypeOK
  BY DEF CallInv
<1> QED
  BY <1>1, CallInit, CallStep, PTL DEF Spec

\* resolving is exactly the records and sums whose calls are in progress, and a
\* record in progress is never taken from the memo (schema.go:226-242, 263-272).
THEOREM MarksCorrect == Spec => []MarksExact
<1>1. CallInv => MarksExact
  BY DEF CallInv
<1> QED
  BY <1>1, CallInit, CallStep, PTL DEF Spec

-----------------------------------------------------------------------------
\* Without newtypes every call in progress is for a name of its own.
LEMMA CallsDistinct ==
    ASSUME CallInv, \A s \in Suites : \A n \in Names : s[n].kind # "transparent",
           IsFiniteSet(Names), Overflow
    PROVE  MaxDepth <= Cardinality(Names)
<1>1. AtRef /\ stack # <<>> /\ Ref \in named /\ Len(stack) = MaxDepth
  BY DEF Overflow, AtRef, Resolving
<1>2. Ref \in Names /\ DOMAIN stack = 1..Len(stack) /\ Len(stack) \in Nat
  BY <1>1, TopFacts DEF CallInv
<1>3. \A n \in named : Guarded(n) /\ n \in Names
  BY FileFacts DEF CallInv, TypeOK, Registered, Guarded, File
<1>4. Ref \notin resolving
  BY <1>1, <1>3 DEF Overflow
<1>5. \A n \in DOMAIN stack : n > 1 => stack[n].of \in named /\ stack[n].of \in resolving
  BY <1>3 DEF CallInv, TypeOK, MarksExact
<1> DEFINE f == [n \in 1..Len(stack) |-> IF n = 1 THEN Ref ELSE stack[n].of]
<1>6. f \in [1..Len(stack) -> Names]
  BY <1>2, <1>3, <1>5
<1>7. ASSUME NEW j \in 1..Len(stack), NEW k \in 1..Len(stack), j < k PROVE f[j] # f[k]
  <2>1. CASE j = 1
    BY <1>2, <1>4, <1>5, <1>7, <2>1
  <2>2. CASE j > 1
    BY <1>2, <1>3, <1>5, <1>7, <2>2 DEF CallInv, MarksExact
  <2> QED
    BY <1>2, <2>1, <2>2
<1>8. \A j, k \in 1..Len(stack) : f[j] = f[k] => j = k
  <2> SUFFICES ASSUME NEW j \in 1..Len(stack), NEW k \in 1..Len(stack), j # k PROVE f[j] # f[k]
    OBVIOUS
  <2>1. j < k \/ k < j
    BY <1>2
  <2> QED
    BY <1>7, <2>1
<1> HIDE DEF f
<1>9. f \in Injection(1..Len(stack), Names)
  BY <1>6, <1>8 DEF Injection, IsInjective
<1>10. Cardinality(1..Len(stack)) <= Cardinality(Names)
  BY <1>9, FS_Injection
<1>11. Cardinality(1..Len(stack)) = Len(stack)
  BY <1>1, <1>2, ResolverAssumption, FS_Interval
<1> QED
  BY <1>1, <1>10, <1>11

\* The guard is as good as its comment says (schema.go:198-199) wherever it is
\* applied: without newtypes, and with room for one call per file, resolution never
\* runs out of stack, whatever the files refer to.
THEOREM NoOverflowWithoutNewtypes ==
    ASSUME IsFiniteSet(Names), MaxDepth > Cardinality(Names),
           \A s \in Suites : \A n \in Names : s[n].kind # "transparent"
    PROVE  Spec => []NoOverflow
<1>1. Init => NoOverflow
  BY DEF Init, NoOverflow
<1>2. CallInv /\ NoOverflow /\ [Next]_vars => NoOverflow'
  <2> SUFFICES ASSUME CallInv, NoOverflow, [Next]_vars PROVE NoOverflow'
    OBVIOUS
  <2>1. Cardinality(Names) \in Nat
    BY FS_CardinalityType
  <2>2. ~Overflow
    BY <2>1, CallsDistinct, ResolverAssumption
  <2> QED
    BY <2>2 DEF NoOverflow, Next, Step, Ended, Import, ImportFails, BeginResolve, UnknownType,
       Memo, Recursive, Descend, Return, Fail, vars
<1> QED
  BY <1>1, <1>2, CallInit, CallStep, PTL DEF Spec

-----------------------------------------------------------------------------
(* The verdict.  Closure is a least set, so what holds of everything a type     *)
(* leads to is proved by giving a closed set it holds of.                       *)

\* The imports followed so far and those to come are what is imported.
Loaded ==
    /\ named = seen
    /\ seen \cup Items(pending) \subseteq Imported
    /\ Items(RootImports) \subseteq seen \cup Items(pending)
    /\ \A n \in seen : Items(files[n].imports) \subseteq seen \cup Items(pending)
    /\ stack # <<>> => pending = <<>>

\* What is below each name, as one function.
Under == [n \in Names \cup {"root"} |-> Below(n)]

\* A caller stands at the name its callee resolves, which leads on to every call below.
Chained ==
    /\ \A k \in DOMAIN stack :
          k < Len(stack) => RefsOf(stack[k].of)[stack[k].at] = stack[k + 1].of
    /\ \A j, k \in DOMAIN stack : j < k => stack[k].of \in Under[stack[j].of]

\* Everything below a name is registered, and nothing there contains itself.
Complete(n) ==
    /\ {n} \cup Under[n] \subseteq named
    /\ \A m \in {n} \cup Under[n] : m \notin Under[m]

\* What was resolved is complete: the references a call has passed, and the memo.
Resolved ==
    /\ \A k \in DOMAIN stack : \A i \in 1..stack[k].at - 1 : Complete(RefsOf(stack[k].of)[i])
    /\ \A n \in resolved : Complete(n)

\* Below a marked type, or the file under test, come newtypes only.
Based ==
    \A k \in DOMAIN stack : \E b \in 1..k :
        /\ b = 1 \/ Guarded(stack[b].of)
        /\ \A i \in b + 1..k : files[stack[i].of].kind = "transparent"

\* The verdict is right, except for what it takes to run out of stack.
Judged ==
    /\ verdict = "ok" => Circular = {} /\ Needed \subseteq Imported
    /\ verdict \in {"ok", "unknown", "recursive"} => named = Imported
    /\ verdict = "unreadable" => \E n \in Imported : files[n].kind = "broken"
    /\ verdict = "unknown" => ~(Needed \subseteq Imported)
    /\ verdict = "recursive" => Circular # {}

VerdictInv == CallInv /\ Loaded /\ Chained /\ Resolved /\ Based /\ Judged

\* The least closed set holds what it starts from and is closed, and any other
\* closed set has it for a part.
LEMMA ClosureFacts ==
    ASSUME NEW ns \in SUBSET Refs, NEW next \in [Names -> SUBSET Refs]
    PROVE  /\ ns \subseteq Closure(ns, next) /\ Closure(ns, next) \subseteq Refs
           /\ Closed(Closure(ns, next), next)
           /\ \A S \in SUBSET Refs : ns \subseteq S /\ Closed(S, next) => Closure(ns, next) \subseteq S
<1>1. ns \subseteq Closure(ns, next) /\ Closure(ns, next) \subseteq Refs
  BY DEF Closure
<1>2. ASSUME NEW n \in Closure(ns, next) \cap Names, NEW m \in next[n] PROVE m \in Closure(ns, next)
  <2>1. ASSUME NEW S \in SUBSET Refs, ns \subseteq S, Closed(S, next) PROVE m \in S
    <3>1. n \in S
      BY <2>1 DEF Closure
    <3> QED
      BY <2>1, <3>1 DEF Closed
  <2>2. m \in Refs
    OBVIOUS
  <2> QED
    BY <2>1, <2>2 DEF Closure
<1>3. \A S \in SUBSET Refs : ns \subseteq S /\ Closed(S, next) => Closure(ns, next) \subseteq S
  BY DEF Closure
<1> QED
  BY <1>1, <1>2, <1>3 DEF Closed

\* The references and the imports of a file are functions on the names.
LEMMA PartsType ==
    ASSUME files \in Suites
    PROVE  /\ Parts \in [Names -> SUBSET Refs]
           /\ [n \in Names |-> Items(files[n].imports)] \in [Names -> SUBSET Refs]
           /\ Items(RootRefs) \subseteq Refs /\ Items(RootImports) \subseteq Names
           /\ \A n \in Names \cup {"root"} : Items(RefsOf(n)) \subseteq Refs
           /\ \A n \in Names : Items(files[n].imports) \subseteq Names
<1>1. ASSUME NEW n \in Names PROVE Items(files[n].imports) \subseteq Names
  <2>1. files[n].imports \in Seq(Names)
    BY FileFacts
  <2> QED
    BY <2>1 DEF Items
<1>2. ASSUME NEW n \in Names \cup {"root"} PROVE Items(RefsOf(n)) \subseteq Refs
  <2>1. RefsOf(n) \in Seq(Refs)
    BY FileFacts
  <2> QED
    BY <2>1 DEF Items
<1>3. Items(RootRefs) \subseteq Refs /\ Items(RootImports) \subseteq Names
  BY ResolverAssumption DEF Items
<1>4. \A n \in Names : Items(files[n].refs) = Items(RefsOf(n))
  BY ResolverAssumption DEF RefsOf
<1>5. Parts \in [Names -> SUBSET Refs]
  BY <1>2, <1>4 DEF Parts
<1>6. [n \in Names |-> Items(files[n].imports)] \in [Names -> SUBSET Refs]
  BY <1>1 DEF Refs
<1> QED
  BY <1>1, <1>2, <1>3, <1>5, <1>6

\* What is below a name: what it refers to, and what is below that.
LEMMA BelowFacts ==
    ASSUME files \in Suites, NEW n \in Names \cup {"root"}
    PROVE  /\ Below(n) \subseteq Refs
           /\ Items(RefsOf(n)) \subseteq Below(n)
           /\ \A m \in Below(n) \cap Names : Below(m) \subseteq Below(n)
           /\ \A x \in Below(n) : \/ x \in Items(RefsOf(n))
                                 \/ \E m \in Items(RefsOf(n)) \cap Names : x \in Below(m)
<1>1. \A m \in Names : RefsOf(m) = files[m].refs /\ Parts[m] = Items(RefsOf(m))
  BY ResolverAssumption DEF RefsOf, Parts
<1>2. \A m \in Names \cup {"root"} :
        /\ Items(RefsOf(m)) \subseteq Below(m) /\ Below(m) \subseteq Refs /\ Closed(Below(m), Parts)
        /\ \A S \in SUBSET Refs :
              Items(RefsOf(m)) \subseteq S /\ Closed(S, Parts) => Below(m) \subseteq S
  BY ClosureFacts, PartsType DEF Below
<1>3. ASSUME NEW m \in Below(n) \cap Names PROVE Below(m) \subseteq Below(n)
  <2>1. Items(RefsOf(m)) \subseteq Below(n)
    BY <1>1, <1>2 DEF Closed
  <2> QED
    BY <1>2, <2>1
<1> DEFINE S == Items(RefsOf(n)) \cup UNION {Below(m) : m \in Items(RefsOf(n)) \cap Names}
<1>4. S \in SUBSET Refs
  BY <1>2
<1>5. ASSUME NEW m \in S \cap Names PROVE Parts[m] \subseteq S
  <2>1. CASE m \in Items(RefsOf(n))
    BY <1>1, <1>2, <2>1
  <2>2. CASE \E p \in Items(RefsOf(n)) \cap Names : m \in Below(p)
    <3>1. PICK p \in Items(RefsOf(n)) \cap Names : m \in Below(p)
      BY <2>2
    <3>2. Parts[m] \subseteq Below(p)
      BY <1>2, <3>1 DEF Closed
    <3> QED
      BY <3>1, <3>2
  <2> QED
    BY <2>1, <2>2
<1>6. Below(n) \subseteq S
  <2> HIDE DEF S
  <2>1. Items(RefsOf(n)) \subseteq S
    BY DEF S
  <2> QED
    BY <1>2, <1>4, <1>5, <2>1 DEF Closed
<1> QED
  BY <1>2, <1>3, <1>6

\* What the definitions say of the files does not change with the calls.
LEMMA SameFiles ==
    ASSUME files' = files
    PROVE  Under' = Under /\ Imported' = Imported /\ Needed' = Needed /\ Circular' = Circular
<1>1. \A n : RefsOf(n)' = RefsOf(n)
  BY DEF RefsOf
<1>2. Parts' = Parts
  BY DEF Parts
<1>3. \A n : Below(n)' = Below(n)
  BY <1>1, <1>2 DEF Below
<1>4. Imported' = Imported
  BY DEF Imported
<1> QED
  BY <1>3, <1>4 DEF Needed, Circular, Under

\* BelowFacts, of Under.
LEMMA UnderFacts ==
    ASSUME files \in Suites, NEW n \in Names \cup {"root"}
    PROVE  /\ Under[n] = Below(n) /\ Items(RefsOf(n)) \subseteq Under[n]
           /\ \A m \in Under[n] \cap Names : Under[m] \subseteq Under[n]
           /\ \A x \in Under[n] : \/ x \in Items(RefsOf(n))
                                 \/ \E m \in Items(RefsOf(n)) \cap Names : x \in Under[m]
<1>1. \A m \in Names \cup {"root"} : Under[m] = Below(m)
  BY DEF Under
<1> QED
  BY <1>1, BelowFacts

\* A name is complete when everything it refers to is: were it below itself, so
\* would be the reference that leads back to it.
LEMMA CompleteUp ==
    ASSUME CallInv, NEW n \in named, \A r \in Items(RefsOf(n)) : Complete(r)
    PROVE  Complete(n)
<1>1. named \subseteq Names /\ files \in Suites
  BY DEF CallInv, TypeOK
<1>2. \A r \in Items(RefsOf(n)) : r \in Names /\ r \notin Under[r] /\ {r} \cup Under[r] \subseteq named
  BY <1>1 DEF Complete
<1>3. /\ Items(RefsOf(n)) \subseteq Under[n]
      /\ \A m \in Under[n] \cap Names : Under[m] \subseteq Under[n]
      /\ \A x \in Under[n] : \E r \in Items(RefsOf(n)) : x = r \/ x \in Under[r]
  BY <1>1, UnderFacts
<1>4. Under[n] \subseteq named
  BY <1>2, <1>3
<1>5. ASSUME NEW m \in Under[n] PROVE m \notin Under[m]
  BY <1>3 DEF Complete
<1>6. n \notin Under[n]
  <2>1. ASSUME NEW r \in Items(RefsOf(n)), n \in Under[r] PROVE FALSE
    <3>1. Under[n] \subseteq Under[r]
      BY <1>1, <1>2, <2>1, UnderFacts
    <3> QED
      BY <1>2, <1>3, <3>1
  <2> QED
    BY <1>2, <1>3, <2>1
<1> QED
  BY <1>4, <1>5, <1>6 DEF Complete

\* With no import left to follow, the registry holds exactly what is imported.
LEMMA AllLoaded ==
    ASSUME CallInv, Loaded, pending = <<>>
    PROVE  named = Imported
<1> DEFINE imports == [n \in Names |-> Items(files[n].imports)]
<1>1. imports \in [Names -> SUBSET Refs] /\ Items(RootImports) \in SUBSET Refs /\ seen \in SUBSET Refs
  BY PartsType DEF CallInv, TypeOK, Refs
<1>2. Items(pending) = {}
  BY DEF Items
<1>3. Items(RootImports) \subseteq seen /\ Closed(seen, imports)
  BY <1>2 DEF Loaded, Closed
<1>4. Imported = Closure(Items(RootImports), imports)
  BY DEF Imported
<1> HIDE DEF imports
<1>5. Imported \subseteq seen
  BY <1>1, <1>3, <1>4, ClosureFacts
<1> QED
  BY <1>5 DEF Loaded

\* Following an import keeps to what is imported.
LEMMA ImportLoads ==
    ASSUME CallInv, Loaded, Import
    PROVE  Loaded'
<1> DEFINE h == Head(pending)
           rest == Tail(pending)
           imports == [n \in Names |-> Items(files[n].imports)]
<1>1. pending \in Seq(Names) /\ pending # <<>> /\ files' = files /\ files \in Suites /\ stack' = <<>>
  BY DEF CallInv, TypeOK, Import, Loading
<1>2. h \in Names /\ rest \in Seq(Names) /\ Items(pending) = {h} \cup Items(rest)
  <2>1. h = pending[1] /\ Len(pending) \in Nat \ {0} /\ DOMAIN pending = 1..Len(pending)
    BY <1>1
  <2>2. rest \in Seq(Names) /\ DOMAIN rest = 1..Len(pending) - 1
        /\ \A n \in DOMAIN rest : rest[n] = pending[n + 1]
    BY <1>1
  <2> HIDE DEF h, rest
  <2>3. ASSUME NEW n \in DOMAIN pending, n # 1
        PROVE  n - 1 \in DOMAIN rest /\ pending[n] = rest[n - 1]
    <3>1. n - 1 \in DOMAIN rest /\ (n - 1) + 1 = n
      BY <2>1, <2>2, <2>3
    <3> QED
      BY <2>2, <3>1
  <2>4. \A n \in DOMAIN rest : n + 1 \in DOMAIN pending
    BY <2>1, <2>2
  <2>5. Items(pending) \subseteq {h} \cup Items(rest)
    BY <2>1, <2>3 DEF Items
  <2>6. {h} \cup Items(rest) \subseteq Items(pending)
    BY <2>1, <2>2, <2>4 DEF Items
  <2>7. h \in Names
    BY <1>1, <2>1
  <2> QED
    BY <2>2, <2>5, <2>6, <2>7
<1>3. Imported' = Imported
  BY <1>1, SameFiles
<1>4. CASE h \in seen /\ pending' = rest /\ UNCHANGED <<seen, named>>
  BY <1>1, <1>2, <1>3, <1>4 DEF Loaded
<1>5. CASE /\ pending' = files[h].imports \o rest
           /\ seen' = seen \cup {h} /\ named' = named \cup {h}
  <2>1. files[h].imports \in Seq(Names)
    BY <1>1, <1>2, FileFacts
  <2>2. Items(pending') = Items(files[h].imports) \cup Items(rest)
    <3> HIDE DEF h, rest
    <3> DEFINE a == files[h].imports
    <3>1. a \in Seq(Names) /\ rest \in Seq(Names)
      BY <1>2, <2>1
    <3> HIDE DEF a
    <3>2. Items(a \o rest) = Items(a) \cup Items(rest)
      <4>1. /\ Len(a) \in Nat /\ Len(rest) \in Nat /\ DOMAIN a = 1..Len(a) /\ DOMAIN rest = 1..Len(rest)
            /\ DOMAIN (a \o rest) = 1..Len(a) + Len(rest)
            /\ \A n \in 1..Len(a) + Len(rest) :
                  (a \o rest)[n] = IF n <= Len(a) THEN a[n] ELSE rest[n - Len(a)]
        BY <3>1
      <4>2. ASSUME NEW n \in DOMAIN (a \o rest) PROVE (a \o rest)[n] \in Items(a) \cup Items(rest)
        <5>1. CASE n <= Len(a)
          BY <4>1, <5>1 DEF Items
        <5>2. CASE n > Len(a)
          <6>1. n - Len(a) \in DOMAIN rest
            BY <4>1, <5>2
          <6> QED
            BY <4>1, <5>2, <6>1 DEF Items
        <5> QED
          BY <4>1, <5>1, <5>2
      <4>3. ASSUME NEW n \in DOMAIN a PROVE a[n] \in Items(a \o rest)
        BY <4>1 DEF Items
      <4>4. ASSUME NEW n \in DOMAIN rest PROVE rest[n] \in Items(a \o rest)
        <5>1. n + Len(a) \in DOMAIN (a \o rest) /\ (a \o rest)[n + Len(a)] = rest[n]
          BY <4>1
        <5> QED
          BY <5>1 DEF Items
      <4> QED
        BY <4>2, <4>3, <4>4 DEF Items
    <3> QED
      BY <1>5, <3>2 DEF a
  <2>3. Items(files[h].imports) \subseteq Imported
    <3>1. imports \in [Names -> SUBSET Refs] /\ Items(RootImports) \in SUBSET Refs
      BY <1>1, PartsType DEF Refs
    <3>2. Imported = Closure(Items(RootImports), imports)
      BY DEF Imported
    <3>3. Closed(Imported, imports)
      <4> HIDE DEF imports
      <4> QED
        BY <3>1, <3>2, ClosureFacts
    <3>4. h \in Imported
      BY <1>2 DEF Loaded
    <3> QED
      BY <1>2, <3>3, <3>4 DEF Closed
  <2> QED
    BY <1>1, <1>2, <1>3, <1>5, <2>2, <2>3 DEF Loaded
<1> QED
  BY <1>4, <1>5 DEF Import

-----------------------------------------------------------------------------
\* What is known of the calls in progress.
CallsInv == Chained /\ Resolved /\ Based

\* Nothing that is complete becomes incomplete.
LEMMA CompleteStays ==
    ASSUME files' = files, named \subseteq named', NEW n, Complete(n)
    PROVE  Complete(n)'
  BY SameFiles DEF Complete

\* Without calls in progress there is only the memo to keep.
LEMMA NoCalls ==
    ASSUME CallsInv, files' = files, named \subseteq named', stack' = <<>>, resolved' = resolved
    PROVE  CallsInv'
<1>1. \A n \in resolved : Complete(n)'
  BY CompleteStays DEF CallsInv, Resolved
<1>2. DOMAIN stack' = {}
  OBVIOUS
<1> QED
  BY <1>1, <1>2 DEF CallsInv, Chained, Resolved, Based

\* The first call has passed nothing.
LEMMA FirstCall ==
    ASSUME CallsInv, BeginResolve
    PROVE  CallsInv'
<1>1. UNCHANGED <<files, named, resolved>> /\ stack' = <<Frame("root")>>
  BY DEF BeginResolve
<1>2. DOMAIN stack' = {1} /\ Len(stack') = 1 /\ stack'[1].at = 1
  BY <1>1 DEF Frame
<1>3. \A n \in resolved : Complete(n)'
  BY <1>1, CompleteStays DEF CallsInv, Resolved
<1>4. Chained'
  BY <1>2 DEF Chained
<1>5. Resolved'
  BY <1>1, <1>2, <1>3 DEF Resolved
<1>6. Based'
  BY <1>2 DEF Based
<1> QED
  BY <1>4, <1>5, <1>6 DEF CallsInv

\* The first last calls stay, and the innermost of them passes a reference that
\* is complete.
LEMMA PassedOver ==
    ASSUME CallInv, CallsInv, UNCHANGED <<files, named>>, stack \in Seq(Frames),
           \A n \in resolved' : Complete(n),
           NEW last \in DOMAIN stack, Len(stack') = last, DOMAIN stack' = 1..last,
           \A k \in 1..last : stack'[k].of = stack[k].of,
           \A k \in 1..last : k # last => stack'[k] = stack[k],
           stack'[last].at = stack[last].at + 1,
           Complete(RefsOf(stack[last].of)[stack[last].at])
    PROVE  CallsInv'
<1>1. Len(stack) \in Nat /\ DOMAIN stack = 1..Len(stack) /\ last \in Nat /\ 1 <= last /\ last <= Len(stack)
  OBVIOUS
<1>2. \A k \in 1..last : k \in DOMAIN stack /\ stack[k].at \in Nat
  <2>1. \A k \in DOMAIN stack : stack[k] \in Frames
    OBVIOUS
  <2> QED
    BY <1>1, <2>1 DEF Frames
<1>3. Under' = Under
  BY SameFiles
<1>4. \A n : Complete(n) => Complete(n)'
  BY CompleteStays
<1>5. Chained'
  <2>1. ASSUME NEW k \in DOMAIN stack', k < last
        PROVE  (RefsOf(stack[k].of)[stack[k].at] = stack[k + 1].of)'
    <3>1. k + 1 \in 1..last /\ k < Len(stack) /\ k \in DOMAIN stack /\ stack'[k] = stack[k]
      BY <1>1, <2>1
    <3>2. stack'[k + 1].of = stack[k + 1].of
      BY <3>1
    <3>3. RefsOf(stack[k].of)[stack[k].at] = stack[k + 1].of
      BY <3>1 DEF CallsInv, Chained
    <3> QED
      BY <3>1, <3>2, <3>3 DEF RefsOf
  <2>2. ASSUME NEW j \in DOMAIN stack', NEW k \in DOMAIN stack', j < k
        PROVE  stack'[k].of \in Under'[stack'[j].of]
    <3>1. stack[k].of \in Under[stack[j].of]
      BY <1>1, <2>2 DEF CallsInv, Chained
    <3> QED
      BY <1>3, <2>2, <3>1
  <2> QED
    BY <2>1, <2>2 DEF Chained
<1>6. Resolved'
  <2>1. ASSUME NEW k \in DOMAIN stack', NEW i \in 1..stack'[k].at - 1
        PROVE  Complete(RefsOf(stack'[k].of)[i])
    <3>1. \A m \in 1..stack[k].at - 1 : Complete(RefsOf(stack[k].of)[m])
      BY <1>2 DEF CallsInv, Resolved
    <3>2. CASE k # last
      BY <2>1, <3>1, <3>2
    <3>3. CASE k = last /\ i = stack[last].at
      BY <3>3
    <3>4. CASE k = last /\ i # stack[last].at
      <4>1. i \in 1..stack[last].at - 1
        BY <1>2, <2>1, <3>4
      <4> QED
        BY <3>1, <3>4, <4>1
    <3> QED
      BY <3>2, <3>3, <3>4
  <2>2. ASSUME NEW k \in DOMAIN stack', NEW i \in 1..stack'[k].at - 1
        PROVE  Complete(RefsOf(stack[k].of)[i])'
    <3>1. stack'[k].of = stack[k].of
      OBVIOUS
    <3>2. Complete(RefsOf(stack[k].of)[i])
      BY <2>1, <2>2
    <3> QED
      BY <1>3, <3>1, <3>2 DEF Complete, RefsOf
  <2> QED
    BY <1>4, <2>2 DEF Resolved
<1>7. Based'
  <2>1. ASSUME NEW k \in DOMAIN stack'
        PROVE  \E b \in 1..k : /\ b = 1 \/ Guarded(stack[b].of)'
                               /\ \A i \in b + 1..k : files'[stack'[i].of].kind = "transparent"
    <3>1. PICK b \in 1..k : /\ b = 1 \/ Guarded(stack[b].of)
                            /\ \A i \in b + 1..k : files[stack[i].of].kind = "transparent"
      BY <1>2, <2>1 DEF CallsInv, Based
    <3>2. b \in 1..last /\ \A i \in b + 1..k : i \in 1..last
      BY <1>1, <2>1
    <3> QED
      BY <3>1, <3>2 DEF Guarded
  <2> QED
    BY <2>1 DEF Based
<1> QED
  BY <1>5, <1>6, <1>7 DEF CallsInv

\* A memoized record is complete.
LEMMA MemoCalls ==
    ASSUME CallInv, CallsInv, Memo
    PROVE  CallsInv'
<1>1. stack # <<>> /\ stack' = Advanced(stack) /\ Ref \in resolved /\ UNCHANGED <<files, named, resolved>>
  BY DEF Memo, AtRef, Resolving
<1>2. stack \in Seq(Frames)
  BY DEF CallInv, TypeOK, Frames
<1>3. /\ Len(stack) \in DOMAIN stack /\ DOMAIN stack = 1..Len(stack) /\ Len(stack) \in Nat
      /\ Top = stack[Len(stack)]
  BY <1>1, TopFacts DEF CallInv, Top
<1>4. /\ Len(stack') = Len(stack) /\ DOMAIN stack' = DOMAIN stack
      /\ \A n \in DOMAIN stack : stack'[n].of = stack[n].of
      /\ \A n \in DOMAIN stack : n # Len(stack) => stack'[n] = stack[n]
      /\ stack'[Len(stack)].at = stack[Len(stack)].at + 1
  BY <1>1, <1>2, AdvancedFacts
<1>5. \A n \in resolved' : Complete(n)
  BY <1>1 DEF CallsInv, Resolved
<1>6. Complete(RefsOf(stack[Len(stack)].of)[stack[Len(stack)].at])
  BY <1>1, <1>3, <1>5 DEF Ref
<1> QED
  BY <1>1, <1>2, <1>3, <1>4, <1>5, <1>6, PassedOver

\* The name a call stands at is below it and everything above it.
LEMMA RefBelow ==
    ASSUME CallInv, CallsInv, AtRef
    PROVE  \A j \in DOMAIN stack : Ref \in Under[stack[j].of]
<1>1. stack # <<>> /\ files \in Suites /\ named \subseteq Names
  BY DEF AtRef, Resolving, CallInv, TypeOK
<1>2. /\ Len(stack) \in DOMAIN stack /\ DOMAIN stack = 1..Len(stack) /\ Len(stack) \in Nat
      /\ Top = stack[Len(stack)] /\ Top.of \in Names \cup {"root"}
      /\ Top.at \in Nat /\ 1 <= Top.at
  BY <1>1, TopFacts DEF CallInv, Top, Frames
<1>3. Ref \in Items(RefsOf(Top.of))
  <2>1. RefsOf(Top.of) \in Seq(Refs) /\ Top.at <= Len(RefsOf(Top.of))
    BY <1>1, <1>2, FileFacts DEF AtRef
  <2> QED
    BY <1>2, <2>1 DEF Items, Ref
<1>4. Ref \in Under[Top.of]
  BY <1>1, <1>2, <1>3, UnderFacts
<1>5. ASSUME NEW j \in DOMAIN stack, j < Len(stack) PROVE Ref \in Under[stack[j].of]
  <2>1. Top.of \in Under[stack[j].of]
    BY <1>2, <1>5 DEF CallsInv, Chained
  <2>2. Top.of \in Names
    <3>1. Len(stack) > 1
      BY <1>2, <1>5
    <3> QED
      BY <1>1, <1>2, <3>1 DEF CallInv, TypeOK
  <2>3. stack[j].of \in Names \cup {"root"}
    BY <1>5 DEF CallInv, TypeOK
  <2> QED
    BY <1>1, <1>4, <2>1, <2>2, <2>3, UnderFacts
<1> QED
  BY <1>2, <1>4, <1>5

\* A call for a name that is not marked stands below its caller.
LEMMA DescendCalls ==
    ASSUME CallInv, CallsInv, Descend
    PROVE  CallsInv'
<1> DEFINE top == Len(stack)
<1>1. AtRef /\ stack # <<>> /\ Ref \in named /\ stack' = Append(stack, Frame(Ref))
      /\ UNCHANGED <<files, named, resolved>> /\ files \in Suites /\ named \subseteq Names
  BY DEF Descend, AtRef, Resolving, CallInv, TypeOK
<1>2. top \in Nat /\ top >= 1 /\ DOMAIN stack = 1..top
  BY <1>1, TopFacts DEF CallInv
<1>3. /\ Len(stack') = top + 1 /\ DOMAIN stack' = 1..top + 1
      /\ \A n \in 1..top : stack'[n] = stack[n]
      /\ stack'[top + 1].of = Ref /\ stack'[top + 1].at = 1
  <2>1. stack \in Seq(Frames)
    BY DEF CallInv, TypeOK, Frames
  <2> QED
    BY <1>1, <2>1 DEF Frame
<1>4. Under' = Under
  BY <1>1, SameFiles
<1> HIDE DEF top
<1>5. Chained'
  <2>1. ASSUME NEW k \in DOMAIN stack', k < top + 1
        PROVE  (RefsOf(stack[k].of)[stack[k].at] = stack[k + 1].of)'
    <3>1. k \in 1..top /\ stack'[k] = stack[k]
      BY <1>2, <1>3, <2>1
    <3>2. CASE k = top
      <4>1. RefsOf(stack[k].of)[stack[k].at] = Ref
        BY <3>2 DEF Ref, Top, top
      <4> QED
        BY <1>1, <1>3, <3>1, <3>2, <4>1 DEF RefsOf
    <3>3. CASE k < top
      <4>1. RefsOf(stack[k].of)[stack[k].at] = stack[k + 1].of
        BY <1>2, <3>1, <3>3 DEF CallsInv, Chained, top
      <4>2. k + 1 \in 1..top /\ stack'[k + 1] = stack[k + 1]
        BY <1>2, <1>3, <3>1, <3>3
      <4> QED
        BY <1>1, <3>1, <4>1, <4>2 DEF RefsOf
    <3> QED
      BY <1>2, <3>1, <3>2, <3>3
  <2>2. ASSUME NEW j \in DOMAIN stack', NEW k \in DOMAIN stack', j < k
        PROVE  stack'[k].of \in Under'[stack'[j].of]
    <3>1. j \in 1..top /\ j \in DOMAIN stack /\ stack'[j] = stack[j]
      BY <1>2, <1>3, <2>2
    <3>2. CASE k = top + 1
      BY <1>1, <1>3, <1>4, <3>1, <3>2, RefBelow
    <3>3. CASE k \in 1..top
      BY <1>2, <1>3, <1>4, <2>2, <3>1, <3>3 DEF CallsInv, Chained
    <3> QED
      BY <1>2, <1>3, <3>2, <3>3
  <2> QED
    BY <1>3, <2>1, <2>2 DEF Chained
<1>6. Resolved'
  <2>1. ASSUME NEW k \in DOMAIN stack', NEW i \in 1..stack'[k].at - 1
        PROVE  Complete(RefsOf(stack[k].of)[i])'
    <3>1. k # top + 1
      BY <1>3, <2>1
    <3>2. k \in DOMAIN stack /\ stack'[k] = stack[k]
      BY <1>2, <1>3, <3>1
    <3>3. Complete(RefsOf(stack[k].of)[i])
      BY <2>1, <3>2 DEF CallsInv, Resolved
    <3> QED
      BY <1>1, <1>4, <3>2, <3>3 DEF Complete, RefsOf
  <2>2. \A n \in resolved' : Complete(n)'
    BY <1>1, CompleteStays DEF CallsInv, Resolved
  <2> QED
    BY <2>1, <2>2 DEF Resolved
<1>7. Based'
  <2>1. ASSUME NEW k \in 1..top
        PROVE  \E b \in 1..k : /\ b = 1 \/ Guarded(stack[b].of)'
                               /\ \A i \in b + 1..k : files'[stack'[i].of].kind = "transparent"
    <3>1. PICK b \in 1..k : /\ b = 1 \/ Guarded(stack[b].of)
                            /\ \A i \in b + 1..k : files[stack[i].of].kind = "transparent"
      BY <1>2 DEF CallsInv, Based
    <3>2. b \in 1..top /\ \A i \in b + 1..k : i \in 1..top
      BY <1>2
    <3> QED
      BY <1>1, <1>3, <3>1, <3>2 DEF Guarded
  <2>2. \E b \in 1..top + 1 : /\ b = 1 \/ Guarded(stack[b].of)'
                              /\ \A i \in b + 1..top + 1 : files'[stack'[i].of].kind = "transparent"
    <3>1. CASE Guarded(Ref)
      <4>1. files'[stack'[top + 1].of].kind \in {"struct", "sum"}
        BY <1>1, <1>3, <3>1 DEF Guarded
      <4>2. top + 1 \in 1..top + 1 /\ \A i \in (top + 1) + 1..top + 1 : FALSE
        BY <1>2
      <4> QED
        BY <4>1, <4>2 DEF Guarded
    <3>2. CASE ~Guarded(Ref)
      <4>1. files[Ref].kind = "transparent"
        BY <1>1, <3>2, FileFacts DEF Guarded, CallInv, Registered, File
      <4>2. PICK b \in 1..top : /\ b = 1 \/ Guarded(stack[b].of)'
                                /\ \A i \in b + 1..top : files'[stack'[i].of].kind = "transparent"
        BY <1>2, <2>1
      <4>3. b \in 1..top + 1 /\ \A i \in b + 1..top + 1 : i \in b + 1..top \/ i = top + 1
        BY <1>2
      <4> QED
        BY <1>1, <1>3, <4>1, <4>2, <4>3
    <3> QED
      BY <3>1, <3>2
  <2>3. \A k \in DOMAIN stack' : k \in 1..top \/ k = top + 1
    BY <1>2, <1>3
  <2> QED
    BY <2>1, <2>2, <2>3 DEF Based
<1> QED
  BY <1>5, <1>6, <1>7 DEF CallsInv

\* When a call returns, every reference it made is complete.
LEMMA PassedAll ==
    ASSUME CallInv, CallsInv, Return
    PROVE  \A r \in Items(RefsOf(Top.of)) : Complete(r)
<1>1. stack # <<>> /\ ~AtRef /\ Resolving /\ files \in Suites
  BY DEF Return, Resolving, CallInv, TypeOK
<1>2. /\ Len(stack) \in DOMAIN stack /\ Top = stack[Len(stack)] /\ Top.of \in Names \cup {"root"}
      /\ Top.at \in 1..Len(RefsOf(Top.of)) + 1
  BY <1>1, TopFacts DEF CallInv, Top, Frames
<1>3. RefsOf(Top.of) \in Seq(Refs)
  BY <1>1, <1>2, FileFacts
<1>4. Top.at = Len(RefsOf(Top.of)) + 1
  BY <1>1, <1>2, <1>3 DEF AtRef
<1>5. ASSUME NEW i \in DOMAIN RefsOf(Top.of) PROVE Complete(RefsOf(Top.of)[i])
  <2>1. i \in 1..Top.at - 1
    BY <1>3, <1>4
  <2> QED
    BY <1>2, <2>1 DEF CallsInv, Resolved
<1> QED
  BY <1>5 DEF Items

\* A call that returns leaves a complete name behind.
LEMMA ReturnCalls ==
    ASSUME CallInv, CallsInv, Return
    PROVE  CallsInv'
<1>1. UNCHANGED <<files, named>> /\ stack # <<>>
  BY DEF Return, Resolving
<1>2. stack \in Seq(Frames)
  BY DEF CallInv, TypeOK, Frames
<1>3. /\ Len(stack) \in DOMAIN stack /\ DOMAIN stack = 1..Len(stack) /\ Len(stack) \in Nat
      /\ Top = stack[Len(stack)]
  BY <1>1, TopFacts DEF CallInv, Top
<1>4. Len(stack) > 1 => Top.of \in named /\ Top.of # "root"
  BY <1>3 DEF CallInv, TypeOK
<1>5. Len(stack) > 1 => Complete(Top.of)
  BY <1>4, CompleteUp, PassedAll
<1>6. Len(stack) = 1 => Top.of = "root"
  BY <1>3 DEF CallInv, TypeOK
<1>7. \A n \in resolved' : Complete(n)
  BY <1>3, <1>5, <1>6 DEF Return, CallsInv, Resolved
<1>8. CASE Len(stack) = 1
  BY <1>1, <1>6, <1>8, NoCalls DEF Return
<1>9. CASE Len(stack) > 1
  <2> DEFINE front == SubSeq(stack, 1, Len(stack) - 1)
             last == Len(stack) - 1
  <2>1. stack' = Advanced(front)
    BY <1>3, <1>9 DEF Return
  <2>2. /\ front \in Seq(Frames) /\ front # <<>> /\ Len(front) = last
        /\ DOMAIN front = 1..last /\ \A n \in DOMAIN front : front[n] = stack[n]
    BY <1>2, <1>9, FrontFacts
  <2>3. last \in DOMAIN stack /\ last \in 1..last /\ last < Len(stack) /\ last + 1 = Len(stack)
    BY <1>3, <1>9
  <2> HIDE DEF front
  <2>4. /\ Len(stack') = last /\ DOMAIN stack' = 1..last
        /\ \A n \in 1..last : stack'[n].of = front[n].of
        /\ \A n \in 1..last : n # last => stack'[n] = front[n]
        /\ stack'[last].at = front[last].at + 1
    BY <2>1, <2>2, AdvancedFacts
  <2> HIDE DEF last
  <2>5. /\ \A n \in 1..last : stack'[n].of = stack[n].of
        /\ \A n \in 1..last : n # last => stack'[n] = stack[n]
        /\ stack'[last].at = stack[last].at + 1
    BY <2>2, <2>3, <2>4
  <2>6. RefsOf(stack[last].of)[stack[last].at] = Top.of
    BY <1>3, <2>3 DEF CallsInv, Chained
  <2> QED
    BY <1>1, <1>2, <1>5, <1>7, <1>9, <2>3, <2>4, <2>5, <2>6, PassedOver
<1> QED
  BY <1>3, <1>8, <1>9

-----------------------------------------------------------------------------
\* What is loaded changes in Import only.
LEMMA LoadedStep ==
    ASSUME CallInv, Loaded, [Next]_vars
    PROVE  Loaded'
<1>1. CASE Import
  BY <1>1, ImportLoads
<1>2. CASE UNCHANGED <<files, pending, seen, named>> /\ (stack' # <<>> => pending = <<>>)
  <2>1. Imported' = Imported
    BY <1>2, SameFiles
  <2> QED
    BY <1>2, <2>1 DEF Loaded
<1>3. CASE ImportFails \/ BeginResolve
  BY <1>2, <1>3 DEF ImportFails, BeginResolve, Loading
<1>4. CASE UnknownType \/ Recursive \/ Overflow
  BY <1>2, <1>4 DEF UnknownType, Recursive, Overflow, Fail
<1>5. CASE Memo \/ Descend \/ Return
  BY <1>2, <1>5 DEF Memo, Descend, Return, AtRef, Resolving, Loaded
<1>6. CASE UNCHANGED vars
  BY <1>2, <1>6 DEF vars, Loaded
<1> QED
  BY <1>1, <1>3, <1>4, <1>5, <1>6 DEF Next, Step, Ended

\* What is known of the calls survives every step.
LEMMA CallsStep ==
    ASSUME CallInv, CallsInv, [Next]_vars
    PROVE  CallsInv'
<1>1. CASE Import \/ ImportFails
  BY <1>1, NoCalls DEF Import, ImportFails, Loading
<1>2. CASE UnknownType \/ Recursive \/ Overflow
  BY <1>2, NoCalls DEF UnknownType, Recursive, Overflow, Fail
<1>3. CASE UNCHANGED vars
  <2>1. Under' = Under
    BY <1>3, SameFiles DEF vars
  <2>2. \A n : Complete(n) => Complete(n)'
    BY <1>3, CompleteStays DEF vars
  <2>3. Chained'
    BY <1>3, <2>1 DEF vars, CallsInv, Chained, RefsOf
  <2>4. Based'
    BY <1>3 DEF vars, CallsInv, Based, Guarded
  <2>5. Resolved'
    <3>1. ASSUME NEW k \in DOMAIN stack', NEW i \in 1..stack'[k].at - 1
          PROVE  Complete(RefsOf(stack[k].of)[i])'
      <4>1. Complete(RefsOf(stack[k].of)[i])
        BY <1>3, <3>1 DEF vars, CallsInv, Resolved
      <4> QED
        BY <1>3, <2>1, <4>1 DEF vars, Complete, RefsOf
    <3>2. \A n \in resolved' : Complete(n)'
      BY <1>3, <2>2 DEF vars, CallsInv, Resolved
    <3> QED
      BY <3>1, <3>2 DEF Resolved
  <2> QED
    BY <2>3, <2>4, <2>5 DEF CallsInv
<1> QED
  BY <1>1, <1>2, <1>3, FirstCall, MemoCalls, DescendCalls, ReturnCalls DEF Next, Step, Ended

\* Before anything is loaded.
LEMMA VerdictInit == Init => VerdictInv
<1> SUFFICES ASSUME Init PROVE VerdictInv
  OBVIOUS
<1>1. CallInv
  BY CallInit
<1>2. Chained /\ Resolved /\ Based /\ Judged
  BY DEF Init, Chained, Resolved, Based, Judged
<1>3. Loaded
  <2> DEFINE imports == [n \in Names |-> Items(files[n].imports)]
  <2>1. imports \in [Names -> SUBSET Refs] /\ Items(RootImports) \in SUBSET Refs
    BY PartsType DEF Init, Refs
  <2>2. Imported = Closure(Items(RootImports), imports)
    BY DEF Imported
  <2> HIDE DEF imports
  <2>3. Items(RootImports) \subseteq Imported
    BY <2>1, <2>2, ClosureFacts
  <2> QED
    BY <2>3 DEF Init, Loaded
<1> QED
  BY <1>1, <1>2, <1>3 DEF VerdictInv

\* The file under test is accepted when all it refers to is complete.
LEMMA AcceptedRight ==
    ASSUME CallInv, Loaded, CallsInv, Return, Len(stack) = 1
    PROVE  Circular = {} /\ Needed \subseteq Imported
<1>1. stack # <<>> /\ files \in Suites /\ pending = <<>> /\ named \subseteq Names
  BY DEF Return, Resolving, CallInv, TypeOK, Loaded
<1>2. Top.of = "root"
  <2>1. stack[1].of = "root"
    BY <1>1, TopFacts DEF CallInv, TypeOK
  <2> QED
    BY <2>1 DEF Top
<1>3. named = Imported
  BY <1>1, AllLoaded
<1>4. \A r \in Items(RefsOf("root")) : Complete(r)
  BY <1>2, PassedAll
<1>5. \A n \in Names \cup {"root"} : Under[n] = Below(n)
  BY DEF Under
<1>6. ASSUME NEW x \in Needed PROVE x \in named /\ x \notin Under[x]
  <2>1. x \in Items(RefsOf("root")) \/ \E m \in Items(RefsOf("root")) : x \in Under[m]
    BY <1>1, <1>5, UnderFacts DEF Needed
  <2> QED
    BY <1>4, <2>1 DEF Complete
<1> QED
  BY <1>1, <1>3, <1>5, <1>6 DEF Circular

\* An error of the resolver names what is wrong with the files.
LEMMA RefusedRight ==
    ASSUME CallInv, Loaded, CallsInv, AtRef
    PROVE  /\ named = Imported /\ Ref \in Needed
           /\ Ref \in resolving => Ref \in Circular
<1>1. stack # <<>> /\ pending = <<>> /\ files \in Suites
  BY DEF AtRef, Resolving, Loaded, CallInv, TypeOK
<1>2. named = Imported
  BY <1>1, AllLoaded
<1>3. \A j \in DOMAIN stack : Ref \in Under[stack[j].of]
  BY RefBelow
<1>4. Ref \in Needed
  <2>1. 1 \in DOMAIN stack /\ stack[1].of = "root"
    BY <1>1, TopFacts DEF CallInv, TypeOK
  <2> QED
    BY <1>3, <2>1 DEF Needed, Under
<1>5. ASSUME Ref \in resolving PROVE Ref \in Circular
  <2>1. PICK n \in DOMAIN stack : stack[n].of = Ref
    BY <1>5 DEF CallInv, MarksExact
  <2>2. Ref \in Names /\ Ref \in Under[Ref]
    BY <1>3, <1>5, <2>1 DEF CallInv, TypeOK
  <2> QED
    BY <1>4, <2>2 DEF Circular, Under
<1> QED
  BY <1>2, <1>4, <1>5

\* The verdict is right in every state.
LEMMA JudgedStep ==
    ASSUME CallInv, Loaded, CallsInv, Judged, [Next]_vars
    PROVE  Judged'
<1>1. files' = files /\ Imported' = Imported /\ Needed' = Needed /\ Circular' = Circular
  <2>1. files' = files
    BY DEF Next, Step, Ended, Import, ImportFails, BeginResolve, UnknownType, Memo, Recursive, Descend,
       Overflow, Return, Fail, vars
  <2> QED
    BY <2>1, SameFiles
<1>2. CASE verdict' \in {"none", "overflow"}
  BY <1>2 DEF Judged
<1>3. CASE UNCHANGED vars
  BY <1>1, <1>3 DEF vars, Judged
<1>4. CASE Import \/ BeginResolve \/ Memo \/ Descend
  BY <1>2, <1>4 DEF Import, BeginResolve, Memo, Descend, Loading, AtRef, Resolving
<1>5. CASE ImportFails
  <2>1. Head(pending) \in Items(pending)
    BY <1>5 DEF ImportFails, CallInv, TypeOK, Items
  <2>2. Head(pending) \in Imported /\ files[Head(pending)].kind = "broken" /\ verdict' = "unreadable"
    BY <1>5, <2>1 DEF ImportFails, Loaded
  <2> QED
    BY <1>1, <2>2 DEF Judged
<1>6. CASE UnknownType
  BY <1>1, <1>6, RefusedRight DEF UnknownType, Fail, Judged
<1>7. CASE Recursive
  BY <1>1, <1>7, RefusedRight DEF Recursive, Fail, Judged
<1>8. CASE Overflow
  BY <1>2, <1>8 DEF Overflow, Fail
<1>9. CASE Return
  <2>1. verdict = "none" /\ pending = <<>> /\ named' = named
    BY <1>9 DEF Return, Resolving, Loaded
  <2>2. CASE Len(stack) = 1
    <3>1. verdict' = "ok"
      BY <1>9, <2>2 DEF Return
    <3> QED
      BY <1>1, <1>9, <2>1, <2>2, <3>1, AcceptedRight, AllLoaded DEF Judged
  <2>3. CASE Len(stack) # 1
    BY <1>2, <1>9, <2>1, <2>3 DEF Return
  <2> QED
    BY <2>2, <2>3
<1> QED
  BY <1>3, <1>4, <1>5, <1>6, <1>7, <1>8, <1>9 DEF Next, Step, Ended

\* Every step keeps all of it.
LEMMA VerdictStep == VerdictInv /\ [Next]_vars => VerdictInv'
<1> SUFFICES ASSUME VerdictInv, [Next]_vars PROVE VerdictInv'
  OBVIOUS
<1>1. CallInv /\ Loaded /\ CallsInv /\ Judged
  BY DEF VerdictInv, CallsInv
<1>2. CallsInv'
  BY <1>1, CallsStep
<1> QED
  BY <1>1, <1>2, CallStep, LoadedStep, JudgedStep DEF VerdictInv, CallsInv

\* What is memoized is complete below and leads nowhere back to itself, whatever the
\* files refer to (schema.go:227-229, 240).
THEOREM MemoCorrect == Spec => []MemoComplete
<1>1. VerdictInv => MemoComplete
  <2> SUFFICES ASSUME VerdictInv, NEW n \in resolved PROVE Below(n) \subseteq named /\ n \notin Below(n)
    BY DEF MemoComplete
  <2>1. Complete(n) /\ n \in Names
    BY DEF VerdictInv, Resolved, CallInv, TypeOK
  <2> QED
    BY <2>1 DEF Complete, Under
<1> QED
  BY <1>1, VerdictInit, VerdictStep, PTL DEF Spec

-----------------------------------------------------------------------------
\* A newtype met again with only newtypes since then is one of a loop of them.
LEMMA NewtypeRepeats ==
    ASSUME VerdictInv, NEW j \in DOMAIN stack, NEW k \in DOMAIN stack, 1 < j, j < k,
           stack[j].of = stack[k].of,
           \A i \in j..k : files[stack[i].of].kind = "transparent"
    PROVE  NewtypeLoop
<1> DEFINE loop == {stack[i].of : i \in j..k - 1}
<1>1. /\ DOMAIN stack = 1..Len(stack) /\ Len(stack) \in Nat /\ j \in Nat /\ k \in Nat
      /\ stack[1].of = "root" /\ 1 \in DOMAIN stack
      /\ files \in Suites /\ named \subseteq Names
  <2>1. stack # <<>>
    OBVIOUS
  <2> QED
    BY <2>1, TopFacts DEF VerdictInv, CallInv, TypeOK
<1>2. ASSUME NEW i \in j..k
      PROVE  i \in DOMAIN stack /\ i > 1 /\ stack[i].of \in Names
  <2>1. i \in DOMAIN stack /\ i > 1
    BY <1>1
  <2>2. stack[i].of \in named
    BY <2>1 DEF VerdictInv, CallInv, TypeOK
  <2> QED
    BY <1>1, <2>1, <2>2
<1>3. loop \subseteq Needed \cap Names
  <2>1. ASSUME NEW i \in j..k - 1 PROVE stack[i].of \in Needed \cap Names
    <3>1. i \in DOMAIN stack /\ 1 < i /\ stack[i].of \in Names
      BY <1>1, <1>2
    <3>2. stack[i].of \in Under["root"]
      BY <1>1, <3>1 DEF VerdictInv, Chained
    <3> QED
      BY <3>1, <3>2 DEF Needed, Under
  <2> QED
    BY <2>1
<1>4. loop # {}
  <2>1. j \in j..k - 1
    BY <1>1
  <2> QED
    BY <2>1
<1>5. ASSUME NEW i \in j..k - 1
      PROVE  /\ files[stack[i].of].kind = "transparent"
             /\ Items(files[stack[i].of].refs) \cap loop # {}
  <2>1. i \in j..k /\ i + 1 \in j..k /\ i \in DOMAIN stack /\ i < Len(stack) /\ stack[i].of \in Names
    BY <1>1, <1>2
  <2>2. files[stack[i].of].refs[stack[i].at] = stack[i + 1].of
    <3>1. stack[i].of # "root"
      BY <2>1, ResolverAssumption
    <3> QED
      BY <2>1, <3>1 DEF VerdictInv, Chained, RefsOf
  <2>3. stack[i].at \in DOMAIN files[stack[i].of].refs
    <3>1. stack[i].at \in 1..Len(RefsOf(stack[i].of)) + 1 /\ stack[i].at <= Len(RefsOf(stack[i].of))
      BY <2>1 DEF VerdictInv, CallInv, TypeOK, CallersWait
    <3>2. RefsOf(stack[i].of) \in Seq(Refs) /\ RefsOf(stack[i].of) = files[stack[i].of].refs
      BY <1>1, <2>1, FileFacts, ResolverAssumption DEF RefsOf
    <3> QED
      BY <3>1, <3>2
  <2>4. stack[i + 1].of \in loop
    <3>1. CASE i + 1 \in j..k - 1
      BY <3>1
    <3>2. CASE i + 1 = k
      BY <1>1, <3>2
    <3> QED
      BY <1>1, <2>1, <3>1, <3>2
  <2> QED
    BY <2>1, <2>2, <2>3, <2>4 DEF Items
<1> HIDE DEF loop
<1>6. \A n \in loop : /\ files[n].kind = "transparent"
                      /\ Items(files[n].refs) \cap loop # {}
  BY <1>5 DEF loop
<1> QED
  BY <1>3, <1>4, <1>6 DEF NewtypeLoop

\* Without such a loop the innermost marked type and the name of a call tell it
\* apart from every other call in progress, so there are no more of them than pairs.
LEMMA CallsBounded ==
    ASSUME VerdictInv, stack # <<>>, ~NewtypeLoop, IsFiniteSet(Names)
    PROVE  Len(stack) <= (Cardinality(Names) + 1) * Cardinality(Names) + 1
<1> DEFINE Base(b, k) == /\ b = 1 \/ Guarded(stack[b].of)
                         /\ \A i \in b + 1..k : files[stack[i].of].kind = "transparent"
           base == [k \in 2..Len(stack) |-> CHOOSE b \in 1..k : Base(b, k)]
           f == [k \in 2..Len(stack) |-> <<stack[base[k]].of, stack[k].of>>]
           Marks == Names \cup {"root"}
<1>1. DOMAIN stack = 1..Len(stack) /\ Len(stack) \in Nat /\ Len(stack) >= 1 /\ named \subseteq Names
  BY TopFacts DEF VerdictInv, CallInv, TypeOK
<1>2. \A k \in DOMAIN stack : /\ stack[k].of = "root" <=> k = 1
                              /\ k > 1 => stack[k].of \in Names
  BY <1>1 DEF VerdictInv, CallInv, TypeOK
<1>3. ASSUME NEW k \in 2..Len(stack) PROVE base[k] \in 1..k /\ Base(base[k], k)
  <2>1. k \in DOMAIN stack
    BY <1>1
  <2>2. \E b \in 1..k : Base(b, k)
    BY <2>1 DEF VerdictInv, Based
  <2> HIDE DEF Base
  <2> QED
    BY <2>2
<1> HIDE DEF base
<1>4. f \in [2..Len(stack) -> Marks \X Names]
  <2>1. ASSUME NEW k \in 2..Len(stack) PROVE stack[base[k]].of \in Marks /\ stack[k].of \in Names
    <3>1. base[k] \in DOMAIN stack /\ k \in DOMAIN stack /\ k > 1
      BY <1>1, <1>3
    <3> QED
      BY <1>2, <3>1
  <2> QED
    BY <2>1
<1>5. ASSUME NEW j \in 2..Len(stack), NEW k \in 2..Len(stack), j < k, f[j] = f[k] PROVE FALSE
  <2>1. stack[base[j]].of = stack[base[k]].of /\ stack[j].of = stack[k].of
    BY <1>5
  <2>2. /\ j \in DOMAIN stack /\ k \in DOMAIN stack /\ base[j] \in DOMAIN stack /\ base[k] \in DOMAIN stack
        /\ base[j] \in 1..j /\ base[k] \in 1..k /\ j \in Nat /\ k \in Nat
    BY <1>1, <1>3
  <2>3. (base[j] = 1 \/ Guarded(stack[base[j]].of)) /\ (base[k] = 1 \/ Guarded(stack[base[k]].of))
    BY <1>3
  <2>4. base[j] = base[k]
    <3>1. base[j] = 1 <=> base[k] = 1
      BY <1>2, <2>1, <2>2
    <3>2. \A a, b \in DOMAIN stack : a < b /\ a > 1 /\ Guarded(stack[a].of) => stack[a].of # stack[b].of
      BY DEF VerdictInv, CallInv, MarksExact
    <3>3. base[j] < base[k] \/ base[k] < base[j] \/ base[j] = base[k]
      BY <2>2
    <3> QED
      BY <2>1, <2>2, <2>3, <3>1, <3>2, <3>3
  <2>5. \A i \in base[k] + 1..k : files[stack[i].of].kind = "transparent"
    BY <1>3
  <2>6. CASE j = base[k]
    <3>1. Guarded(stack[j].of)
      BY <2>2, <2>3, <2>6
    <3>2. k \in base[k] + 1..k
      BY <1>5, <2>2, <2>6
    <3> QED
      BY <2>1, <2>5, <3>1, <3>2 DEF Guarded
  <2>7. CASE j > base[k]
    <3>1. \A i \in j..k : i \in base[k] + 1..k
      BY <2>2, <2>7
    <3>2. 1 < j
      BY <2>2, <2>7
    <3> QED
      BY <1>5, <2>1, <2>2, <2>5, <3>1, <3>2, NewtypeRepeats
  <2> QED
    BY <2>2, <2>4, <2>6, <2>7
<1>6. \A j, k \in 2..Len(stack) : f[j] = f[k] => j = k
  <2> SUFFICES ASSUME NEW j \in 2..Len(stack), NEW k \in 2..Len(stack), f[j] = f[k], j # k PROVE FALSE
    OBVIOUS
  <2> HIDE DEF f
  <2>1. j < k \/ k < j
    OBVIOUS
  <2> QED
    BY <1>5, <2>1
<1> HIDE DEF f
<1>7. f \in Injection(2..Len(stack), Marks \X Names)
  BY <1>4, <1>6 DEF Injection, IsInjective
<1>8. Cardinality(Names) \in Nat /\ IsFiniteSet(Marks) /\ Cardinality(Marks) = Cardinality(Names) + 1
  BY FS_CardinalityType, FS_AddElement, ResolverAssumption
<1>9. IsFiniteSet(Marks \X Names) /\ Cardinality(Marks \X Names) = Cardinality(Marks) * Cardinality(Names)
  <2> HIDE DEF Marks
  <2> QED
    BY <1>8, FS_Product
<1>10. Cardinality(2..Len(stack)) <= Cardinality(Marks \X Names)
  BY <1>7, <1>9, FS_Injection
<1>11. Cardinality(2..Len(stack)) = Len(stack) - 1
  <2>1. Cardinality(2..Len(stack)) = IF 2 > Len(stack) THEN 0 ELSE Len(stack) - 2 + 1
    BY <1>1, FS_Interval
  <2> QED
    BY <1>1, <2>1
<1> HIDE DEF Marks
<1>12. Len(stack) - 1 <= (Cardinality(Names) + 1) * Cardinality(Names)
  BY <1>8, <1>9, <1>10, <1>11
<1>13. (Cardinality(Names) + 1) * Cardinality(Names) \in Nat
  BY <1>8
<1> QED
  BY <1>1, <1>12, <1>13

\* The resolver accepts exactly the files that import what their types are made of,
\* whose imports are readable and whose types are not circular, and says which of
\* these failed; and on a stack with room for one call per pair of files, only a loop
\* of newtypes can exhaust it (schema.go:226-242, 252-281).
THEOREM VerdictIsCorrect ==
    ASSUME IsFiniteSet(Names), MaxDepth > (Cardinality(Names) + 1) * Cardinality(Names) + 1
    PROVE  Spec => []VerdictCorrect
<1> DEFINE OverflowRight == verdict = "overflow" => NewtypeLoop
<1>1. Init => OverflowRight
  BY DEF Init
<1>2. VerdictInv /\ OverflowRight /\ [Next]_vars => OverflowRight'
  <2> SUFFICES ASSUME VerdictInv, OverflowRight, [Next]_vars PROVE OverflowRight'
    OBVIOUS
  <2>1. files' = files
    BY DEF Next, Step, Ended, Import, ImportFails, BeginResolve, UnknownType, Memo, Recursive, Descend,
       Overflow, Return, Fail, vars
  <2>2. NewtypeLoop' <=> NewtypeLoop
    BY <2>1, SameFiles DEF NewtypeLoop
  <2>3. CASE Overflow
    <3>1. stack # <<>> /\ Len(stack) = MaxDepth
      BY <2>3 DEF Overflow, AtRef, Resolving
    <3>2. Cardinality(Names) \in Nat /\ MaxDepth \in Nat
      BY FS_CardinalityType, ResolverAssumption
    <3>3. NewtypeLoop \/ MaxDepth <= (Cardinality(Names) + 1) * Cardinality(Names) + 1
      BY <3>1, CallsBounded
    <3>4. (Cardinality(Names) + 1) * Cardinality(Names) + 1 \in Nat
      BY <3>2
    <3> QED
      BY <2>2, <3>2, <3>3, <3>4
  <2>4. CASE ~Overflow
    <3>1. verdict' = "overflow" => verdict = "overflow"
      BY <2>4 DEF Next, Step, Ended, Import, ImportFails, BeginResolve, UnknownType, Memo, Recursive,
         Descend, Return, Fail, vars
    <3> QED
      BY <2>2, <3>1
  <2> QED
    BY <2>3, <2>4
<1>3. VerdictInv /\ OverflowRight => VerdictCorrect
  BY DEF VerdictInv, Judged, VerdictCorrect, CallInv, Registered
<1> QED
  BY <1>1, <1>2, <1>3, VerdictInit, VerdictStep, PTL DEF Spec
=============================================================================
