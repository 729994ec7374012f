---------------------------- MODULE SchemaResolver ----------------------------
(***************************************************************************)
(* How loadTypeFile of internal/conf turns a type file into a schema: the   *)
(* imports are loaded (loadImportable), then every type expression is       *)
(* resolved by the recursive schemaResolver, here with its call stack made  *)
(* explicit.                                                                *)
(***************************************************************************)
EXTENDS Naturals, Sequences, FiniteSets

CONSTANTS
    Names,        \* the files that can be imported
    RootImports,  \* the files the file under test imports, in order
    RootRefs,     \* the named types it refers to, in order
    Suites,       \* the contents the files may have: a set of [Names -> File]
    MaxDepth      \* calls in progress that exhaust the stack of the process

\* A file declares a record, a sum or a newtype (transparent), or is broken: not
\* there, not YAML, or with sections that checkKeys, compactFields or
\* checkSections refuse.  Of its type expressions only the names they refer to
\* matter, in the order typeOf meets them: a scalar, an enum or a unit variant
\* has none, map<K,V> has two.  "nowhere" is a name no file declares.  A file need
\* not import what it names: the registry holds what any file on the way imported.
Refs == Names \cup {"nowhere"}
File == [kind : {"struct", "sum", "transparent", "broken"},
         imports : Seq(Names), refs : Seq(Refs)]

ASSUME ResolverAssumption ==
    /\ "nowhere" \notin Names /\ "root" \notin Names
    /\ RootImports \in Seq(Names) /\ RootRefs \in Seq(Refs)
    /\ \A s \in Suites : \A n \in Names : s[n] \in File
    /\ MaxDepth \in Nat \ {0}

VARIABLES
    files,          \* the contents of the files
    pending,        \* imports not followed yet, the next one first
    seen,           \* the files loadImportable has been called for
    named,          \* the registry: the types that were loaded
    stack,          \* calls in progress, the innermost last: whose entries, and which
    resolving, resolved,
    verdict         \* "none", or how loadTypeFile ended

vars == <<files, pending, seen, named, stack, resolving, resolved, verdict>>

RefsOf(n) == IF n = "root" THEN RootRefs ELSE files[n].refs

Top == stack[Len(stack)]
Ref == RefsOf(Top.of)[Top.at]
Advanced(s) == [s EXCEPT ![Len(s)].at = @ + 1]
Frame(n) == [of |-> n, at |-> 1]

Init ==
    /\ files \in Suites
    /\ pending = RootImports
    /\ seen = {} /\ named = {}
    /\ stack = <<>>
    /\ resolving = {} /\ resolved = {}
    /\ verdict = "none"

-----------------------------------------------------------------------------
Loading == verdict = "none" /\ stack = <<>>

\* Mutant of Import: a file that was seen is loaded again.
ImportAgain ==
    /\ Loading /\ pending # <<>>
    /\ files[Head(pending)].kind # "broken"
    /\ seen' = seen \cup {Head(pending)}
    /\ named' = named \cup {Head(pending)}
    /\ pending' = files[Head(pending)].imports \o Tail(pending)
    /\ UNCHANGED <<files, stack, resolving, resolved, verdict>>

\* Mutant of Import: the imports of an imported file are not followed.
ImportDirect ==
    /\ Loading /\ pending # <<>>
    /\ pending' = Tail(pending)
    /\ Head(pending) \in seen \/ files[Head(pending)].kind # "broken"
    /\ seen' = seen \cup {Head(pending)}
    /\ named' = named \cup {Head(pending)}
    /\ UNCHANGED <<files, stack, resolving, resolved, verdict>>

\* loadImportable on the next import: a file seen before adds nothing.
Import ==
    /\ Loading /\ pending # <<>>
    /\ \/ /\ Head(pending) \in seen
          /\ pending' = Tail(pending)
          /\ UNCHANGED <<seen, named>>
       \/ /\ Head(pending) \notin seen
          /\ files[Head(pending)].kind # "broken"
          /\ seen' = seen \cup {Head(pending)}
          /\ named' = named \cup {Head(pending)}
          /\ pending' = files[Head(pending)].imports \o Tail(pending)
    /\ UNCHANGED <<files, stack, resolving, resolved, verdict>>

ImportFails ==
    /\ Loading /\ pending # <<>>
    /\ Head(pending) \notin seen
    /\ files[Head(pending)].kind = "broken"
    /\ verdict' = "unreadable"
    /\ UNCHANGED <<files, pending, seen, named, stack, resolving, resolved>>

\* With the registry complete, resolve the entries of the file under test.
BeginResolve ==
    /\ Loading /\ pending = <<>>
    /\ stack' = <<Frame("root")>>
    /\ UNCHANGED <<files, pending, seen, named, resolving, resolved, verdict>>

-----------------------------------------------------------------------------
Resolving == verdict = "none" /\ stack # <<>>
AtRef == Resolving /\ Top.at <= Len(RefsOf(Top.of))

\* An error unwinds every call, and the deferred deletes empty resolving.
Fail(why) ==
    /\ verdict' = why
    /\ stack' = <<>> /\ resolving' = {}
    /\ UNCHANGED <<files, pending, seen, named, resolved>>

UnknownType == AtRef /\ Ref \notin named /\ Fail("unknown")

\* Only a record is memoized.
Memo ==
    /\ AtRef /\ Ref \in named
    /\ files[Ref].kind = "struct" /\ Ref \in resolved
    /\ stack' = Advanced(stack)
    /\ UNCHANGED <<files, pending, seen, named, resolving, resolved, verdict>>

\* Mutant of Guarded: the sum is not cycle-checked.
GuardedRecordsOnly(n) == files[n].kind = "struct"

\* namedType and the sum branch of typeOf mark the type, the transparent branch
\* does not.
Guarded(n) == files[n].kind \in {"struct", "sum"}

\* Mutant of Recursive: a type in progress is taken as it is so far.
RecursivePassed ==
    /\ AtRef /\ Ref \in named
    /\ ~(files[Ref].kind = "struct" /\ Ref \in resolved)
    /\ Guarded(Ref) /\ Ref \in resolving
    /\ stack' = Advanced(stack)
    /\ UNCHANGED <<files, pending, seen, named, resolving, resolved, verdict>>

Recursive ==
    /\ AtRef /\ Ref \in named
    /\ ~(files[Ref].kind = "struct" /\ Ref \in resolved)
    /\ Guarded(Ref) /\ Ref \in resolving
    /\ Fail("recursive")

\* namedType, sumType or typeOf is called for the entries of the type.
Descend ==
    /\ AtRef /\ Ref \in named
    /\ ~(files[Ref].kind = "struct" /\ Ref \in resolved)
    /\ ~(Guarded(Ref) /\ Ref \in resolving)
    /\ Len(stack) < MaxDepth
    /\ stack' = Append(stack, Frame(Ref))
    /\ resolving' = IF Guarded(Ref) THEN resolving \cup {Ref} ELSE resolving
    /\ UNCHANGED <<files, pending, seen, named, resolved, verdict>>

\* The process runs out of stack, which Go cannot recover from.
Overflow ==
    /\ AtRef /\ Ref \in named
    /\ ~(files[Ref].kind = "struct" /\ Ref \in resolved)
    /\ ~(Guarded(Ref) /\ Ref \in resolving)
    /\ Len(stack) = MaxDepth
    /\ Fail("overflow")

\* Mutant of Return: a record that was resolved is not unmarked.
ReturnKeepsMark ==
    /\ Resolving /\ ~AtRef
    /\ IF Len(stack) = 1
       THEN verdict' = "ok" /\ stack' = <<>>
       ELSE verdict' = verdict /\ stack' = Advanced(SubSeq(stack, 1, Len(stack) - 1))
    /\ resolved' = IF Top.of # "root" /\ files[Top.of].kind = "struct"
                   THEN resolved \cup {Top.of} ELSE resolved
    /\ UNCHANGED <<files, pending, seen, named, resolving>>

\* Mutant of Return: whatever was resolved is memoized.
ReturnMemoizesAll ==
    /\ Resolving /\ ~AtRef
    /\ IF Len(stack) = 1
       THEN verdict' = "ok" /\ stack' = <<>>
       ELSE verdict' = verdict /\ stack' = Advanced(SubSeq(stack, 1, Len(stack) - 1))
    /\ resolving' = resolving \ {Top.of}
    /\ resolved' = resolved \cup {Top.of}
    /\ UNCHANGED <<files, pending, seen, named>>

\* The entries of a call are done: the caller goes on with its next reference.
Return ==
    /\ Resolving /\ ~AtRef
    /\ IF Len(stack) = 1
       THEN verdict' = "ok" /\ stack' = <<>>
       ELSE verdict' = verdict /\ stack' = Advanced(SubSeq(stack, 1, Len(stack) - 1))
    /\ resolving' = resolving \ {Top.of}
    /\ resolved' = IF Top.of # "root" /\ files[Top.of].kind = "struct"
                   THEN resolved \cup {Top.of} ELSE resolved
    /\ UNCHANGED <<files, pending, seen, named>>

Ended == verdict # "none" /\ UNCHANGED vars

Step == Import \/ ImportFails \/ BeginResolve \/ UnknownType \/ Memo \/ Recursive
        \/ Descend \/ Overflow \/ Return
Next == Step \/ Ended

Spec == Init /\ [][Next]_vars
\* One goroutine runs to the end.
FairSpec == Spec /\ WF_vars(Step)

-----------------------------------------------------------------------------
(* Properties. *)

\* The variables keep their types: the stack starts at the file under test and
\* never holds more calls than the process can (schema.go:200-212).
TypeOK ==
    /\ files \in Suites
    /\ pending \in Seq(Names)
    /\ seen \subseteq Names /\ named \subseteq seen
    /\ stack \in Seq([of : Names \cup {"root"}, at : Nat])
    /\ Len(stack) <= MaxDepth
    /\ \A n \in DOMAIN stack :
          /\ stack[n].of = "root" <=> n = 1
          /\ n > 1 => stack[n].of \in named
          /\ stack[n].at \in 1..Len(RefsOf(stack[n].of)) + 1
    /\ resolving \cup resolved \subseteq named
    /\ verdict \in {"none", "ok", "unreadable", "unknown", "recursive", "overflow"}

\* Reference definitions: the least set that holds some names and whatever a name in
\* it leads to; the files the file under test imports, directly or not; the types it
\* is made of; and those among them that contain themselves.
Items(s) == {s[n] : n \in DOMAIN s}
Closed(S, next) == \A n \in S \cap Names : next[n] \subseteq S
Closure(ns, next) ==
    {n \in Refs : \A S \in SUBSET Refs : ns \subseteq S /\ Closed(S, next) => n \in S}
Parts == [n \in Names |-> Items(files[n].refs)]
Below(n) == Closure(Items(RefsOf(n)), Parts)
Imported == Closure(Items(RootImports), [n \in Names |-> Items(files[n].imports)])
Needed == Below("root")
Circular == {n \in Needed \cap Names : n \in Below(n)}

\* Newtypes that lead to nothing but each other.
NewtypeLoop ==
    \E loop \in SUBSET (Needed \cap Names) :
        /\ loop # {}
        /\ \A n \in loop : /\ files[n].kind = "transparent"
                           /\ Items(files[n].refs) \cap loop # {}

\* The resolver accepts exactly the files that import what their types are made of,
\* whose imports are readable and whose types are not circular, and says which of
\* these failed; only a loop of newtypes can exhaust the stack (schema.go:226-242,
\* 252-281).
VerdictCorrect ==
    /\ verdict = "ok" => /\ Circular = {}
                         /\ Needed \subseteq Imported
                         /\ \A n \in Imported : files[n].kind # "broken"
    /\ verdict = "unreadable" => \E n \in Imported : files[n].kind = "broken"
    /\ verdict = "unknown" => ~(Needed \subseteq Imported)
    /\ verdict = "recursive" => Circular # {}
    /\ verdict = "overflow" => NewtypeLoop

\* resolving is exactly the records and sums whose calls are in progress, none of
\* them twice, and no record in progress is taken from the memo (schema.go:226-242,
\* 263-272).
MarksExact ==
    /\ resolving = {stack[n].of : n \in {k \in DOMAIN stack : k > 1 /\ Guarded(stack[k].of)}}
    /\ \A j, k \in DOMAIN stack :
          j < k /\ j > 1 /\ Guarded(stack[j].of) => stack[j].of # stack[k].of
    /\ resolved \cap resolving = {}

\* What is memoized is complete below and leads nowhere back to itself, although it
\* was resolved in the middle of other types (schema.go:227-229, 240).
MemoComplete ==
    \A n \in resolved : Below(n) \subseteq named /\ n \notin Below(n)

\* "memoized, cycle-checked" (schema.go:198-199): resolution never recurses
\* without end, whatever the type files refer to.
NoOverflow == verdict # "overflow"

\* Loading a type file ends, import cycles included (schema.go:146-149).
LoadEnds == <>(verdict # "none")
=============================================================================
