------------------------------- MODULE Fault -------------------------------
(***************************************************************************)
(* internal/fault: errors that carry a code.  An error is its Unwrap       *)
(* chain, outermost first; every link is a *fault[T] of some code type T   *)
(* with its code, or an error of another type (a net error, a gRPC status, *)
(* an fmt.Errorf wrapper).  The nil error is the empty chain.  Messages    *)
(* are left out: no decision in the code depends on them.                  *)
(***************************************************************************)
EXTENDS Naturals, Sequences, FiniteSetsExt

\* The code types the repository instantiates fault[T] with: common's
\* ForwardErrorCode, and string, which an untyped constant such as
\* common.ForwardUnknown (= fault.Unknown) makes Wrap infer.
CodeTypes == {"ForwardErrorCode", "string"}
Plain == [type |-> "plain", code |-> "none"]   \* a link that is not a fault

NilError == <<>>

\* New(msg, code): a fault of code's type that wraps nothing.
New(T, c) == << [type |-> T, code |-> c] >>

\* Wrap(err, prefix, code): nil stays nil, else a fault wrapping err.
Wrap(err, T, c) ==
  IF err = NilError THEN NilError ELSE << [type |-> T, code |-> c] >> \o err

\* An error of another type wrapping err (fmt.Errorf with %w), or, with
\* err nil, a base error.
Other(err) == <<Plain>> \o err

\* Mutation: a walk that stops at a fault of any code type, as a type test
\* against an interface instead of *fault[T] would.
CodeWalkAnyType(T, err) ==
  LET F == {i \in DOMAIN err : err[i].type # "plain"}
  IN IF F = {} THEN "UNKNOWN" ELSE err[Min(F)].code

\* The loop of Code[T]: the first link that is a *fault[T] gives the code;
\* errors.Unwrap past the last link ends the walk with Unknown.
RECURSIVE CodeWalk(_, _)
CodeWalk(T, err) ==
  IF err = NilError THEN "UNKNOWN"
  ELSE IF Head(err).type = T THEN Head(err).code
  ELSE CodeWalk(T, Tail(err))

\* Code[T](err): OK for nil, else the walk.
Code(T, err) == IF err = NilError THEN "OK" ELSE CodeWalk(T, err)

\* The loop of RawCode: the first link that is a fault of any code type
\* (a rawCoder) gives the code.
RECURSIVE RawCodeWalk(_)
RawCodeWalk(err) ==
  IF err = NilError THEN "UNKNOWN"
  ELSE IF Head(err).type # "plain" THEN Head(err).code
  ELSE RawCodeWalk(Tail(err))

\* RawCode(err): nil for nil, else the walk.
RawCode(err) == IF err = NilError THEN "nil" ELSE RawCodeWalk(err)

-----------------------------------------------------------------------------
(* Reference definitions, stated over the whole chain at once.             *)

FaultsOf(T, err) == {i \in DOMAIN err : err[i].type = T}

CodeSpec(T, err) ==
  CASE err = NilError        -> "OK"
    [] FaultsOf(T, err) = {} -> "UNKNOWN"
    [] OTHER                 -> err[Min(FaultsOf(T, err))].code

RawCodeSpec(err) ==
  LET F == UNION {FaultsOf(T, err) : T \in CodeTypes}
  IN CASE err = NilError -> "nil"
       [] F = {}         -> "UNKNOWN"
       [] OTHER          -> err[Min(F)].code

\* The links the repository builds: ForwardErrorCode faults of each code,
\* the string-typed UNKNOWN fault of interpretDialError, and plain errors.
Links == {[type |-> "ForwardErrorCode", code |-> c] :
            c \in {"FAILED_TO_RESOLVE_HOST", "HOST_UNREACHABLE", "INTERNAL"}}
         \cup {[type |-> "string", code |-> "UNKNOWN"], Plain}

Chains(n) == UNION {[1..k -> Links] : k \in 0..n}

\* fault.Code and fault.RawCode find the outermost fault of the asked type
\* (of any type, for RawCode) in every error chain of up to three links,
\* however faults of the two code types and plain wrappers are mixed.
CodeMatchesReference ==
  \A err \in Chains(3) :
    /\ \A T \in CodeTypes : Code(T, err) = CodeSpec(T, err)
    /\ RawCode(err) = RawCodeSpec(err)

=============================================================================
