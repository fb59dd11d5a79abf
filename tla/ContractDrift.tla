--------------------------- MODULE ContractDrift ---------------------------
(* The contract backbone: the API a design document declares, the calls the  *)
(* scanner extracts from the frontend's source, and the drift between them.  *)
(*                                                                           *)
(* A path is a sequence of segments.  In the declared contract a segment is  *)
(* a literal or Param; in the source of a call it is a literal, Whole (an    *)
(* interpolation between two slashes) or Part (a literal with an             *)
(* interpolation in it).  What counts of the text around the segments of a   *)
(* call: does it begin with a slash (rooted), do the segments end with one   *)
(* (slash), and is there a query or a fragment, literal or partly computed?  *)
EXTENDS Integers, Sequences, SequencesExt

CONSTANTS
  Literals,    \* the literal segments of paths
  Methods,     \* the HTTP methods
  DefaultMethod,
  Base,        \* the configured base path, a sequence of literals
  BaseRooted   \* does it begin with a slash?

ASSUME ContractAssumption ==
  /\ DefaultMethod \in Methods
  /\ Base \in Seq(Literals)
  /\ BaseRooted \in BOOLEAN

Param == "param"
Whole == "whole"
Part  == "part"

ASSUME SegmentsAssumption == {Param, Whole, Part} \cap Literals = {}

---------------------------------------------------------------------------
(* The declared contract                                                   *)

\* An endpoint is [id, method, path, rooted]; rooted: the path has its slash.
ValidateApiContract(endpoints) ==
  LET twice(P(_, _)) == \E i, j \in DOMAIN endpoints :
                          i < j /\ P(endpoints[i], endpoints[j])
  IN  {code \in {"duplicate_id", "duplicate_route", "path_missing_leading_slash"} :
         CASE code = "duplicate_id" -> twice(LAMBDA d, e : d.id = e.id)
           [] code = "duplicate_route" ->
                twice(LAMBDA d, e : d.method = e.method /\ d.path = e.path
                                    /\ d.rooted = e.rooted)
           [] OTHER -> \E e \in ToSet(endpoints) : ~e.rooted}

---------------------------------------------------------------------------
(* Extraction                                                              *)

\* How the source of a call states its method: one of Methods; "unstated";
\* "dynamic" for an expression or a verb that is not known; or "hidden" in options
\* that are a variable, a shorthand or a spread, which are not looked into.  What
\* is not found is the default.
MethodOf(source) ==
  IF source.verb \in Methods THEN source.verb ELSE DefaultMethod

\* An interpolation that fills a segment becomes a parameter of the path.
TemplatePath(source) ==
  [i \in DOMAIN source.path |->
     IF source.path[i] = Whole THEN Param ELSE source.path[i]]

\* One that fills a part of it makes the path a guess, and so does one in the
\* query, or one that the query follows without a slash.
PathDeterminate(source) ==
  /\ Part \notin ToSet(source.path)
  /\ source.query # "computed"
  /\ \/ source.query = "none" \/ source.slash \/ source.path = << >>
     \/ Last(source.path) # Whole

\* Mutated form: a path with an interpolated part counts as determinate.
ConfidenceOfMethod(source) ==
  IF source.verb # "dynamic" THEN "certain" ELSE "inferred"

Confidence(source) ==
  IF source.verb # "dynamic" /\ PathDeterminate(source) THEN "certain" ELSE "inferred"

ExtractCall(source) ==
  [method |-> MethodOf(source), path |-> TemplatePath(source), rooted |-> source.rooted,
   slash |-> source.slash, query |-> source.query, confidence |-> Confidence(source)]

---------------------------------------------------------------------------
(* Drift                                                                   *)

\* The text of a call is the base path, or begins with it and a slash.
IncludesBase(call) ==
  /\ call.rooted = BaseRooted
  /\ IsPrefix(Base, call.path)
  /\ Len(call.path) > Len(Base) \/ call.slash \/ call.query = "none"

\* applyBasePath, and what segments() leaves of its result.
ApplyBasePath(call) == IF IncludesBase(call) THEN call.path ELSE Base \o call.path

PathMatches(template, path) ==
  /\ Len(template) = Len(path)
  /\ \A i \in DOMAIN template : template[i] = Param \/ template[i] = path[i]

BlockingKinds == {"undeclared_call", "method_mismatch"}

\* What one extracted call is reported as, "none" when it is wired.
ViolationOf(endpoints, call) ==
  LET path     == ApplyBasePath(call)
      matching == {e \in ToSet(endpoints) : PathMatches(e.path, path)}
  IN  IF \E e \in matching : e.method = call.method THEN "none"
      ELSE IF call.confidence = "inferred" THEN "unverified_call"
      ELSE IF matching = {} THEN "undeclared_call"
      ELSE "method_mismatch"

IsBlocking(kind) == kind \in BlockingKinds

---------------------------------------------------------------------------
(* Properties                                                              *)

\* The requests a call can make when it runs: an interpolation that fills a
\* segment stands for a run of segments, one in a part of it for a literal.
Fillings(segment) ==
  CASE segment = Whole -> UNION {[1 .. n -> Literals] : n \in 0..2}
    [] segment = Part  -> [1 .. 1 -> Literals]
    [] OTHER           -> {<<segment>>}

IsRequestOf(source, filling) ==
  /\ DOMAIN filling = DOMAIN source.path
  /\ \A i \in DOMAIN filling : filling[i] \in Fillings(source.path[i])

\* The client prepends the base path to a path that does not have it.
RequestPath(filling) ==
  LET path == FlattenSeq(filling)
  IN  IF IsPrefix(Base, path) THEN path ELSE Base \o path

RequestMethods(source) ==
  IF source.verb \in {"dynamic", "hidden"} THEN Methods ELSE {MethodOf(source)}

\* The endpoints a request reaches.
Reached(endpoints, method, path) ==
  {e \in ToSet(endpoints) : e.method = method /\ PathMatches(e.path, path)}

\* The interpolations of a call stand where the endpoint has its parameters.
FillsParams(source, filling, endpoint) ==
  LET base == IF IsPrefix(Base, source.path) THEN 0 ELSE Len(Base)
  IN  /\ Len(endpoint.path) = base + Len(source.path)
      /\ \A i \in DOMAIN source.path :
           source.path[i] = Whole =>
             Len(filling[i]) = 1 /\ endpoint.path[base + i] = Param

\* A path that has the base path in its segments has it in its text.
BaseInText(source) == IsPrefix(Base, source.path) => IncludesBase(source)

\* A declared call passes: a call whose method and path are in its text, or one
\* that is partly computed, does not block the gate when the request it makes is
\* declared and its interpolations stand for parameters there.  The extractor
\* decides the confidence, the validator decides what blocks, and neither knows the
\* other's rule (contract-drift.ts:15-18).  Options that hide the method and a base
\* path that its text hides are excepted: those calls are taken for certain.
DeclaredCallPasses(endpoints, source, filling) ==
  IsRequestOf(source, filling) /\ source.verb # "hidden" /\ BaseInText(source) =>
    \A method \in RequestMethods(source) :
      (\E e \in Reached(endpoints, method, RequestPath(filling)) :
         FillsParams(source, filling, e))
      => ~IsBlocking(ViolationOf(endpoints, ExtractCall(source)))

\* Never false-closed: a call blocks the gate only if the request it makes is
\* not declared (frontend-call-extractor.ts:9-11, "a call is `certain` only
\* when BOTH method and path are statically determinate ... so a fail-closed
\* gate never becomes false-closed").  A base path that its text hides is not the
\* extractor's to know.
NeverFalseClosed(endpoints, source, filling) ==
  IsRequestOf(source, filling) /\ BaseInText(source) =>
    \A method \in RequestMethods(source) :
      Reached(endpoints, method, RequestPath(filling)) # {}
      => ~IsBlocking(ViolationOf(endpoints, ExtractCall(source)))
=============================================================================
