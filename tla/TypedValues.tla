---------------------------- MODULE TypedValues -----------------------------
(***************************************************************************)
(* Typed outputs and inputs of a workflow: the declaration an author       *)
(* writes, its profile, the schema a provider is given, the check of what  *)
(* a step emits, the references the validator lets through, and what they  *)
(* read; and the values a run is started with                              *)
(* (packages/core/src/engine/outputs-profile.ts, outputs-substitution.ts,  *)
(* substitution.ts, inputs.ts, validator.ts, types/outputs.ts,             *)
(* parser/yaml.ts).                                                        *)
(*                                                                         *)
(* Values and profiles are trees of one shape, so that a tree of any kind  *)
(* can stand where another is expected.                                    *)
(***************************************************************************)
EXTENDS Naturals, Sequences, FiniteSets

CONSTANTS Raws,      \* declarations of one output, as an author may write them
          Values,    \* JSON values a step or a caller may give
          Paths,     \* paths into the output "o"
          Inputs,    \* declarations of one input
          None

VARIABLES decl,     \* the profile of the output "o", of kind "error" when it does not parse
          emitted,  \* what the step emitted
          accepted, \* validateOutputsValue let it pass
          input,    \* the declaration of an input
          bound     \* the value kept for it, whether it was refused, what a reference reads

vars == <<decl, emitted, accepted, input, bound>>

NoFields == [k \in {} |-> None]
Value(t, v) == [t |-> t, v |-> v, f |-> NoFields, s |-> <<>>]
Null == Value("null", "")
Object(f) == [t |-> "record", v |-> "", f |-> f, s |-> <<>>]
Scalars == {"string", "number", "boolean"}
Profile(kind) == [kind |-> kind, options |-> {}, fields |-> NoFields, required |-> {}, items |-> <<>>]

----------------------------------------------------------------------------
\* The declaration

\* A choice has options, all of them strings ("#" is a member that is none).
Choice(options) ==
    IF options = {} \/ "#" \in options THEN Profile("error")
    ELSE [Profile("choice") EXCEPT !.options = options]

\* Optional fields: marked one by one, or left out of a list of required ones. The list
\* names declared fields, none of which is marked.
RecordProfile(r, fields) ==
    LET marked == {k \in DOMAIN r.fields : r.fields[k].optional}
    IN IF \/ \E k \in DOMAIN fields : fields[k].kind = "error"
          \/ r.listed /\ (~(r.required \subseteq DOMAIN fields) \/ r.required \intersect marked # {})
       THEN Profile("error")
       ELSE [Profile("record") EXCEPT !.fields = fields,
                !.required = IF r.listed THEN r.required ELSE DOMAIN fields \ marked]

\* parseProfileNode
RECURSIVE ParseProfile(_)
ParseProfile(r) ==
    CASE r.banned -> Profile("error")
      [] ~r.banned /\ r.type \in Scalars -> Profile(r.type)
      [] ~r.banned /\ r.type = "choice" -> Choice(r.options)
      [] ~r.banned /\ r.type = "record" -> RecordProfile(r, [k \in DOMAIN r.fields |-> ParseProfile(r.fields[k])])
      [] ~r.banned /\ r.type = "array" /\ r.items # <<>> ->
            LET p == ParseProfile(r.items[1])
            IN IF p.kind = "error" THEN p ELSE [Profile("array") EXCEPT !.items = <<p>>]
      [] OTHER -> Profile("error")

\* parseOutputsDecl: an output itself is never optional.
ParseDecl(r) == IF r.optional THEN Profile("error") ELSE ParseProfile(r)

----------------------------------------------------------------------------
\* What a value must be

RECURSIVE Valid(_, _), Accepts(_, _), FaultValid(_, _)

\* validateValueAgainstProfile
FaultValid(p, x) ==
    CASE p.kind = "number" -> x.t = "number" /\ x.v # "inf"
      [] p.kind = "choice" -> x.t = "string" /\ x.v \in p.options
      [] p.kind = "record" -> /\ x.t = "record" /\ p.required \subseteq DOMAIN x.f
                              /\ DOMAIN x.f \subseteq DOMAIN p.fields
                              /\ \A k \in DOMAIN x.f : x.f[k].t = "null" \/ FaultValid(p.fields[k], x.f[k])
      [] p.kind = "array" -> x.t = "array" /\ \A i \in DOMAIN x.s : FaultValid(p.items[1], x.s[i])
      [] OTHER -> x.t = p.kind
Valid(p, x) ==
    CASE p.kind = "number" -> x.t = "number" /\ x.v # "inf"
      [] p.kind = "choice" -> x.t = "string" /\ x.v \in p.options
      [] p.kind = "record" ->
            /\ x.t = "record" /\ p.required \subseteq DOMAIN x.f
            /\ DOMAIN x.f \subseteq DOMAIN p.fields
            /\ \A k \in DOMAIN x.f : (x.f[k].t = "null" /\ k \notin p.required) \/ Valid(p.fields[k], x.f[k])
      [] p.kind = "array" -> x.t = "array" /\ \A i \in DOMAIN x.s : Valid(p.items[1], x.s[i])
      [] OTHER -> x.t = p.kind

\* validateOutputsValue: the struct holds the declared output, nothing else.
ValidOutputs(p, x) == x.t = "record" /\ DOMAIN x.f = {"o"} /\ Valid(p, x.f["o"])

\* profileToTypeBox: a JSON schema. An optional field may also be null.
Schema(type) == [type |-> type, enum |-> {}, properties |-> NoFields, required |-> {}, items |-> <<>>, nullable |-> FALSE]
RECURSIVE Lower(_)
Lower(p) ==
    CASE p.kind = "choice" -> [Schema("string") EXCEPT !.enum = p.options]
      [] p.kind = "record" ->
            [Schema("record") EXCEPT !.required = p.required,
                !.properties = [k \in DOMAIN p.fields |->
                                   [Lower(p.fields[k]) EXCEPT !.nullable = k \notin p.required]]]
      [] p.kind = "array" -> [Schema("array") EXCEPT !.items = <<Lower(p.items[1])>>]
      [] OTHER -> Schema(p.kind)

\* What a provider makes of a schema.
Accepts(c, x) ==
    \/ c.nullable /\ x.t = "null"
    \/ /\ x.t = c.type /\ (c.enum # {} => x.v \in c.enum)
       /\ c.type = "record" => /\ c.required \subseteq DOMAIN x.f /\ DOMAIN x.f \subseteq DOMAIN c.properties
                               /\ \A k \in DOMAIN x.f : Accepts(c.properties[k], x.f[k])
       /\ c.type = "array" => \A i \in DOMAIN x.s : Accepts(c.items[1], x.s[i])
LoweredOutputs(p) == [Schema("record") EXCEPT !.required = {"o"}, !.properties = [k \in {"o"} |-> Lower(p)]]

----------------------------------------------------------------------------
\* What a reference reads

\* walkOutputPath: where a path leads, and whether it crosses an optional field.
RECURSIVE Walk(_, _, _)
Walk(p, path, optional) ==
    IF path = <<>> THEN [bad |-> FALSE, optional |-> optional, kind |-> p.kind]
    ELSE IF p.kind # "record" \/ Head(path) \notin DOMAIN p.fields THEN [bad |-> TRUE, optional |-> optional, kind |-> None]
    ELSE Walk(p.fields[Head(path)], Tail(path), optional \/ Head(path) \notin p.required)

\* resolveSegments, from the struct's member "o"; classifyOutputRef and projectRunOutput
\* differ in what null is.
RECURSIVE Resolve(_, _)
Resolve(x, path) ==
    IF path = <<>> THEN x
    ELSE IF x.t # "record" \/ Head(path) \notin DOMAIN x.f THEN Value("undefined", "")
    ELSE Resolve(x.f[Head(path)], Tail(path))
Reads(x, path) == Resolve(x, path).t \notin {"undefined", "null"}
Projects(x, path) == Resolve(x, path).t # "undefined"

----------------------------------------------------------------------------
\* Inputs

\* Texts, the decimal numbers among them and the JSON values they hold.
Decimals == [k \in {"1", "1e0", "1e999"} |-> IF k = "1e999" THEN "inf" ELSE "1"]
Json(text) ==
    CASE text = "1" -> Value("number", "1") [] text = "true" -> Value("boolean", "true")
      [] text = "null" -> Null [] text = "[]" -> [Null EXCEPT !.t = "array"]
      [] OTHER -> Value("undefined", "")

\* coerceInputBindings: a text becomes what its declaration says, or an error and itself.
Same(x, e) == [value |-> x, error |-> e]
Coerce(d, x) ==
    IF x.t # "string" THEN Same(x, FALSE)
    ELSE CASE d.type \in {"record", "array"} ->
                 IF Json(x.v).t = "undefined" THEN Same(x, TRUE) ELSE Same(Json(x.v), FALSE)
           [] d.type = "number" ->
                 IF x.v \notin DOMAIN Decimals \/ (x.v \in DOMAIN Decimals /\ Decimals[x.v] = "inf") THEN Same(x, TRUE)
                 ELSE Same(Value("number", Decimals[x.v]), FALSE)
           [] d.type = "boolean" ->
                 IF x.v \in {"true", "false"} THEN Same(Value("boolean", x.v), FALSE) ELSE Same(x, TRUE)
           [] OTHER -> Same(x, FALSE)

Missing(x) == x.t \in {"undefined", "null"}
\* validateInputBindings
Flawed(d, x) ==
    IF Missing(x) THEN d.required /\ Missing(d.default)
    ELSE CASE d.type = "choice" -> ~(x.t = "string" /\ x.v \in d.options)
           [] d.type \in Scalars -> ~(x.t = d.type /\ x.v # "inf")
           [] OTHER -> ~Valid(d.profile, x)
\* resolveInputBindings: the default, and over it what was given; scalars become text.
Text(d, x) == IF d.type \in {"record", "array"} THEN x ELSE Value("string", x.v)
Resolved(d, x) == IF Missing(x) THEN (IF Missing(d.default) THEN d.default ELSE Text(d, d.default)) ELSE Text(d, x)
Bind(d, x) ==
    LET c == Coerce(d, x)
    IN [value |-> c.value, error |-> c.error \/ Flawed(d, c.value), reads |-> Resolved(d, c.value)]

----------------------------------------------------------------------------
\* One declaration, of an output or of an input, and what it is used for.

Init == decl = None /\ emitted = None /\ accepted = FALSE /\ input = None /\ bound = None

Declare ==
    /\ decl = None /\ input = None
    /\ \E r \in Raws : decl' = ParseDecl(r)
    /\ UNCHANGED <<emitted, accepted, input, bound>>

\* emit_output, or the read-back of a tool's $FRAGUA_OUTPUT. A refused emission may be
\* followed by another one.
Emit ==
    /\ decl # None /\ decl.kind # "error" /\ ~accepted
    /\ \E x \in {Object([k \in {"o"} |-> v]) : v \in Values}
                \union {Object(NoFields), Object([k \in {"o", "z"} |-> Null]), Null} :
         emitted' = x /\ accepted' = ValidOutputs(decl, x)
    /\ UNCHANGED <<decl, input, bound>>

\* buildEnqueue keeps what was coerced; the executor resolves it when a step is dispatched.
Enqueue ==
    /\ decl = None /\ input = None
    /\ \E d \in Inputs, x \in Values \union {Value("undefined", "")} : input' = d /\ bound' = Bind(d, x)
    /\ UNCHANGED <<decl, emitted, accepted>>

Next == Declare \/ Emit \/ Enqueue

----------------------------------------------------------------------------
RECURSIVE Finite(_)
Finite(x) == x.v # "inf" /\ (\A k \in DOMAIN x.f : Finite(x.f[k])) /\ \A i \in DOMAIN x.s : Finite(x.s[i])

(* An output that was accepted is there for every reference the validator let      *)
(* through, unless an optional field lies on the way, and a reference it did not   *)
(* let through would find nothing, not even at the run's boundary. A provider and  *)
(* fragua accept the same emissions. Some value satisfies every declaration that   *)
(* parses (outputs-profile.ts, types/outputs.ts, validator.ts walkOutputPath).     *)
OutputsHold ==
    /\ accepted => \A path \in Paths :
         LET w == Walk(decl, path, FALSE)  x == emitted.f["o"]
         IN IF w.bad THEN ~Projects(x, path) ELSE Reads(x, path) \/ w.optional
    /\ emitted # None =>
         LET a == Accepts(LoweredOutputs(decl), emitted)
         IN (accepted => a) /\ (a /\ Finite(emitted) => accepted)
    /\ decl # None /\ decl.kind # "error" /\ emitted = None => \E v \in Values : Valid(decl, v)

(* An input that passed: a required one reads something, a structured one reads a  *)
(* value of its profile, and what a scalar given by the caller reads means, to the *)
(* same declaration, the value that was kept (inputs.ts).                          *)
InputsHold ==
    bound # None /\ ~bound.error =>
        /\ input.required => ~Missing(bound.reads)
        /\ input.type \in {"record", "array"} /\ ~Missing(bound.reads) => Valid(input.profile, bound.reads)
        /\ input.type \in Scalars /\ ~Missing(bound.value) => Coerce(input, bound.reads).value = bound.value

(* OutputsHold and InputsHold. *)
TypedValuesSound == OutputsHold /\ InputsHold

(* A statement the code does not keep: inputs.ts says that a choice must pick a    *)
(* declared option; a default is held to nothing.                                  *)
ChoiceIsDeclared ==
    bound # None /\ ~bound.error /\ input.type = "choice" /\ ~Missing(bound.reads) => bound.reads.v \in input.options
=============================================================================
