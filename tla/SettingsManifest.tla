---- MODULE SettingsManifest ----
(***************************************************************************)
(* The settings vocabulary of core/src/traits/t_configurable/manifest.rs,  *)
(* as operators: values, their types, settings, sections and manifests.    *)
(*                                                                         *)
(* A value is [kind, v] with v an integer whatever the kind: texts, enum   *)
(* options and booleans are numbered.  An Option is a set of at most one   *)
(* element, so "if let Some(x)" reads as a bounded quantifier.  Names,     *)
(* descriptions and secrecy are left out; an error is the absence of a     *)
(* new value: the operators that return Result are a guard (CanX) and the  *)
(* value the code computes when the guard holds.                           *)
(***************************************************************************)
EXTENDS Integers, FiniteSets

Kinds == {"string", "integer", "unsigned", "float", "boolean", "enum"}

Value(k, n) == [kind |-> k, v |-> n]

Values ==
  {val \in [kind : Kinds, v : Int] :
     /\ val.kind = "boolean" => val.v \in {0, 1}
     /\ val.kind = "unsigned" => val.v >= 0}

U16Max == 65535

-----------------------------------------------------------------------------
(* Types *)

\* min and max are Options of bounds; within is an Option of the admitted
\* texts: the matches of a regex, or the options of an enum.
Type(k, min, max, within) ==
  [kind |-> k, min |-> min, max |-> max, within |-> within]

Unbounded(k) == Type(k, {}, {}, {})

\* An enum whose type is inferred gets an empty list of options.
InferType(val) ==
  IF val.kind = "enum" THEN Type("enum", {}, {}, {{}}) ELSE Unbounded(val.kind)

TypeChecks(t, val) ==
  /\ t.kind = val.kind
  /\ \A m \in t.min : m <= val.v
  /\ \A m \in t.max : val.v <= m
  /\ \A texts \in t.within : val.v \in texts

-----------------------------------------------------------------------------
(* Settings *)

NewRequired(val) ==
  [value |-> {val}, type |-> InferType(val), required |-> TRUE, mutable |-> TRUE]

\* new_optional_value and new_value_with_type panic ("Programmer error") when
\* the value they are given does not check.
CanBuild(opt, t) == \A val \in opt : TypeChecks(t, val)

NewOptional(opt, t) ==
  [value |-> opt, type |-> t, required |-> FALSE, mutable |-> TRUE]

NewWithType(opt, t) ==
  [value |-> opt, type |-> t, required |-> opt # {}, mutable |-> TRUE]

CanSetValue(s, val) == s.mutable /\ TypeChecks(s.type, val)

\* Mutant: a value cannot be taken back from an optional setting either.
CanSetOnly(s, opt) == s.mutable /\ opt # {}

\* set_optional_value does not check the type.
CanSetOptional(s, opt) == s.mutable /\ (s.required => opt # {})

WithValue(s, opt) == [s EXCEPT !.value = opt]

ValidSetting(s, opt) ==
  IF opt = {} THEN ~s.required ELSE \A val \in opt : TypeChecks(s.type, val)

-----------------------------------------------------------------------------
(* Sections and manifests: functions from identifiers *)

Put(section, id, s) ==
  [i \in DOMAIN section \union {id} |-> IF i = id THEN s ELSE section[i]]

CanUpdate(m, sec, id, val) ==
  /\ sec \in DOMAIN m
  /\ id \in DOMAIN m[sec]
  /\ CanSetValue(m[sec][id], val)

Update(m, sec, id, val) == [m EXCEPT ![sec][id] = WithValue(@, {val})]

CanAdd(m, sec) == sec \in DOMAIN m

Add(m, sec, id, s) == [m EXCEPT ![sec] = Put(@, id, s)]

ClearSection(m, sec) ==
  IF sec \in DOMAIN m THEN [m EXCEPT ![sec] = [i \in {} |-> 0]] ELSE m

-----------------------------------------------------------------------------
(* The local cache of a macro's settings *)

CacheEntry(s) == [value |-> s.value, type |-> s.type]

\* Mutant: the kinds are compared, not the types.
KindMatches(entry, target) == \E s \in target : s.type.kind = entry.type.kind

CacheMatches(entry, target) == \E s \in target : s.type = entry.type
====
