--------------------------- MODULE ValueValidation --------------------------
(***************************************************************************)
(* What may be stored as the value of a configuration key: default configs *)
(* with their schema and their functions, the overrides that contexts      *)
(* have for them, and the functions with their draft and published code.   *)
(*                                                                         *)
(* A schema is the set of values that conform to it, and the code of a     *)
(* validation function the set of values that it accepts.                  *)
(*                                                                         *)
(* Every handler here reads and validates first and writes afterwards,     *)
(* with one statement or one transaction, and nothing is locked between.   *)
(***************************************************************************)
EXTENDS Integers, FiniteSets

CONSTANTS Keys, Values, FunctionNames,
          Schemas,        \* the schemas a request may bring
          Codes,          \* the codes a request may bring
          Workers,        \* requests the service works on at the same time
          None,           \* SQL's NULL
          Absent          \* a field that a request does not have

VARIABLES functions,   \* per name: the row [draft, published], or None
          defaults,    \* per key: the row [value, schema, validator, compute], or None
          overrides,   \* per key: the value that a context has for it, or None
          request      \* per worker: the validated request that it will write, or None

vars == <<functions, defaults, overrides, request>>

Init ==
  /\ functions = [f \in FunctionNames |-> None]
  /\ defaults = [k \in Keys |-> None]
  /\ overrides = [k \in Keys |-> None]
  /\ request = [w \in Workers |-> None]

\* w has validated the request r.
Validated(w, r) ==
  /\ request[w] = None
  /\ request' = [request EXCEPT ![w] = r]
  /\ UNCHANGED <<functions, defaults, overrides>>

\* w goes on to write its request, whether the writes succeed or not.
Writes(w, op) ==
  /\ request[w] # None
  /\ request[w].op = op
  /\ request' = [request EXCEPT ![w] = None]

-----------------------------------------------------------------------------
(* Functions *)

BeginCreateFunction(w) ==
  \E f \in FunctionNames, code \in Codes :
    Validated(w, [op |-> "createFunction", name |-> f, code |-> code])

CreateFunction(w) ==
  LET r == request[w] IN
  /\ Writes(w, "createFunction")
  /\ functions' =
       IF functions[r.name] = None   \* the name is the primary key
       THEN [functions EXCEPT ![r.name] = [draft |-> r.code, published |-> None]]
       ELSE functions
  /\ UNCHANGED <<defaults, overrides>>

BeginUpdateFunction(w) ==
  \E f \in FunctionNames, code \in Codes :
    Validated(w, [op |-> "updateFunction", name |-> f, code |-> code])

UpdateFunction(w) ==
  LET r == request[w] IN
  /\ Writes(w, "updateFunction")
  /\ functions' =
       IF functions[r.name] # None
       THEN [functions EXCEPT ![r.name].draft = r.code]
       ELSE functions
  /\ UNCHANGED <<defaults, overrides>>

\* The row is read, and its draft is what will be published.
BeginPublish(w) ==
  \E f \in FunctionNames :
    /\ functions[f] # None
    /\ Validated(w, [op |-> "publish", name |-> f, code |-> functions[f].draft])

\* The functions once the request r to publish is written.
Published(r) ==
  IF functions[r.name] # None
  THEN [functions EXCEPT ![r.name].published = r.code]
  ELSE functions

Publish(w) ==
  /\ Writes(w, "publish")
  /\ functions' = Published(request[w])
  /\ UNCHANGED <<defaults, overrides>>

BeginDeleteFunction(w) ==
  \E f \in FunctionNames :
    /\ functions[f] # None
    /\ Validated(w, [op |-> "deleteFunction", name |-> f])

\* The foreign keys of the default configs refuse to let go of a function in use.
InUse(f) == \E k \in Keys : defaults[k] # None /\ f \in {defaults[k].validator, defaults[k].compute}

DeleteFunction(w) ==
  LET r == request[w] IN
  /\ Writes(w, "deleteFunction")
  /\ functions' = IF InUse(r.name) THEN functions ELSE [functions EXCEPT ![r.name] = None]
  /\ UNCHANGED <<defaults, overrides>>

-----------------------------------------------------------------------------
(* Default configs *)

\* The function exists, and its published code, if there is any, accepts the value.
validate_default_config_with_function(f, value) ==
  f # None =>
    /\ functions[f] # None
    /\ functions[f].published # None => value \in functions[f].published

\* Fault: it suffices that the function exists.
FunctionExists(f) == f # None => functions[f] # None

validate_fn_published(f) ==
  f # None => functions[f] # None /\ functions[f].published # None

\* The foreign keys of default_configs.
ReferencesExist(row) ==
  \A f \in {row.validator, row.compute} \ {None} : functions[f] # None

OptionalFunctions == FunctionNames \cup {None}

BeginCreateDefault(w) ==
  \E k \in Keys, value \in Values, schema \in Schemas,
     validator \in OptionalFunctions, compute \in OptionalFunctions :
    /\ value \in schema
    /\ validate_default_config_with_function(validator, value)
    /\ validate_fn_published(compute)
    /\ Validated(w, [op |-> "createDefault", key |-> k,
                     row |-> [value |-> value, schema |-> schema,
                              validator |-> validator, compute |-> compute]])

CreateDefault(w) ==
  LET r == request[w] IN
  /\ Writes(w, "createDefault")
  /\ defaults' =
       IF defaults[r.key] = None /\ ReferencesExist(r.row)
       THEN [defaults EXCEPT ![r.key] = r.row]
       ELSE defaults
  /\ UNCHANGED <<functions, overrides>>

Given(field, otherwise) == IF field = Absent THEN otherwise ELSE field

Updates ==
  [value : Values \cup {Absent}, schema : Schemas \cup {Absent},
   validator : OptionalFunctions \cup {Absent}, compute : OptionalFunctions \cup {Absent}]

\* The validations of update_handler: a schema and functions are looked at when the
\* request brings them.
UpdateValid(u, existing) ==
  LET value == Given(u.value, existing.value) IN
  /\ u.schema # Absent => value \in u.schema
  /\ u.validator # Absent => validate_default_config_with_function(u.validator, value)
  /\ u.compute # Absent => validate_fn_published(u.compute)

BeginUpdateDefault(w) ==
  \E k \in Keys, u \in Updates :
    /\ defaults[k] # None
    /\ UpdateValid(u, defaults[k])
    /\ Validated(w, [op |-> "updateDefault", key |-> k, update |-> u])

\* The row with the fields that the request brings.
Updated(row, u) ==
  [value |-> Given(u.value, row.value), schema |-> Given(u.schema, row.schema),
   validator |-> Given(u.validator, row.validator), compute |-> Given(u.compute, row.compute)]

UpdateDefault(w) ==
  LET r == request[w] IN
  /\ Writes(w, "updateDefault")
  /\ defaults' =
       IF ReferencesExist(Updated(defaults[r.key], r.update))
       THEN [defaults EXCEPT ![r.key] = Updated(@, r.update)]
       ELSE defaults
  /\ UNCHANGED <<functions, overrides>>

-----------------------------------------------------------------------------
(* Overrides *)

validate_override_with_default_configs(k, value) ==
  defaults[k] # None /\ value \in defaults[k].schema

validate_override_with_functions(k, value) ==
  LET f == defaults[k].validator IN
  f # None => (functions[f].published # None => value \in functions[f].published)

BeginPutOverride(w) ==
  \E k \in Keys, value \in Values :
    /\ validate_override_with_default_configs(k, value)
    /\ validate_override_with_functions(k, value)
    /\ Validated(w, [op |-> "putOverride", key |-> k, value |-> value])

PutOverride(w) ==
  /\ Writes(w, "putOverride")
  /\ overrides' = [overrides EXCEPT ![request[w].key] = request[w].value]
  /\ UNCHANGED <<functions, defaults>>

-----------------------------------------------------------------------------
Next ==
  \E w \in Workers :
    \/ BeginCreateFunction(w) \/ CreateFunction(w)
    \/ BeginUpdateFunction(w) \/ UpdateFunction(w)
    \/ BeginPublish(w) \/ Publish(w)
    \/ BeginDeleteFunction(w) \/ DeleteFunction(w)
    \/ BeginCreateDefault(w) \/ CreateDefault(w)
    \/ BeginUpdateDefault(w) \/ UpdateDefault(w)
    \/ BeginPutOverride(w) \/ PutOverride(w)

Spec == Init /\ [][Next]_vars

-----------------------------------------------------------------------------
(* Properties *)

\* The function that computes the values of a key has been published: it cannot be
\* deleted or replaced by an unpublished one while the key names it.
ComputePublished ==
  \A k \in Keys :
    (defaults[k] # None /\ defaults[k].compute # None)
      => functions[defaults[k].compute].published # None
=============================================================================
