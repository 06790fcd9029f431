---------------------------- MODULE ConfigStore -----------------------------
(***************************************************************************)
(* What the service promises of its contexts and default values: a request *)
(* is a list of operations that are applied one after the other, all of    *)
(* them or none, and the newest config version is the configuration that   *)
(* results.  The rows of both tables are kept in one function: a condition *)
(* has an override (a function from keys to values), a key has its default *)
(* value.                                                                  *)
(***************************************************************************)
EXTENDS Sequences, Integers

CONSTANTS Conditions,
          Requests,   \* the lists of operations that clients send
          Start       \* the rows to begin with

VARIABLES store,      \* condition -> override and key -> default value
          version     \* the configuration of the newest version

storeVars == <<store, version>>

Used(s, k) == \E c \in DOMAIN s \cap Conditions : k \in DOMAIN s[c]

Without(s, x) == [y \in DOMAIN s \ {x} |-> s[y]]

With(s, x, value) == [y \in DOMAIN s \cup {x} |-> IF y = x THEN value ELSE s[y]]

\* The keys of the new override, and the others of the one that is there.
Merged(override, old) ==
  [k \in DOMAIN override \cup DOMAIN old |->
     IF k \in DOMAIN override THEN override[k] ELSE old[k]]

Put(s, c, override) ==
  With(s, c, IF c \in DOMAIN s THEN Merged(override, s[c]) ELSE override)

\* An operation finds its row, or none if it creates it; overrides name keys that
\* have a default value, and a key is removed when no override has it.
Allowed(s, o) ==
  /\ o.op \in {"replace", "delete", "move", "update", "remove"} => o.row \in DOMAIN s
  /\ o.op = "create" => o.row \notin DOMAIN s
  /\ o.op \in {"put", "replace"} => DOMAIN o.override \subseteq DOMAIN s
  /\ o.op = "remove" => ~Used(s, o.row)

Effect(s, o) ==
  CASE o.op = "put"                   -> Put(s, o.row, o.override)
    [] o.op = "replace"               -> With(s, o.row, o.override)
    [] o.op = "move"                  -> Put(Without(s, o.row), o.to, s[o.row])
    [] o.op \in {"delete", "remove"}  -> Without(s, o.row)
    [] o.op \in {"create", "update"}  -> With(s, o.row, o.value)

Init == store = Start /\ version = Start

Request(ops) ==
  LET after[i \in 0 .. Len(ops)] ==
        IF i = 0 THEN store ELSE Effect(after[i - 1], ops[i])
  IN /\ \A i \in 1 .. Len(ops) : Allowed(after[i - 1], ops[i])
     /\ store' = after[Len(ops)]
     /\ version' = store'

Next == \E ops \in Requests : Request(ops)

Spec == Init /\ [][Next]_storeVars
=============================================================================
