--------------------------- MODULE PolicyDocuments ---------------------------
(***************************************************************************)
(* Policy documents and when the Policy controller takes two for the same  *)
(* (documents_equivalent in src/reconcile/policy.rs).                      *)
(*                                                                         *)
(* A JSON value is a record with one field that names its kind: str (which *)
(* stands for every scalar), obj (a function from field names to values)   *)
(* or arr (a sequence of values).                                          *)
(***************************************************************************)
EXTENDS Naturals, FiniteSets, Sequences
LOCAL INSTANCE Functions

CONSTANT
  Json   \* the JSON values at hand, with every value a member contains

Str(s) == [str |-> s]
Arr(items) == [arr |-> items]
Obj(fields) == [obj |-> fields]

IsObject(v) == DOMAIN v = {"obj"}
IsArray(v) == DOMAIN v = {"arr"}
HasField(v, k) == IsObject(v) /\ k \in DOMAIN v.obj

Components(v) ==
  CASE IsObject(v) -> Range(v.obj)
    [] IsArray(v)  -> Range(v.arr)
    [] OTHER       -> {}

-----------------------------------------------------------------------------
(***************************************************************************)
(* canonicalize: fields whose canonical value is empty are dropped, and    *)
(* arrays are sorted, that is, taken as bags.                              *)
(***************************************************************************)
DropsNothing(v) == FALSE   \* mutant: what the server adds counts

IsEmpty(v) == v \in {Str(""), Obj(<<>>), [bag |-> <<>>]}

BagOf(items) ==
  [v \in Range(items) |-> Cardinality({i \in DOMAIN items : items[i] = v})]

Canonicalize[v \in Json] ==
  CASE IsObject(v) ->
         LET canon == [k \in DOMAIN v.obj |-> Canonicalize[v.obj[k]]]
         IN Obj([k \in {k \in DOMAIN canon : ~IsEmpty(canon[k])} |-> canon[k]])
    [] IsArray(v) ->
         [bag |-> BagOf([i \in DOMAIN v.arr |-> Canonicalize[v.arr[i]]])]
    [] OTHER -> v

(***************************************************************************)
(* The server wraps the document it stores in metadata.                    *)
(***************************************************************************)
Unwrapped(server) ==
  IF HasField(server, "policy") /\ IsObject(server.obj["policy"])
    THEN server.obj["policy"] ELSE server

ComparesVersions(server, desired) ==   \* mutant: looks at the version only
  Unwrapped(server).obj["Version"] = desired.obj["Version"]

DocumentsEquivalent(server, desired) ==
  Canonicalize[Unwrapped(server)] = Canonicalize[desired]

-----------------------------------------------------------------------------
(***************************************************************************)
(* What the server answers for a document it was given: wrapped, with      *)
(* empty ID, Sid and Condition added where they are missing, and perhaps   *)
(* with arrays of strings in another order.                                *)
(***************************************************************************)
WithDefaults(fields, defaults) ==
  [k \in DOMAIN fields \union DOMAIN defaults |->
     IF k \in DOMAIN fields THEN fields[k] ELSE defaults[k]]

Flipped(v, flip) ==
  IF flip /\ IsArray(v)
    THEN Arr([i \in DOMAIN v.arr |-> v.arr[Len(v.arr) + 1 - i]]) ELSE v

NormalStatement(s, flip) ==
  Obj(WithDefaults([k \in DOMAIN s.obj |-> Flipped(s.obj[k], flip)],
                   [Sid |-> Str(""), Condition |-> Obj(<<>>)]))

Normalized(doc, flip) ==
  Obj(WithDefaults(
        [doc.obj EXCEPT !["Statement"] =
           Arr([i \in DOMAIN @.arr |-> NormalStatement(@.arr[i], flip)])],
        [ID |-> Str("")]))

Answers(doc) ==
  {Obj([policy_name |-> Str("p"), create_date |-> Str("t"),
        policy |-> Normalized(doc, flip)]) : flip \in BOOLEAN}

-----------------------------------------------------------------------------
(***************************************************************************)
(* What a document means: the requests it allows.  A request names its     *)
(* action, its resource and a value for every condition key.               *)
(***************************************************************************)
Listed(v) == IF IsArray(v) THEN Range(v.arr) ELSE {v}

Satisfied(condition, r) ==
  \A operator \in DOMAIN condition.obj :
    \A key \in DOMAIN condition.obj[operator].obj :
      Str(r.keys[key]) \in Listed(condition.obj[operator].obj[key])

Matches(s, r) ==
  /\ Str(r.action) \in Listed(s.obj["Action"])
  /\ Str(r.resource) \in Listed(s.obj["Resource"])
  /\ HasField(s, "Condition") => Satisfied(s.obj["Condition"], r)

Allows(doc, r) ==
  LET matching == {s \in Range(doc.obj["Statement"].arr) : Matches(s, r)}
  IN {s.obj["Effect"] : s \in matching} = {Str("Allow")}
=============================================================================
