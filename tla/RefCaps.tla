------------------------------ MODULE RefCaps ------------------------------
(***************************************************************************)
(* What the capability rules are for: a program the type checker accepts   *)
(* (libponyc/expr/operator.c, reference.c, control.c, pass/flatten.c, with *)
(* the tables of Capability) runs without data races.  A step here is an   *)
(* expression the checker accepts, run: variables are read, consumed,      *)
(* passed on and sent, fields are read and written, objects are made and   *)
(* recovered, methods are called on unique receivers, in any order.        *)
(*                                                                         *)
(* Types are nominal with a concrete capability; each var field of an      *)
(* object has a declared capability.  Variables and parameters are         *)
(* declared without ^ or !.  A method whose receiver is aliased is its     *)
(* body: its frame has no recover, so what expr_fieldref refuses directly  *)
(* inside of a recover expression the methods of the same object do.  A    *)
(* capability is asked of consume and recover by declaring the new         *)
(* variable with it (AskingIsWeaker).                                      *)
(***************************************************************************)
EXTENDS Capability, Bags

CONSTANTS
  Thread,     \* actors: each runs its behaviours alone
  Object,     \* bound: the objects that may be made
  MaxVars,    \* bound: the variables there are at a time
  Field,      \* the fields of an object
  FieldCaps,  \* the capabilities each field may be declared with
  Gaps,       \* the expressions of Gap that programs use
  Null        \* no object

(* What the rules accept although a data race can follow, each on its own: *)
(* an iso field read from a consumed trn; a field given a value of the     *)
(* type its owner sees but not of its declared type; the old value of a    *)
(* trn field kept, when a trn has been assigned to; a trn returned by a    *)
(* method whose trn receiver is recovered.                                 *)
Gap == {"consumed trn", "seen type", "old trn", "trn result"}

ASSUME RefCapsAssumption ==
  /\ IsFiniteSet(Thread) /\ IsFiniteSet(Object) /\ Null \notin Object \cup Thread
  /\ MaxVars \in Nat
  /\ FieldCaps \in [Field -> SUBSET Concrete]
  /\ Gaps \subseteq Gap

VARIABLES
  decl,      \* the declared capability of each object's fields
  field,     \* what the fields refer to
  var,       \* the variables, a bag: the actor, the object, the capability,
             \* and whether it belongs to the actor's frame (see below)
  made,      \* objects made so far
  frame      \* the recover expression, or the call of a method whose
             \* receiver is recovered, that an actor is inside of

vars == <<decl, field, var, made, frame>>

(* receiver is the capability of the receiver of a call.                   *)
Frame(t, receiver) == [by |-> t, receiver |-> receiver]
NoFrame == Frame(Null, "none")

Within(t) == frame.by = t
Recovering(t) == Within(t) /\ frame.receiver = "none"
Calling(t) == Within(t) /\ frame.receiver # "none"

Init ==
  /\ decl \in [Object -> {d \in [Field -> Concrete] : \A f \in Field : d[f] \in FieldCaps[f]}]
  /\ field = [o \in Object |-> [f \in Field |-> Null]]
  /\ var = EmptyBag
  /\ made = {}
  /\ frame = NoFrame

Variable(t, o, c, r) == [owner |-> t, obj |-> o, cap |-> c, rec |-> r]

Variables == BagToSet(var)
-----------------------------------------------------------------------------
(* Expressions: the value, its type, and the variables once evaluated.     *)
Value(o, type, v) == [obj |-> o, type |-> type, var |-> v]

\* Mutant of Usable: recover makes no difference.
UsableAnywhere(t) == {x \in Variables : x.owner = t}

(* expr_reference: inside of a recover expression a variable of the        *)
(* outside can be used if it is sendable; a method has its own variables.  *)
Usable(t) ==
  {x \in Variables : /\ x.owner = t
                     /\ Recovering(t) => x.rec \/ CapSendable(x.cap)
                     /\ Calling(t) => x.rec}

Use(x) == Value(x.obj, Type(x.cap, "none"), var)

(* expr_consume                                                            *)
Consume(x) ==
  Value(x.obj, ConsumeSingle(Type(x.cap, "none"), "none"), var (-) SetToBag({x}))

Owners(t) == {Use(x) : x \in Usable(t)} \cup {Consume(x) : x \in Usable(t)}

(* expr_fieldref: the type of the field as its owner is seen.              *)
FieldType(e, f) == CapViewUpper(e.type, Type(decl[e.obj][f], "none"))

Readable(e, f) ==
  /\ field[e.obj][f] # Null
  /\ \/ "consumed trn" \in Gaps
     \/ decl[e.obj][f] # "iso" \/ e.type # Type("trn", "ephemeral")

Reads(t) ==
  UNION {{Value(field[e.obj][f], FieldType(e, f), e.var) :
            f \in {f \in Field : Readable(e, f)}} : e \in Owners(t)}

(* A constructor's result is ref^.                                         *)
News == {Value(o, Type("ref", "ephemeral"), var) : o \in Object \ made}

Expressions(t) == {e \in Owners(t) \cup Reads(t) \cup News : e.type # NoType}

(* The alias of an expression is assigned or passed to a new variable of t.*)
Accepts(type, c) == IsCapSubCap(AliasSingle(type), Type(c, "none"))

Bound(e, t, r) ==
  {Value(e.obj, Type(c, "none"), e.var (+) SetToBag({Variable(t, e.obj, c, r)})) :
     c \in {c \in Concrete : Accepts(e.type, c)}}

(* The variables are v, and o is in use.                                   *)
Becomes(v, o) ==
  /\ BagCardinality(v) <= MaxVars
  /\ var' = v
  /\ made' = made \cup {o}
-----------------------------------------------------------------------------
(* expr_assign to a new variable, or an argument of a method.              *)
Assign(t) ==
  /\ \E b \in UNION {Bound(e, t, Within(t)) : e \in Expressions(t)} :
       Becomes(b.var, b.obj)
  /\ UNCHANGED <<decl, field, frame>>

(* An argument of a behaviour, which flatten_async makes sendable.         *)
Send(t, u) ==
  /\ t # u
  /\ \E b \in UNION {Bound(e, u, FALSE) : e \in Expressions(t)} :
       CapSendable(b.type.cap) /\ Becomes(b.var, b.obj)
  /\ UNCHANGED <<decl, field, frame>>

(* safe_to_write, for a field: the right side or the declared type can be  *)
(* written into the owner.                                                 *)
SafeToWrite(into, right, declared) ==
  \/ CapSafeToWrite(into, CapAliasing(right).cap)
  \/ CapSafeToWrite(into, declared)

(* expr_assign to the field f of x: the right side is checked against the  *)
(* type of the field as seen.                                              *)
MayStore(x, f, right) ==
  LET seen == FieldType(Use(x), f) IN
  /\ seen # NoType /\ IsCapSubCap(right, seen)
  /\ SafeToWrite(x.cap, right, decl[x.obj][f])
  /\ "seen type" \in Gaps \/ IsCapSubCap(right, Type(decl[x.obj][f], "none"))

(* The old value is the result, consumed from that type; it is dropped, or *)
(* kept in a new variable.                                                 *)
OldValue(e, x, f) ==
  Value(field[x.obj][f], ConsumeSingle(FieldType(Use(x), f), "none"), e.var)

MayKeep(x, f) ==
  /\ field[x.obj][f] # Null
  /\ "old trn" \in Gaps \/ x.cap # "trn" \/ decl[x.obj][f] # "trn"

AssignField(t) ==
  /\ \E e \in Expressions(t), x \in Usable(t), f \in Field :
       LET right == AliasSingle(e.type) IN
       /\ BagIn(x, e.var) /\ MayStore(x, f, right)
       /\ field' = [field EXCEPT ![x.obj][f] = e.obj]
       /\ \/ Becomes(e.var, e.obj)
          \/ /\ MayKeep(x, f)
             /\ \E b \in Bound(OldValue(e, x, f), t, Within(t)) :
                  Becomes(b.var, e.obj)
  /\ UNCHANGED <<decl, frame>>

(* A variable of the innermost frame goes out of scope.                    *)
Drop(x) ==
  /\ x.rec = Within(x.owner)
  /\ var' = var (-) SetToBag({x})
  /\ UNCHANGED <<decl, field, made, frame>>

StartRecover(t) ==
  /\ frame = NoFrame  \* bound: one frame at a time
  /\ frame' = Frame(t, "none")
  /\ UNCHANGED <<decl, field, var, made>>

(* The variables of a frame end with it.                                   *)
Left(v) == [x \in {x \in DOMAIN v : ~x.rec} |-> v[x]]

(* expr_recover: the result has another capability.                        *)
Recovered(e) == Value(e.obj, RecoverSingle(e.type, "none"), Left(e.var))

EndRecover(t) ==
  /\ Recovering(t)
  /\ frame' = NoFrame
  /\ \E b \in UNION {Bound(Recovered(e), t, FALSE) : e \in Expressions(t)} :
       Becomes(b.var, b.obj)
  /\ UNCHANGED <<decl, field>>

(* safe_to_autorecover: an argument or a result of this type can be        *)
(* written into the receiver.                                              *)
SafeToAutorecover(receiver, type) == CapSafeToWrite(receiver, CapAliasing(type).cap)

(* check_receiver_cap: a method of capability c is called on x, which is   *)
(* not aliased for the call though an alias would not do.                  *)
RecoversReceiver(x, c) ==
  /\ IsCapSubCap(Type(x.cap, "none"), Type(c, "none"))
  /\ ~IsCapSubCap(AliasSingle(Type(x.cap, "none")), Type(c, "none"))

(* The values of var with no argument, or with a safe one.                 *)
Arguments(t, receiver) ==
  {Value(Null, NoType, var)} \cup
  UNION {Bound(e, t, TRUE) :
           e \in {e \in Expressions(t) :
                    SafeToAutorecover(receiver, AliasSingle(e.type))}}

StartCall(t) ==
  /\ frame = NoFrame
  /\ \E x \in Usable(t), c \in {"ref", "box"} :
       /\ RecoversReceiver(x, c)
       /\ frame' = Frame(t, x.cap)
       /\ \E b \in Arguments(t, x.cap) :
            LET this == Variable(t, x.obj, c, TRUE) IN
            /\ BagIn(x, b.var)
            /\ Becomes(b.var (+) SetToBag({this}), IF b.obj = Null THEN x.obj ELSE b.obj)
  /\ UNCHANGED <<decl, field>>

(* check_return_type: the result types a body of type type may have.       *)
ResultTypes(type) ==
  {r \in {Type(c, e) : c \in Concrete, e \in {"none", "ephemeral"}} :
     IsCapSubCap(type, r) /\ IsCapSubCap(AliasSingle(type), AliasSingle(r))}

(* The result is not needed, or is safe.                                   *)
Results(t) ==
  UNION {{Value(e.obj, r, Left(e.var)) :
            r \in {r \in ResultTypes(e.type) :
                     /\ SafeToAutorecover(frame.receiver, r)
                     /\ "trn result" \in Gaps \/ r.cap # "trn"}} :
           e \in Expressions(t)}

EndCall(t) ==
  /\ Calling(t)
  /\ frame' = NoFrame
  /\ \/ var' = Left(var) /\ UNCHANGED made
     \/ \E b \in UNION {Bound(e, t, FALSE) : e \in Results(t)} : Becomes(b.var, b.obj)
  /\ UNCHANGED <<decl, field>>

Next ==
  \/ \E t \in Thread :
       \/ Assign(t) \/ AssignField(t)
       \/ StartRecover(t) \/ EndRecover(t) \/ StartCall(t) \/ EndCall(t)
  \/ \E t, u \in Thread : Send(t, u)
  \/ \E x \in Variables : Drop(x)

Spec == Init /\ [][Next]_vars
-----------------------------------------------------------------------------
(* What an actor can get at: its variables, and what it sees through them. *)
Access(t) ==
  LET start == {Use(x) : x \in {x \in Variables : x.owner = t}}
      step(P) == P \cup {e \in {Value(field[p.obj][f], FieldType(p, f), var) :
                                 p \in P, f \in Field} :
                           e.obj # Null /\ e.type # NoType}
      steps[n \in 0..Cardinality(Object)] ==
        IF n = 0 THEN start ELSE step(steps[n - 1])
  IN  steps[Cardinality(Object)]

MayRead(t) == {e.obj : e \in {e \in Access(t) : e.type.cap # "tag"}}
MayWrite(t) == {e.obj : e \in {e \in Access(t) : e.type.cap \in {"iso", "trn", "ref"}}}

(* No actor can write an object another actor can read: the alias, subtype,*)
(* viewpoint, consume, recover, call and safe-to-write rules together keep *)
(* programs free of data races.  It is of programs without the expressions *)
(* of Gap (Gaps = {}), which the checker accepts: with any of them it can  *)
(* fail, see operator.c:522 and 606, cap.c:754 and safeto.c:162.           *)
NoDataRace ==
  \A t, u \in Thread : t # u => MayWrite(t) \cap MayRead(u) = {}

(* Two variables for one object: an iso has no other that can read, a trn  *)
(* none that can write, and nothing writes what a val reads.  The caller's *)
(* variables wait for the end of a call and are looked at then.  Like      *)
(* NoDataRace, DeniesKept is of programs without the expressions of Gap.   *)
LocallyCompatible(c, d) ==
  \/ "tag" \in {c, d}
  \/ "box" \in {c, d} /\ "iso" \notin {c, d}
  \/ c = d /\ c \in {"ref", "val"}

DeniesKept ==
  \A x, y \in {x \in Variables : Calling(x.owner) => x.rec} :
    x.obj = y.obj /\ (x # y \/ var[x] > 1) => LocallyCompatible(x.cap, y.cap)

(* Facts about the tables, which no program changes: looked at before the  *)
(* first expression.                                                       *)
AtStart == made = {}

(* The tables, written by hand for eleven capabilities, agree: the rows    *)
(* for the capabilities of type parameters say what those they stand for   *)
(* imply, for every instantiation in is_cap_sub_cap, for some in           *)
(* is_cap_match_cap and is_cap_sub_cap_bound; and locally compatible       *)
(* concrete capabilities are ordered, as cap_dispatch needs.               *)
TablesAgree ==
  AtStart => SubCapOfInstances /\ PossibleForInstances /\ CompatibleIsOrdered

(* The bounds of a viewpoint-adapted type hold for every instantiation of  *)
(* owner and field (cap_view_upper, cap_view_lower).                       *)
ViewBoundsHold == AtStart => ViewsBound

(* A capability written at recover or consume never strengthens the result *)
(* (recover_single, consume_single).                                       *)
AskingIsWeaker == AtStart => AskedIsWeaker
=============================================================================
