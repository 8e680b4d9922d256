----------------------------- MODULE Capability -----------------------------
(***************************************************************************)
(* The reference capabilities of the compiler (libponyc/type/cap.c,        *)
(* alias.c, viewpoint.c): the tables that decide what may be assigned to   *)
(* what, how a field is seen through its owner, what may be sent, and what *)
(* alias, consume and recover do to a type.  A type is a record of a       *)
(* capability and an ephemerality; what else is in a type does not matter  *)
(* here.                                                                   *)
(***************************************************************************)
EXTENDS Integers, FiniteSets

(* TK_ISO .. TK_TAG, and the capabilities of a type parameter, each of     *)
(* which stands for a set of the others.                                   *)
Concrete == {"iso", "trn", "ref", "val", "box", "tag"}
Generic == {"read", "send", "share", "alias", "any"}
Cap == Concrete \cup Generic

(* TK_NONE, TK_EPHEMERAL (^) and TK_BORROWED (!)                           *)
Eph == {"none", "ephemeral", "borrowed"}

Type(c, e) == [cap |-> c, eph |-> e]

(* No type: the compiler reports an error.                                 *)
NoType == Type("none", "none")

Instances(c) ==
  CASE c = "read"  -> {"ref", "val", "box"}
    [] c = "send"  -> {"iso", "val", "tag"}
    [] c = "share" -> {"val", "tag"}
    [] c = "alias" -> {"ref", "val", "box", "tag"}
    [] c = "any"   -> Concrete
    [] OTHER       -> {c}
-----------------------------------------------------------------------------
AliasOf == [iso |-> "tag", trn |-> "box", send |-> "share", any |-> "alias"]

(* cap_aliasing                                                            *)
CapAliasing(t) ==
  CASE t.eph = "borrowed" ->
         Type(IF t.cap \in DOMAIN AliasOf THEN AliasOf[t.cap] ELSE t.cap, "none")
    [] t.eph = "ephemeral" /\ t.cap \notin DOMAIN AliasOf -> Type(t.cap, "none")
    [] OTHER -> t

SubCapTable ==
  [iso   |-> {"trn", "ref", "val", "box"} \cup Generic,
   trn   |-> {"ref", "val", "box", "read", "share", "alias"},
   ref   |-> {"box"},
   val   |-> {"box", "share"},
   box   |-> {},
   tag   |-> {},
   read  |-> {"box"},
   send  |-> {}, share |-> {}, alias |-> {}, any |-> {}]

EphemeralEnough(sub, super) == super.eph = "ephemeral" => sub.eph = "ephemeral"

(* is_cap_sub_cap_bound                                                    *)
SubCapBoundTable ==
  [SubCapTable EXCEPT
     !.send = SubCapTable.iso \cup {"iso"}, !.any = SubCapTable.iso \cup {"iso"},
     !.share = {"box"},
     !.read = {"ref", "val", "box", "alias"},
     !.alias = {"ref", "val", "box", "read"}]

IsCapSubCapBound(t, u) ==
  LET sub == CapAliasing(t)
      super == CapAliasing(u)
  IN  /\ EphemeralEnough(sub, super)
      /\ \/ super.cap \in {sub.cap, "tag"}
         \/ super.cap \in SubCapBoundTable[sub.cap]

(* is_cap_sub_cap, without the capabilities that only bind constraints.    *)
IsCapSubCap(t, u) ==
  LET sub == CapAliasing(t)
      super == CapAliasing(u)
  IN  /\ EphemeralEnough(sub, super)
      /\ \/ super.cap \in {sub.cap, "tag"}
         \/ super.cap \in SubCapTable[sub.cap]

\* Mutant of IsCapMatchCap: operand and pattern are swapped.
IsCapMatchCapSwapped(t, u) == IsCapSubCap(u, t)

(* is_cap_match_cap                                                        *)
MatchTable ==
  [iso   |-> Cap, send |-> Cap, any |-> Cap,
   trn   |-> {"ref", "val", "box"} \cup Generic,
   ref   |-> {"box"} \cup Generic,
   val   |-> {"box"} \cup Generic, share |-> {"box"} \cup Generic,
   box   |-> Generic,
   tag   |-> Generic \ {"read"},
   read  |-> {"ref", "val", "box"} \cup Generic,
   alias |-> {"ref", "val", "box"} \cup (Generic \ {"read"})]

IsCapMatchCap(t, u) ==
  LET operand == CapAliasing(t)
      pattern == CapAliasing(u)
  IN  /\ EphemeralEnough(operand, pattern)
      /\ \/ pattern.cap \in {operand.cap, "tag"}
         \/ pattern.cap \in MatchTable[operand.cap]

(* is_cap_compat_cap                                                       *)
CompatTable ==
  [iso   |-> {"iso"},
   trn   |-> {"trn", "box"},
   ref   |-> {"ref", "box"},
   val   |-> {"val", "box", "share"},
   box   |-> {"trn", "ref", "val", "box", "read", "alias"},
   tag   |-> {},
   read  |-> {"box", "alias"},
   alias |-> {"box", "read"},
   send  |-> {},
   share |-> {"val", "box", "share", "alias"},
   any   |-> {}]

IsCapCompatCap(t, u) ==
  LET left == CapAliasing(t).cap
      right == CapAliasing(u).cap
  IN  "tag" \in {left, right} \/ right \in CompatTable[left]
-----------------------------------------------------------------------------
(* An owner that is ephemeral gives up what it owns.                       *)
GivenUp(l, r) ==
  IF l.eph = "ephemeral" THEN Type(r.cap, "ephemeral") ELSE r

Opaque == {"tag", "send", "share", "alias", "any"}

(* cap_view_upper: a field of type f, seen through an owner of type o.     *)
CapViewUpper(o, f) ==
  LET l == CapAliasing(o)
      r == CapAliasing(f)
      seen(c) == Type(c, "none")
  IN
  CASE l.cap \in Opaque -> NoType
    [] l.cap \notin Opaque /\ (r.cap = "tag" \/ l.cap = "ref") -> r
    [] l.cap = "iso" /\ r.cap # "tag" ->
         CASE r.cap \in {"iso", "send"} -> GivenUp(l, r)
           [] r.cap \in {"val", "share"} -> r
           [] OTHER -> seen("tag")
    [] l.cap = "trn" /\ r.cap # "tag" ->
         CASE r.cap \in {"iso", "trn", "send"} -> GivenUp(l, r)
           [] r.cap \in {"val", "share"} -> r
           [] r.cap \in {"alias", "any"} -> seen("tag")
           [] OTHER -> seen("box")
    [] l.cap = "val" /\ r.cap # "tag" ->
         seen(IF r.cap \in {"send", "share", "alias", "any"} THEN "share" ELSE "val")
    [] l.cap \in {"box", "read"} /\ r.cap # "tag" ->
         CASE r.cap \in {"iso", "send", "alias", "any"} -> seen("tag")
           [] r.cap \in {"val", "share"} -> seen(r.cap)
           [] OTHER -> seen("box")

\* Mutant of CapViewLower: the upper bound is returned.
CapViewLowerAsUpper(o, f) == CapViewUpper(o, f)

(* cap_view_lower                                                          *)
CapViewLower(o, f) ==
  LET l == CapAliasing(o)
      r == CapAliasing(f)
      seen(c) == Type(c, "none")
  IN
  CASE l.cap \in Opaque -> NoType
    [] l.cap \notin Opaque /\ (r.cap = "tag" \/ l.cap = "ref") -> r
    [] l.cap = "iso" /\ r.cap # "tag" ->
         CASE r.cap \in {"iso", "send"} -> GivenUp(l, r)
           [] r.cap \in {"val", "share"} -> r
           [] r.cap \in {"read", "alias", "any"} -> GivenUp(l, Type("send", r.eph))
           [] OTHER -> seen("tag")
    [] l.cap = "trn" /\ r.cap # "tag" ->
         CASE r.cap \in {"iso", "trn", "send"} -> GivenUp(l, r)
           [] r.cap \in {"val", "share"} -> r
           [] r.cap \in {"read", "alias"} -> seen("val")
           [] r.cap = "any" -> GivenUp(l, Type("iso", r.eph))
           [] OTHER -> seen("box")
    [] l.cap = "val" /\ r.cap # "tag" ->
         seen(IF r.cap \in {"send", "share", "alias", "any"} THEN "share" ELSE "val")
    [] l.cap = "box" /\ r.cap # "tag" ->
         CASE r.cap = "iso" -> seen("tag")
           [] r.cap \in {"val", "share"} -> seen(r.cap)
           [] r.cap = "send" -> seen("share")
           [] r.cap \in {"read", "alias", "any"} -> seen("val")
           [] OTHER -> seen("box")
    [] l.cap = "read" /\ r.cap # "tag" ->
         CASE r.cap = "iso" -> Type("send", r.eph)
           [] r.cap = "ref" -> Type("read", r.eph)
           [] r.cap = "box" -> Type("val", r.eph)
           [] OTHER -> r
-----------------------------------------------------------------------------
\* Mutant of CapSendable: what can only be read may be sent.
CapSendableBox(c) == c \in {"iso", "val", "box", "tag", "send", "share"}

(* cap_sendable                                                            *)
CapSendable(c) == c \in {"iso", "val", "tag", "send", "share"}

(* cap_safetowrite: c may be stored in an object known as into.            *)
CapSafeToWrite(into, c) ==
  \/ into = "ref"
  \/ into = "iso" /\ CapSendable(c)
  \/ into = "trn" /\ (CapSendable(c) \/ c = "trn")

(* alias_single                                                            *)
AliasSingle(t) ==
  CASE t.eph = "ephemeral" -> Type(t.cap, "none")
    [] t.eph = "none" /\ t.cap \in DOMAIN AliasOf -> Type(t.cap, "borrowed")
    [] OTHER -> t

(* consume_single, with the capability asked for, "none", or "borrowed",   *)
(* which undoes an alias.                                                  *)
ConsumeSingle(t, asked) ==
  LET c == IF asked \in {"none", "borrowed"} THEN t.cap ELSE asked
      eph == CASE t.eph = "none" -> "ephemeral"
               [] t.eph = "borrowed" /\ asked = "borrowed" -> "none"
               [] OTHER -> t.eph
  IN  IF IsCapSubCap(Type(t.cap, "none"), Type(c, "none"))
      THEN Type(c, eph) ELSE NoType

(* What a capability recovers to, and what else may be asked for.          *)
RecoversTo(c) ==
  CASE c \in {"iso", "trn", "ref"} -> "iso"
    [] c \in {"val", "box", "read"} -> "val"
    [] OTHER -> c

\* Mutant of MayRecover: what recovers as val may be asked to be ref.
MayRecoverRef(t, c) == c \in {"iso", "ref", "val", "box", "tag", "share", t.cap}

MayRecover(t, c) ==
  CASE t.cap = "iso" -> t.eph = "ephemeral" \/ c \in {"iso", "tag"}
    [] t.cap \in {"trn", "ref"} -> TRUE
    [] t.cap \in {"val", "box", "read"} -> c \in {"val", "box", "tag", "share"}
    [] OTHER -> c \in {"tag", t.cap}

(* recover_single, with the capability asked for, or "none".               *)
RecoverSingle(t, asked) ==
  LET c == IF asked = "none" THEN RecoversTo(t.cap) ELSE asked
  IN  IF MayRecover(t, c)
      THEN Type(c, IF t.cap \in {"trn", "ref"} THEN "ephemeral" ELSE t.eph)
      ELSE NoType
-----------------------------------------------------------------------------
Plain(c) == Type(c, "none")

(* cap.h, "Every possible instantiation of sub is a subtype of every       *)
(* possible instantiation of super": between different capabilities the    *)
(* rows of is_cap_sub_cap for type parameters say exactly what the rows    *)
(* for concrete capabilities imply.                                        *)
SubCapOfInstances ==
  \A c \in Cap : \A d \in Cap \ {c} :
    IsCapSubCap(Plain(c), Plain(d)) <=>
      \A i \in Instances(c), j \in Instances(d) : IsCapSubCap(Plain(i), Plain(j))

(* is_cap_match_cap and is_cap_sub_cap_bound accept nothing that no        *)
(* instantiation bears out: a match some instantiations of operand and     *)
(* pattern make a subtype, a subtype of the same bound every instantiation *)
(* of super has one of sub below it.                                       *)
PossibleForInstances ==
  \A c, d \in Cap :
    LET below(j) == \E i \in Instances(c) : IsCapSubCap(Plain(i), Plain(j)) IN
    /\ IsCapMatchCap(Plain(c), Plain(d)) => \E j \in Instances(d) : below(j)
    /\ IsCapSubCapBound(Plain(c), Plain(d)) => \A j \in Instances(d) : below(j)

(* cap_dispatch takes the most specific capability of an intersection,     *)
(* "Because all capabilities will be locally compatible, there is a        *)
(* subtype relationship" (cap.c:662), and cap.h calls is_cap_compat_cap    *)
(* symmetric: both hold for concrete capabilities.                         *)
CompatibleIsOrdered ==
  \A c, d \in Concrete :
    IsCapCompatCap(Plain(c), Plain(d)) =>
      /\ IsCapCompatCap(Plain(d), Plain(c))
      /\ IsCapSubCap(Plain(c), Plain(d)) \/ IsCapSubCap(Plain(d), Plain(c))

(* The bounds cap_view_upper and cap_view_lower give a field of a generic  *)
(* type, or one seen through a generic owner, hold for every instantiation *)
(* of owner and field, ephemeral owners included.                          *)
ViewsBound ==
  \A c \in Cap \ Opaque, e \in {"none", "ephemeral"}, f \in Cap :
    LET upper == CapViewUpper(Type(c, e), Plain(f))
        lower == CapViewLower(Type(c, e), Plain(f))
    IN  /\ IsCapSubCap(lower, upper)
        /\ \A i \in Instances(c), j \in Instances(f) :
             LET seen == CapViewUpper(Type(i, e), Plain(j)) IN
             /\ \E u \in Instances(upper.cap) : IsCapSubCap(seen, Type(u, upper.eph))
             /\ \E l \in Instances(lower.cap) : IsCapSubCap(Type(l, lower.eph), seen)

(* The capability written at a recover, or at the consume of a variable    *)
(* that is not borrowed, only weakens what the expression would have been  *)
(* without it (alias.c).  For a borrowed one this fails: consume ref of an *)
(* iso! is a ref.                                                          *)
AskedIsWeaker ==
  \A c, asked \in Cap, e \in Eph :
    LET t == Type(c, e)
        weaker(new, default) == new # NoType => IsCapSubCap(default, new)
    IN  /\ weaker(RecoverSingle(t, asked), RecoverSingle(t, "none"))
        /\ e # "borrowed" =>
             weaker(ConsumeSingle(t, asked), ConsumeSingle(t, "none"))
=============================================================================
