--------------------------- MODULE RefCapsProofs ---------------------------
(***************************************************************************)
(* Proofs about the capability tables (Capability) and about the programs  *)
(* they accept (RefCaps), for any numbers of actors, objects, fields and   *)
(* variables.                                                              *)
(*                                                                         *)
(* The tables are looked at row by row.  For the programs, a state is a    *)
(* graph: objects are nodes, so is every actor and the frame, and variables*)
(* and fields are references between them.  The invariant, Regions, says   *)
(* that the live nodes can be divided into regions so that an iso or a trn *)
(* is the only one of its kind into a region, a ref stays within its       *)
(* region, and a box looks into its own region or one that hangs below it  *)
(* by a trn.  Frozen nodes (val) belong to nobody.  Actors are regions that*)
(* nobody sees into, so that two actors get at disjoint sets of regions,   *)
(* and whatever both can read is frozen.                                   *)
(*                                                                         *)
(* First the tables, then what can be done to a graph that is divided into *)
(* regions, then the expressions and steps of RefCaps in these terms.      *)
(***************************************************************************)
EXTENDS RefCaps, FiniteSetTheorems, TLAPS

-----------------------------------------------------------------------------
(* The tables. *)

(* A type that is not borrowed or ephemeral is its own alias.              *)
LEMMA PlainAliasing == ASSUME NEW c PROVE CapAliasing(Plain(c)) = Plain(c)
  BY DEF CapAliasing, Plain, Type

(* is_cap_sub_cap between two such types is a look at the table.           *)
LEMMA PlainSubCap ==
  ASSUME NEW c, NEW d
  PROVE  IsCapSubCap(Plain(c), Plain(d)) <=>
           d = c \/ d = "tag" \/ d \in SubCapTable[c]
  <1>1. Plain(c).eph = "none" /\ Plain(d).eph = "none" /\ Plain(c).cap = c /\ Plain(d).cap = d
    BY DEF Plain, Type
  <1> QED
    BY <1>1, PlainAliasing DEF IsCapSubCap, EphemeralEnough

(* The rows of the table.                                                  *)
LEMMA SubCapRows ==
  /\ SubCapTable["iso"] = {"trn", "ref", "val", "box"} \cup Generic
  /\ SubCapTable["trn"] = {"ref", "val", "box", "read", "share", "alias"}
  /\ SubCapTable["ref"] = {"box"}
  /\ SubCapTable["val"] = {"box", "share"}
  /\ SubCapTable["box"] = {}
  /\ SubCapTable["tag"] = {}
  /\ SubCapTable["read"] = {"box"}
  /\ SubCapTable["send"] = {}
  /\ SubCapTable["share"] = {}
  /\ SubCapTable["alias"] = {}
  /\ SubCapTable["any"] = {}
  BY DEF SubCapTable

(* What a capability stands for.                                           *)
LEMMA InstancesOf ==
  /\ Instances("read") = {"ref", "val", "box"}
  /\ Instances("send") = {"iso", "val", "tag"}
  /\ Instances("share") = {"val", "tag"}
  /\ Instances("alias") = {"ref", "val", "box", "tag"}
  /\ Instances("any") = Concrete
  /\ \A c \in Concrete : Instances(c) = {c}
  BY DEF Instances, Concrete

(* A row of is_cap_sub_cap for a capability of type parameters says what   *)
(* every pair of capabilities they stand for says.                         *)
LEMMA SubCapOfInstancesHolds == SubCapOfInstances
  <1> SUFFICES ASSUME NEW c \in Cap, NEW d \in Cap \ {c}
               PROVE  IsCapSubCap(Plain(c), Plain(d)) <=>
                        \A i \in Instances(c), j \in Instances(d) :
                          IsCapSubCap(Plain(i), Plain(j))
    BY DEF SubCapOfInstances
  <1>1. CASE c \in Concrete /\ d \in Concrete
    BY <1>1, InstancesOf
  <1>2. CASE c = "iso"
    BY <1>2, InstancesOf, SubCapRows, PlainSubCap DEF Cap, Concrete, Generic
  <1>3. CASE c = "trn"
    BY <1>3, InstancesOf, SubCapRows, PlainSubCap DEF Cap, Concrete, Generic
  <1>4. CASE c = "ref"
    BY <1>4, InstancesOf, SubCapRows, PlainSubCap DEF Cap, Concrete, Generic
  <1>5. CASE c = "val"
    BY <1>5, InstancesOf, SubCapRows, PlainSubCap DEF Cap, Concrete, Generic
  <1>6. CASE c = "box"
    BY <1>6, InstancesOf, SubCapRows, PlainSubCap DEF Cap, Concrete, Generic
  <1>7. CASE c = "tag"
    BY <1>7, InstancesOf, SubCapRows, PlainSubCap DEF Cap, Concrete, Generic
  <1>8. CASE c = "read"
    BY <1>8, InstancesOf, SubCapRows, PlainSubCap DEF Cap, Concrete, Generic
  <1>9. CASE c = "send"
    BY <1>9, InstancesOf, SubCapRows, PlainSubCap DEF Cap, Concrete, Generic
  <1>10. CASE c = "share"
    BY <1>10, InstancesOf, SubCapRows, PlainSubCap DEF Cap, Concrete, Generic
  <1>11. CASE c = "alias"
    BY <1>11, InstancesOf, SubCapRows, PlainSubCap DEF Cap, Concrete, Generic
  <1>12. CASE c = "any"
    BY <1>12, InstancesOf, SubCapRows, PlainSubCap DEF Cap, Concrete, Generic
  <1> QED
    BY <1>2, <1>3, <1>4, <1>5, <1>6, <1>7, <1>8, <1>9, <1>10, <1>11, <1>12 DEF Cap, Concrete, Generic

(* is_cap_match_cap and is_cap_sub_cap_bound between plain types.           *)
LEMMA PlainMatchCap ==
  ASSUME NEW c, NEW d
  PROVE  IsCapMatchCap(Plain(c), Plain(d)) <=>
           d = c \/ d = "tag" \/ d \in MatchTable[c]
  <1>1. /\ Plain(c).eph = "none" /\ Plain(d).eph = "none"
        /\ Plain(c).cap = c /\ Plain(d).cap = d
    BY DEF Plain, Type
  <1> QED
    BY <1>1, PlainAliasing DEF IsCapMatchCap, EphemeralEnough

(* The same for is_cap_sub_cap_bound.                                      *)
LEMMA PlainSubCapBound ==
  ASSUME NEW c, NEW d
  PROVE  IsCapSubCapBound(Plain(c), Plain(d)) <=>
           d = c \/ d = "tag" \/ d \in SubCapBoundTable[c]
  <1>1. /\ Plain(c).eph = "none" /\ Plain(d).eph = "none"
        /\ Plain(c).cap = c /\ Plain(d).cap = d
    BY DEF Plain, Type
  <1> QED
    BY <1>1, PlainAliasing DEF IsCapSubCapBound, EphemeralEnough

(* The same for is_cap_compat_cap.                                         *)
LEMMA PlainCompatCap ==
  ASSUME NEW c, NEW d
  PROVE  IsCapCompatCap(Plain(c), Plain(d)) <=>
           c = "tag" \/ d = "tag" \/ d \in CompatTable[c]
  <1>1. Plain(c).cap = c /\ Plain(d).cap = d
    BY DEF Plain, Type
  <1> QED
    BY <1>1, PlainAliasing DEF IsCapCompatCap

(* The rows of the table of is_cap_sub_cap_bound.                          *)
LEMMA BoundRows ==
  /\ SubCapBoundTable["iso"] = {"trn", "ref", "val", "box"} \cup Generic
  /\ SubCapBoundTable["trn"] = {"ref", "val", "box", "read", "share", "alias"}
  /\ SubCapBoundTable["ref"] = {"box"}
  /\ SubCapBoundTable["val"] = {"box", "share"}
  /\ SubCapBoundTable["box"] = {}
  /\ SubCapBoundTable["tag"] = {}
  /\ SubCapBoundTable["read"] = {"ref", "val", "box", "alias"}
  /\ SubCapBoundTable["send"] = {"trn", "ref", "val", "box"} \cup Generic \cup {"iso"}
  /\ SubCapBoundTable["share"] = {"box"}
  /\ SubCapBoundTable["alias"] = {"ref", "val", "box", "read"}
  /\ SubCapBoundTable["any"] = {"trn", "ref", "val", "box"} \cup Generic \cup {"iso"}
  BY DEF SubCapBoundTable, SubCapTable

(* The rows of the table of is_cap_match_cap.                              *)
LEMMA MatchRows ==
  /\ MatchTable["iso"] = Cap /\ MatchTable["send"] = Cap /\ MatchTable["any"] = Cap
  /\ MatchTable["trn"] = {"ref", "val", "box"} \cup Generic
  /\ MatchTable["ref"] = {"box"} \cup Generic
  /\ MatchTable["val"] = {"box"} \cup Generic
  /\ MatchTable["share"] = {"box"} \cup Generic
  /\ MatchTable["box"] = Generic
  /\ MatchTable["tag"] = Generic \ {"read"}
  /\ MatchTable["read"] = {"ref", "val", "box"} \cup Generic
  /\ MatchTable["alias"] = {"ref", "val", "box"} \cup (Generic \ {"read"})
  BY DEF MatchTable

(* The rows of is_cap_compat_cap, for concrete capabilities.               *)
LEMMA CompatRows ==
  /\ CompatTable["iso"] = {"iso"}
  /\ CompatTable["trn"] = {"trn", "box"}
  /\ CompatTable["ref"] = {"ref", "box"}
  /\ CompatTable["val"] = {"val", "box", "share"}
  /\ CompatTable["box"] = {"trn", "ref", "val", "box", "read", "alias"}
  /\ CompatTable["tag"] = {}
  BY DEF CompatTable

(* Locally compatible concrete capabilities are ordered, as cap_dispatch   *)
(* relies on.                                                              *)
LEMMA CompatibleIsOrderedHolds == CompatibleIsOrdered
  BY PlainCompatCap, PlainSubCap, CompatRows, SubCapRows
     DEF CompatibleIsOrdered, Concrete, Generic

(* The rows of is_cap_match_cap and is_cap_sub_cap_bound say yes when some *)
(* pair of capabilities they stand for says yes.                           *)
LEMMA PossibleForInstancesHolds == PossibleForInstances
  <1> DEFINE below(c, j) == \E i \in Instances(c) : IsCapSubCap(Plain(i), Plain(j))
  <1> SUFFICES ASSUME NEW c \in Cap, NEW d \in Cap
               PROVE  /\ IsCapMatchCap(Plain(c), Plain(d)) => \E j \in Instances(d) : below(c, j)
                      /\ IsCapSubCapBound(Plain(c), Plain(d)) => \A j \in Instances(d) : below(c, j)
    BY DEF PossibleForInstances
  <1>1. CASE c = "iso"
    BY <1>1, InstancesOf, SubCapRows, MatchRows, BoundRows, PlainSubCap, PlainMatchCap,
       PlainSubCapBound DEF Cap, Concrete, Generic
  <1>2. CASE c = "trn"
    BY <1>2, InstancesOf, SubCapRows, MatchRows, BoundRows, PlainSubCap, PlainMatchCap,
       PlainSubCapBound DEF Cap, Concrete, Generic
  <1>3. CASE c = "ref"
    BY <1>3, InstancesOf, SubCapRows, MatchRows, BoundRows, PlainSubCap, PlainMatchCap,
       PlainSubCapBound DEF Cap, Concrete, Generic
  <1>4. CASE c = "val"
    BY <1>4, InstancesOf, SubCapRows, MatchRows, BoundRows, PlainSubCap, PlainMatchCap,
       PlainSubCapBound DEF Cap, Concrete, Generic
  <1>5. CASE c = "box"
    BY <1>5, InstancesOf, SubCapRows, MatchRows, BoundRows, PlainSubCap, PlainMatchCap,
       PlainSubCapBound DEF Cap, Concrete, Generic
  <1>6. CASE c = "tag"
    BY <1>6, InstancesOf, SubCapRows, MatchRows, BoundRows, PlainSubCap, PlainMatchCap,
       PlainSubCapBound DEF Cap, Concrete, Generic
  <1>7. CASE c = "read"
    BY <1>7, InstancesOf, SubCapRows, MatchRows, BoundRows, PlainSubCap, PlainMatchCap,
       PlainSubCapBound DEF Cap, Concrete, Generic
  <1>8. CASE c = "send"
    BY <1>8, InstancesOf, SubCapRows, MatchRows, BoundRows, PlainSubCap, PlainMatchCap,
       PlainSubCapBound DEF Cap, Concrete, Generic
  <1>9. CASE c = "share"
    BY <1>9, InstancesOf, SubCapRows, MatchRows, BoundRows, PlainSubCap, PlainMatchCap,
       PlainSubCapBound DEF Cap, Concrete, Generic
  <1>10. CASE c = "alias"
    BY <1>10, InstancesOf, SubCapRows, MatchRows, BoundRows, PlainSubCap, PlainMatchCap,
       PlainSubCapBound DEF Cap, Concrete, Generic
  <1>11. CASE c = "any"
    BY <1>11, InstancesOf, SubCapRows, MatchRows, BoundRows, PlainSubCap, PlainMatchCap,
       PlainSubCapBound DEF Cap, Concrete, Generic
  <1> QED
    BY <1>1, <1>2, <1>3, <1>4, <1>5, <1>6, <1>7, <1>8, <1>9, <1>10, <1>11 DEF Cap, Concrete, Generic

(* What an ephemerality comes to: only iso, trn, send and any keep ^.      *)
Kept(c, e) == IF c \in {"iso", "trn", "send", "any"} THEN e ELSE "none"

(* The alias of a type that is not borrowed: only unique capabilities stay *)
(* ephemeral.                                                              *)
LEMMA AliasingOf ==
  ASSUME NEW c, NEW e \in {"none", "ephemeral"}
  PROVE  CapAliasing(Type(c, e)) = Type(c, Kept(c, e))
  <1>1. DOMAIN AliasOf = {"iso", "trn", "send", "any"}
    BY DEF AliasOf
  <1>2. Type(c, e).eph = e /\ Type(c, e).cap = c
    BY DEF Type
  <1> QED
    BY <1>1, <1>2 DEF CapAliasing, Kept

(* is_cap_sub_cap between types that are not borrowed, with the            *)
(* ephemerality.                                                           *)
LEMMA SubCapOf ==
  ASSUME NEW c, NEW d, NEW e \in {"none", "ephemeral"}, NEW g \in {"none", "ephemeral"}
  PROVE  IsCapSubCap(Type(c, e), Type(d, g)) <=>
           /\ Kept(d, g) = "ephemeral" => Kept(c, e) = "ephemeral"
           /\ d = c \/ d = "tag" \/ d \in SubCapTable[c]
  <1>1. /\ Type(c, Kept(c, e)).cap = c /\ Type(d, Kept(d, g)).cap = d
        /\ Type(c, Kept(c, e)).eph = Kept(c, e) /\ Type(d, Kept(d, g)).eph = Kept(d, g)
    BY DEF Type
  <1> QED
    BY <1>1, AliasingOf DEF IsCapSubCap, EphemeralEnough

(* cap_view_upper for an iso owner, row by row.                            *)
LEMMA UpperOfIso ==
  ASSUME NEW e \in {"none", "ephemeral"}, NEW f \in Cap
  PROVE  CapViewUpper(Type("iso", e), Plain(f)) =
           IF f \in {"iso", "send"} THEN Type(f, e)
           ELSE IF f \in {"val", "share"} THEN Plain(f)
           ELSE Plain("tag")
  <1>1. CapAliasing(Type("iso", e)) = Type("iso", Kept("iso", e)) /\ CapAliasing(Plain(f)) = Plain(f)
    BY AliasingOf, PlainAliasing
  <1> QED
    BY <1>1 DEF CapViewUpper, Kept, Opaque, GivenUp, Type, Plain, Cap, Concrete, Generic

(* cap_view_upper for a trn owner.                                         *)
LEMMA UpperOfTrn ==
  ASSUME NEW e \in {"none", "ephemeral"}, NEW f \in Cap
  PROVE  CapViewUpper(Type("trn", e), Plain(f)) =
           IF f \in {"iso", "trn", "send"} THEN Type(f, e)
           ELSE IF f \in {"val", "share"} THEN Plain(f)
           ELSE IF f \in {"alias", "any", "tag"} THEN Plain("tag")
           ELSE Plain("box")
  <1>1. CapAliasing(Type("trn", e)) = Type("trn", Kept("trn", e)) /\ CapAliasing(Plain(f)) = Plain(f)
    BY AliasingOf, PlainAliasing
  <1> QED
    BY <1>1 DEF CapViewUpper, Kept, Opaque, GivenUp, Type, Plain, Cap, Concrete, Generic

(* cap_view_upper for a ref owner: the field is seen as declared.          *)
LEMMA UpperOfRef ==
  ASSUME NEW e \in {"none", "ephemeral"}, NEW f \in Cap
  PROVE  CapViewUpper(Type("ref", e), Plain(f)) =
           Plain(f)
  <1>1. CapAliasing(Type("ref", e)) = Type("ref", Kept("ref", e)) /\ CapAliasing(Plain(f)) = Plain(f)
    BY AliasingOf, PlainAliasing
  <1> QED
    BY <1>1 DEF CapViewUpper, Kept, Opaque, GivenUp, Type, Plain, Cap, Concrete, Generic

(* cap_view_upper for a val owner.                                         *)
LEMMA UpperOfVal ==
  ASSUME NEW e \in {"none", "ephemeral"}, NEW f \in Cap
  PROVE  CapViewUpper(Type("val", e), Plain(f)) =
           IF f \in {"send", "share", "alias", "any"} THEN Plain("share")
           ELSE IF f = "tag" THEN Plain("tag")
           ELSE Plain("val")
  <1>1. CapAliasing(Type("val", e)) = Type("val", Kept("val", e)) /\ CapAliasing(Plain(f)) = Plain(f)
    BY AliasingOf, PlainAliasing
  <1> QED
    BY <1>1 DEF CapViewUpper, Kept, Opaque, GivenUp, Type, Plain, Cap, Concrete, Generic

(* cap_view_upper for a box owner.                                         *)
LEMMA UpperOfBox ==
  ASSUME NEW e \in {"none", "ephemeral"}, NEW f \in Cap
  PROVE  CapViewUpper(Type("box", e), Plain(f)) =
           IF f \in {"iso", "send", "alias", "any", "tag"} THEN Plain("tag")
           ELSE IF f \in {"val", "share"} THEN Plain(f)
           ELSE Plain("box")
  <1>1. CapAliasing(Type("box", e)) = Type("box", Kept("box", e)) /\ CapAliasing(Plain(f)) = Plain(f)
    BY AliasingOf, PlainAliasing
  <1> QED
    BY <1>1 DEF CapViewUpper, Kept, Opaque, GivenUp, Type, Plain, Cap, Concrete, Generic

(* cap_view_upper for an owner of the generic capability #read.            *)
LEMMA UpperOfRead ==
  ASSUME NEW e \in {"none", "ephemeral"}, NEW f \in Cap
  PROVE  CapViewUpper(Type("read", e), Plain(f)) =
           IF f \in {"iso", "send", "alias", "any", "tag"} THEN Plain("tag")
           ELSE IF f \in {"val", "share"} THEN Plain(f)
           ELSE Plain("box")
  <1>1. CapAliasing(Type("read", e)) = Type("read", Kept("read", e)) /\ CapAliasing(Plain(f)) = Plain(f)
    BY AliasingOf, PlainAliasing
  <1> QED
    BY <1>1 DEF CapViewUpper, Kept, Opaque, GivenUp, Type, Plain, Cap, Concrete, Generic

(* cap_view_lower for an iso owner, row by row.                            *)
LEMMA LowerOfIso ==
  ASSUME NEW e \in {"none", "ephemeral"}, NEW f \in Cap
  PROVE  CapViewLower(Type("iso", e), Plain(f)) =
           IF f \in {"iso", "send"} THEN Type(f, e)
           ELSE IF f \in {"val", "share"} THEN Plain(f)
           ELSE IF f \in {"read", "alias", "any"} THEN Type("send", e)
           ELSE Plain("tag")
  <1>1. CapAliasing(Type("iso", e)) = Type("iso", Kept("iso", e)) /\ CapAliasing(Plain(f)) = Plain(f)
    BY AliasingOf, PlainAliasing
  <1> QED
    BY <1>1 DEF CapViewLower, Kept, Opaque, GivenUp, Type, Plain, Cap, Concrete, Generic

(* cap_view_lower for a trn owner.                                         *)
LEMMA LowerOfTrn ==
  ASSUME NEW e \in {"none", "ephemeral"}, NEW f \in Cap
  PROVE  CapViewLower(Type("trn", e), Plain(f)) =
           IF f \in {"iso", "trn", "send"} THEN Type(f, e)
           ELSE IF f \in {"val", "share"} THEN Plain(f)
           ELSE IF f \in {"read", "alias"} THEN Plain("val")
           ELSE IF f = "any" THEN Type("iso", e)
           ELSE IF f = "tag" THEN Plain("tag")
           ELSE Plain("box")
  <1>1. CapAliasing(Type("trn", e)) = Type("trn", Kept("trn", e)) /\ CapAliasing(Plain(f)) = Plain(f)
    BY AliasingOf, PlainAliasing
  <1> QED
    BY <1>1 DEF CapViewLower, Kept, Opaque, GivenUp, Type, Plain, Cap, Concrete, Generic

(* cap_view_lower for a ref owner.                                         *)
LEMMA LowerOfRef ==
  ASSUME NEW e \in {"none", "ephemeral"}, NEW f \in Cap
  PROVE  CapViewLower(Type("ref", e), Plain(f)) =
           Plain(f)
  <1>1. CapAliasing(Type("ref", e)) = Type("ref", Kept("ref", e)) /\ CapAliasing(Plain(f)) = Plain(f)
    BY AliasingOf, PlainAliasing
  <1> QED
    BY <1>1 DEF CapViewLower, Kept, Opaque, GivenUp, Type, Plain, Cap, Concrete, Generic

(* cap_view_lower for a val owner.                                         *)
LEMMA LowerOfVal ==
  ASSUME NEW e \in {"none", "ephemeral"}, NEW f \in Cap
  PROVE  CapViewLower(Type("val", e), Plain(f)) =
           IF f \in {"send", "share", "alias", "any"} THEN Plain("share")
           ELSE IF f = "tag" THEN Plain("tag")
           ELSE Plain("val")
  <1>1. CapAliasing(Type("val", e)) = Type("val", Kept("val", e)) /\ CapAliasing(Plain(f)) = Plain(f)
    BY AliasingOf, PlainAliasing
  <1> QED
    BY <1>1 DEF CapViewLower, Kept, Opaque, GivenUp, Type, Plain, Cap, Concrete, Generic

(* cap_view_lower for a box owner.                                         *)
LEMMA LowerOfBox ==
  ASSUME NEW e \in {"none", "ephemeral"}, NEW f \in Cap
  PROVE  CapViewLower(Type("box", e), Plain(f)) =
           IF f \in {"iso", "tag"} THEN Plain("tag")
           ELSE IF f \in {"val", "share"} THEN Plain(f)
           ELSE IF f = "send" THEN Plain("share")
           ELSE IF f \in {"read", "alias", "any"} THEN Plain("val")
           ELSE Plain("box")
  <1>1. CapAliasing(Type("box", e)) = Type("box", Kept("box", e)) /\ CapAliasing(Plain(f)) = Plain(f)
    BY AliasingOf, PlainAliasing
  <1> QED
    BY <1>1 DEF CapViewLower, Kept, Opaque, GivenUp, Type, Plain, Cap, Concrete, Generic

(* cap_view_lower for an owner of the generic capability #read.            *)
LEMMA LowerOfRead ==
  ASSUME NEW e \in {"none", "ephemeral"}, NEW f \in Cap
  PROVE  CapViewLower(Type("read", e), Plain(f)) =
           IF f = "iso" THEN Plain("send")
           ELSE IF f = "ref" THEN Plain("read")
           ELSE IF f = "box" THEN Plain("val")
           ELSE Plain(f)
  <1>1. CapAliasing(Type("read", e)) = Type("read", Kept("read", e)) /\ CapAliasing(Plain(f)) = Plain(f)
    BY AliasingOf, PlainAliasing
  <1> QED
    BY <1>1 DEF CapViewLower, Kept, Opaque, GivenUp, Type, Plain, Cap, Concrete, Generic

(* What an owner sees of a field lies between cap_view_lower and           *)
(* cap_view_upper, for every instantiation of both.                        *)
LEMMA ViewsBoundHolds == ViewsBound
  <1> DEFINE Bounds(c, e, f) ==
        LET upper == CapViewUpper(Type(c, e), Plain(f))
            lower == CapViewLower(Type(c, e), Plain(f))
        IN  /\ IsCapSubCap(lower, upper)
            /\ \A i \in Instances(c), j \in Instances(f) :
                 LET seen == CapViewUpper(Type(i, e), Plain(j)) IN
                 /\ \E u \in Instances(upper.cap) : IsCapSubCap(seen, Type(u, upper.eph))
                 /\ \E l \in Instances(lower.cap) : IsCapSubCap(Type(l, lower.eph), seen)
  <1> SUFFICES ASSUME NEW c \in Cap \ Opaque, NEW e \in {"none", "ephemeral"}, NEW f \in Cap
               PROVE  Bounds(c, e, f)
    BY DEF ViewsBound
  <1>0. \A a, b : Plain(a) = Type(a, "none") /\ Type(a, b).cap = a /\ Type(a, b).eph = b
    BY DEF Plain, Type
  <1>1. CASE c = "iso"
    BY <1>0, <1>1, UpperOfIso, LowerOfIso, InstancesOf, SubCapOf, SubCapRows
       DEF Cap, Concrete, Generic, Kept
  <1>2. CASE c = "trn"
    BY <1>0, <1>2, UpperOfTrn, LowerOfTrn, InstancesOf, SubCapOf, SubCapRows
       DEF Cap, Concrete, Generic, Kept
  <1>3. CASE c = "ref"
    BY <1>0, <1>3, UpperOfRef, LowerOfRef, InstancesOf, SubCapOf, SubCapRows
       DEF Cap, Concrete, Generic, Kept
  <1>4. CASE c = "val"
    BY <1>0, <1>4, UpperOfVal, LowerOfVal, InstancesOf, SubCapOf, SubCapRows
       DEF Cap, Concrete, Generic, Kept
  <1>5. CASE c = "box"
    BY <1>0, <1>5, UpperOfBox, LowerOfBox, InstancesOf, SubCapOf, SubCapRows
       DEF Cap, Concrete, Generic, Kept
  <1>6. CASE c = "read"
    BY <1>0, <1>6, UpperOfRead, LowerOfRead, UpperOfRef, UpperOfVal, UpperOfBox,
       InstancesOf, SubCapOf, SubCapRows DEF Cap, Concrete, Generic, Kept
  <1> QED
    BY <1>1, <1>2, <1>3, <1>4, <1>5, <1>6 DEF Cap, Concrete, Generic, Opaque

(* is_cap_sub_cap between borrowed types compares what the aliases are.    *)
LEMMA BorrowedSubCap ==
  ASSUME NEW c \in Cap, NEW d \in Cap
  PROVE  IsCapSubCap(Type(c, "borrowed"), Type(d, "borrowed")) <=>
           LET a(x) == IF x = "iso" THEN "tag" ELSE IF x = "trn" THEN "box"
                       ELSE IF x = "send" THEN "share" ELSE IF x = "any" THEN "alias" ELSE x
           IN  a(d) = a(c) \/ a(d) = "tag" \/ a(d) \in SubCapTable[a(c)]
  <1> DEFINE a(x) == IF x = "iso" THEN "tag" ELSE IF x = "trn" THEN "box"
                     ELSE IF x = "send" THEN "share" ELSE IF x = "any" THEN "alias" ELSE x
  <1>1. \A x \in Cap : CapAliasing(Type(x, "borrowed")) = Type(a(x), "none")
    BY DEF CapAliasing, Type, AliasOf, Cap, Concrete, Generic
  <1>2. \A x : Type(x, "none").cap = x /\ Type(x, "none").eph = "none"
    BY DEF Type
  <1> QED
    BY <1>1, <1>2 DEF IsCapSubCap, EphemeralEnough

(* Asking recover or consume for a capability gives nothing that is        *)
(* stronger than what they give unasked.                                   *)
LEMMA AskedIsWeakerHolds == AskedIsWeaker
  <1> SUFFICES ASSUME NEW c \in Cap, NEW asked \in Cap, NEW e \in Eph
               PROVE  /\ RecoverSingle(Type(c, e), asked) # NoType =>
                           IsCapSubCap(RecoverSingle(Type(c, e), "none"),
                                       RecoverSingle(Type(c, e), asked))
                      /\ e # "borrowed" /\ ConsumeSingle(Type(c, e), asked) # NoType =>
                           IsCapSubCap(ConsumeSingle(Type(c, e), "none"),
                                       ConsumeSingle(Type(c, e), asked))
    BY DEF AskedIsWeaker
  <1>0. \A a, b : Type(a, b).cap = a /\ Type(a, b).eph = b
    BY DEF Type
  <1>1. e # "borrowed" /\ ConsumeSingle(Type(c, e), asked) # NoType =>
          IsCapSubCap(ConsumeSingle(Type(c, e), "none"), ConsumeSingle(Type(c, e), asked))
    <2> SUFFICES ASSUME e # "borrowed", ConsumeSingle(Type(c, e), asked) # NoType
                 PROVE  IsCapSubCap(ConsumeSingle(Type(c, e), "none"), ConsumeSingle(Type(c, e), asked))
      OBVIOUS
    <2>1. asked \notin {"none", "borrowed"}
      BY DEF Cap, Concrete, Generic
    <2>2. /\ ConsumeSingle(Type(c, e), asked) = Type(asked, "ephemeral")
          /\ IsCapSubCap(Type(c, "none"), Type(asked, "none"))
      BY <1>0, <2>1 DEF ConsumeSingle, Eph
    <2>3. IsCapSubCap(Type(c, "none"), Type(c, "none"))
      BY SubCapOf
    <2>4. ConsumeSingle(Type(c, e), "none") = Type(c, "ephemeral")
      BY <1>0, <2>3 DEF ConsumeSingle, Eph
    <2> QED
      BY <2>2, <2>4, SubCapOf, SubCapRows DEF Kept, Cap, Concrete, Generic
  <1>2. RecoverSingle(Type(c, e), asked) # NoType =>
          IsCapSubCap(RecoverSingle(Type(c, e), "none"), RecoverSingle(Type(c, e), asked))
    <2> SUFFICES ASSUME RecoverSingle(Type(c, e), asked) # NoType
                 PROVE  IsCapSubCap(RecoverSingle(Type(c, e), "none"), RecoverSingle(Type(c, e), asked))
      OBVIOUS
    <2>1. /\ MayRecover(Type(c, e), asked)
          /\ RecoverSingle(Type(c, e), asked) =
               Type(asked, IF c \in {"trn", "ref"} THEN "ephemeral" ELSE e)
      BY <1>0 DEF RecoverSingle, Cap, Concrete, Generic
    <2>2. MayRecover(Type(c, e), RecoversTo(c))
      BY <1>0 DEF MayRecover, RecoversTo, Cap, Concrete, Generic
    <2>3. RecoverSingle(Type(c, e), "none") =
            Type(RecoversTo(c), IF c \in {"trn", "ref"} THEN "ephemeral" ELSE e)
      BY <1>0, <2>2 DEF RecoverSingle
    <2>4. CASE e = "borrowed" /\ c \notin {"trn", "ref"}
      BY <1>0, <2>1, <2>3, <2>4, BorrowedSubCap, SubCapRows
         DEF MayRecover, RecoversTo, Cap, Concrete, Generic
    <2>5. CASE e # "borrowed" \/ c \in {"trn", "ref"}
      BY <1>0, <2>1, <2>3, <2>5, SubCapOf, SubCapRows
         DEF MayRecover, RecoversTo, Kept, Cap, Concrete, Generic, Eph
    <2> QED
      BY <2>4, <2>5
  <1> QED
    BY <1>1, <1>2

(* The tables agree, as cap_dispatch and type parameters need:             *)
(* is_cap_sub_cap for every instantiation, is_cap_match_cap and            *)
(* is_cap_sub_cap_bound for some, and compatible concrete capabilities are *)
(* ordered.                                                                *)
THEOREM TablesAgreeHolds == Spec => []TablesAgree
  <1>1. Init => TablesAgree
    BY SubCapOfInstancesHolds, PossibleForInstancesHolds, CompatibleIsOrderedHolds
       DEF TablesAgree
  <1>2. TablesAgree'
    BY SubCapOfInstancesHolds, PossibleForInstancesHolds, CompatibleIsOrderedHolds
       DEF TablesAgree
  <1> QED
    BY <1>1, <1>2, PTL DEF Spec

(* The bounds of viewpoint-adapted types hold for every instantiation of   *)
(* owner and field: cap_view_upper is never below what is seen, and        *)
(* cap_view_lower never above.                                             *)
THEOREM ViewBounds == Spec => []ViewBoundsHold
  <1>1. Init => ViewBoundsHold
    BY ViewsBoundHolds DEF ViewBoundsHold
  <1>2. ViewBoundsHold'
    BY ViewsBoundHolds DEF ViewBoundsHold
  <1> QED
    BY <1>1, <1>2, PTL DEF Spec

(* A capability that is asked of recover or consume never strengthens the  *)
(* result: recover_single and consume_single give at most what they give   *)
(* unasked.                                                                *)
THEOREM AskedNeverStrengthens == Spec => []AskingIsWeaker
  <1>1. Init => AskingIsWeaker
    BY AskedIsWeakerHolds DEF AskingIsWeaker
  <1>2. AskingIsWeaker'
    BY AskedIsWeakerHolds DEF AskingIsWeaker
  <1> QED
    BY <1>1, <1>2, PTL DEF Spec

-----------------------------------------------------------------------------
(* Nodes, references and regions.                                          *)

(* The capabilities of which an object has one reference at most.          *)
Owning == {"iso", "trn"}

(* The regions that see into a region form a chain, and they see one       *)
(* another accordingly: anc is a forest.                                   *)
Order(anc) ==
  \A c \in DOMAIN anc :
    /\ c \in anc[c]
    /\ anc[c] \subseteq DOMAIN anc
    /\ \A b \in anc[c] : anc[b] \subseteq anc[c]
    /\ \A a, b \in anc[c] : a \in anc[b] \/ b \in anc[a]
    /\ \A b \in anc[c] : c \in anc[b] => b = c

(* An object that can be reached and may still change.                     *)
Live(n, imm, dead) == n \notin imm /\ n \notin dead

(* A reference of capability cap held in region home fits: a tag always    *)
(* does; val and box refer to frozen objects, box also to an object of a   *)
(* region that home sees into; ref refers to an object of the same region; *)
(* trn to one of a region directly below; iso to one of a region that no   *)
(* other sees into.  A husk is referred to by box and tag only.            *)
Fits(cap, home, to, imm, dead, hk, cell, anc) ==
  \/ cap = "tag"
  \/ cap \in {"val", "box"} /\ to \in imm
  \/ /\ Live(to, imm, dead)
     /\ \/ cap = "box" /\ home \in anc[cell[to]]
        \/ cap = "ref" /\ to \notin hk /\ cell[to] = home
        \/ /\ cap = "trn" /\ to \notin hk /\ cell[to] \notin anc[home]
           /\ anc[cell[to]] = {cell[to]} \cup anc[home]
        \/ cap = "iso" /\ to \notin hk /\ anc[cell[to]] = {cell[to]}

(* Every node is in a region.                                              *)
Placed(cell, anc) == \A n \in DOMAIN cell : cell[n] \in DOMAIN anc

(* References start and end at nodes.                                      *)
RefTypes(R, cell) ==
  \A r \in R : r.src \in DOMAIN cell /\ r.to \in DOMAIN cell

(* References of live nodes fit, and frozen ones refer to frozen ones.     *)
RefsFit(R, imm, dead, hk, cell, anc) ==
  \A r \in R :
    /\ Live(r.src, imm, dead) => Fits(r.cap, cell[r.src], r.to, imm, dead, hk, cell, anc)
    /\ r.src \in imm => r.cap = "tag" \/ r.to \in imm

(* r is a unique reference, held by a live node.                           *)
Owner(r, imm, dead) == r.cap \in Owning /\ Live(r.src, imm, dead)

(* A region has one unique reference at most: what it owns is owned once.  *)
OwnersUnique(R, imm, dead, cell) ==
  \A r, s \in R :
    Owner(r, imm, dead) /\ Owner(s, imm, dead) /\ cell[r.to] = cell[s.to] => r = s

(* The nodes B (one for each actor) and fs (the frame) stand for           *)
(* variables. Each actor is a region of its own that nobody sees into,     *)
(* nobody owns, and only the actors of K, who wait for a call to return,   *)
(* have a part in the region of the frame.                                 *)
Scoped(R, imm, dead, cell, anc, B, fs, K) ==
  /\ K \subseteq B /\ B \subseteq DOMAIN cell /\ fs \in DOMAIN cell /\ fs \notin B
  /\ \A b \in B \cup {fs} : Live(b, imm, dead)
  /\ \A b \in B : anc[cell[b]] = {cell[b]} /\ cell[b] # cell[fs]
  /\ \A b, d \in B : cell[b] = cell[d] => b = d
  /\ \A c \in anc[cell[fs]] : c = cell[fs] \/ \E k \in K : c = cell[k]
  /\ \A r \in R : Owner(r, imm, dead) =>
       /\ \A b \in B : cell[r.to] # cell[b]
       /\ cell[r.to] = cell[fs] => r.src \in K

(* The regions of a state: imm are the frozen nodes, dead those that       *)
(* nobody can reach, hk the husks, cell the region of each node and anc    *)
(* the regions that see into each region, itself included.                 *)
Divided(R, imm, dead, hk, cell, anc, B, fs, K) ==
  /\ Order(anc) /\ Placed(cell, anc)
  /\ RefTypes(R, cell)
  /\ RefsFit(R, imm, dead, hk, cell, anc)
  /\ OwnersUnique(R, imm, dead, cell)
  /\ Scoped(R, imm, dead, cell, anc, B, fs, K)

(* A reference that fits and is not unique can be added.                   *)
LEMMA AddRef ==
  ASSUME NEW R, NEW imm, NEW dead, NEW hk, NEW cell, NEW anc, NEW B, NEW fs, NEW K,
         Divided(R, imm, dead, hk, cell, anc, B, fs, K),
         NEW n, n.src \in DOMAIN cell, n.to \in DOMAIN cell,
         n.cap \notin Owning, Live(n.src, imm, dead),
         Fits(n.cap, cell[n.src], n.to, imm, dead, hk, cell, anc)
  PROVE  Divided(R \cup {n}, imm, dead, hk, cell, anc, B, fs, K)
  <1>1. RefTypes(R \cup {n}, cell)
    BY DEF Divided, RefTypes
  <1>2. RefsFit(R \cup {n}, imm, dead, hk, cell, anc)
    BY DEF Divided, RefsFit, Live
  <1>3. OwnersUnique(R \cup {n}, imm, dead, cell)
    BY DEF Divided, OwnersUnique, Owner
  <1>4. Scoped(R \cup {n}, imm, dead, cell, anc, B, fs, K)
    BY DEF Divided, Scoped, Owner
  <1> QED
    BY <1>1, <1>2, <1>3, <1>4 DEF Divided

(* References can be dropped.                                              *)
LEMMA RemoveRefs ==
  ASSUME NEW R, NEW imm, NEW dead, NEW hk, NEW cell, NEW anc, NEW B, NEW fs, NEW K,
         Divided(R, imm, dead, hk, cell, anc, B, fs, K), NEW S \in SUBSET R
  PROVE  Divided(S, imm, dead, hk, cell, anc, B, fs, K)
  BY DEF Divided, RefTypes, RefsFit, OwnersUnique, Scoped

(* A reference that is sendable can move from any live node to any other,  *)
(* another one within its region.                                          *)
LEMMA MoveRef ==
  ASSUME NEW R, NEW imm, NEW dead, NEW hk, NEW cell, NEW anc, NEW B, NEW fs, NEW K,
         Divided(R, imm, dead, hk, cell, anc, B, fs, K),
         NEW r \in R, r.src \notin K, Live(r.src, imm, dead),
         NEW n, n.src \in DOMAIN cell, Live(n.src, imm, dead), n.to = r.to, n.cap = r.cap,
         r.cap \in {"iso", "val", "tag"} \/ cell[n.src] = cell[r.src]
  PROVE  Divided((R \ {r}) \cup {n}, imm, dead, hk, cell, anc, B, fs, K)
  <1> DEFINE S == (R \ {r}) \cup {n}
  <1>1. RefTypes(S, cell)
    BY DEF Divided, RefTypes
  <1>2. RefsFit(S, imm, dead, hk, cell, anc)
    BY DEF Divided, RefsFit, Live, Fits
  <1>3. OwnersUnique(S, imm, dead, cell)
    BY DEF Divided, OwnersUnique, Owner
  <1>4. Scoped(S, imm, dead, cell, anc, B, fs, K)
    BY DEF Divided, Scoped, Owner
  <1> QED
    BY <1>1, <1>2, <1>3, <1>4 DEF Divided

(* A unique reference that becomes a trn of n.src: its region is now       *)
(* directly below that of n.src, as is everything that was below it.       *)
LEMMA Hang ==
  ASSUME NEW R, NEW imm, NEW dead, NEW hk, NEW cell, NEW anc, NEW B, NEW fs, NEW K,
         Divided(R, imm, dead, hk, cell, anc, B, fs, K),
         NEW r \in R, r.src \notin K, Live(r.src, imm, dead), r.cap \in Owning,
         NEW n, n.src \in DOMAIN cell, Live(n.src, imm, dead), n.to = r.to, n.cap = "trn",
         NEW H, NEW C, H = cell[n.src], C = cell[r.to],
         anc[C] \subseteq {C} \cup anc[H], C \notin anc[H],
         NEW up, up = [c \in DOMAIN anc |-> IF C \in anc[c] THEN anc[c] \cup anc[H] ELSE anc[c]]
  PROVE  Divided((R \ {r}) \cup {n}, imm, dead, hk, cell, up, B, fs, K)
  <1> DEFINE S == (R \ {r}) \cup {n}
  <1>0. /\ DOMAIN up = DOMAIN anc /\ C \in DOMAIN anc /\ H \in DOMAIN anc
        /\ \A c \in DOMAIN anc : up[c] = IF C \in anc[c] THEN anc[c] \cup anc[H] ELSE anc[c]
    BY DEF Divided, RefTypes, Placed
  <1>1. Order(up)
    <2> SUFFICES ASSUME NEW c \in DOMAIN anc
                 PROVE  /\ c \in up[c]
                        /\ up[c] \subseteq DOMAIN anc
                        /\ \A b \in up[c] : up[b] \subseteq up[c]
                        /\ \A a, b \in up[c] : a \in up[b] \/ b \in up[a]
                        /\ \A b \in up[c] : c \in up[b] => b = c
      BY <1>0 DEF Order
    <2>1. c \in up[c] /\ up[c] \subseteq DOMAIN anc
      BY <1>0 DEF Order, Divided
    <2>2. \A b \in up[c] : up[b] \subseteq up[c]
      BY <1>0 DEF Order, Divided
    <2>3. \A a, b \in up[c] : a \in up[b] \/ b \in up[a]
      <3> SUFFICES ASSUME NEW a \in up[c], NEW b \in up[c] PROVE a \in up[b] \/ b \in up[a]
        OBVIOUS
      <3>1. CASE a \in anc[c] /\ b \in anc[c]
        BY <1>0, <3>1 DEF Order, Divided
      <3>2. CASE C \in anc[c] /\ a \in anc[c] /\ b \in anc[H]
        BY <1>0, <3>2 DEF Order, Divided
      <3>3. CASE C \in anc[c] /\ b \in anc[c] /\ a \in anc[H]
        BY <1>0, <3>3 DEF Order, Divided
      <3>4. CASE a \in anc[H] /\ b \in anc[H]
        BY <1>0, <3>4 DEF Order, Divided
      <3> QED
        BY <1>0, <3>1, <3>2, <3>3, <3>4
    <2>4. \A b \in up[c] : c \in up[b] => b = c
      BY <1>0 DEF Order, Divided
    <2> QED
      BY <2>1, <2>2, <2>3, <2>4
  <1>2. RefTypes(S, cell) /\ Placed(cell, up)
    BY <1>0 DEF Divided, RefTypes, Placed
  <1>3. OwnersUnique(S, imm, dead, cell)
    BY DEF Divided, OwnersUnique, Owner, Owning
  <1>4. RefsFit(S, imm, dead, hk, cell, up)
    <2> SUFFICES ASSUME NEW s \in S
                 PROVE  /\ Live(s.src, imm, dead) => Fits(s.cap, cell[s.src], s.to, imm, dead, hk, cell, up)
                        /\ s.src \in imm => s.cap = "tag" \/ s.to \in imm
      BY DEF RefsFit
    <2>0. Live(r.to, imm, dead) /\ r.to \notin hk
      BY DEF Divided, RefsFit, Fits, Owning
    <2>1. CASE s = n
      <3>1. up[C] = {C} \cup anc[H] /\ up[H] = anc[H]
        BY <1>0 DEF Divided, Order
      <3> QED
        BY <2>0, <2>1, <3>1 DEF Fits, Live
    <2>2. CASE s \in R /\ s # r /\ s.src \in imm
      BY <2>2 DEF Divided, RefsFit, Live
    <2>3. CASE s \in R /\ s # r /\ Live(s.src, imm, dead)
      <3>1. /\ Fits(s.cap, cell[s.src], s.to, imm, dead, hk, cell, anc)
            /\ cell[s.to] \in DOMAIN anc /\ cell[s.src] \in DOMAIN anc
        BY <2>3 DEF Divided, RefsFit, RefTypes, Placed
      <3>2. s.cap \in Owning => cell[s.to] # C
        BY <2>3 DEF Divided, OwnersUnique, Owner
      <3>3. CASE s.cap = "trn"
        <4>1. C \in anc[cell[s.to]] <=> C \in anc[cell[s.src]]
          BY <3>1, <3>2, <3>3 DEF Fits, Owning
        <4>2. cell[s.to] \notin up[cell[s.src]]
          BY <1>0, <3>1, <3>2, <3>3, <4>1 DEF Divided, Order, Fits, Owning
        <4> QED
          BY <1>0, <3>1, <3>3, <4>1, <4>2, <2>3 DEF Fits, Live
      <3>4. CASE s.cap = "iso"
        BY <1>0, <3>1, <3>2, <3>4, <2>3 DEF Fits, Live, Owning
      <3>5. CASE s.cap \notin Owning
        BY <1>0, <3>1, <3>5, <2>3 DEF Fits, Live, Owning
      <3> QED
        BY <3>3, <3>4, <3>5, <2>3 DEF Owning, Live
    <2> QED
      BY <2>1, <2>2, <2>3 DEF Live
  <1>5. Scoped(S, imm, dead, cell, up, B, fs, K)
    <2>1. \A b \in B : C # cell[b]
      BY DEF Divided, Scoped, Owner
    <2>2. C # cell[fs]
      BY DEF Divided, Scoped, Owner
    <2>3. \A b \in B \cup {fs} : cell[b] \in DOMAIN anc /\ C \notin anc[cell[b]] /\ up[cell[b]] = anc[cell[b]]
      BY <1>0, <2>1, <2>2 DEF Divided, Scoped, Placed
    <2> QED
      BY <2>1, <2>2, <2>3 DEF Divided, Scoped, Owner, Owning
  <1> QED
    BY <1>1, <1>2, <1>3, <1>4, <1>5 DEF Divided

(* Region a is owned by C and C by H; up is anc without C.                 *)
Chain(anc, up, a, C, H) ==
  /\ anc[a] = {a} \cup anc[C] /\ a \notin anc[C]
  /\ anc[C] = {C} \cup anc[H] /\ C \notin anc[H]
  /\ up[a] = anc[a] \ {C} /\ up[H] = anc[H]

(* Region a is owned by H.                                                 *)
Linked(up, a, H) == up[a] = {a} \cup up[H] /\ a \notin up[H]

(* Without C, what C owned is owned by the owner of C.                     *)
LEMMA ChainWithout ==
  ASSUME NEW anc, NEW up, NEW a, NEW C, NEW H, Chain(anc, up, a, C, H)
  PROVE  Linked(up, a, H)
  <1>1. PICK A, E, G, U, V : A = anc[a] /\ E = anc[C] /\ G = anc[H] /\ U = up[a] /\ V = up[H]
    OBVIOUS
  <1>2. /\ A = {a} \cup E /\ a \notin E /\ E = {C} \cup G /\ C \notin G
        /\ U = A \ {C} /\ V = G
    BY <1>1 DEF Chain
  <1>3. U = {a} \cup V /\ a \notin V
    BY <1>2
  <1> QED
    BY <1>1, <1>3 DEF Linked

(* Merge: the trn r becomes a ref, its cell part of that of its holder.    *)
LEMMA Merge ==
  ASSUME NEW R, NEW imm, NEW dead, NEW hk, NEW cell, NEW anc, NEW B, NEW fs, NEW K,
         Divided(R, imm, dead, hk, cell, anc, B, fs, K),
         NEW r \in R, r.src \notin K, Live(r.src, imm, dead), r.cap = "trn",
         NEW H, NEW C, H = cell[r.src], C = cell[r.to],
         NEW in, in = [m \in DOMAIN cell |-> IF cell[m] = C THEN H ELSE cell[m]],
         NEW up, up = [c \in DOMAIN anc |-> IF c = C THEN {C} ELSE anc[c] \ {C}]
  PROVE  /\ Divided(R \ {r}, imm, dead, hk, in, up, B, fs, K)
         /\ Live(r.to, imm, dead) /\ r.to \notin hk
         /\ in[r.to] = in[r.src] /\ in[r.src] = H
  <1> DEFINE S == R \ {r}
  <1>0. /\ DOMAIN up = DOMAIN anc /\ C \in DOMAIN anc /\ H \in DOMAIN anc
        /\ up[C] = {C} /\ \A c \in DOMAIN anc : c # C => up[c] = anc[c] \ {C}
        /\ anc[C] = {C} \cup anc[H] /\ C \notin anc[H] /\ Live(r.to, imm, dead)
        /\ C # H /\ r.to \notin hk
    <2>1. Fits(r.cap, cell[r.src], r.to, imm, dead, hk, cell, anc) /\ C \in DOMAIN anc /\ H \in DOMAIN anc
      BY DEF Divided, RefsFit, RefTypes, Placed
    <2>2. /\ anc[C] = {C} \cup anc[H] /\ C \notin anc[H]
          /\ Live(r.to, imm, dead) /\ r.to \notin hk
      BY <2>1 DEF Fits
    <2> QED
      BY <2>1, <2>2 DEF Divided, Order
  <1>1. /\ DOMAIN in = DOMAIN cell
        /\ \A m \in DOMAIN cell : in[m] = IF cell[m] = C THEN H ELSE cell[m]
        /\ in[r.to] = H /\ in[r.src] = H
    BY <1>0 DEF Divided, RefTypes
  <1>2. Order(up)
    <2>1. \A c \in DOMAIN anc : C \in anc[c] => H \in anc[c]
      BY <1>0 DEF Divided, Order
    <2> QED
      BY <1>0, <2>1 DEF Divided, Order
  <1>3. RefTypes(S, in) /\ Placed(in, up)
    BY <1>0, <1>1 DEF Divided, RefTypes, Placed
  <1>4. \A s \in S : Owner(s, imm, dead) => cell[s.to] # C /\ in[s.to] = cell[s.to]
    BY <1>1 DEF Divided, OwnersUnique, Owner, Owning, RefTypes
  <1>5. OwnersUnique(S, imm, dead, in)
    BY <1>4 DEF Divided, OwnersUnique
  <1>6. RefsFit(S, imm, dead, hk, in, up)
    <2> SUFFICES ASSUME NEW s \in S
                 PROVE  /\ Live(s.src, imm, dead) => Fits(s.cap, in[s.src], s.to, imm, dead, hk, in, up)
                        /\ s.src \in imm => s.cap = "tag" \/ s.to \in imm
      BY DEF RefsFit
    <2>1. CASE s.src \in imm
      BY <2>1 DEF Divided, RefsFit, Live
    <2>2. CASE Live(s.src, imm, dead)
      <3>1. /\ Fits(s.cap, cell[s.src], s.to, imm, dead, hk, cell, anc)
            /\ cell[s.to] \in DOMAIN anc /\ cell[s.src] \in DOMAIN anc
            /\ s.to \in DOMAIN cell /\ s.src \in DOMAIN cell
        BY <2>2 DEF Divided, RefsFit, RefTypes, Placed
      <3>2. CASE s.cap = "trn"
        <4>1. cell[s.to] # C /\ in[s.to] = cell[s.to]
          BY <1>4, <2>2, <3>2 DEF Owner, Owning
        <4>2. up[cell[s.to]] = anc[cell[s.to]] \ {C}
          BY <1>0, <3>1, <4>1
        <4>3. CASE cell[s.src] = C
          <5>1. up[H] = anc[H] /\ in[s.src] = H
            <6>1. up[H] = anc[H] \ {C}
              BY <1>0
            <6>2. up[H] = anc[H]
              BY <1>0, <6>1
            <6>3. in[s.src] = H
              BY <1>1, <3>1, <4>3
            <6> QED
              BY <6>2, <6>3
          <5>2. /\ anc[cell[s.to]] = {cell[s.to]} \cup anc[C] /\ cell[s.to] \notin anc[C]
                /\ Live(s.to, imm, dead) /\ s.to \notin hk
            BY <3>1, <3>2, <4>3 DEF Fits
          <5>a. up[cell[s.to]] = {cell[s.to]} \cup up[H] /\ cell[s.to] \notin up[H]
            <6>1. Chain(anc, up, cell[s.to], C, H)
              BY <1>0, <4>2, <5>1, <5>2 DEF Chain
            <6>2. Linked(up, cell[s.to], H)
              BY <6>1, ChainWithout
            <6> QED
              BY <6>2 DEF Linked
          <5>3. up[in[s.to]] = {in[s.to]} \cup up[in[s.src]] /\ in[s.to] \notin up[in[s.src]]
            BY <4>1, <5>1, <5>a
          <5> QED
            BY <3>2, <5>2, <5>3, <2>2 DEF Fits, Live
        <4>4. CASE cell[s.src] # C
          <5>1. up[cell[s.src]] = anc[cell[s.src]] \ {C} /\ in[s.src] = cell[s.src]
            BY <1>0, <1>1, <3>1, <4>4
          <5>2. /\ anc[cell[s.to]] = {cell[s.to]} \cup anc[cell[s.src]]
                /\ cell[s.to] \notin anc[cell[s.src]] /\ Live(s.to, imm, dead)
                /\ s.to \notin hk
            BY <3>1, <3>2 DEF Fits
          <5>a. up[cell[s.to]] = {cell[s.to]} \cup up[cell[s.src]] /\ cell[s.to] \notin up[cell[s.src]]
            <6> PICK a, A, E, U, V : /\ a = cell[s.to] /\ A = anc[a] /\ E = anc[cell[s.src]]
                                     /\ U = up[a] /\ V = up[cell[s.src]]
              OBVIOUS
            <6>1. A = {a} \cup E /\ a \notin E /\ a # C /\ U = A \ {C} /\ V = E \ {C}
              BY <4>1, <4>2, <5>1, <5>2
            <6> QED
              BY <6>1
          <5>3. up[in[s.to]] = {in[s.to]} \cup up[in[s.src]] /\ in[s.to] \notin up[in[s.src]]
            BY <4>1, <5>1, <5>a
          <5> QED
            BY <3>2, <5>2, <5>3, <2>2 DEF Fits, Live
        <4> QED
          BY <4>3, <4>4, <2>2 DEF Live
      <3>3. CASE s.cap = "iso"
        <4>1. cell[s.to] # C /\ in[s.to] = cell[s.to]
          BY <1>4, <2>2, <3>3 DEF Owner, Owning
        <4> QED
          BY <1>0, <2>2, <3>1, <3>3, <4>1 DEF Fits, Live
      <3>4. CASE s.cap = "box"
        <4>1. CASE Live(s.to, imm, dead) /\ cell[s.src] \in anc[cell[s.to]]
          <5>1. in[s.src] \in up[in[s.to]]
            BY <1>0, <1>1, <3>1, <4>1 DEF Divided, Order
          <5> QED
            BY <3>4, <4>1, <5>1, <2>2 DEF Fits, Live
        <4> QED
          BY <3>1, <3>4, <4>1, <2>2 DEF Fits, Live
      <3>5. CASE s.cap \notin {"iso", "trn", "box"}
        BY <1>1, <3>1, <3>5, <2>2 DEF Fits, Live
      <3> QED
        BY <3>2, <3>3, <3>4, <3>5
    <2> QED
      BY <2>1, <2>2 DEF Live
  <1>7. Scoped(S, imm, dead, in, up, B, fs, K)
    <2>1. \A b \in B : C # cell[b]
      BY DEF Divided, Scoped, Owner, Owning
    <2>2. C # cell[fs]
      BY DEF Divided, Scoped, Owner, Owning
    <2>3. \A b \in B \cup {fs} :
            in[b] = cell[b] /\ cell[b] \in DOMAIN anc /\ up[cell[b]] = anc[cell[b]] \ {C}
      BY <1>0, <1>1, <2>1, <2>2 DEF Divided, Scoped, Placed
    <2>4. ASSUME NEW b \in B PROVE up[in[b]] = {in[b]} /\ in[b] # in[fs]
      <3>1. anc[cell[b]] = {cell[b]} /\ cell[b] # cell[fs]
        BY DEF Divided, Scoped
      <3>2. in[b] = cell[b] /\ in[fs] = cell[fs] /\ up[cell[b]] = anc[cell[b]] \ {C} /\ C # cell[b]
        BY <2>1, <2>3
      <3> QED
        BY <3>1, <3>2
    <2>0. K \subseteq B /\ fs \in B \cup {fs}
      BY DEF Divided, Scoped
    <2>5. \A c \in up[in[fs]] : c = in[fs] \/ \E k \in K : c = in[k]
      <3> SUFFICES ASSUME NEW c \in up[in[fs]] PROVE c = in[fs] \/ \E k \in K : c = in[k]
        OBVIOUS
      <3>1. c \in anc[cell[fs]]
        BY <2>0, <2>3
      <3>2. c = cell[fs] \/ \E k \in K : c = cell[k]
        BY <3>1 DEF Divided, Scoped
      <3> QED
        BY <2>0, <2>3, <3>2
    <2>6. \A s \in S : Owner(s, imm, dead) =>
             /\ \A b \in B : in[s.to] # in[b]
             /\ in[s.to] = in[fs] => s.src \in K
      BY <1>4, <2>3 DEF Divided, Scoped
    <2>7. \A b, d \in B : in[b] = in[d] => b = d
      BY <2>3 DEF Divided, Scoped
    <2> QED
      BY <1>1, <2>4, <2>5, <2>6, <2>7 DEF Divided, Scoped
  <1> QED
    BY <1>0, <1>1, <1>2, <1>3, <1>5, <1>6, <1>7 DEF Divided

(* From region c one gets to d: c sees into d, or owns it.                 *)
LeadsTo(c, d, R, imm, dead, cell, anc) ==
  \/ c \in anc[d]
  \/ \E r \in R : Owner(r, imm, dead) /\ cell[r.src] = c /\ cell[r.to] = d

(* Nothing outside of S can be got at from S.                              *)
Closed(S, R, imm, dead, cell, anc) ==
  \A c \in S, d \in DOMAIN anc : LeadsTo(c, d, R, imm, dead, cell, anc) => d \in S

(* What can be got at from the regions of X.                               *)
Below(X, R, imm, dead, cell, anc) ==
  {d \in DOMAIN anc : \A S \in SUBSET DOMAIN anc :
     X \subseteq S /\ Closed(S, R, imm, dead, cell, anc) => d \in S}

(* Below is closed, and contains what it starts from.                      *)
LEMMA BelowClosed ==
  ASSUME NEW R, NEW imm, NEW dead, NEW hk, NEW cell, NEW anc, NEW X \in SUBSET DOMAIN anc,
         NEW T, T = Below(X, R, imm, dead, cell, anc)
  PROVE  X \subseteq T /\ T \subseteq DOMAIN anc /\ Closed(T, R, imm, dead, cell, anc)
  <1>1. X \subseteq T /\ T \subseteq DOMAIN anc
    BY DEF Below
  <1>2. ASSUME NEW c \in T, NEW d \in DOMAIN anc, LeadsTo(c, d, R, imm, dead, cell, anc)
        PROVE  d \in T
    <2> SUFFICES ASSUME NEW S \in SUBSET DOMAIN anc, X \subseteq S, Closed(S, R, imm, dead, cell, anc)
                 PROVE  d \in S
      BY DEF Below
    <2>1. c \in S
      BY DEF Below
    <2> QED
      BY <2>1, <1>2 DEF Closed
  <1> QED
    BY <1>1, <1>2 DEF Closed

(* Below is the least closed set.                                          *)
LEMMA BelowLeast ==
  ASSUME NEW R, NEW imm, NEW dead, NEW hk, NEW cell, NEW anc, NEW X,
         NEW S \in SUBSET DOMAIN anc, X \subseteq S, Closed(S, R, imm, dead, cell, anc)
  PROVE  Below(X, R, imm, dead, cell, anc) \subseteq S
  BY DEF Below

(* UpClosed: nothing outside of N is above N.                              *)
UpClosed(N, R, imm, dead, cell, anc) ==
  \A d \in N, c \in DOMAIN anc : LeadsTo(c, d, R, imm, dead, cell, anc) => c \in N

(* A set that nothing leads to from outside of it is not got at from       *)
(* outside of it.                                                          *)
LEMMA OutsideBelow ==
  ASSUME NEW R, NEW imm, NEW dead, NEW hk, NEW cell, NEW anc, NEW X \in SUBSET DOMAIN anc, NEW N,
         X \cap N = {}, UpClosed(N, R, imm, dead, cell, anc),
         NEW T, T = Below(X, R, imm, dead, cell, anc)
  PROVE  T \cap N = {}
  <1>1. X \subseteq T /\ T \subseteq DOMAIN anc /\ Closed(T, R, imm, dead, cell, anc)
    BY BelowClosed
  <1>2. Closed(T \ N, R, imm, dead, cell, anc)
    BY <1>1 DEF Closed, UpClosed
  <1>3. T \subseteq T \ N
    BY <1>1, <1>2, BelowLeast
  <1> QED
    BY <1>3

(* What one outside holds is outside.                                      *)
LEMMA HeldOutside ==
  ASSUME NEW R, NEW imm, NEW dead, NEW hk, NEW cell, NEW anc, NEW B, NEW fs, NEW K,
         Divided(R, imm, dead, hk, cell, anc, B, fs, K),
         NEW X \in SUBSET DOMAIN anc,
         NEW T, T = Below(X, R, imm, dead, cell, anc),
         NEW s \in R, Owner(s, imm, dead),
         NEW E, NEW D, E = cell[s.src], D = cell[s.to],
         E \notin T, \A x \in X : D \notin anc[x]
  PROVE  D \notin T
  <1> DEFINE Z == {d \in DOMAIN anc : D \in anc[d]}
  <1>1. X \subseteq T /\ T \subseteq DOMAIN anc /\ Closed(T, R, imm, dead, cell, anc)
    BY BelowClosed
  <1>2. D \in DOMAIN anc /\ E \in DOMAIN anc /\ D \in Z /\ X \subseteq T \ Z
    BY <1>1 DEF Divided, RefTypes, Placed, Order
  <1>3. anc[D] \subseteq {D} \cup anc[E]
    BY DEF Divided, RefsFit, Owner, Owning, Fits
  <1>4. ASSUME NEW c \in T \ Z, NEW d \in DOMAIN anc, LeadsTo(c, d, R, imm, dead, cell, anc), d \in Z
        PROVE  FALSE
    <2>0. c \in T /\ c \in DOMAIN anc /\ D \notin anc[c] /\ D \in anc[d] /\ c # D
      BY <1>1, <1>2, <1>4
    <2>1. CASE c \in anc[d]
      <3>1. c \in anc[D]
        BY <2>0, <2>1 DEF Divided, Order
      <3>2. c \in anc[E]
        BY <1>3, <2>0, <3>1
      <3> QED
        BY <1>1, <1>2, <2>0, <3>2 DEF Closed, LeadsTo
    <2>2. ASSUME NEW u \in R, Owner(u, imm, dead), cell[u.src] = c, cell[u.to] = d PROVE FALSE
      <3>1. anc[d] \subseteq {d} \cup anc[c]
        BY <2>2 DEF Divided, RefsFit, Owner, Owning, Fits
      <3>2. d = D
        BY <2>0, <3>1
      <3>3. u = s
        BY <2>2, <3>2 DEF Divided, OwnersUnique
      <3> QED
        BY <2>2, <3>3, <2>0
    <2> QED
      BY <1>4, <2>1, <2>2 DEF LeadsTo
  <1>5. Closed(T \ Z, R, imm, dead, cell, anc)
    BY <1>1, <1>4 DEF Closed
  <1>6. T \subseteq T \ Z
    BY <1>1, <1>2, <1>5, BelowLeast
  <1> QED
    BY <1>2, <1>6

(* What is above what is below X is below X, when nothing is above X.      *)
LEMMA AboveBelow ==
  ASSUME NEW R, NEW imm, NEW dead, NEW hk, NEW cell, NEW anc, NEW B, NEW fs, NEW K,
         Divided(R, imm, dead, hk, cell, anc, B, fs, K),
         NEW X \in SUBSET DOMAIN anc, UpClosed(X, R, imm, dead, cell, anc),
         NEW T, T = Below(X, R, imm, dead, cell, anc),
         NEW D \in T, NEW C \in anc[D]
  PROVE  C \in T
  <1> SUFFICES ASSUME C \notin T PROVE FALSE
    OBVIOUS
  <1> DEFINE Z == {d \in DOMAIN anc : C \in anc[d]}
  <1>1. X \subseteq T /\ T \subseteq DOMAIN anc /\ Closed(T, R, imm, dead, cell, anc)
    BY BelowClosed
  <1>2. C \in DOMAIN anc /\ D \in Z /\ X \subseteq T \ Z
    BY <1>1 DEF Divided, Order, UpClosed, LeadsTo
  <1>3. ASSUME NEW c \in T \ Z, NEW d \in DOMAIN anc, LeadsTo(c, d, R, imm, dead, cell, anc), d \in Z
        PROVE  FALSE
    <2>0. c \in T /\ c \in DOMAIN anc /\ C \notin anc[c] /\ C \in anc[d] /\ d \in T
      BY <1>1, <1>2, <1>3 DEF Closed
    <2>1. CASE c \in anc[d]
      <3>1. c \in anc[C]
        BY <2>0, <2>1 DEF Divided, Order
      <3> QED
        BY <1>1, <1>2, <2>0, <3>1 DEF Closed, LeadsTo
    <2>2. ASSUME NEW u \in R, Owner(u, imm, dead), cell[u.src] = c, cell[u.to] = d PROVE FALSE
      <3>1. anc[d] \subseteq {d} \cup anc[c]
        BY <2>2 DEF Divided, RefsFit, Owner, Owning, Fits
      <3> QED
        BY <2>0, <3>1
    <2> QED
      BY <1>3, <2>1, <2>2 DEF LeadsTo
  <1>4. Closed(T \ Z, R, imm, dead, cell, anc)
    BY <1>1, <1>3 DEF Closed
  <1>5. T \subseteq T \ Z
    BY <1>1, <1>2, <1>4, BelowLeast
  <1> QED
    BY <1>2, <1>5

(* What can be got at from two disjoint sets to which nothing outside      *)
(* leads is disjoint.  This is why actors do not share what they can       *)
(* write.                                                                  *)
LEMMA BelowDisjoint ==
  ASSUME NEW R, NEW imm, NEW dead, NEW hk, NEW cell, NEW anc, NEW B, NEW fs, NEW K,
         Divided(R, imm, dead, hk, cell, anc, B, fs, K),
         NEW X \in SUBSET DOMAIN anc, UpClosed(X, R, imm, dead, cell, anc),
         NEW Y \in SUBSET DOMAIN anc, UpClosed(Y, R, imm, dead, cell, anc),
         X \cap Y = {},
         NEW T, T = Below(X, R, imm, dead, cell, anc),
         NEW U, U = Below(Y, R, imm, dead, cell, anc)
  PROVE  T \cap U = {}
  <1>1. /\ X \subseteq T /\ T \subseteq DOMAIN anc /\ Closed(T, R, imm, dead, cell, anc)
        /\ Y \subseteq U /\ U \subseteq DOMAIN anc /\ Closed(U, R, imm, dead, cell, anc)
    BY BelowClosed
  <1>2. T \cap Y = {} /\ U \cap X = {}
    BY OutsideBelow
  <1>3. ASSUME NEW c \in U \ T, NEW d \in DOMAIN anc, LeadsTo(c, d, R, imm, dead, cell, anc), d \in T
        PROVE  FALSE
    <2>1. CASE c \in anc[d]
      BY <1>3, <2>1, AboveBelow
    <2>2. ASSUME NEW s \in R, Owner(s, imm, dead), cell[s.src] = c, cell[s.to] = d PROVE FALSE
      <3>1. d \in U
        BY <1>1, <1>3 DEF Closed
      <3>2. d \notin X
        BY <3>1, <1>2
      <3>3. \A x \in X : d \notin anc[x]
        BY <1>1, <3>2 DEF UpClosed, LeadsTo
      <3> QED
        BY <1>3, <2>2, <3>3, HeldOutside
    <2> QED
      BY <1>3, <2>1, <2>2 DEF LeadsTo
  <1>4. Closed(U \ T, R, imm, dead, cell, anc)
    BY <1>1, <1>3 DEF Closed
  <1>5. U \subseteq U \ T
    BY <1>1, <1>2, <1>4, BelowLeast
  <1> QED
    BY <1>5

(* The regions of the actors and of the frame.                             *)
ScopeCells(cell, B, fs) == {cell[b] : b \in B \cup {fs}}

(* Only variables get at variables: nothing leads to the regions of actors *)
(* and frame from outside of them.                                         *)
LEMMA ScopesUpClosed ==
  ASSUME NEW R, NEW imm, NEW dead, NEW hk, NEW cell, NEW anc, NEW B, NEW fs, NEW K,
         Divided(R, imm, dead, hk, cell, anc, B, fs, K)
  PROVE  UpClosed(ScopeCells(cell, B, fs), R, imm, dead, cell, anc)
  <1> DEFINE N == ScopeCells(cell, B, fs)
  <1> SUFFICES ASSUME NEW d \in N, NEW c \in DOMAIN anc, LeadsTo(c, d, R, imm, dead, cell, anc)
               PROVE  c \in N
    BY DEF UpClosed
  <1>1. PICK b \in B \cup {fs} : d = cell[b]
    BY DEF ScopeCells
  <1>2. CASE c \in anc[d]
    BY <1>1, <1>2 DEF Divided, Scoped, ScopeCells
  <1>3. ASSUME NEW r \in R, Owner(r, imm, dead), cell[r.src] = c, cell[r.to] = d
        PROVE  c \in N
    BY <1>1, <1>3 DEF Divided, Scoped, ScopeCells
  <1> QED
    BY <1>2, <1>3 DEF LeadsTo

(* Nobody owns the region C.                                               *)
Unowned(C, R, imm, dead, cell) == \A s \in R : Owner(s, imm, dead) => cell[s.to] # C

(* now are the frozen nodes once the regions of T are frozen.              *)
FrozenIn(now, T, imm, dead, cell) ==
  \A n : n \in now <=> n \in imm \/ (n \in DOMAIN cell /\ Live(n, imm, dead) /\ cell[n] \in T)

(* gone are the unreachable nodes once the region C is forgotten.          *)
Forgotten(gone, C, imm, dead, cell) ==
  \A n : n \in gone <=> n \in dead \/ (n \in DOMAIN cell /\ Live(n, imm, dead) /\ cell[n] = C)

(* A region nobody owns is frozen, with everything that can be got at from *)
(* it.                                                                     *)
LEMMA Freeze ==
  ASSUME NEW R, NEW imm, NEW dead, NEW hk, NEW cell, NEW anc, NEW B, NEW fs, NEW K,
         Divided(R, imm, dead, hk, cell, anc, B, fs, K),
         NEW C \in DOMAIN anc, C \notin ScopeCells(cell, B, fs),
         anc[C] \subseteq {C} \cup ScopeCells(cell, B, fs),
         Unowned(C, R, imm, dead, cell),
         NEW T, T = Below({C}, R, imm, dead, cell, anc),
         NEW now, FrozenIn(now, T, imm, dead, cell)
  PROVE  /\ Divided(R, now, dead, hk, cell, anc, B, fs, K)
         /\ \A n \in DOMAIN cell : Live(n, imm, dead) /\ cell[n] = C => n \in now
  <1> USE DEF Unowned, FrozenIn
  <1> DEFINE N == ScopeCells(cell, B, fs)
  <1>1. C \in T /\ T \subseteq DOMAIN anc /\ Closed(T, R, imm, dead, cell, anc)
    BY BelowClosed
  <1>2. T \cap N = {}
    BY ScopesUpClosed, OutsideBelow
  <1>3. ASSUME NEW s \in R, Owner(s, imm, dead), cell[s.to] \in T
        PROVE  cell[s.src] \in T
    <2> SUFFICES ASSUME cell[s.src] \notin T PROVE FALSE
      OBVIOUS
    <2>1. cell[s.to] # C
      BY <1>3
    <2>2. cell[s.to] \notin anc[C]
      BY <1>2, <1>3, <2>1
    <2> QED
      BY <1>3, <2>2, HeldOutside
  <1>4. \A n : Live(n, now, dead) => Live(n, imm, dead) /\ (n \in DOMAIN cell => cell[n] \notin T)
    BY DEF Live
  <1>5. OwnersUnique(R, now, dead, cell)
    BY <1>4 DEF Divided, OwnersUnique, Owner
  <1>6. RefsFit(R, now, dead, hk, cell, anc)
    <2> SUFFICES ASSUME NEW s \in R
                 PROVE  /\ Live(s.src, now, dead) => Fits(s.cap, cell[s.src], s.to, now, dead, hk, cell, anc)
                        /\ s.src \in now => s.cap = "tag" \/ s.to \in now
      BY DEF RefsFit
    <2>0. /\ s.src \in DOMAIN cell /\ s.to \in DOMAIN cell
          /\ cell[s.src] \in DOMAIN anc /\ cell[s.to] \in DOMAIN anc
      BY DEF Divided, RefTypes, Placed
    <2>1. CASE s.src \in imm
      BY <2>1 DEF Divided, RefsFit, Live
    <2>2. CASE Live(s.src, imm, dead) /\ cell[s.src] \in T
      <3>1. Fits(s.cap, cell[s.src], s.to, imm, dead, hk, cell, anc)
        BY <2>2 DEF Divided, RefsFit
      <3>2. ASSUME Live(s.to, imm, dead), s.cap # "tag" PROVE cell[s.to] \in T
        <4>1. CASE s.cap \in Owning
          <5>1. LeadsTo(cell[s.src], cell[s.to], R, imm, dead, cell, anc)
            BY <2>2, <4>1 DEF LeadsTo, Owner
          <5> QED
            BY <1>1, <2>0, <2>2, <5>1 DEF Closed
        <4>2. CASE s.cap \notin Owning
          <5>1. cell[s.to] = cell[s.src] \/ cell[s.src] \in anc[cell[s.to]]
            BY <3>1, <3>2, <4>2 DEF Fits, Owning, Live
          <5> QED
            BY <1>1, <2>0, <2>2, <5>1 DEF Closed, LeadsTo
        <4> QED
          BY <4>1, <4>2
      <3>3. s.src \in now /\ (s.cap = "tag" \/ s.to \in now)
        BY <2>0, <2>2, <3>1, <3>2 DEF Fits
      <3> QED
        BY <3>3 DEF Live
    <2>3. CASE Live(s.src, imm, dead) /\ cell[s.src] \notin T
      <3>1. Fits(s.cap, cell[s.src], s.to, imm, dead, hk, cell, anc)
        BY <2>3 DEF Divided, RefsFit
      <3>2. s.cap \in Owning => cell[s.to] \notin T
        BY <1>3, <2>3 DEF Owner
      <3>3. s.cap = "ref" => cell[s.to] \notin T
        BY <2>3, <3>1 DEF Fits
      <3>4. s.src \notin now
        BY <2>3 DEF Live
      <3> QED
        BY <2>0, <3>1, <3>2, <3>3, <3>4 DEF Fits, Live, Owning
    <2>4. CASE s.src \in dead /\ s.src \notin imm
      BY <2>4 DEF Live
    <2> QED
      BY <2>1, <2>2, <2>3, <2>4 DEF Live
  <1>7. Scoped(R, now, dead, cell, anc, B, fs, K)
    <2>1. \A b \in B \cup {fs} : Live(b, now, dead)
      BY <1>2 DEF Divided, Scoped, Live, ScopeCells
    <2> QED
      BY <1>4, <2>1 DEF Divided, Scoped, Owner
  <1> QED
    BY <1>1, <1>5, <1>6, <1>7 DEF Divided

(* A region that nobody owns and nobody sees into can be forgotten.        *)
LEMMA Kill ==
  ASSUME NEW R, NEW imm, NEW dead, NEW hk, NEW cell, NEW anc, NEW B, NEW fs, NEW K,
         Divided(R, imm, dead, hk, cell, anc, B, fs, K),
         NEW C \in DOMAIN anc, C \notin ScopeCells(cell, B, fs), anc[C] = {C},
         Unowned(C, R, imm, dead, cell),
         NEW gone, Forgotten(gone, C, imm, dead, cell)
  PROVE  Divided(R, imm, gone, hk, cell, anc, B, fs, K)
  <1> USE DEF Unowned, Forgotten
  <1>1. \A n : Live(n, imm, gone) => Live(n, imm, dead) /\ (n \in DOMAIN cell => cell[n] # C)
    BY DEF Live
  <1>2. OwnersUnique(R, imm, gone, cell)
    BY <1>1 DEF Divided, OwnersUnique, Owner
  <1>3. RefsFit(R, imm, gone, hk, cell, anc)
    <2> SUFFICES ASSUME NEW s \in R
                 PROVE  /\ Live(s.src, imm, gone) => Fits(s.cap, cell[s.src], s.to, imm, gone, hk, cell, anc)
                        /\ s.src \in imm => s.cap = "tag" \/ s.to \in imm
      BY DEF RefsFit
    <2>1. s.src \in imm => s.cap = "tag" \/ s.to \in imm
      BY DEF Divided, RefsFit
    <2>2. ASSUME Live(s.src, imm, gone)
          PROVE  Fits(s.cap, cell[s.src], s.to, imm, gone, hk, cell, anc)
      <3>1. /\ Fits(s.cap, cell[s.src], s.to, imm, dead, hk, cell, anc) /\ Live(s.src, imm, dead)
            /\ cell[s.src] # C /\ s.to \in DOMAIN cell
        BY <1>1, <2>2 DEF Divided, RefsFit, RefTypes
      <3>2. ASSUME Live(s.to, imm, dead), s.cap # "tag" PROVE cell[s.to] # C
        <4>1. CASE s.cap \in Owning
          BY <3>1, <4>1 DEF Owner
        <4>2. CASE s.cap \notin Owning
          <5>1. cell[s.to] = cell[s.src] \/ cell[s.src] \in anc[cell[s.to]]
            BY <3>1, <3>2, <4>2 DEF Fits, Owning, Live
          <5> QED
            BY <3>1, <5>1
        <4> QED
          BY <4>1, <4>2
      <3>3. Live(s.to, imm, dead) /\ s.cap # "tag" => Live(s.to, imm, gone)
        BY <3>2 DEF Live
      <3> QED
        BY <3>1, <3>3 DEF Fits
    <2> QED
      BY <2>1, <2>2
  <1>4. Scoped(R, imm, gone, cell, anc, B, fs, K)
    <2>1. \A b \in B \cup {fs} : Live(b, imm, gone)
      BY DEF Divided, Scoped, Live, ScopeCells
    <2> QED
      BY <1>1, <2>1 DEF Divided, Scoped, Owner
  <1> QED
    BY <1>2, <1>3, <1>4 DEF Divided

(* References may be replaced by box or tag references to the same node    *)
(* from the same node.                                                     *)
LEMMA BoxRefs ==
  ASSUME NEW R, NEW imm, NEW dead, NEW hk, NEW cell, NEW anc, NEW B, NEW fs, NEW K,
         Divided(R, imm, dead, hk, cell, anc, B, fs, K),
         NEW S, \A n \in S : \/ n \in R
                             \/ /\ n.cap \in {"box", "tag"}
                                /\ \E r \in R : /\ r.src = n.src /\ r.to = n.to
                                                /\ r.cap = "iso" => n.cap = "tag"
                                                /\ r.cap = "tag" => n.cap = "tag"
  PROVE  Divided(S, imm, dead, hk, cell, anc, B, fs, K)
  <1>1. RefTypes(S, cell)
    BY DEF Divided, RefTypes
  <1>2. \A s \in S : Owner(s, imm, dead) => s \in R
    BY DEF Owner, Owning
  <1>3. RefsFit(S, imm, dead, hk, cell, anc)
    <2> SUFFICES ASSUME NEW n \in S, n \notin R
                 PROVE  /\ Live(n.src, imm, dead) => Fits(n.cap, cell[n.src], n.to, imm, dead, hk, cell, anc)
                        /\ n.src \in imm => n.cap = "tag" \/ n.to \in imm
      BY DEF Divided, RefsFit
    <2>1. PICK r \in R : /\ r.src = n.src /\ r.to = n.to
                         /\ r.cap = "iso" => n.cap = "tag"
                         /\ r.cap = "tag" => n.cap = "tag"
      OBVIOUS
    <2>2. n.src \in imm => n.cap = "tag" \/ n.to \in imm
      BY <2>1 DEF Divided, RefsFit
    <2>3. n.cap \in {"box", "tag"}
      OBVIOUS
    <2>4. ASSUME Live(n.src, imm, dead), n.cap = "box"
          PROVE  Fits(n.cap, cell[n.src], n.to, imm, dead, hk, cell, anc)
      <3>1. Fits(r.cap, cell[n.src], n.to, imm, dead, hk, cell, anc) /\ r.cap \notin {"iso", "tag"}
        BY <2>1, <2>4 DEF Divided, RefsFit
      <3>2. cell[n.src] \in anc[cell[n.src]]
        BY <2>1 DEF Divided, RefTypes, Placed, Order
      <3> QED
        BY <2>4, <3>1, <3>2 DEF Fits
    <2> QED
      BY <2>2, <2>3, <2>4 DEF Fits
  <1>4. OwnersUnique(S, imm, dead, cell)
    BY <1>2 DEF Divided, OwnersUnique
  <1>5. Scoped(S, imm, dead, cell, anc, B, fs, K)
    BY <1>2 DEF Divided, Scoped
  <1> QED
    BY <1>1, <1>3, <1>4, <1>5 DEF Divided

(* An element that is not in S.                                            *)
Fresh(S) == {x \in S : x \notin x}

(* Fresh(S) is not in S.                                                   *)
LEMMA FreshIsNew == ASSUME NEW S PROVE Fresh(S) \notin S
  BY DEF Fresh

(* Whether a reference fits depends on the regions at its two ends only.   *)
LEMMA FitsStill ==
  ASSUME NEW cap, NEW home, NEW to, NEW imm, NEW dead, NEW hk, NEW cell, NEW anc, NEW in, NEW up,
         Fits(cap, home, to, imm, dead, hk, cell, anc),
         in[to] = cell[to], up[cell[to]] = anc[cell[to]], up[home] = anc[home]
  PROVE  Fits(cap, home, to, imm, dead, hk, in, up)
  BY DEF Fits

(* The ends of the references of R lie in the regions they lay in before.  *)
SameEnds(R, cell, anc, in, up) ==
  \A r \in R : /\ in[r.src] = cell[r.src] /\ in[r.to] = cell[r.to]
              /\ up[cell[r.src]] = anc[cell[r.src]] /\ up[cell[r.to]] = anc[cell[r.to]]

(* References that fitted still fit when their ends stay where they were.  *)
LEMMA RefsFitStill ==
  ASSUME NEW R, NEW imm, NEW dead, NEW hk, NEW cell, NEW anc, NEW in, NEW up,
         RefsFit(R, imm, dead, hk, cell, anc), SameEnds(R, cell, anc, in, up)
  PROVE  RefsFit(R, imm, dead, hk, in, up)
  <1> SUFFICES ASSUME NEW s \in R
               PROVE  /\ Live(s.src, imm, dead) => Fits(s.cap, in[s.src], s.to, imm, dead, hk, in, up)
                      /\ s.src \in imm => s.cap = "tag" \/ s.to \in imm
    BY DEF RefsFit
  <1>1. /\ Live(s.src, imm, dead) => Fits(s.cap, cell[s.src], s.to, imm, dead, hk, cell, anc)
        /\ s.src \in imm => s.cap = "tag" \/ s.to \in imm
    BY DEF RefsFit
  <1>2. /\ in[s.src] = cell[s.src] /\ in[s.to] = cell[s.to]
        /\ up[cell[s.src]] = anc[cell[s.src]] /\ up[cell[s.to]] = anc[cell[s.to]]
    BY DEF SameEnds
  <1>3. Fits(s.cap, cell[s.src], s.to, imm, dead, hk, cell, anc)
          => Fits(s.cap, cell[s.src], s.to, imm, dead, hk, in, up)
    BY <1>2, FitsStill
  <1> QED
    BY <1>1, <1>2, <1>3

(* A frame without references starts in a region of its own.               *)
LEMMA FreshFrame ==
  ASSUME NEW R, NEW imm, NEW dead, NEW hk, NEW cell, NEW anc, NEW B, NEW fs, NEW K,
         Divided(R, imm, dead, hk, cell, anc, B, fs, K),
         \A r \in R : r.src # fs /\ r.to # fs,
         NEW F, F = Fresh(DOMAIN anc),
         NEW in, in = [n \in DOMAIN cell |-> IF n = fs THEN F ELSE cell[n]],
         NEW up, up = [c \in DOMAIN anc \cup {F} |-> IF c = F THEN {F} ELSE anc[c]]
  PROVE  /\ Divided(R, imm, dead, hk, in, up, B, fs, {})
         /\ F \notin DOMAIN anc /\ DOMAIN in = DOMAIN cell
         /\ \A n \in DOMAIN cell : n # fs => in[n] = cell[n]
         /\ \A c \in DOMAIN anc : c \in DOMAIN up /\ up[c] = anc[c]
  <1>1. F \notin DOMAIN anc
    BY FreshIsNew
  <1>2. /\ DOMAIN in = DOMAIN cell /\ DOMAIN up = DOMAIN anc \cup {F}
        /\ \A n \in DOMAIN cell : n # fs => in[n] = cell[n]
        /\ \A c \in DOMAIN anc : c \in DOMAIN up /\ up[c] = anc[c]
        /\ up[F] = {F} /\ in[fs] = F
    BY <1>1 DEF Divided, Scoped
  <1>3. Order(up)
    BY <1>1, <1>2 DEF Divided, Order
  <1>4. RefTypes(R, in) /\ Placed(in, up)
    BY <1>2 DEF Divided, RefTypes, Placed
  <1>5. \A r \in R : /\ in[r.src] = cell[r.src] /\ in[r.to] = cell[r.to]
                     /\ up[cell[r.src]] = anc[cell[r.src]] /\ up[cell[r.to]] = anc[cell[r.to]]
    BY <1>2 DEF Divided, RefTypes, Placed
  <1>6. OwnersUnique(R, imm, dead, in)
    BY <1>5 DEF Divided, OwnersUnique
  <1>7. RefsFit(R, imm, dead, hk, in, up)
    <2>1. SameEnds(R, cell, anc, in, up)
      BY <1>5 DEF SameEnds
    <2>2. RefsFit(R, imm, dead, hk, cell, anc)
      BY DEF Divided
    <2> QED
      BY <2>1, <2>2, RefsFitStill
  <1>8. Scoped(R, imm, dead, in, up, B, fs, {})
    <2>1. \A b \in B : in[b] = cell[b] /\ cell[b] \in DOMAIN anc /\ cell[b] # F
      BY <1>1, <1>2 DEF Divided, Scoped, Placed
    <2>2. \A r \in R : in[r.to] # F
      BY <1>1, <1>5 DEF Divided, RefTypes, Placed
    <2>3. \A b \in B : up[in[b]] = {in[b]} /\ in[b] # in[fs]
      BY <1>2, <2>1 DEF Divided, Scoped
    <2>4. \A r \in R : Owner(r, imm, dead) => /\ \A b \in B : in[r.to] # in[b]
                                             /\ in[r.to] # in[fs]
      <3>1. \A r \in R : Owner(r, imm, dead) => \A b \in B : cell[r.to] # cell[b]
        BY DEF Divided, Scoped
      <3>2. in[fs] = F
        BY <1>2
      <3> QED
        BY <1>5, <2>1, <2>2, <3>1, <3>2
    <2>5. \A b, d \in B : in[b] = in[d] => b = d
      BY <2>1 DEF Divided, Scoped
    <2>6. \A c \in up[in[fs]] : c = in[fs]
      BY <1>2
    <2> QED
      BY <1>2, <2>3, <2>4, <2>5, <2>6 DEF Divided, Scoped
  <1> QED
    BY <1>1, <1>2, <1>3, <1>4, <1>6, <1>7, <1>8 DEF Divided

(* The frame of a call starts in the region of its unique receiver.        *)
LEMMA JoinFrame ==
  ASSUME NEW R, NEW imm, NEW dead, NEW hk, NEW cell, NEW anc, NEW B, NEW fs,
         Divided(R, imm, dead, hk, cell, anc, B, fs, {}),
         \A r \in R : r.src # fs /\ r.to # fs,
         NEW r \in R, r.cap \in Owning, r.src \in B,
         NEW in, in = [n \in DOMAIN cell |-> IF n = fs THEN cell[r.to] ELSE cell[n]]
  PROVE  /\ Divided(R, imm, dead, hk, in, anc, B, fs, {r.src})
         /\ DOMAIN in = DOMAIN cell /\ in[fs] = cell[r.to]
         /\ \A n \in DOMAIN cell : n # fs => in[n] = cell[n]
  <1>1. /\ DOMAIN in = DOMAIN cell
        /\ \A n \in DOMAIN cell : n # fs => in[n] = cell[n]
        /\ in[fs] = cell[r.to] /\ r.to \in DOMAIN cell /\ cell[r.to] \in DOMAIN anc
    BY DEF Divided, Scoped, RefTypes, Placed
  <1>2. RefTypes(R, in) /\ Placed(in, anc)
    BY <1>1 DEF Divided, RefTypes, Placed
  <1>3. \A s \in R : in[s.src] = cell[s.src] /\ in[s.to] = cell[s.to]
    BY <1>1 DEF Divided, RefTypes
  <1>4. OwnersUnique(R, imm, dead, in)
    BY <1>3 DEF Divided, OwnersUnique
  <1>5. RefsFit(R, imm, dead, hk, in, anc)
    BY <1>3 DEF Divided, RefsFit, Fits
  <1>6. Scoped(R, imm, dead, in, anc, B, fs, {r.src})
    <2>1. \A b \in B : in[b] = cell[b] /\ Live(b, imm, dead)
      BY <1>1 DEF Divided, Scoped
    <2>2. Owner(r, imm, dead) /\ Fits(r.cap, cell[r.src], r.to, imm, dead, hk, cell, anc)
      BY <2>1 DEF Owner, Divided, RefsFit
    <2>3. \A b \in B : cell[r.to] # cell[b]
      BY <2>2 DEF Divided, Scoped
    <2>4. anc[cell[r.to]] \subseteq {cell[r.to]} \cup anc[cell[r.src]]
      BY <2>2 DEF Fits, Owner, Owning
    <2>5. anc[cell[r.src]] = {cell[r.src]}
      BY DEF Divided, Scoped
    <2>6. \A s \in R : Owner(s, imm, dead) /\ cell[s.to] = cell[r.to] => s = r
      BY <2>2 DEF Divided, OwnersUnique
    <2> QED
      BY <1>1, <1>3, <2>1, <2>3, <2>4, <2>5, <2>6 DEF Divided, Scoped
  <1> QED
    BY <1>1, <1>2, <1>4, <1>5, <1>6 DEF Divided

(* No reference of R starts or ends at n.                                  *)
Untouched(n, R) == \A r \in R : r.src # n /\ r.to # n

(* An object nobody refers to becomes part of the region of an actor or    *)
(* the frame.                                                              *)
LEMMA NewNode ==
  ASSUME NEW R, NEW imm, NEW dead, NEW hk, NEW cell, NEW anc, NEW B, NEW fs, NEW K,
         Divided(R, imm, dead, hk, cell, anc, B, fs, K),
         NEW n \in DOMAIN cell, n \notin B, n # fs,
         Untouched(n, R),
         NEW h \in B \cup {fs},
         NEW in, in = [m \in DOMAIN cell |-> IF m = n THEN cell[h] ELSE cell[m]]
  PROVE  /\ Divided(R, imm \ {n}, dead \ {n}, hk \ {n}, in, anc, B, fs, K)
         /\ Live(n, imm \ {n}, dead \ {n}) /\ in[n] = in[h]
         /\ DOMAIN in = DOMAIN cell
  <1> USE DEF Untouched
  <1>1. /\ DOMAIN in = DOMAIN cell /\ h \in DOMAIN cell /\ h # n
        /\ \A m \in DOMAIN cell : m # n => in[m] = cell[m]
        /\ in[n] = cell[h] /\ cell[h] \in DOMAIN anc
    BY DEF Divided, Scoped, Placed
  <1>2. RefTypes(R, in) /\ Placed(in, anc)
    BY <1>1 DEF Divided, RefTypes, Placed
  <1>3. \A s \in R : /\ in[s.src] = cell[s.src] /\ in[s.to] = cell[s.to]
                     /\ Live(s.src, imm \ {n}, dead \ {n}) <=> Live(s.src, imm, dead)
                     /\ Live(s.to, imm \ {n}, dead \ {n}) <=> Live(s.to, imm, dead)
                     /\ s.src \in imm \ {n} <=> s.src \in imm
                     /\ s.to \in imm \ {n} <=> s.to \in imm
    BY <1>1 DEF Divided, RefTypes, Live
  <1>4. OwnersUnique(R, imm \ {n}, dead \ {n}, in)
    BY <1>3 DEF Divided, OwnersUnique, Owner
  <1>5. RefsFit(R, imm \ {n}, dead \ {n}, hk \ {n}, in, anc)
    <2> SUFFICES ASSUME NEW s \in R
                 PROVE  /\ Live(s.src, imm \ {n}, dead \ {n})
                             => Fits(s.cap, in[s.src], s.to, imm \ {n}, dead \ {n}, hk \ {n}, in, anc)
                        /\ s.src \in imm \ {n} => s.cap = "tag" \/ s.to \in imm \ {n}
      BY DEF RefsFit
    <2>1. /\ Live(s.src, imm, dead) => Fits(s.cap, cell[s.src], s.to, imm, dead, hk, cell, anc)
          /\ s.src \in imm => s.cap = "tag" \/ s.to \in imm
      BY DEF Divided, RefsFit
    <2>2. /\ in[s.src] = cell[s.src] /\ in[s.to] = cell[s.to]
          /\ Live(s.to, imm \ {n}, dead \ {n}) <=> Live(s.to, imm, dead)
          /\ s.to \in imm \ {n} <=> s.to \in imm
          /\ s.to \notin hk => s.to \notin hk \ {n}
      BY <1>3
    <2>3. Fits(s.cap, cell[s.src], s.to, imm, dead, hk, cell, anc)
            => Fits(s.cap, in[s.src], s.to, imm \ {n}, dead \ {n}, hk \ {n}, in, anc)
      BY <2>2 DEF Fits
    <2> QED
      BY <1>3, <2>1, <2>2, <2>3
  <1>6. Scoped(R, imm \ {n}, dead \ {n}, in, anc, B, fs, K)
    <2>1. \A b \in B \cup {fs} : in[b] = cell[b] /\ Live(b, imm \ {n}, dead \ {n})
      BY <1>1 DEF Divided, Scoped, Live
    <2>2. \A k \in K : k \in B
      BY DEF Divided, Scoped
    <2>3. \A s \in R : Owner(s, imm \ {n}, dead \ {n}) => Owner(s, imm, dead)
      BY <1>3 DEF Owner
    <2>4. \A c \in anc[in[fs]] : c = in[fs] \/ \E k \in K : c = in[k]
      BY <2>1, <2>2 DEF Divided, Scoped
    <2>5. \A b \in B : anc[in[b]] = {in[b]} /\ in[b] # in[fs]
      BY <2>1 DEF Divided, Scoped
    <2>6. \A b, d \in B : in[b] = in[d] => b = d
      BY <2>1 DEF Divided, Scoped
    <2>7. \A r \in R : Owner(r, imm \ {n}, dead \ {n}) =>
             /\ \A b \in B : in[r.to] # in[b]
             /\ in[r.to] = in[fs] => r.src \in K
      <3>1. \A r \in R : Owner(r, imm, dead) =>
               /\ \A b \in B : cell[r.to] # cell[b]
               /\ cell[r.to] = cell[fs] => r.src \in K
        BY DEF Divided, Scoped
      <3> QED
        BY <1>3, <2>1, <2>3, <3>1
    <2> QED
      BY <1>1, <2>1, <2>4, <2>5, <2>6, <2>7 DEF Divided, Scoped
  <1> QED
    BY <1>1, <1>2, <1>4, <1>5, <1>6 DEF Divided, Live

(* A reference that fits can be added also if it is unique, when the       *)
(* region has no other unique reference.                                   *)
LEMMA AddOwner ==
  ASSUME NEW R, NEW imm, NEW dead, NEW hk, NEW cell, NEW anc, NEW B, NEW fs, NEW K,
         Divided(R, imm, dead, hk, cell, anc, B, fs, K),
         NEW n, n.src \in DOMAIN cell, n.to \in DOMAIN cell, Live(n.src, imm, dead),
         Fits(n.cap, cell[n.src], n.to, imm, dead, hk, cell, anc),
         cell[n.to] \notin ScopeCells(cell, B, fs),
         \A s \in R : Owner(s, imm, dead) => cell[s.to] # cell[n.to]
  PROVE  Divided(R \cup {n}, imm, dead, hk, cell, anc, B, fs, K)
  <1>1. RefTypes(R \cup {n}, cell)
    BY DEF Divided, RefTypes
  <1>2. RefsFit(R \cup {n}, imm, dead, hk, cell, anc)
    BY DEF Divided, RefsFit, Live
  <1>3. OwnersUnique(R \cup {n}, imm, dead, cell)
    BY DEF Divided, OwnersUnique
  <1>4. Scoped(R \cup {n}, imm, dead, cell, anc, B, fs, K)
    BY DEF Divided, Scoped, ScopeCells
  <1> QED
    BY <1>1, <1>2, <1>3, <1>4 DEF Divided

(* The nodes that can be seen from the region F but not from D.            *)
Stranded(gone, F, D, imm, dead, cell, anc) ==
  \A n : n \in gone <=>
    n \in dead \/ (n \in DOMAIN cell /\ Live(n, imm, dead) /\ F \in anc[cell[n]] /\ D \notin anc[cell[n]])

(* Only D and what is below it are seen from D.                            *)
CutOff(up, D, anc) ==
  /\ DOMAIN up = DOMAIN anc
  /\ \A c \in DOMAIN anc : up[c] = IF D \in anc[c] THEN anc[c] \ (anc[D] \ {D}) ELSE anc[c]

(* When F is nobody's any more, what p sees and owns is kept and made a    *)
(* region that nobody sees into; the rest of F cannot be reached any more. *)
LEMMA Cut ==
  ASSUME NEW R, NEW imm, NEW dead, NEW hk, NEW cell, NEW anc, NEW B, NEW fs, NEW K,
         Divided(R, imm, dead, hk, cell, anc, B, fs, K),
         NEW F \in DOMAIN anc, F \notin ScopeCells(cell, B, fs), anc[F] = {F},
         \A s \in R : Owner(s, imm, dead) => cell[s.to] # F,
         NEW p \in DOMAIN cell, Live(p, imm, dead),
         NEW D, D = cell[p], F \in anc[D],
         NEW gone, Stranded(gone, F, D, imm, dead, cell, anc),
         NEW up, CutOff(up, D, anc)
  PROVE  /\ Divided(R, imm, gone, hk, cell, up, B, fs, K)
         /\ Live(p, imm, gone) /\ up[D] = {D} /\ D \notin ScopeCells(cell, B, fs)
         /\ \A s \in R : Owner(s, imm, gone) => cell[s.to] # D
  <1> USE DEF Stranded, CutOff
  <1>0. /\ DOMAIN up = DOMAIN anc /\ D \in DOMAIN anc
        /\ \A c \in DOMAIN anc : up[c] = IF D \in anc[c] THEN anc[c] \ (anc[D] \ {D}) ELSE anc[c]
        /\ up[D] = {D} /\ Live(p, imm, gone)
    <2>1. DOMAIN up = DOMAIN anc /\ D \in DOMAIN anc /\ D \in anc[D]
      BY DEF Divided, Placed, Order
    <2> QED
      BY <2>1 DEF Live
  <1>1. Order(up)
    <2> SUFFICES ASSUME NEW c \in DOMAIN anc
                 PROVE  /\ c \in up[c] /\ up[c] \subseteq DOMAIN anc
                        /\ \A b \in up[c] : up[b] \subseteq up[c]
                        /\ \A a, b \in up[c] : a \in up[b] \/ b \in up[a]
                        /\ \A b \in up[c] : c \in up[b] => b = c
      BY <1>0 DEF Order
    <2>1. c \in up[c] /\ up[c] \subseteq DOMAIN anc
      BY <1>0 DEF Divided, Order
    <2>2. D \in anc[c] => \A b \in up[c] : D \in anc[b]
      BY <1>0 DEF Divided, Order
    <2>3. \A b \in up[c] : b \in anc[c] /\ b \in DOMAIN anc
      BY <1>0 DEF Divided, Order
    <2>4. D \notin anc[c] => \A b \in up[c] : D \notin anc[b]
      BY <1>0, <2>3 DEF Divided, Order
    <2>5. \A b \in up[c] : up[b] \subseteq up[c]
      BY <1>0, <2>2, <2>3, <2>4 DEF Divided, Order
    <2>6. \A a, b \in up[c] : a \in up[b] \/ b \in up[a]
      BY <1>0, <2>2, <2>3, <2>4 DEF Divided, Order
    <2>7. \A b \in up[c] : c \in up[b] => b = c
      BY <1>0, <2>3 DEF Divided, Order
    <2> QED
      BY <2>1, <2>5, <2>6, <2>7
  <1>2. Placed(cell, up)
    BY <1>0 DEF Divided, Placed
  <1>3. D \notin ScopeCells(cell, B, fs)
    <2>1. ASSUME NEW b \in B \cup {fs}, D = cell[b] PROVE FALSE
      BY <2>1 DEF Divided, Scoped, ScopeCells
    <2> QED
      BY <2>1 DEF ScopeCells
  <1>4. \A n : Live(n, imm, gone) => Live(n, imm, dead) /\
                 (n \in DOMAIN cell => F \notin anc[cell[n]] \/ D \in anc[cell[n]])
    BY DEF Live
  <1>5. OwnersUnique(R, imm, gone, cell)
    BY <1>4 DEF Divided, OwnersUnique, Owner
  <1>6. ASSUME NEW s \in R, Live(s.src, imm, gone), s.cap # "tag", Live(s.to, imm, dead)
        PROVE  /\ cell[s.src] \in DOMAIN anc /\ cell[s.to] \in DOMAIN anc
               /\ Fits(s.cap, cell[s.src], s.to, imm, dead, hk, cell, anc)
               /\ s.cap # "iso" => (D \in anc[cell[s.src]] <=> D \in anc[cell[s.to]])
               /\ Live(s.to, imm, gone)
    <2>1. /\ Live(s.src, imm, dead) /\ Fits(s.cap, cell[s.src], s.to, imm, dead, hk, cell, anc)
          /\ s.src \in DOMAIN cell /\ s.to \in DOMAIN cell
          /\ cell[s.src] \in DOMAIN anc /\ cell[s.to] \in DOMAIN anc
          /\ F \notin anc[cell[s.src]] \/ D \in anc[cell[s.src]]
      BY <1>4, <1>6 DEF Divided, RefsFit, RefTypes, Placed
    <2>2. s.cap \in Owning => cell[s.to] # F
      BY <2>1 DEF Owner
    <2>3. CASE s.cap = "ref"
      <3>1. cell[s.to] = cell[s.src]
        BY <1>6, <2>1, <2>3 DEF Fits, Live
      <3> QED
        BY <1>6, <2>1, <2>3, <3>1 DEF Live
    <2>4. CASE s.cap = "box"
      <3>1. cell[s.src] \in anc[cell[s.to]]
        BY <1>6, <2>1, <2>4 DEF Fits, Live
      <3>2. D \in anc[cell[s.src]] => D \in anc[cell[s.to]]
        BY <2>1, <3>1 DEF Divided, Order
      <3>3. F \in anc[cell[s.to]] => F \in anc[cell[s.src]] \/ cell[s.src] = F
        BY <2>1, <3>1 DEF Divided, Order
      <3>4. D \in anc[cell[s.to]] => D \in anc[cell[s.src]]
        BY <1>0, <2>1, <3>1, <3>3 DEF Divided, Order
      <3>5. F \in anc[cell[s.to]] => D \in anc[cell[s.to]]
        BY <2>1, <3>2, <3>3 DEF Divided, Order
      <3> QED
        BY <1>6, <2>1, <3>2, <3>4, <3>5 DEF Live
    <2>5. CASE s.cap = "trn"
      <3>1. anc[cell[s.to]] = {cell[s.to]} \cup anc[cell[s.src]]
        BY <1>6, <2>1, <2>5 DEF Fits, Live
      <3>2. F \in anc[cell[s.to]] => D \in anc[cell[s.src]]
        BY <2>1, <2>2, <2>5, <3>1 DEF Owning
      <3>3. D \in anc[cell[s.to]] => F \in anc[cell[s.to]]
        BY <2>1 DEF Divided, Order
      <3> QED
        BY <1>6, <2>1, <3>1, <3>2, <3>3 DEF Live
    <2>6. CASE s.cap = "iso"
      <3>1. anc[cell[s.to]] = {cell[s.to]}
        BY <1>6, <2>1, <2>6 DEF Fits, Live
      <3>2. F \notin anc[cell[s.to]]
        BY <2>2, <2>6, <3>1 DEF Owning
      <3> QED
        BY <1>6, <2>1, <2>6, <3>2 DEF Live
    <2>7. s.cap \in {"ref", "box", "trn", "iso"}
      BY <1>6, <2>1 DEF Fits, Live
    <2> QED
      BY <2>3, <2>4, <2>5, <2>6, <2>7
  <1>7. \A s \in R : Owner(s, imm, gone) => cell[s.to] # D
    <2> SUFFICES ASSUME NEW s \in R, Owner(s, imm, gone), cell[s.to] = D PROVE FALSE
      OBVIOUS
    <2>1. Owner(s, imm, dead) /\ Live(s.src, imm, gone) /\ s.cap # "tag" /\ s.cap \in Owning
      BY <1>4 DEF Owner, Owning
    <2>2. Fits(s.cap, cell[s.src], s.to, imm, dead, hk, cell, anc) /\ Live(s.to, imm, dead)
      BY <2>1 DEF Divided, RefsFit, Owner, Owning, Fits
    <2>3. s.cap # "iso" => D \in anc[cell[s.src]]
      BY <1>0, <1>6, <2>1, <2>2 DEF Divided, Order
    <2>4. s.cap = "iso" => D = F
      BY <2>2 DEF Fits, Live
    <2> QED
      BY <2>1, <2>2, <2>3, <2>4 DEF Fits, Live, Owning
  <1>8. RefsFit(R, imm, gone, hk, cell, up)
    <2> SUFFICES ASSUME NEW s \in R
                 PROVE  /\ Live(s.src, imm, gone) => Fits(s.cap, cell[s.src], s.to, imm, gone, hk, cell, up)
                        /\ s.src \in imm => s.cap = "tag" \/ s.to \in imm
      BY DEF RefsFit
    <2>1. s.src \in imm => s.cap = "tag" \/ s.to \in imm
      BY DEF Divided, RefsFit
    <2>2. ASSUME Live(s.src, imm, gone), s.cap # "tag", Live(s.to, imm, dead)
          PROVE  Fits(s.cap, cell[s.src], s.to, imm, gone, hk, cell, up)
      <3>1. /\ cell[s.src] \in DOMAIN anc /\ cell[s.to] \in DOMAIN anc
            /\ Fits(s.cap, cell[s.src], s.to, imm, dead, hk, cell, anc)
            /\ s.cap # "iso" => (D \in anc[cell[s.src]] <=> D \in anc[cell[s.to]])
            /\ Live(s.to, imm, gone)
        BY <1>6, <2>2
      <3>2. CASE s.cap = "ref"
        BY <3>1, <3>2 DEF Fits, Live
      <3>3. CASE s.cap = "box"
        <4>1. cell[s.src] \in anc[cell[s.to]]
          BY <2>2, <3>1, <3>3 DEF Fits, Live
        <4>2. cell[s.src] \in up[cell[s.to]]
          BY <1>0, <3>1, <3>3, <4>1 DEF Divided, Order
        <4> QED
          BY <3>1, <3>3, <4>2 DEF Fits
      <3>4. CASE s.cap = "trn"
        <4>1. anc[cell[s.to]] = {cell[s.to]} \cup anc[cell[s.src]] /\ cell[s.to] \notin anc[cell[s.src]]
          BY <2>2, <3>1, <3>4 DEF Fits, Live
        <4>2. D \in anc[cell[s.src]] => cell[s.to] \notin anc[D]
          BY <3>1, <4>1 DEF Divided, Order
        <4>3. up[cell[s.to]] = {cell[s.to]} \cup up[cell[s.src]] /\ cell[s.to] \notin up[cell[s.src]]
          BY <1>0, <3>1, <3>4, <4>1, <4>2
        <4> QED
          BY <3>1, <3>4, <4>3 DEF Fits
      <3>5. CASE s.cap = "iso"
        <4>1. anc[cell[s.to]] = {cell[s.to]}
          BY <2>2, <3>1, <3>5 DEF Fits, Live
        <4>2. up[cell[s.to]] = {cell[s.to]}
          BY <1>0, <3>1, <4>1
        <4> QED
          BY <3>1, <3>5, <4>2 DEF Fits
      <3>6. s.cap \in {"ref", "box", "trn", "iso"}
        BY <2>2, <3>1 DEF Fits, Live
      <3> QED
        BY <3>2, <3>3, <3>4, <3>5, <3>6
    <2>3. ASSUME Live(s.src, imm, gone), s.cap = "tag" \/ ~Live(s.to, imm, dead)
          PROVE  Fits(s.cap, cell[s.src], s.to, imm, gone, hk, cell, up)
      <3>1. Fits(s.cap, cell[s.src], s.to, imm, dead, hk, cell, anc)
        BY <1>4, <2>3 DEF Divided, RefsFit
      <3> QED
        BY <2>3, <3>1 DEF Fits
    <2> QED
      BY <2>1, <2>2, <2>3
  <1>9. Scoped(R, imm, gone, cell, up, B, fs, K)
    <2>1. \A b \in B \cup {fs} : cell[b] \in DOMAIN anc /\ F \notin anc[cell[b]]
      BY DEF Divided, Scoped, ScopeCells, Placed
    <2>2. \A b \in B \cup {fs} : Live(b, imm, gone) /\ D \notin anc[cell[b]] /\ up[cell[b]] = anc[cell[b]]
      BY <1>0, <2>1 DEF Divided, Scoped, Live, Order
    <2> QED
      BY <1>4, <2>2 DEF Divided, Scoped, Owner
  <1> QED
    BY <1>0, <1>1, <1>2, <1>3, <1>5, <1>7, <1>8, <1>9 DEF Divided

(* The husks may be any nodes that no live iso, trn or ref refers to.      *)
LEMMA Shut ==
  ASSUME NEW R, NEW imm, NEW dead, NEW hk, NEW cell, NEW anc, NEW B, NEW fs, NEW K,
         Divided(R, imm, dead, hk, cell, anc, B, fs, K),
         NEW shut, \A r \in R : Live(r.src, imm, dead) /\ r.cap \in {"iso", "trn", "ref"} => r.to \notin shut
  PROVE  Divided(R, imm, dead, shut, cell, anc, B, fs, K)
  <1>1. RefsFit(R, imm, dead, shut, cell, anc)
    BY DEF Divided, RefsFit, Fits
  <1> QED
    BY <1>1 DEF Divided

-----------------------------------------------------------------------------
(* The references of a state of RefCaps.                                   *)

(* The nodes: the objects, one for each actor, where its variables are     *)
(* held, and one for the frame there is at a time.                         *)
ObjNode(o) == [is |-> "object", of |-> o]
BaseNode(t) == [is |-> "base", of |-> t]
FrameNode == [is |-> "frame", of |-> "frame"]
Bases == {BaseNode(t) : t \in Thread}
Node == {ObjNode(o) : o \in Object} \cup Bases \cup {FrameNode}

(* A reference: where it is held, its capability and the node it refers    *)
(* to. kind and at tell apart those that have all of this in common.       *)
Ref(kind, at, src, cap, to) ==
  [kind |-> kind, at |-> at, src |-> src, cap |-> cap, to |-> to]

(* The node a variable is held at.                                         *)
Home(x) == IF x.rec THEN FrameNode ELSE BaseNode(x.owner)

(* The references of the variables of the bag v, one for each copy.        *)
VarRef(x, k) == Ref("variable", <<x, k>>, Home(x), x.cap, ObjNode(x.obj))
VarRefs(v) == UNION {{VarRef(x, k) : k \in 1..v[x]} : x \in DOMAIN v}

(* The capability that counts of a field: a husk is the object of a trn    *)
(* that was consumed to take a trn out of one of its fields; it is only    *)
(* seen as box from then on, and through a box its ref and trn fields are  *)
(* box.                                                                    *)
Effective(o, f, dc, hk) ==
  IF ObjNode(o) \in hk /\ dc[o][f] \in {"ref", "trn"} THEN "box" ELSE dc[o][f]

(* The references of the fields.                                           *)
FieldRef(o, f, fl, dc, hk) ==
  Ref("field", <<o, f>>, ObjNode(o), Effective(o, f, dc, hk), ObjNode(fl[o][f]))
FieldRefs(fl, dc, hk) ==
  UNION {{FieldRef(o, f, fl, dc, hk) : f \in {f \in Field : fl[o][f] # Null}} : o \in Object}

(* All references of a state.                                              *)
Refs(v, fl, dc, hk) == VarRefs(v) \cup FieldRefs(fl, dc, hk)

(* The reference of a value that is not bound yet.                         *)
Temp(n, c, h, o) == Ref("temporary", n, h, c, ObjNode(o))

(* The references R can be divided into regions, with the husks hk and the *)
(* waiting callers K, so that the nodes of W are live and no husks.        *)
Good(R, hk, K, W) ==
  \E imm, dead, cell, anc :
    /\ DOMAIN cell = Node
    /\ Divided(R, imm, dead, hk, cell, anc, Bases, FrameNode, K)
    /\ \A n \in W : Live(n, imm, dead) /\ n \notin hk

(* The actor whose variables wait for the end of a call.                   *)
Callers(fr) == IF fr.receiver = "none" THEN {} ELSE {BaseNode(fr.by)}

(* Where the variables of t are held at this point of its program.         *)
Here(t, fr) == IF fr.by = t THEN FrameNode ELSE BaseNode(t)

(* What a variable is.                                                     *)
VarSet == [owner : Thread, obj : Object, cap : Concrete, rec : BOOLEAN]

(* The variables of v are of objects that were made, and those of the      *)
(* frame belong to the actor inside of it.                                 *)
BagOK(v, fr, mk) ==
  \A x \in DOMAIN v :
    /\ x \in VarSet /\ v[x] \in Nat \ {0} /\ x.obj \in mk
    /\ x.rec => x.owner = fr.by

(* Fields have a concrete capability and refer to objects that were made.  *)
HeapOK(fl, dc, mk) ==
  /\ dc \in [Object -> [Field -> Concrete]]
  /\ fl \in [Object -> [Field -> Object \cup {Null}]]
  /\ \A o \in Object, f \in Field : fl[o][f] # Null => o \in mk /\ fl[o][f] \in mk
  /\ mk \subseteq Object

(* What a frame is.                                                        *)
FrameOK(fr) ==
  /\ fr \in [by : Thread \cup {Null}, receiver : {"none", "iso", "trn"}]
  /\ fr.by = Null => fr.receiver = "none"

(* Nodes of different kinds, or of different objects or actors, are        *)
(* different.                                                              *)
LEMMA NodeFacts ==
  /\ \A o, p : ObjNode(o) = ObjNode(p) => o = p
  /\ \A t, u : BaseNode(t) = BaseNode(u) => t = u
  /\ \A o, t : ObjNode(o) # BaseNode(t)
  /\ \A o : ObjNode(o) # FrameNode
  /\ \A t : BaseNode(t) # FrameNode
  BY DEF ObjNode, BaseNode, FrameNode

(* The parts of a reference.                                               *)
LEMMA RefFacts ==
  ASSUME NEW kind, NEW at, NEW src, NEW cap, NEW to, NEW r, r = Ref(kind, at, src, cap, to)
  PROVE  r.kind = kind /\ r.at = at /\ r.src = src /\ r.cap = cap /\ r.to = to
  BY DEF Ref

(* The parts of the reference of a variable.                               *)
LEMMA VarRefFacts ==
  ASSUME NEW x, NEW k
  PROVE  /\ VarRef(x, k).src = Home(x) /\ VarRef(x, k).cap = x.cap
         /\ VarRef(x, k).to = ObjNode(x.obj) /\ VarRef(x, k).kind = "variable"
         /\ VarRef(x, k).at = <<x, k>>
  BY RefFacts DEF VarRef

(* The parts of the reference of a field.                                  *)
LEMMA FieldRefFacts ==
  ASSUME NEW o, NEW f, NEW fl, NEW dc, NEW hk
  PROVE  /\ FieldRef(o, f, fl, dc, hk).src = ObjNode(o)
         /\ FieldRef(o, f, fl, dc, hk).cap = Effective(o, f, dc, hk)
         /\ FieldRef(o, f, fl, dc, hk).to = ObjNode(fl[o][f])
         /\ FieldRef(o, f, fl, dc, hk).kind = "field"
         /\ FieldRef(o, f, fl, dc, hk).at = <<o, f>>
  BY RefFacts DEF FieldRef

(* The parts of the reference of a value.                                  *)
LEMMA TempFacts ==
  ASSUME NEW n, NEW c, NEW h, NEW o
  PROVE  /\ Temp(n, c, h, o).src = h /\ Temp(n, c, h, o).cap = c
         /\ Temp(n, c, h, o).to = ObjNode(o) /\ Temp(n, c, h, o).kind = "temporary"
         /\ Temp(n, c, h, o).at = n
  BY RefFacts DEF Temp

(* Membership in VarRefs.                                                  *)
LEMMA InVarRefs ==
  ASSUME NEW v, NEW r
  PROVE  r \in VarRefs(v) <=> \E x \in DOMAIN v : \E k \in 1..v[x] : r = VarRef(x, k)
  BY DEF VarRefs

(* Membership in FieldRefs.                                                *)
LEMMA InFieldRefs ==
  ASSUME NEW fl, NEW dc, NEW hk, NEW r
  PROVE  r \in FieldRefs(fl, dc, hk) <=>
           \E o \in Object : \E f \in Field : fl[o][f] # Null /\ r = FieldRef(o, f, fl, dc, hk)
  BY DEF FieldRefs

(* The references of variables and of fields are told apart by kind.       *)
LEMMA RefKinds ==
  ASSUME NEW v, NEW fl, NEW dc, NEW hk, NEW r \in Refs(v, fl, dc, hk)
  PROVE  /\ r.kind \in {"variable", "field"}
         /\ r.kind = "variable" <=> r \in VarRefs(v)
         /\ r.kind = "field" <=> r \in FieldRefs(fl, dc, hk)
  BY InVarRefs, InFieldRefs, VarRefFacts, FieldRefFacts DEF Refs

(* A value that is not bound is no variable and no field.                  *)
LEMMA TempNotIn ==
  ASSUME NEW v, NEW fl, NEW dc, NEW hk, NEW n, NEW c, NEW h, NEW o
  PROVE  Temp(n, c, h, o) \notin Refs(v, fl, dc, hk)
  BY RefKinds, TempFacts

(* There is an unused reference from h to p of each capability.            *)
Spare(R, h, p) ==
  \A c \in Concrete : \E m : m \notin R /\ m.src = h /\ m.to = p /\ m.cap = c

(* That of a value is one.                                                 *)
LEMMA TempChoice ==
  ASSUME NEW v, NEW fl, NEW dc, NEW hk, NEW h, NEW o, NEW p, p = ObjNode(o)
  PROVE  Spare(Refs(v, fl, dc, hk), h, p)
  <1> SUFFICES \A c \in Concrete : \E m : m \notin Refs(v, fl, dc, hk) /\ m.src = h /\ m.to = p /\ m.cap = c
    BY DEF Spare
  <1> TAKE c \in Concrete
  <1> WITNESS Temp("choice", c, h, o)
  <1> QED BY TempFacts, TempNotIn

(* v is a bag.                                                             *)
Counted(v) == \A x \in DOMAIN v : v[x] \in Nat \ {0}

(* w is the bag v with another y.                                          *)
Added(v, y, w) ==
  /\ DOMAIN w = DOMAIN v \cup {y}
  /\ \A x \in DOMAIN v : x # y => w[x] = v[x]
  /\ y \in DOMAIN v => w[y] = v[y] + 1
  /\ y \notin DOMAIN v => w[y] = 1

(* Adding to a bag adds one copy.                                          *)
LEMMA BagAdd ==
  ASSUME NEW v, NEW y, Counted(v)
  PROVE  Added(v, y, v (+) SetToBag({y}))
  BY DEF SetToBag, (+), Counted, Added

(* Taking from a bag takes one copy.                                       *)
LEMMA BagDrop ==
  ASSUME NEW v, NEW y \in DOMAIN v, Counted(v),
         NEW w, w = v (-) SetToBag({y})
  PROVE  /\ DOMAIN w \subseteq DOMAIN v
         /\ \A x \in DOMAIN v : x # y => x \in DOMAIN w /\ w[x] = v[x]
         /\ y \in DOMAIN w <=> v[y] > 1
         /\ y \in DOMAIN w => w[y] = v[y] - 1
  BY DEF SetToBag, (-), Counted

(* The nodes that hold variables.                                          *)
Scope == Bases \cup {FrameNode}

(* n holds variables, or a variable of mutable capability refers to it.    *)
Standing(n, R) ==
  \/ n \in Scope
  \/ \E q \in R : q.src \in Scope /\ q.cap \in {"iso", "trn", "ref"} /\ q.to = n

(* a and b are in one region: one holds a ref variable to the other.       *)
Near(a, b, R) ==
  \/ a = b
  \/ \E q \in R : /\ q.src \in Scope /\ q.cap = "ref"
                  /\ (q.src = a /\ q.to = b) \/ (q.src = b /\ q.to = a)

(* The nodes that hold variables are live.                                 *)
LEMMA ScopeIsLive ==
  ASSUME NEW R, NEW imm, NEW dead, NEW hk, NEW cell, NEW anc, NEW K, DOMAIN cell = Node,
         Divided(R, imm, dead, hk, cell, anc, Bases, FrameNode, K), NEW n \in Scope
  PROVE  Live(n, imm, dead) /\ n \in Node
  BY DEF Divided, Scoped, Scope

(* So is what a mutable variable refers to.                                *)
LEMMA StandingIsLive ==
  ASSUME NEW R, NEW imm, NEW dead, NEW hk, NEW cell, NEW anc, NEW K, DOMAIN cell = Node,
         Divided(R, imm, dead, hk, cell, anc, Bases, FrameNode, K), NEW n, Standing(n, R)
  PROVE  Live(n, imm, dead) /\ n \in Node
  <1>1. CASE n \in Scope BY <1>1, ScopeIsLive
  <1>2. ASSUME NEW q \in R, q.src \in Scope, q.cap \in {"iso", "trn", "ref"}, q.to = n
        PROVE  Live(n, imm, dead) /\ n \in Node
    <2>1. Live(q.src, imm, dead) BY <1>2, ScopeIsLive
    <2>2. Fits(q.cap, cell[q.src], q.to, imm, dead, hk, cell, anc) BY <2>1, <1>2 DEF Divided, RefsFit
    <2> QED BY <2>2, <1>2 DEF Fits, Divided, RefTypes
  <1> QED BY <1>1, <1>2 DEF Standing

(* Near nodes are in one region.                                           *)
LEMMA NearSameCell ==
  ASSUME NEW R, NEW imm, NEW dead, NEW hk, NEW cell, NEW anc, NEW K, DOMAIN cell = Node,
         Divided(R, imm, dead, hk, cell, anc, Bases, FrameNode, K), NEW a, NEW b, Near(a, b, R)
  PROVE  cell[a] = cell[b]
  <1>1. CASE a = b BY <1>1
  <1>2. ASSUME NEW q \in R, q.src \in Scope, q.cap = "ref"
        PROVE  cell[q.src] = cell[q.to]
    <2>1. Live(q.src, imm, dead) BY <1>2, ScopeIsLive
    <2>2. Fits(q.cap, cell[q.src], q.to, imm, dead, hk, cell, anc) BY <2>1, <1>2 DEF Divided, RefsFit
    <2> QED BY <2>2, <1>2 DEF Fits
  <1> QED BY <1>1, <1>2 DEF Near

(* References can be dropped.                                              *)
LEMMA GoodSub ==
  ASSUME NEW R, NEW hk, NEW K, NEW W, Good(R, hk, K, W), NEW S \in SUBSET R, NEW V \in SUBSET W
  PROVE  Good(S, hk, K, V)
  BY RemoveRefs DEF Good

(* A reference can be moved, a sendable one to anywhere.                   *)
LEMMA GoodMove ==
  ASSUME NEW R, NEW hk, NEW K, NEW W, Good(R, hk, K, W),
         NEW r \in R, r.src \notin K, Standing(r.src, R),
         NEW n, Standing(n.src, R), n.to = r.to, n.cap = r.cap,
         r.cap \in {"iso", "val", "tag"} \/ Near(n.src, r.src, R)
  PROVE  Good((R \ {r}) \cup {n}, hk, K, W)
  <1> PICK imm, dead, cell, anc :
         /\ DOMAIN cell = Node
         /\ Divided(R, imm, dead, hk, cell, anc, Bases, FrameNode, K)
         /\ \A m \in W : Live(m, imm, dead) /\ m \notin hk
    BY DEF Good
  <1>1. Live(r.src, imm, dead) /\ Live(n.src, imm, dead) /\ n.src \in Node BY StandingIsLive
  <1>2. r.cap \in {"iso", "val", "tag"} \/ cell[n.src] = cell[r.src] BY NearSameCell
  <1>3. Divided((R \ {r}) \cup {n}, imm, dead, hk, cell, anc, Bases, FrameNode, K)
    BY <1>1, <1>2, MoveRef
  <1> QED BY <1>3 DEF Good

(* n is an alias that the reference r allows.                              *)
Copies(r, n) ==
  /\ n.to = r.to
  /\ \/ n.cap = "tag"
     \/ n.cap = "val" /\ r.cap = "val"
     \/ n.src = r.src /\ n.cap = "ref" /\ r.cap = "ref"
     \/ n.src = r.src /\ n.cap = "box" /\ r.cap \in {"trn", "ref", "val", "box"}

(* An alias can be made.                                                   *)
LEMMA GoodCopy ==
  ASSUME NEW R, NEW hk, NEW K, NEW W, Good(R, hk, K, W),
         NEW r \in R, Standing(r.src, R), NEW n, Standing(n.src, R), Copies(r, n)
  PROVE  Good(R \cup {n}, hk, K, W)
  <1> PICK imm, dead, cell, anc :
         /\ DOMAIN cell = Node
         /\ Divided(R, imm, dead, hk, cell, anc, Bases, FrameNode, K)
         /\ \A m \in W : Live(m, imm, dead) /\ m \notin hk
    BY DEF Good
  <1>1. /\ Live(r.src, imm, dead) /\ Live(n.src, imm, dead) /\ n.src \in Node /\ r.src \in Node
        /\ r.to \in Node
    BY StandingIsLive DEF Divided, RefTypes
  <1>2. Fits(r.cap, cell[r.src], r.to, imm, dead, hk, cell, anc) BY <1>1 DEF Divided, RefsFit
  <1>3. cell[r.src] \in anc[cell[r.src]] BY <1>1 DEF Divided, Order, Placed
  <1>4. Fits(n.cap, cell[n.src], n.to, imm, dead, hk, cell, anc) /\ n.cap \notin Owning
    <2>1. CASE n.cap = "tag" BY <2>1 DEF Fits, Owning
    <2>2. CASE n.cap = "val" /\ r.cap = "val" BY <2>2, <1>2 DEF Fits, Owning, Copies
    <2>3. CASE n.src = r.src /\ n.cap = "ref" /\ r.cap = "ref" BY <2>3, <1>2 DEF Fits, Owning, Copies
    <2>4. CASE n.src = r.src /\ n.cap = "box" /\ r.cap \in {"trn", "ref", "val", "box"}
      <3>1. r.to \in imm \/ (Live(r.to, imm, dead) /\ cell[r.src] \in anc[cell[r.to]])
        BY <1>2, <1>3, <2>4 DEF Fits
      <3> QED BY <3>1, <2>4 DEF Fits, Owning, Copies
    <2> QED BY <2>1, <2>2, <2>3, <2>4 DEF Copies
  <1>5. Divided(R \cup {n}, imm, dead, hk, cell, anc, Bases, FrameNode, K)
    BY <1>1, <1>4, AddRef DEF Copies
  <1> QED BY <1>5 DEF Good

(* A reference can become a box or tag reference.                          *)
LEMMA GoodBox ==
  ASSUME NEW R, NEW hk, NEW K, NEW r, Good(R \cup {r}, hk, K, {}),
         NEW n, n.src = r.src, n.to = r.to, n.cap \in {"box", "tag"},
         n.cap = "box" => r.cap \in {"trn", "ref", "val", "box"},
         r.cap \in Concrete
  PROVE  Good(R \cup {n}, hk, K, {})
  <1> PICK imm, dead, cell, anc :
         /\ DOMAIN cell = Node
         /\ Divided(R \cup {r}, imm, dead, hk, cell, anc, Bases, FrameNode, K)
    BY DEF Good
  <1>1. Divided(R \cup {n}, imm, dead, hk, cell, anc, Bases, FrameNode, K)
    <2> DEFINE Q == R \cup {r}
    <2>1. \A m \in R \cup {n} : \/ m \in Q
                                \/ /\ m.cap \in {"box", "tag"}
                                   /\ \E s \in Q : /\ s.src = m.src /\ s.to = m.to
                                                   /\ s.cap = "iso" => m.cap = "tag"
                                                   /\ s.cap = "tag" => m.cap = "tag"
      OBVIOUS
    <2>2. Divided(Q, imm, dead, hk, cell, anc, Bases, FrameNode, K) OBVIOUS
    <2> HIDE DEF Q
    <2> QED BY <2>1, <2>2, BoxRefs
  <1> QED BY <1>1 DEF Good

(* What a variable owns is not above any variable.                         *)
LEMMA ScopeAbove ==
  ASSUME NEW R, NEW imm, NEW dead, NEW hk, NEW cell, NEW anc, NEW K, DOMAIN cell = Node,
         Divided(R, imm, dead, hk, cell, anc, Bases, FrameNode, K),
         NEW h \in Scope, NEW r \in R, r.src \in Scope, r.src \notin K, r.cap \in Owning
  PROVE  /\ cell[r.to] \notin anc[cell[h]]
         /\ cell[r.to] \notin ScopeCells(cell, Bases, FrameNode)
         /\ anc[cell[h]] \subseteq ScopeCells(cell, Bases, FrameNode)
  <1>1. Live(r.src, imm, dead) BY ScopeIsLive
  <1>2. /\ \A b \in Bases : cell[r.to] # cell[b]
        /\ cell[r.to] # cell[FrameNode]
    BY <1>1 DEF Divided, Scoped, Owner
  <1>3. anc[cell[h]] \subseteq ScopeCells(cell, Bases, FrameNode)
    <2>1. CASE h \in Bases BY <2>1 DEF Divided, Scoped, ScopeCells
    <2>2. CASE h = FrameNode BY <2>2 DEF Divided, Scoped, ScopeCells
    <2> QED BY <2>1, <2>2 DEF Scope
  <1>4. cell[r.to] \notin ScopeCells(cell, Bases, FrameNode) BY <1>2 DEF ScopeCells
  <1> QED BY <1>3, <1>4

(* The place where n hangs r: where r was, or an object that is owned in   *)
(* the same way.                                                           *)
Hangs(r, n, R, K) ==
  \/ n.src = r.src
  \/ \E q \in R : /\ q.to = n.src /\ q.src \in Scope /\ q.src \notin K
                  /\ \/ q.cap = "iso" /\ r.cap = "iso"
                     \/ q.cap = "trn" /\ q.src = r.src

(* A unique reference can become a trn held elsewhere.                     *)
LEMMA GoodHang ==
  ASSUME NEW R, NEW hk, NEW K, NEW r, r \notin R, Good(R \cup {r}, hk, K, {}),
         r.src \in Scope, r.src \notin K, r.cap \in Owning,
         NEW n, n.to = r.to, n.cap = "trn", Hangs(r, n, R, K)
  PROVE  Good(R \cup {n}, hk, K, {})
  <1> DEFINE Q == R \cup {r}
  <1> PICK imm, dead, cell, anc :
         /\ DOMAIN cell = Node
         /\ Divided(Q, imm, dead, hk, cell, anc, Bases, FrameNode, K)
    BY DEF Good
  <1>0. r \in Q /\ R \subseteq Q OBVIOUS
  <1>a. (Q \ {r}) \cup {n} = R \cup {n} OBVIOUS
  <1>b. \A q \in Q : q = r \/ q \in R OBVIOUS
  <1> HIDE DEF Q
  <1>1. Standing(n.src, Q) BY <1>0 DEF Hangs, Standing, Owning
  <1>2. /\ Live(r.src, imm, dead) /\ Live(n.src, imm, dead) /\ n.src \in Node /\ r.src \in Node
        /\ r.to \in Node
    BY <1>1, <1>0, StandingIsLive, ScopeIsLive DEF Divided, RefTypes
  <1> DEFINE H == cell[n.src]
  <1> DEFINE C == cell[r.to]
  <1>3. Fits(r.cap, cell[r.src], r.to, imm, dead, hk, cell, anc) BY <1>0, <1>2 DEF Divided, RefsFit
  <1>4. C \notin anc[cell[r.src]] BY <1>0, ScopeAbove
  <1>5. anc[C] \subseteq {C} \cup anc[H] /\ C \notin anc[H]
    <2>1. CASE n.src = r.src BY <2>1, <1>3, <1>4 DEF Fits, Owning
    <2>2. ASSUME NEW q \in R, q.to = n.src, q.src \in Scope, q.src \notin K,
                 \/ q.cap = "iso" /\ r.cap = "iso"
                 \/ q.cap = "trn" /\ q.src = r.src
          PROVE  anc[C] \subseteq {C} \cup anc[H] /\ C \notin anc[H]
      <3>1. q \in Q /\ q # r BY <1>0, <2>2
      <3>2. Live(q.src, imm, dead) BY <2>2, ScopeIsLive
      <3>3. Fits(q.cap, cell[q.src], q.to, imm, dead, hk, cell, anc) BY <3>1, <3>2 DEF Divided, RefsFit
      <3>4. C # H BY <3>1, <3>2, <1>0, <1>2, <2>2 DEF Divided, OwnersUnique, Owner, Owning
      <3>5. CASE q.cap = "iso" /\ r.cap = "iso" BY <3>5, <3>3, <3>4, <1>3, <2>2 DEF Fits
      <3>6. CASE q.cap = "trn" /\ q.src = r.src BY <3>6, <3>3, <3>4, <1>3, <1>4, <2>2 DEF Fits, Owning
      <3> QED BY <3>5, <3>6, <2>2
    <2> QED BY <2>1, <2>2 DEF Hangs
  <1> DEFINE up == [c \in DOMAIN anc |-> IF C \in anc[c] THEN anc[c] \cup anc[H] ELSE anc[c]]
  <1>6. Divided((Q \ {r}) \cup {n}, imm, dead, hk, cell, up, Bases, FrameNode, K)
    BY <1>0, <1>2, <1>5, Hang
  <1> QED BY <1>6, <1>a DEF Good

(* A trn can become a ref: its region becomes part of that of its holder.  *)
LEMMA GoodMerge ==
  ASSUME NEW R, NEW hk, NEW K, NEW r, r \notin R, Good(R \cup {r}, hk, K, {}),
         Standing(r.src, R), r.src \notin K, r.cap = "trn",
         NEW n, n.src = r.src, n.to = r.to, n.cap = "ref"
  PROVE  Good(R \cup {n}, hk, K, {})
  <1> DEFINE Q == R \cup {r}
  <1> PICK imm, dead, cell, anc :
         /\ DOMAIN cell = Node
         /\ Divided(Q, imm, dead, hk, cell, anc, Bases, FrameNode, K)
    BY DEF Good
  <1>0. r \in Q /\ Q \ {r} = R /\ R \subseteq Q OBVIOUS
  <1> HIDE DEF Q
  <1>1. Standing(r.src, Q) BY <1>0 DEF Standing
  <1>2. Live(r.src, imm, dead) /\ r.src \in Node /\ r.to \in Node
    BY <1>1, <1>0, StandingIsLive DEF Divided, RefTypes
  <1> DEFINE H == cell[r.src]
             C == cell[r.to]
             in == [m \in DOMAIN cell |-> IF cell[m] = C THEN H ELSE cell[m]]
             up == [c \in DOMAIN anc |-> IF c = C THEN {C} ELSE anc[c] \ {C}]
  <1>3. /\ Divided(Q \ {r}, imm, dead, hk, in, up, Bases, FrameNode, K)
        /\ Live(r.to, imm, dead) /\ r.to \notin hk
        /\ in[r.to] = in[r.src] /\ in[r.src] = H
    BY <1>0, <1>2, Merge
  <1>4. DOMAIN in = Node OBVIOUS
  <1> HIDE DEF in, up
  <1>5. Fits(n.cap, in[n.src], n.to, imm, dead, hk, in, up) BY <1>3 DEF Fits
  <1>6. Divided(R \cup {n}, imm, dead, hk, in, up, Bases, FrameNode, K)
    BY <1>3, <1>0, <1>2, <1>4, <1>5, AddRef DEF Owning
  <1> QED BY <1>6, <1>4 DEF Good

(* A unique reference can become a val: its region is frozen.              *)
LEMMA GoodFreeze ==
  ASSUME NEW R, NEW hk, NEW K, NEW r, r \notin R, Good(R \cup {r}, hk, K, {}),
         r.src \in Scope, r.src \notin K, r.cap \in Owning,
         NEW n, n.src = r.src, n.to = r.to, n.cap = "val"
  PROVE  Good(R \cup {n}, hk, K, {})
  <1> DEFINE Q == R \cup {r}
  <1> PICK imm, dead, cell, anc :
         /\ DOMAIN cell = Node
         /\ Divided(Q, imm, dead, hk, cell, anc, Bases, FrameNode, K)
    BY DEF Good
  <1>0. r \in Q /\ R \subseteq Q /\ R \in SUBSET Q OBVIOUS
  <1> HIDE DEF Q
  <1>1. Live(r.src, imm, dead) /\ r.src \in Node /\ r.to \in Node
    BY <1>0, ScopeIsLive DEF Divided, RefTypes
  <1> DEFINE C == cell[r.to]
             N == ScopeCells(cell, Bases, FrameNode)
  <1>2. Fits(r.cap, cell[r.src], r.to, imm, dead, hk, cell, anc) BY <1>0, <1>1 DEF Divided, RefsFit
  <1>3. C \notin N /\ anc[cell[r.src]] \subseteq N BY <1>0, ScopeAbove
  <1>4. anc[C] \subseteq {C} \cup N /\ Live(r.to, imm, dead)
    BY <1>2, <1>3 DEF Fits, Owning
  <1>5. \A s \in R : Owner(s, imm, dead) => cell[s.to] # C
    BY <1>0, <1>1 DEF Divided, OwnersUnique, Owner
  <1>6. Divided(R, imm, dead, hk, cell, anc, Bases, FrameNode, K) BY <1>0, RemoveRefs
  <1>7. C \in DOMAIN anc BY <1>1 DEF Divided, Placed
  <1> HIDE DEF C, N
  <1> PICK T : T = Below({C}, R, imm, dead, cell, anc) OBVIOUS
  <1> PICK now : FrozenIn(now, T, imm, dead, cell)
    <2> WITNESS imm \cup {m \in DOMAIN cell : Live(m, imm, dead) /\ cell[m] \in T}
    <2> QED BY DEF FrozenIn
  <1>8. /\ Divided(R, now, dead, hk, cell, anc, Bases, FrameNode, K)
        /\ \A m \in DOMAIN cell : Live(m, imm, dead) /\ cell[m] = C => m \in now
    <2>1. C \notin ScopeCells(cell, Bases, FrameNode) /\ anc[C] \subseteq {C} \cup ScopeCells(cell, Bases, FrameNode)
      BY <1>3, <1>4 DEF N
    <2>2. Unowned(C, R, imm, dead, cell) BY <1>5 DEF Unowned
    <2> QED BY <1>6, <1>7, <2>1, <2>2, Freeze
  <1>9. r.to \in now BY <1>8, <1>1, <1>4 DEF C
  <1>10. Live(n.src, now, dead) BY <1>8, ScopeIsLive
  <1>11. Fits(n.cap, cell[n.src], n.to, now, dead, hk, cell, anc) BY <1>9 DEF Fits
  <1>12. Divided(R \cup {n}, now, dead, hk, cell, anc, Bases, FrameNode, K)
    BY <1>8, <1>10, <1>11, <1>1, AddRef DEF Owning
  <1> QED BY <1>12 DEF Good

(* A plain c is a subtype of a plain d.                                    *)
Weaker(c, d) == d = c \/ d = "tag" \/ d \in SubCapTable[c]

(* The cases of that.                                                      *)
LEMMA WeakerRows ==
  ASSUME NEW c \in Concrete, NEW d \in Concrete, Weaker(c, d)
  PROVE  \/ d = c \/ d = "tag"
         \/ d = "box" /\ c \in {"trn", "ref", "val"}
         \/ d \in {"trn", "ref", "val", "box"} /\ c = "iso"
         \/ d \in {"ref", "val"} /\ c = "trn"
  BY SubCapRows DEF Weaker, Concrete, Generic

(* A value can be bound to a variable of any capability that it is a       *)
(* subtype of.                                                             *)
LEMMA GoodWeaken ==
  ASSUME NEW R, NEW hk, NEW K, NEW r, r \notin R, Good(R \cup {r}, hk, K, {}),
         r.src \in Scope, r.src \notin K, r.cap \in Concrete,
         NEW n, n.src = r.src, n.to = r.to, n.cap \in Concrete, Weaker(r.cap, n.cap),
         NEW m, m \notin R, m.src = r.src, m.to = r.to, m.cap = "trn"
  PROVE  Good(R \cup {n}, hk, K, {})
  <1>0. Standing(r.src, R) BY DEF Standing
  <1>1. CASE n.cap = r.cap
    <2>1. Near(n.src, r.src, R \cup {r}) /\ Standing(r.src, R \cup {r}) BY DEF Near, Standing
    <2>2. Good(((R \cup {r}) \ {r}) \cup {n}, hk, K, {}) BY <2>1, <1>1, GoodMove
    <2>3. ((R \cup {r}) \ {r}) \cup {n} = R \cup {n} OBVIOUS
    <2> QED BY <2>2, <2>3
  <1>2. CASE n.cap = "tag" \/ (n.cap = "box" /\ r.cap \in {"trn", "ref", "val"})
    BY <1>2, GoodBox
  <1>3. CASE n.cap = "ref" /\ r.cap = "trn" BY <1>3, <1>0, GoodMerge
  <1>4. CASE n.cap = "val" /\ r.cap \in Owning BY <1>4, GoodFreeze
  <1>5. CASE n.cap \in {"trn", "ref", "box"} /\ r.cap = "iso"
    <2>1. Hangs(r, m, R, K) BY DEF Hangs
    <2>2. Good(R \cup {m}, hk, K, {}) BY <2>1, <1>5, GoodHang DEF Owning
    <2>3. CASE n.cap = "trn"
      <3>1. Near(n.src, m.src, R \cup {m}) /\ Standing(m.src, R \cup {m}) /\ Standing(n.src, R \cup {m})
        BY DEF Near, Standing
      <3>2. Good(((R \cup {m}) \ {m}) \cup {n}, hk, K, {}) BY <3>1, <2>2, <2>3, GoodMove
      <3>3. ((R \cup {m}) \ {m}) \cup {n} = R \cup {n} OBVIOUS
      <3> QED BY <3>2, <3>3
    <2>4. CASE n.cap = "ref" BY <2>2, <2>4, <1>0, GoodMerge
    <2>5. CASE n.cap = "box" BY <2>2, <2>5, GoodBox DEF Concrete
    <2> QED BY <2>3, <2>4, <2>5, <1>5
  <1> QED BY <1>1, <1>2, <1>3, <1>4, <1>5, WeakerRows DEF Owning

(* The type system's rule for placing a value of capability c, as a field  *)
(* of capability d, in an object known as into.                            *)
MayPlace(into, c, d) ==
  Weaker(c, d) /\ (CapSafeToWrite(into, c) \/ CapSafeToWrite(into, d))

(* A value can be put into a field of an object when that is safe to       *)
(* write.                                                                  *)
LEMMA GoodPlace ==
  ASSUME NEW R, NEW hk, NEW K, K \subseteq Bases, NEW r, r \notin R, Good(R \cup {r}, hk, K, {}),
         r.src \in Scope, r.src \notin K, r.cap \in Concrete,
         NEW q \in R, q.src \in Scope, q.src \notin K, q.cap \in Concrete,
         q.to \notin Scope,
         q.cap # "iso" => q.src = r.src,
         NEW n, n.src = q.to, n.to = r.to, n.cap \in Concrete, MayPlace(q.cap, r.cap, n.cap),
         Spare(R, r.src, r.to), Spare(R, q.to, r.to)
  PROVE  Good(R \cup {n}, hk, K, {})
  <1>a. /\ \A c \in Concrete : \E m : m \notin R /\ m.src = r.src /\ m.to = r.to /\ m.cap = c
        /\ \A c \in Concrete : \E m : m \notin R /\ m.src = q.to /\ m.to = r.to /\ m.cap = c
    BY DEF Spare
  <1>0. q.cap \in {"ref", "iso", "trn"} BY DEF MayPlace, CapSafeToWrite, Concrete
  <1>1. /\ \A S : R \subseteq S => Standing(q.to, S)
        /\ \A S : Standing(r.src, S)
    BY <1>0 DEF Standing
  <1>2. CASE n.cap \in {"iso", "val", "tag"} \/ q.cap = "ref"
    <2>1. PICK m : m \notin R /\ m.src = r.src /\ m.to = r.to /\ m.cap = n.cap BY <1>a
    <2>2. PICK k : k \notin R /\ k.src = r.src /\ k.to = r.to /\ k.cap = "trn" BY <1>a DEF Concrete
    <2>3. Good(R \cup {m}, hk, K, {}) BY <2>1, <2>2, GoodWeaken DEF MayPlace
    <2>4. m.cap \in {"iso", "val", "tag"} \/ Near(n.src, m.src, R \cup {m})
      BY <1>2, <2>1 DEF Near
    <2>5. Good(((R \cup {m}) \ {m}) \cup {n}, hk, K, {}) BY <1>1, <2>1, <2>3, <2>4, GoodMove
    <2>6. ((R \cup {m}) \ {m}) \cup {n} = R \cup {n} BY <2>1
    <2> QED BY <2>5, <2>6
  <1>3. CASE n.cap \in {"trn", "ref", "box"} /\ q.cap \in {"iso", "trn"}
    <2>1. CASE r.cap = "val" /\ n.cap = "box"
      <3>1. PICK m : m \notin R /\ m.src = q.to /\ m.to = r.to /\ m.cap = "val" BY <1>a DEF Concrete
      <3>2. Good(((R \cup {r}) \ {r}) \cup {m}, hk, K, {}) BY <1>1, <3>1, <2>1, GoodMove
      <3>3. ((R \cup {r}) \ {r}) \cup {m} = R \cup {m} OBVIOUS
      <3>4. Good(R \cup {m}, hk, K, {}) BY <3>2, <3>3
      <3>5. m.cap \in Concrete BY <3>1 DEF Concrete
      <3> QED BY <3>4, <3>5, <3>1, <2>1, GoodBox
    <2>2. CASE r.cap = "iso" \/ (r.cap = "trn" /\ q.cap = "trn")
      <3>1. PICK m : m \notin R /\ m.src = q.to /\ m.to = r.to /\ m.cap = "trn" BY <1>a DEF Concrete
      <3>2. Hangs(r, m, R, K) BY <2>2, <3>1, <1>3 DEF Hangs
      <3>3. Good(R \cup {m}, hk, K, {}) BY <3>1, <3>2, <2>2, GoodHang DEF Owning
      <3>4. q.to \notin K BY DEF Scope
      <3>5. CASE n.cap = "trn"
        <4>1. Near(n.src, m.src, R \cup {m}) BY <3>1 DEF Near
        <4>2. Good(((R \cup {m}) \ {m}) \cup {n}, hk, K, {}) BY <4>1, <3>1, <3>3, <3>4, <3>5, <1>1, GoodMove
        <4>3. ((R \cup {m}) \ {m}) \cup {n} = R \cup {n} BY <3>1
        <4> QED BY <4>2, <4>3
      <3>6. CASE n.cap = "ref" BY <3>1, <3>3, <3>4, <3>6, <1>1, GoodMerge
      <3>7. CASE n.cap = "box"
        <4>1. m.cap \in Concrete BY <3>1 DEF Concrete
        <4> QED BY <4>1, <3>1, <3>3, <3>7, GoodBox
      <3> QED BY <3>5, <3>6, <3>7, <1>3
    <2>3. \/ r.cap = "val" /\ n.cap = "box"
          \/ r.cap = "iso" \/ (r.cap = "trn" /\ q.cap = "trn")
      BY <1>3, WeakerRows DEF MayPlace, CapSafeToWrite, CapSendable, Concrete
    <2> QED BY <2>1, <2>2, <2>3
  <1> QED BY <1>2, <1>3, <1>0 DEF Concrete

(* A field of capability d, seen through a variable of capability c, is    *)
(* aliased as g.                                                           *)
Views(c, d, g) ==
  \/ g = "tag"
  \/ g = "val" /\ (d = "val" \/ (c = "val" /\ d # "tag"))
  \/ g = "box" /\ c \in {"box", "trn", "ref"} /\ d \in {"trn", "ref", "box"}
  \/ g = "ref" /\ c = "ref" /\ d = "ref"

(* A field can be read: its value can be bound to what its owner sees of   *)
(* it.                                                                     *)
LEMMA GoodView ==
  ASSUME NEW R, NEW hk, NEW K, NEW W, Good(R, hk, K, W),
         NEW r \in R, r.src \in Scope, r.cap \in Concrete \ {"tag"},
         NEW s \in R, s.src = r.to, s.cap \in Concrete,
         NEW n, n.src \in Scope, n.to = s.to, Views(r.cap, s.cap, n.cap),
         n.src = r.src \/ n.cap \in {"tag", "val"},
         NEW V, V \subseteq {s.to}, V # {} => r.cap \in {"trn", "ref"} /\ s.cap \in {"trn", "ref"}
  PROVE  Good(R \cup {n}, hk, K, V)
  <1> PICK imm, dead, cell, anc :
         /\ DOMAIN cell = Node
         /\ Divided(R, imm, dead, hk, cell, anc, Bases, FrameNode, K)
    BY DEF Good
  <1>1. /\ Live(r.src, imm, dead) /\ Live(n.src, imm, dead) /\ n.src \in Node /\ r.src \in Node
        /\ r.to \in Node /\ s.to \in Node
    BY ScopeIsLive DEF Divided, RefTypes
  <1>2. Fits(r.cap, cell[r.src], r.to, imm, dead, hk, cell, anc) BY <1>1 DEF Divided, RefsFit
  <1>3. /\ Live(r.to, imm, dead) => Fits(s.cap, cell[r.to], s.to, imm, dead, hk, cell, anc)
        /\ r.to \in imm => s.cap = "tag" \/ s.to \in imm
    BY DEF Divided, RefsFit
  <1>4. /\ cell[r.src] \in anc[cell[r.src]] /\ cell[r.to] \in anc[cell[r.to]]
        /\ cell[r.to] \in anc[cell[s.to]] => anc[cell[r.to]] \subseteq anc[cell[s.to]]
    BY <1>1 DEF Divided, Order, Placed
  <1>5. \A m \in V : Live(m, imm, dead) /\ m \notin hk
    BY <1>2, <1>3 DEF Fits, Live
  <1>6. Fits(n.cap, cell[n.src], n.to, imm, dead, hk, cell, anc) /\ n.cap \notin Owning
    <2>1. CASE n.cap = "tag" BY <2>1 DEF Fits, Owning
    <2>2. CASE n.cap = "val" /\ (s.cap = "val" \/ (r.cap = "val" /\ s.cap # "tag"))
      <3>1. s.to \in imm BY <2>2, <1>2, <1>3 DEF Fits, Concrete, Live
      <3> QED BY <3>1, <2>2 DEF Fits, Owning
    <2>3. CASE n.cap = "box" /\ r.cap \in {"box", "trn", "ref"} /\ s.cap \in {"trn", "ref", "box"}
      <3>1. CASE r.to \in imm BY <3>1, <2>3, <1>3 DEF Fits, Owning
      <3>2. CASE r.to \notin imm
        <4>1. Live(r.to, imm, dead) /\ cell[r.src] \in anc[cell[r.to]]
          BY <3>2, <2>3, <1>2, <1>4 DEF Fits
        <4>2. s.to \in imm \/ (Live(s.to, imm, dead) /\ cell[r.to] \in anc[cell[s.to]])
          BY <4>1, <2>3, <1>3, <1>4 DEF Fits
        <4> QED BY <4>1, <4>2, <2>3, <1>4 DEF Fits, Owning
      <3> QED BY <3>1, <3>2
    <2>4. CASE n.cap = "ref" /\ r.cap = "ref" /\ s.cap = "ref"
      BY <2>4, <1>2, <1>3 DEF Fits, Owning
    <2> QED BY <2>1, <2>2, <2>3, <2>4 DEF Views
  <1>7. Divided(R \cup {n}, imm, dead, hk, cell, anc, Bases, FrameNode, K)
    BY <1>1, <1>6, AddRef
  <1> QED BY <1>5, <1>7 DEF Good

(* What a value of a type can be bound to: the capability of its alias.    *)
Got(type) == CapAliasing(AliasSingle(type)).cap

(* The table of Got.                                                       *)
GotFrom(c, e) ==
  IF e = "ephemeral" THEN c ELSE IF c = "iso" THEN "tag" ELSE IF c = "trn" THEN "box" ELSE c

(* The parts of a type.                                                    *)
LEMMA TypeFacts ==
  ASSUME NEW c, NEW e PROVE Type(c, e).cap = c /\ Type(c, e).eph = e
  BY DEF Type

(* Got is given by its table.                                              *)
LEMMA GotOf ==
  ASSUME NEW c \in Concrete, NEW e \in {"none", "ephemeral"}
  PROVE  Got(Type(c, e)) = GotFrom(c, e) /\ GotFrom(c, e) \in Concrete
  <1>1. DOMAIN AliasOf = {"iso", "trn", "send", "any"} /\ AliasOf["iso"] = "tag" /\ AliasOf["trn"] = "box"
    BY DEF AliasOf
  <1>2. CASE e = "ephemeral"
    <2>1. AliasSingle(Type(c, e)) = Type(c, "none") BY <1>2, TypeFacts DEF AliasSingle
    <2>2. CapAliasing(Type(c, "none")) = Type(c, "none") BY TypeFacts DEF CapAliasing
    <2> QED BY <2>1, <2>2, <1>2, TypeFacts DEF Got, GotFrom
  <1>3. CASE e = "none" /\ c \in {"iso", "trn"}
    <2>1. AliasSingle(Type(c, e)) = Type(c, "borrowed") BY <1>3, <1>1, TypeFacts DEF AliasSingle
    <2>2. CapAliasing(Type(c, "borrowed")) = Type(AliasOf[c], "none")
      BY <1>1, <1>3, TypeFacts DEF CapAliasing
    <2> QED BY <1>1, <1>3, <2>1, <2>2, TypeFacts DEF Got, GotFrom, Concrete
  <1>4. CASE e = "none" /\ c \notin {"iso", "trn"}
    <2>1. AliasSingle(Type(c, e)) = Type(c, "none")
      BY <1>4, <1>1, TypeFacts DEF AliasSingle, Concrete
    <2>2. CapAliasing(Type(c, "none")) = Type(c, "none") BY TypeFacts DEF CapAliasing
    <2> QED BY <1>4, <2>1, <2>2, TypeFacts DEF Got, GotFrom
  <1> QED BY <1>2, <1>3, <1>4

(* A value can be bound to a variable of capability c if c is weaker than  *)
(* what is got.                                                            *)
LEMMA AcceptsOf ==
  ASSUME NEW c, NEW type
  PROVE  IsCapSubCap(AliasSingle(type), Plain(c)) <=> Weaker(Got(type), c)
  <1>1. CapAliasing(Plain(c)) = Plain(c) BY PlainAliasing
  <1>2. Plain(c).cap = c /\ Plain(c).eph = "none" BY TypeFacts DEF Plain
  <1> QED BY <1>1, <1>2 DEF IsCapSubCap, EphemeralEnough, Got, Weaker

(* How the owner c sees a field declared as d.                             *)
Seen(c, d) == CapViewUpper(Plain(c), Plain(d))

(* The table of Seen.                                                      *)
SeenFrom(c, d) ==
  IF c = "ref" \/ d = "tag" THEN d
  ELSE IF c = "val" THEN "val"
  ELSE IF c = "iso" THEN (IF d \in {"iso", "val"} THEN d ELSE "tag")
  ELSE IF c = "trn" THEN (IF d \in {"iso", "trn", "val"} THEN d ELSE "box")
  ELSE (IF d = "iso" THEN "tag" ELSE IF d = "val" THEN "val" ELSE "box")

(* Seen is given by its table.                                             *)
LEMMA SeenOf ==
  ASSUME NEW c \in Concrete \ {"tag"}, NEW d \in Concrete
  PROVE  Seen(c, d) = Plain(SeenFrom(c, d)) /\ SeenFrom(c, d) \in Concrete
  <1>1. d \in Cap BY DEF Cap
  <1> USE DEF Concrete, SeenFrom, Seen
  <1>2. CASE c = "iso" BY <1>1, <1>2, UpperOfIso DEF Plain
  <1>3. CASE c = "trn" BY <1>1, <1>3, UpperOfTrn DEF Plain
  <1>4. CASE c = "ref" BY <1>1, <1>4, UpperOfRef DEF Plain
  <1>5. CASE c = "val" BY <1>1, <1>5, UpperOfVal DEF Plain
  <1>6. CASE c = "box" BY <1>1, <1>6, UpperOfBox DEF Plain
  <1> QED BY <1>2, <1>3, <1>4, <1>5, <1>6

(* Nothing is seen through a tag.                                          *)
LEMMA SeenOfTag ==
  ASSUME NEW d, NEW e \in {"none", "ephemeral"} PROVE CapViewUpper(Type("tag", e), Plain(d)) = NoType
  <1>1. CapAliasing(Type("tag", e)).cap = "tag" BY AliasingOf, TypeFacts
  <1> QED BY <1>1 DEF CapViewUpper, Opaque

(* What is got of a field is what the owner may view of it.                *)
LEMMA SeenViews ==
  ASSUME NEW c \in Concrete \ {"tag"}, NEW d \in Concrete
  PROVE  /\ Views(c, d, GotFrom(SeenFrom(c, d), "none"))
         /\ c = "box" /\ d \in {"ref", "trn"} => GotFrom(SeenFrom(c, d), "none") = "box"
         /\ SeenFrom(c, d) \in {"trn", "ref"} => c \in {"trn", "ref"} /\ d \in {"trn", "ref"}
         /\ c = "iso" => GotFrom(SeenFrom(c, d), "none") \in {"tag", "val"}
         /\ c = "val" => GotFrom(SeenFrom(c, d), "none") \in {"tag", "val"}
  BY DEF Views, GotFrom, SeenFrom, Concrete

(* What a mutable variable refers to is live and not a husk.               *)
LEMMA GoodKnown ==
  ASSUME NEW R, NEW hk, NEW K, NEW W, Good(R, hk, K, W),
         NEW r \in R, r.src \in Scope, r.cap \in {"iso", "trn", "ref"}
  PROVE  Good(R, hk, K, {r.to}) /\ r.to \notin hk
  <1> PICK imm, dead, cell, anc :
         /\ DOMAIN cell = Node
         /\ Divided(R, imm, dead, hk, cell, anc, Bases, FrameNode, K)
    BY DEF Good
  <1>1. Live(r.src, imm, dead) BY ScopeIsLive
  <1>2. Fits(r.cap, cell[r.src], r.to, imm, dead, hk, cell, anc) BY <1>1 DEF Divided, RefsFit
  <1>3. Live(r.to, imm, dead) /\ r.to \notin hk BY <1>2 DEF Fits
  <1> QED BY <1>3 DEF Good

(* Different copies of variables are different references.                 *)
LEMMA VarRefIsOne ==
  ASSUME NEW x, NEW k, NEW y, NEW j, VarRef(x, k) = VarRef(y, j)
  PROVE  x = y /\ k = j
  <1>1. <<x, k>> = <<y, j>> BY VarRefFacts
  <1> QED BY <1>1

(* Different fields are different references.                              *)
LEMMA FieldRefIsOne ==
  ASSUME NEW o, NEW f, NEW p, NEW g, NEW fl, NEW dc, NEW hk, NEW fm, NEW dd, NEW hl,
         FieldRef(o, f, fl, dc, hk) = FieldRef(p, g, fm, dd, hl)
  PROVE  o = p /\ f = g
  <1>1. <<o, f>> = <<p, g>> BY FieldRefFacts
  <1> QED BY <1>1

(* A variable more is a reference more.                                    *)
LEMMA VarAdd ==
  ASSUME NEW v, Counted(v), NEW y, NEW w, Added(v, y, w)
  PROVE  \E k : VarRef(y, k) \notin VarRefs(v) /\ VarRefs(w) = VarRefs(v) \cup {VarRef(y, k)}
  <1>1. /\ DOMAIN w = DOMAIN v \cup {y}
        /\ \A x \in DOMAIN v : x # y => w[x] = v[x]
        /\ y \in DOMAIN v => w[y] = v[y] + 1
        /\ y \notin DOMAIN v => w[y] = 1
    BY DEF Added
  <1> DEFINE k == IF y \in DOMAIN v THEN v[y] + 1 ELSE 1
  <1>2. VarRef(y, k) \notin VarRefs(v)
    <2> SUFFICES ASSUME NEW x \in DOMAIN v, NEW j \in 1..v[x], VarRef(y, k) = VarRef(x, j)
                 PROVE  FALSE
      BY InVarRefs
    <2>1. y = x /\ k = j BY VarRefIsOne
    <2> QED BY <2>1 DEF Counted
  <1>3. ASSUME NEW r \in VarRefs(w) PROVE r \in VarRefs(v) \cup {VarRef(y, k)}
    <2>0. PICK x \in DOMAIN w : \E j \in 1..w[x] : r = VarRef(x, j) BY <1>3, InVarRefs
    <2>1. PICK j \in 1..w[x] : r = VarRef(x, j) BY <2>0
    <2>2. CASE x # y BY <2>1, <2>2, <1>1, InVarRefs
    <2>3. CASE x = y /\ y \notin DOMAIN v BY <2>1, <2>3, <1>1
    <2>4. CASE x = y /\ y \in DOMAIN v
      <3>1. j = k \/ j \in 1..v[y] BY <2>1, <2>4, <1>1 DEF Counted
      <3> QED BY <2>1, <2>4, <3>1, InVarRefs
    <2> QED BY <2>2, <2>3, <2>4
  <1>4. ASSUME NEW r \in VarRefs(v) PROVE r \in VarRefs(w)
    <2>0. PICK x \in DOMAIN v : \E j \in 1..v[x] : r = VarRef(x, j) BY <1>4, InVarRefs
    <2>1. PICK j \in 1..v[x] : r = VarRef(x, j) BY <2>0
    <2>2. x \in DOMAIN w /\ j \in 1..w[x] BY <2>1, <1>1 DEF Counted
    <2> QED BY <2>1, <2>2, InVarRefs
  <1>5. VarRef(y, k) \in VarRefs(w)
    <2>1. y \in DOMAIN w /\ k \in 1..w[y] BY <1>1 DEF Counted
    <2> QED BY <2>1, InVarRefs
  <1> HIDE DEF k
  <1> QED BY <1>2, <1>3, <1>4, <1>5

(* w is the bag v with one y less.                                         *)
Dropped(v, y, w) ==
  /\ DOMAIN w \subseteq DOMAIN v
  /\ \A x \in DOMAIN v : x # y => x \in DOMAIN w /\ w[x] = v[x]
  /\ y \in DOMAIN w <=> v[y] > 1
  /\ y \in DOMAIN w => w[y] = v[y] - 1

(* A variable less is a reference less.                                    *)
LEMMA VarDropOne ==
  ASSUME NEW v, Counted(v), NEW y \in DOMAIN v, NEW w, Dropped(v, y, w)
  PROVE  /\ VarRef(y, v[y]) \in VarRefs(v)
         /\ VarRefs(w) = VarRefs(v) \ {VarRef(y, v[y])}
         /\ DOMAIN w \subseteq DOMAIN v /\ Counted(w)
  <1>1. /\ DOMAIN w \subseteq DOMAIN v
        /\ \A x \in DOMAIN v : x # y => x \in DOMAIN w /\ w[x] = v[x]
        /\ y \in DOMAIN w <=> v[y] > 1
        /\ y \in DOMAIN w => w[y] = v[y] - 1
    BY DEF Dropped
  <1>2. VarRef(y, v[y]) \in VarRefs(v)
    <2>1. v[y] \in 1..v[y] BY DEF Counted
    <2> QED BY <2>1, InVarRefs
  <1>3. ASSUME NEW r \in VarRefs(w) PROVE r \in VarRefs(v) \ {VarRef(y, v[y])}
    <2>0. PICK x \in DOMAIN w : \E j \in 1..w[x] : r = VarRef(x, j) BY <1>3, InVarRefs
    <2>1. PICK j \in 1..w[x] : r = VarRef(x, j) BY <2>0
    <2>2. x \in DOMAIN v /\ v[x] \in Nat \ {0} /\ w[x] \in Nat BY <1>1 DEF Counted
    <2>4. w[x] <= v[x] /\ (x = y => w[x] = v[x] - 1) BY <2>2, <1>1
    <2>5. j \in 1..v[x] /\ (x = y => j # v[y]) BY <2>1, <2>2, <2>4
    <2>3. r # VarRef(y, v[y]) BY <2>1, <2>5, VarRefIsOne
    <2> QED BY <2>1, <2>2, <2>3, <2>5, InVarRefs
  <1>4. ASSUME NEW r \in VarRefs(v), r # VarRef(y, v[y]) PROVE r \in VarRefs(w)
    <2>0. PICK x \in DOMAIN v : \E j \in 1..v[x] : r = VarRef(x, j) BY <1>4, InVarRefs
    <2>1. PICK j \in 1..v[x] : r = VarRef(x, j) BY <2>0
    <2>2. CASE x = y
      <3>1. v[y] \in Nat \ {0} /\ j \in 1..v[y] /\ j # v[y] BY <2>1, <2>2, <1>4 DEF Counted
      <3>2. y \in DOMAIN w /\ w[y] = v[y] - 1 BY <3>1, <1>1
      <3>3. j \in 1..w[y] BY <3>1, <3>2
      <3> QED BY <2>1, <2>2, <3>2, <3>3, InVarRefs
    <2>3. CASE x # y
      <3>1. x \in DOMAIN w /\ w[x] = v[x] BY <2>3, <1>1
      <3> QED BY <2>1, <3>1, InVarRefs
    <2> QED BY <2>2, <2>3
  <1>5. Counted(w) BY <1>1 DEF Counted
  <1> QED BY <1>1, <1>2, <1>3, <1>4, <1>5

(* The same, for the operator on bags.                                     *)
LEMMA VarDrop ==
  ASSUME NEW v, Counted(v), NEW y \in DOMAIN v, NEW w, w = v (-) SetToBag({y})
  PROVE  /\ VarRef(y, v[y]) \in VarRefs(v)
         /\ VarRefs(w) = VarRefs(v) \ {VarRef(y, v[y])}
         /\ DOMAIN w \subseteq DOMAIN v /\ Counted(w)
  <1>1. Dropped(v, y, w) BY BagDrop DEF Dropped
  <1> QED BY <1>1, VarDropOne

(* At the end of a frame the references held by it go.                     *)
LEMMA VarLeft ==
  ASSUME NEW v, Counted(v), \A x \in DOMAIN v : x.rec \in BOOLEAN, NEW w, w = Left(v)
  PROVE  /\ \A r : r \in VarRefs(w) <=> r \in VarRefs(v) /\ r.src # FrameNode
         /\ DOMAIN w = {x \in DOMAIN v : ~x.rec} /\ Counted(w)
  <1>1. DOMAIN w = {x \in DOMAIN v : ~x.rec} /\ \A x \in DOMAIN w : w[x] = v[x] BY DEF Left
  <1>2. \A x \in DOMAIN v : Home(x) = FrameNode <=> x.rec BY NodeFacts DEF Home
  <1>3. ASSUME NEW r \in VarRefs(w) PROVE r \in VarRefs(v) /\ r.src # FrameNode
    <2>0. PICK x \in DOMAIN w : \E j \in 1..w[x] : r = VarRef(x, j) BY <1>3, InVarRefs
    <2>1. PICK j \in 1..w[x] : r = VarRef(x, j) BY <2>0
    <2> QED BY <2>1, <1>1, <1>2, InVarRefs, VarRefFacts
  <1>4. ASSUME NEW r \in VarRefs(v), r.src # FrameNode PROVE r \in VarRefs(w)
    <2>0. PICK x \in DOMAIN v : \E j \in 1..v[x] : r = VarRef(x, j) BY <1>4, InVarRefs
    <2>1. PICK j \in 1..v[x] : r = VarRef(x, j) BY <2>0
    <2> QED BY <2>1, <1>1, <1>2, <1>4, InVarRefs, VarRefFacts
  <1> QED BY <1>1, <1>3, <1>4 DEF Counted

(* fm is the heap fl with p in field f of o.                               *)
Stored(fl, o, f, p, fm) ==
  /\ fm[o][f] = p
  /\ \A a \in Object, g \in Field : (a # o \/ g # f) => fm[a][g] = fl[a][g]

(* Writing a field replaces one reference.                                 *)
LEMMA FieldStore ==
  ASSUME NEW fl, NEW dc, NEW hk, NEW o \in Object, NEW f \in Field, NEW p, p # Null,
         NEW fm, Stored(fl, o, f, p, fm)
  PROVE  FieldRefs(fm, dc, hk) =
           (FieldRefs(fl, dc, hk) \ {FieldRef(o, f, fl, dc, hk)}) \cup {FieldRef(o, f, fm, dc, hk)}
  <1>1. /\ fm[o][f] = p
        /\ \A a \in Object, g \in Field : (a # o \/ g # f) => fm[a][g] = fl[a][g]
    BY DEF Stored
  <1>2. ASSUME NEW a \in Object, NEW g \in Field, a # o \/ g # f
        PROVE  FieldRef(a, g, fm, dc, hk) = FieldRef(a, g, fl, dc, hk)
    BY <1>1, <1>2 DEF FieldRef
  <1>3. ASSUME NEW r \in FieldRefs(fm, dc, hk)
        PROVE  r \in (FieldRefs(fl, dc, hk) \ {FieldRef(o, f, fl, dc, hk)}) \cup {FieldRef(o, f, fm, dc, hk)}
    <2>1. PICK a \in Object, g \in Field : fm[a][g] # Null /\ r = FieldRef(a, g, fm, dc, hk)
      BY <1>3, InFieldRefs
    <2>2. CASE a = o /\ g = f BY <2>1, <2>2
    <2>3. CASE a # o \/ g # f
      <3>1. r = FieldRef(a, g, fl, dc, hk) /\ fl[a][g] # Null BY <2>1, <2>3, <1>1, <1>2
      <3>2. r # FieldRef(o, f, fl, dc, hk) BY <3>1, <2>3, FieldRefIsOne
      <3> QED BY <3>1, <3>2, InFieldRefs
    <2> QED BY <2>2, <2>3
  <1>4. ASSUME NEW r \in FieldRefs(fl, dc, hk), r # FieldRef(o, f, fl, dc, hk)
        PROVE  r \in FieldRefs(fm, dc, hk)
    <2>1. PICK a \in Object, g \in Field : fl[a][g] # Null /\ r = FieldRef(a, g, fl, dc, hk)
      BY <1>4, InFieldRefs
    <2> QED BY <2>1, <1>1, <1>2, <1>4, InFieldRefs
  <1>5. FieldRef(o, f, fm, dc, hk) \in FieldRefs(fm, dc, hk) BY <1>1, InFieldRefs
  <1> QED BY <1>3, <1>4, <1>5

(* References of unreachable nodes do not count.                           *)
LEMMA AddDead ==
  ASSUME NEW R, NEW imm, NEW dead, NEW hk, NEW cell, NEW anc, NEW B, NEW fs, NEW K,
         Divided(R, imm, dead, hk, cell, anc, B, fs, K),
         NEW n, n.src \in DOMAIN cell, n.to \in DOMAIN cell, n.src \in dead, n.src \notin imm
  PROVE  Divided(R \cup {n}, imm, dead, hk, cell, anc, B, fs, K)
  <1> DEFINE S == R \cup {n}
  <1>1. RefTypes(S, cell) BY DEF Divided, RefTypes
  <1>2. RefsFit(S, imm, dead, hk, cell, anc) BY DEF Divided, RefsFit, Live
  <1>3. OwnersUnique(S, imm, dead, cell) BY DEF Divided, OwnersUnique, Owner, Live
  <1>4. Scoped(S, imm, dead, cell, anc, B, fs, K) BY DEF Divided, Scoped, Owner, Live
  <1> QED BY <1>1, <1>2, <1>3, <1>4 DEF Divided

(* An iso field can be taken out of a consumed iso; the rest of the object *)
(* cannot be reached any more.                                             *)
LEMMA GoodTakeIso ==
  ASSUME NEW R, NEW hk, NEW K, K \subseteq Bases, Good(R, hk, K, {}),
         NEW r \in R, r.src \in Scope, r.src \notin K, r.cap = "iso",
         NEW s \in R, s.src = r.to, s.src \notin Scope, s.cap = "iso",
         NEW n, n \notin R, n.src \in Scope, n.to = s.to, n.cap = "iso"
  PROVE  Good((R \ {r}) \cup {n}, hk, K, {})
  <1> PICK imm, dead, cell, anc :
         /\ DOMAIN cell = Node
         /\ Divided(R, imm, dead, hk, cell, anc, Bases, FrameNode, K)
    BY DEF Good
  <1>1. /\ Live(r.src, imm, dead) /\ Live(n.src, imm, dead) /\ n.src \in Node /\ r.src \in Node
        /\ r.to \in Node /\ s.to \in Node
    BY ScopeIsLive DEF Divided, RefTypes
  <1>2. Fits(r.cap, cell[r.src], r.to, imm, dead, hk, cell, anc) BY <1>1 DEF Divided, RefsFit
  <1> DEFINE C == cell[r.to]
  <1>3. Live(s.src, imm, dead) /\ anc[C] = {C} /\ C \in DOMAIN anc
    BY <1>1, <1>2 DEF Fits, Divided, Placed
  <1>4. C \notin ScopeCells(cell, Bases, FrameNode) BY ScopeAbove DEF Owning
  <1>5. s # r /\ s.src \notin K BY DEF Scope
  <1> DEFINE Q == (R \ {s}) \cup {n}
  <1>6. Divided(Q, imm, dead, hk, cell, anc, Bases, FrameNode, K) BY <1>1, <1>3, <1>5, MoveRef
  <1>7. \A q \in Q : Owner(q, imm, dead) /\ cell[q.to] = C => q = r
    <2>1. r \in Q /\ Owner(r, imm, dead) BY <1>1, <1>5 DEF Owner, Owning
    <2> HIDE DEF Q
    <2> QED BY <2>1, <1>6 DEF Divided, OwnersUnique
  <1> DEFINE P == Q \ {r}
  <1>8. Divided(P, imm, dead, hk, cell, anc, Bases, FrameNode, K) BY <1>6, RemoveRefs
  <1>9. \A q \in P : Owner(q, imm, dead) => cell[q.to] # C BY <1>7
  <1>10. P \cup {s} = (R \ {r}) \cup {n} BY <1>5
  <1> HIDE DEF P, Q
  <1> PICK gone : Forgotten(gone, C, imm, dead, cell)
    <2> WITNESS dead \cup {m \in DOMAIN cell : Live(m, imm, dead) /\ cell[m] = C}
    <2> QED BY DEF Forgotten
  <1>11. Divided(P, imm, gone, hk, cell, anc, Bases, FrameNode, K)
    <2> HIDE DEF C
    <2>1. Unowned(C, P, imm, dead, cell) BY <1>9 DEF Unowned
    <2> QED BY <1>3, <1>4, <1>8, <2>1, Kill
  <1>12. s.src \in gone /\ s.src \notin imm BY <1>3, <1>1 DEF Live, Forgotten
  <1>13. Divided(P \cup {s}, imm, gone, hk, cell, anc, Bases, FrameNode, K)
    BY <1>1, <1>11, <1>12, AddDead
  <1> QED BY <1>10, <1>13 DEF Good

(* What is left of the references when the nodes of new become husks.      *)
Husked(S, R, r, n, new) ==
  \A m \in S :
    \/ m = n
    \/ m \in R \ {r} /\ (m.src \in new => m.cap \notin {"ref", "trn"})
    \/ /\ m.cap = "box" /\ m.src \in new
       /\ \E q \in R \ {r} : q.src = m.src /\ q.to = m.to /\ q.cap \in {"ref", "trn"}

(* When the nodes of new become husks, the references left can be divided. *)
MayHusk(R, r, n, new, hk, K) ==
  /\ new \cap Scope = {}
  /\ \A S : Husked(S, R, r, n, new) => Good(S, hk \cup new, K, {n.to})

(* A trn field can be taken out of a consumed trn: the nodes of its region *)
(* become husks, which only box references can refer to from then on.      *)
LEMMA GoodTakeTrn ==
  ASSUME NEW R, NEW hk, NEW K, K \subseteq Bases, Good(R, hk, K, {}),
         NEW r \in R, r.src \in Scope, r.src \notin K, r.cap = "trn",
         NEW s \in R, s.src = r.to, s.src \notin Scope, s.cap = "trn",
         NEW n, n \notin R, n.src = r.src, n.to = s.to, n.cap = "trn",
         NEW b, b.src = s.src, b.to = s.to, b.cap = "box"
  PROVE  \E new : MayHusk(R, r, n, new, hk, K)
  <1> PICK imm, dead, cell, anc :
         /\ DOMAIN cell = Node
         /\ Divided(R, imm, dead, hk, cell, anc, Bases, FrameNode, K)
    BY DEF Good
  <1>1. /\ Live(r.src, imm, dead) /\ n.src \in Node /\ r.src \in Node
        /\ r.to \in Node /\ s.to \in Node
    BY ScopeIsLive DEF Divided, RefTypes
  <1>2. Fits(r.cap, cell[r.src], r.to, imm, dead, hk, cell, anc) BY <1>1 DEF Divided, RefsFit
  <1> PICK H, C : H = cell[r.src] /\ C = cell[r.to] OBVIOUS
  <1>3. Live(s.src, imm, dead) /\ anc[C] = {C} \cup anc[H] /\ C \notin anc[H] /\ C \in DOMAIN anc
    BY <1>1, <1>2 DEF Fits, Divided, Placed
  <1>4. Fits(s.cap, C, s.to, imm, dead, hk, cell, anc) BY <1>3 DEF Divided, RefsFit
  <1>5. cell[s.to] # C /\ s.to \notin hk /\ Live(s.to, imm, dead)
    <2>1. C \in anc[C] BY <1>3 DEF Divided, Order
    <2> QED BY <1>4, <2>1 DEF Fits
  <1>6. C \notin ScopeCells(cell, Bases, FrameNode) BY ScopeAbove DEF Owning
  <1>7. s # r /\ s.src \notin K BY DEF Scope
  <1> PICK new : \A m : m \in new <=> m \in Node /\ Live(m, imm, dead) /\ cell[m] = C
    <2> WITNESS {m \in Node : Live(m, imm, dead) /\ cell[m] = C}
    <2> QED OBVIOUS
  <1>8. new \cap Scope = {} BY <1>6 DEF ScopeCells, Scope
  <1>9. ASSUME NEW S, Husked(S, R, r, n, new) PROVE Good(S, hk \cup new, K, {n.to})
    <2> PICK in, up : /\ in = [m \in DOMAIN cell |-> IF cell[m] = C THEN H ELSE cell[m]]
                      /\ up = [c \in DOMAIN anc |-> IF c = C THEN {C} ELSE anc[c] \ {C}]
      OBVIOUS
    <2>0. DOMAIN in = Node OBVIOUS
    <2> DEFINE P == R \ {r}
    <2>1. /\ Divided(P, imm, dead, hk, in, up, Bases, FrameNode, K)
          /\ in[r.to] = in[r.src] /\ in[r.src] = H
      BY <1>1, Merge
    <2>2. s \in P /\ n \notin P BY <1>7
    <2>3. Fits(s.cap, H, s.to, imm, dead, hk, in, up) BY <2>1, <2>2, <1>3 DEF Divided, RefsFit
    <2>4. H \in up[H] /\ in[s.to] \in DOMAIN up
      BY <2>0, <2>1, <1>1 DEF Divided, Order, Placed
    <2>5. Fits(b.cap, H, b.to, imm, dead, hk, in, up) BY <2>3, <2>4, <1>5 DEF Fits
    <2> DEFINE Z == P \cup {b}
    <2>6. Divided(Z, imm, dead, hk, in, up, Bases, FrameNode, K)
      BY <2>0, <2>1, <2>5, <1>1, <1>3, AddRef DEF Owning
    <2>7. s \in Z BY <2>2
    <2> DEFINE Y == (Z \ {s}) \cup {n}
    <2>8. Divided(Y, imm, dead, hk, in, up, Bases, FrameNode, K)
      <3> HIDE DEF Z
      <3> QED BY <2>0, <2>1, <2>6, <2>7, <1>1, <1>3, <1>7, MoveRef
    <2>9. b \in Y /\ n \in Y /\ \A q \in P : q = s \/ q \in Y
      <3>1. b # s OBVIOUS
      <3> QED BY <3>1
    <2>10. s.src \in new BY <1>1, <1>3
    <2>11. ASSUME NEW m \in S
           PROVE  \/ m \in Y
                  \/ /\ m.cap \in {"box", "tag"}
                     /\ \E q \in Y : /\ q.src = m.src /\ q.to = m.to
                                     /\ q.cap = "iso" => m.cap = "tag"
                                     /\ q.cap = "tag" => m.cap = "tag"
      <3>1. CASE m = n BY <3>1, <2>9
      <3>2. CASE m \in R \ {r} /\ (m.src \in new => m.cap \notin {"ref", "trn"})
        <4>1. m # s BY <3>2, <2>10
        <4> QED BY <3>2, <4>1, <2>9
      <3>3. ASSUME m.cap = "box", NEW q \in R \ {r}, q.src = m.src, q.to = m.to, q.cap \in {"ref", "trn"}
            PROVE  m.cap = "box" /\ \E p \in Y : /\ p.src = m.src /\ p.to = m.to
                                                /\ p.cap \in {"ref", "trn", "box"}
        <4>1. CASE q = s BY <4>1, <3>3, <2>9
        <4>2. CASE q # s BY <4>2, <3>3, <2>9
        <4> QED BY <4>1, <4>2
      <3> HIDE DEF Y
      <3> QED BY <3>1, <3>2, <3>3, <1>9 DEF Husked
    <2> HIDE DEF Y, Z, P
    <2>12. Divided(S, imm, dead, hk, in, up, Bases, FrameNode, K) BY <2>8, <2>11, BoxRefs
    <2>13. ASSUME NEW m \in S, Live(m.src, imm, dead), m.cap \in {"iso", "trn", "ref"}
           PROVE  m.to \notin hk \cup new
      <3>1. m.to \notin hk
        <4>1. Fits(m.cap, in[m.src], m.to, imm, dead, hk, in, up) BY <2>12, <2>13 DEF Divided, RefsFit
        <4> QED BY <4>1, <2>13, Zenon DEF Fits
      <3>2. CASE m = n BY <3>1, <3>2, <1>5
      <3>3. CASE m \in R \ {r} /\ (m.src \in new => m.cap \notin {"ref", "trn"})
        <4>1. CASE m.cap \in Owning
          <5>1. cell[m.to] # C
            BY <4>1, <3>3, <2>13, <1>1 DEF Divided, OwnersUnique, Owner, Owning
          <5> QED BY <3>1, <5>1
        <4>2. CASE m.cap = "ref"
          <5>1. Fits(m.cap, cell[m.src], m.to, imm, dead, hk, cell, anc) /\ m.src \in Node
            BY <3>3, <2>13 DEF Divided, RefsFit, RefTypes
          <5>2. cell[m.to] = cell[m.src] BY <5>1, <4>2 DEF Fits
          <5> QED BY <3>1, <3>3, <4>2, <5>1, <5>2, <2>13
        <4> QED BY <4>1, <4>2, <2>13 DEF Owning
      <3>4. CASE m.cap = "box" BY <3>4, <2>13
      <3> QED BY <3>2, <3>3, <3>4, <1>9 DEF Husked
    <2>14. Divided(S, imm, dead, hk \cup new, in, up, Bases, FrameNode, K) BY <2>12, <2>13, Shut
    <2>15. Live(n.to, imm, dead) /\ n.to \notin hk \cup new BY <1>5
    <2> QED BY <2>0, <2>14, <2>15 DEF Good
  <1> QED BY <1>8, <1>9 DEF MayHusk

(* The variables, fields and frame are well-formed and can be divided into *)
(* regions.                                                                *)
RegionsOf(v, fl, dc, mk, fr) ==
  /\ BagOK(v, fr, mk) /\ HeapOK(fl, dc, mk) /\ FrameOK(fr)
  /\ \E hk : Good(Refs(v, fl, dc, hk), hk, Callers(fr), {})

(* The inductive invariant: the state can be divided into regions.         *)
Regions == RegionsOf(var, field, decl, made, frame)

(* The object of a value that can be written.                              *)
Written(e) == IF e.type.cap \in {"trn", "ref"} THEN {ObjNode(e.obj)} ELSE {}

(* Once the expression e of t is evaluated, its value not bound yet, the   *)
(* references can be divided, that of the value included.                  *)
Evaluated(t, e) ==
  /\ e.obj \in Object
  /\ \E c \in Concrete, ep \in {"none", "ephemeral"} : e.type = Type(c, ep)
  /\ BagOK(e.var, frame, made)
  /\ \E hk : Good(Refs(e.var, field, decl, hk) \cup
                    {Temp("value", Got(e.type), Here(t, frame), e.obj)},
                  hk, Callers(frame), Written(e))

(* Where a running actor holds variables is not a waiting caller.          *)
LEMMA HereFacts ==
  ASSUME Regions, NEW t \in Thread
  PROVE  /\ Here(t, frame) \in Scope /\ Here(t, frame) \notin Callers(frame)
         /\ Callers(frame) \subseteq Bases
  <1>1. frame.by \in Thread \cup {Null} /\ (frame.receiver # "none" => frame.by \in Thread)
    BY DEF Regions, RegionsOf, FrameOK
  <1> QED BY <1>1, NodeFacts DEF Here, Callers, Scope, Bases

(* A variable that can be used is not of a waiting caller, and is held     *)
(* here unless it is sendable.                                             *)
LEMMA UsableFacts ==
  ASSUME Regions, NEW t \in Thread, NEW x \in Usable(t)
  PROVE  /\ x \in DOMAIN var /\ x \in VarSet /\ x.owner = t
         /\ Home(x) \in Scope /\ Home(x) \notin Callers(frame)
         /\ x.cap \notin {"iso", "val", "tag"} => Home(x) = Here(t, frame)
  <1>1. x \in DOMAIN var /\ x.owner = t BY DEF Usable, Variables, BagToSet
  <1>2. x \in VarSet /\ (x.rec => x.owner = frame.by) BY <1>1 DEF Regions, RegionsOf, BagOK
  <1>3. x.cap \in Concrete /\ x.rec \in BOOLEAN BY <1>2 DEF VarSet
  <1>4. CapSendable(x.cap) => x.cap \in {"iso", "val", "tag"} BY <1>3 DEF CapSendable, Concrete
  <1>5. CASE ~Within(t)
    <2>1. ~x.rec /\ frame.by # t BY <1>5, <1>1, <1>2 DEF Within
    <2> QED BY <2>1, <1>1, <1>2, NodeFacts DEF Home, Here, Scope, Bases, Callers
  <1>6. CASE Recovering(t)
    <2>1. frame.by = t /\ frame.receiver = "none" BY <1>6 DEF Recovering, Within
    <2>2. x.rec \/ CapSendable(x.cap) BY <1>6 DEF Usable
    <2> QED BY <2>1, <2>2, <1>1, <1>2, <1>4 DEF Home, Here, Scope, Bases, Callers
  <1>7. CASE Calling(t)
    <2>1. frame.by = t /\ x.rec BY <1>7 DEF Calling, Within, Usable
    <2> QED BY <2>1, <1>1, <1>2, NodeFacts DEF Home, Here, Scope, Bases, Callers
  <1> QED BY <1>5, <1>6, <1>7 DEF Recovering, Calling

(* A variable is a reference.                                              *)
LEMMA OwnRef ==
  ASSUME Regions, NEW x \in DOMAIN var, NEW hk
  PROVE  VarRef(x, var[x]) \in Refs(var, field, decl, hk)
  <1>1. var[x] \in 1..var[x] BY DEF Regions, RegionsOf, BagOK
  <1> QED BY <1>1, InVarRefs DEF Refs

(* The variables are a bag.                                                *)
LEMMA BagOKCounts == ASSUME NEW v, NEW fr, NEW mk, BagOK(v, fr, mk) PROVE Counted(v)
  BY DEF BagOK, Counted

(* A variable can be read.                                                 *)
LEMMA EvalUse ==
  ASSUME Regions, NEW t \in Thread, NEW x \in Usable(t)
  PROVE  Evaluated(t, Use(x))
  <1> PICK e : e = Use(x) OBVIOUS
  <1>0. e.obj = x.obj /\ e.type = Type(x.cap, "none") /\ e.var = var BY DEF Use, Value
  <1>1. /\ x \in DOMAIN var /\ x \in VarSet /\ Home(x) \in Scope
        /\ x.cap \notin {"iso", "val", "tag"} => Home(x) = Here(t, frame)
    BY UsableFacts
  <1>2. x.cap \in Concrete /\ x.obj \in Object BY <1>1 DEF VarSet
  <1>3. PICK hk : Good(Refs(var, field, decl, hk), hk, Callers(frame), {}) BY DEF Regions, RegionsOf
  <1> PICK R, r, n, K : /\ R = Refs(var, field, decl, hk) /\ r = VarRef(x, var[x])
                        /\ n = Temp("value", Got(e.type), Here(t, frame), e.obj)
                        /\ K = Callers(frame)
    OBVIOUS
  <1>4. r \in R BY <1>1, OwnRef
  <1>5. r.src = Home(x) /\ r.cap = x.cap /\ r.to = ObjNode(x.obj) BY VarRefFacts
  <1>6. n.src = Here(t, frame) /\ n.to = ObjNode(x.obj) /\ n.cap = GotFrom(x.cap, "none")
    BY TempFacts, GotOf, <1>0, <1>2
  <1>7. Standing(r.src, R) /\ Standing(n.src, R) BY <1>1, <1>5, <1>6, HereFacts DEF Standing
  <1>8. Copies(r, n) BY <1>1, <1>2, <1>5, <1>6 DEF Copies, GotFrom, Concrete
  <1>9. Good(R, hk, K, Written(e))
    <2>1. CASE x.cap \in {"trn", "ref"}
      <3>1. Good(R, hk, K, {r.to}) BY <1>1, <1>3, <1>4, <1>5, <2>1, GoodKnown
      <3> QED BY <3>1, <2>1, <1>0, <1>5, TypeFacts DEF Written
    <2>2. CASE x.cap \notin {"trn", "ref"} BY <2>2, <1>0, <1>3, TypeFacts DEF Written
    <2> QED BY <2>1, <2>2
  <1>10. Good(R \cup {n}, hk, K, Written(e)) BY <1>4, <1>7, <1>8, <1>9, GoodCopy
  <1>11. BagOK(e.var, frame, made) BY <1>0 DEF Regions, RegionsOf
  <1> QED BY <1>0, <1>2, <1>10, <1>11 DEF Evaluated

(* Consuming makes the type ephemeral.                                     *)
LEMMA ConsumeOf ==
  ASSUME NEW c \in Concrete
  PROVE  ConsumeSingle(Plain(c), "none") = Type(c, "ephemeral")
  <1>1. Plain(c).cap = c /\ Plain(c).eph = "none" BY TypeFacts DEF Plain
  <1>2. IsCapSubCap(Plain(c), Plain(c)) BY PlainSubCap
  <1> QED BY <1>1, <1>2 DEF ConsumeSingle, Plain

(* Consuming a variable takes it away.                                     *)
LEMMA ConsumeFacts ==
  ASSUME Regions, NEW t \in Thread, NEW x \in Usable(t), NEW e, e = Consume(x)
  PROVE  /\ e.obj = x.obj /\ e.type = Type(x.cap, "ephemeral")
         /\ BagOK(e.var, frame, made)
         /\ VarRefs(e.var) = VarRefs(var) \ {VarRef(x, var[x])}
  <1>1. x \in DOMAIN var /\ x \in VarSet BY UsableFacts
  <1>2. x.cap \in Concrete BY <1>1 DEF VarSet
  <1>3. e.obj = x.obj /\ e.var = var (-) SetToBag({x}) /\ e.type = ConsumeSingle(Plain(x.cap), "none")
    BY DEF Consume, Value, Plain
  <1>4. Counted(var) BY BagOKCounts DEF Regions, RegionsOf
  <1>5. /\ VarRefs(e.var) = VarRefs(var) \ {VarRef(x, var[x])}
        /\ DOMAIN e.var \subseteq DOMAIN var /\ Counted(e.var)
    BY <1>1, <1>3, <1>4, VarDrop
  <1>6. BagOK(e.var, frame, made) BY <1>5 DEF Regions, RegionsOf, BagOK, Counted
  <1> QED BY <1>2, <1>3, <1>5, <1>6, ConsumeOf

(* A variable can be consumed.                                             *)
LEMMA EvalConsume ==
  ASSUME Regions, NEW t \in Thread, NEW x \in Usable(t)
  PROVE  Evaluated(t, Consume(x))
  <1> PICK e : e = Consume(x) OBVIOUS
  <1>0. /\ e.obj = x.obj /\ e.type = Type(x.cap, "ephemeral") /\ BagOK(e.var, frame, made)
        /\ VarRefs(e.var) = VarRefs(var) \ {VarRef(x, var[x])}
    BY ConsumeFacts
  <1>1. /\ x \in DOMAIN var /\ x \in VarSet /\ Home(x) \in Scope /\ Home(x) \notin Callers(frame)
        /\ x.cap \notin {"iso", "val", "tag"} => Home(x) = Here(t, frame)
    BY UsableFacts
  <1>2. x.cap \in Concrete /\ x.obj \in Object BY <1>1 DEF VarSet
  <1>3. PICK hk : Good(Refs(var, field, decl, hk), hk, Callers(frame), {}) BY DEF Regions, RegionsOf
  <1> PICK R, r, n, K : /\ R = Refs(var, field, decl, hk) /\ r = VarRef(x, var[x])
                        /\ n = Temp("value", Got(e.type), Here(t, frame), e.obj)
                        /\ K = Callers(frame)
    OBVIOUS
  <1>4. r \in R BY <1>1, OwnRef
  <1>5. r.src = Home(x) /\ r.cap = x.cap /\ r.to = ObjNode(x.obj) BY VarRefFacts
  <1>6. n.src = Here(t, frame) /\ n.to = ObjNode(x.obj) /\ n.cap = x.cap
    BY TempFacts, GotOf, <1>0, <1>2 DEF GotFrom
  <1>7. Standing(r.src, R) /\ Standing(n.src, R) BY <1>1, <1>5, <1>6, HereFacts DEF Standing
  <1>8. r.cap \in {"iso", "val", "tag"} \/ Near(n.src, r.src, R) BY <1>1, <1>5, <1>6 DEF Near
  <1>9. Good(R, hk, K, Written(e))
    <2>1. CASE x.cap \in {"trn", "ref"}
      <3>1. Good(R, hk, K, {r.to}) BY <1>1, <1>3, <1>4, <1>5, <2>1, GoodKnown
      <3> QED BY <3>1, <2>1, <1>0, <1>5, TypeFacts DEF Written
    <2>2. CASE x.cap \notin {"trn", "ref"} BY <2>2, <1>0, <1>3, TypeFacts DEF Written
    <2> QED BY <2>1, <2>2
  <1>10. Good((R \ {r}) \cup {n}, hk, K, Written(e))
    BY <1>1, <1>4, <1>5, <1>6, <1>7, <1>8, <1>9, GoodMove
  <1>11. r \notin FieldRefs(field, decl, hk) BY VarRefFacts, InFieldRefs, FieldRefFacts
  <1>12. R \ {r} = Refs(e.var, field, decl, hk) BY <1>0, <1>11 DEF Refs
  <1> QED BY <1>0, <1>2, <1>10, <1>12 DEF Evaluated

(* A field is a reference, with its declared capability unless its object  *)
(* is a husk.                                                              *)
LEMMA OwnField ==
  ASSUME Regions, NEW o \in Object, NEW f \in Field, field[o][f] # Null, NEW v, NEW hk,
         NEW s, s = FieldRef(o, f, field, decl, hk)
  PROVE  /\ s \in Refs(v, field, decl, hk) /\ s.src = ObjNode(o) /\ s.to = ObjNode(field[o][f])
         /\ s.cap = Effective(o, f, decl, hk) /\ field[o][f] \in Object
         /\ decl[o][f] \in Concrete /\ s.cap \in Concrete
         /\ s.cap = decl[o][f] \/ (s.cap = "box" /\ decl[o][f] \in {"ref", "trn"})
         /\ ObjNode(o) \notin hk => s.cap = decl[o][f]
  <1>1. field[o][f] \in Object /\ decl[o][f] \in Concrete BY DEF Regions, RegionsOf, HeapOK
  <1>2. s \in Refs(v, field, decl, hk) BY InFieldRefs DEF Refs
  <1>3. s.src = ObjNode(o) /\ s.to = ObjNode(field[o][f]) /\ s.cap = Effective(o, f, decl, hk)
    BY FieldRefFacts
  <1> QED BY <1>1, <1>2, <1>3 DEF Effective, Concrete

(* A field of a variable can be read as the variable sees it.              *)
LEMMA ReadThroughUse ==
  ASSUME Regions, NEW t \in Thread, NEW x \in Usable(t), NEW f \in Field,
         NEW p, p = field[x.obj][f], p # Null,
         NEW c, x.cap # "tag", c = SeenFrom(x.cap, decl[x.obj][f]),
         NEW V, V = IF c \in {"trn", "ref"} THEN {ObjNode(p)} ELSE {}
  PROVE  \E hk : Good(Refs(var, field, decl, hk) \cup {Temp("value", GotFrom(c, "none"), Here(t, frame), p)},
                      hk, Callers(frame), V)
  <1>1. /\ x \in DOMAIN var /\ x \in VarSet /\ Home(x) \in Scope
        /\ x.cap \notin {"iso", "val", "tag"} => Home(x) = Here(t, frame)
    BY UsableFacts
  <1>2. x.cap \in Concrete \ {"tag"} /\ x.obj \in Object BY <1>1 DEF VarSet
  <1>3. PICK hk : Good(Refs(var, field, decl, hk), hk, Callers(frame), {}) BY DEF Regions, RegionsOf
  <1> PICK R, r, s, n, K, d :
        /\ R = Refs(var, field, decl, hk) /\ r = VarRef(x, var[x])
        /\ s = FieldRef(x.obj, f, field, decl, hk)
        /\ n = Temp("value", GotFrom(c, "none"), Here(t, frame), p)
        /\ K = Callers(frame) /\ d = decl[x.obj][f]
    OBVIOUS
  <1>4. r \in R BY <1>1, OwnRef
  <1>5. r.src = Home(x) /\ r.cap = x.cap /\ r.to = ObjNode(x.obj) BY VarRefFacts
  <1>6. /\ s \in R /\ s.src = ObjNode(x.obj) /\ s.to = ObjNode(p)
        /\ d \in Concrete /\ s.cap \in Concrete
        /\ s.cap = d \/ (s.cap = "box" /\ d \in {"ref", "trn"})
        /\ ObjNode(x.obj) \notin hk => s.cap = d
    BY <1>2, OwnField
  <1>7. n.src = Here(t, frame) /\ n.to = ObjNode(p) /\ n.cap = GotFrom(c, "none")
    BY TempFacts
  <1>8. x.cap \in {"iso", "trn", "ref"} => s.cap = d
    <2> SUFFICES ASSUME x.cap \in {"iso", "trn", "ref"} PROVE s.cap = d OBVIOUS
    <2>1. r.to \notin hk BY <1>1, <1>3, <1>4, <1>5, GoodKnown
    <2> QED BY <2>1, <1>5, <1>6
  <1>9. /\ Views(x.cap, d, n.cap)
        /\ x.cap = "box" /\ d \in {"ref", "trn"} => n.cap = "box"
        /\ c \in {"trn", "ref"} => x.cap \in {"trn", "ref"} /\ d \in {"trn", "ref"}
        /\ x.cap \in {"iso", "val"} => n.cap \in {"tag", "val"}
    BY <1>2, <1>6, <1>7, SeenViews
  <1>10. Views(x.cap, s.cap, n.cap)
    BY <1>2, <1>6, <1>8, <1>9 DEF Views, Concrete
  <1>11. n.src = r.src \/ n.cap \in {"tag", "val"} BY <1>1, <1>2, <1>5, <1>7, <1>9
  <1>12. V \subseteq {s.to} /\ (V # {} => r.cap \in {"trn", "ref"} /\ s.cap \in {"trn", "ref"})
    BY <1>5, <1>6, <1>8, <1>9
  <1>13. n.src \in Scope BY <1>7, HereFacts
  <1>14. Good(R \cup {n}, hk, K, V)
    <2>1. /\ r.src \in Scope /\ r.cap \in Concrete \ {"tag"} /\ s.src = r.to /\ n.to = s.to
          /\ Views(r.cap, s.cap, n.cap)
      BY <1>1, <1>2, <1>5, <1>6, <1>7, <1>10
    <2> QED
      BY <1>3, <1>4, <1>6, <1>11, <1>12, <1>13, <2>1, GoodView
  <1> QED BY <1>14

(* The same, as an expression.                                             *)
LEMMA EvalReadUse ==
  ASSUME Regions, NEW t \in Thread, NEW x \in Usable(t), NEW f \in Field,
         Readable(Use(x), f), FieldType(Use(x), f) # NoType,
         NEW e, e = Value(field[x.obj][f], FieldType(Use(x), f), var)
  PROVE  Evaluated(t, e)
  <1> PICK p : p = field[x.obj][f] OBVIOUS
  <1>0. Use(x).obj = x.obj /\ Use(x).type = Plain(x.cap) BY DEF Use, Value, Plain
  <1>1. p # Null BY <1>0, Zenon DEF Readable
  <1>2. x.cap \in Concrete /\ x.obj \in Object BY UsableFacts DEF VarSet
  <1>3. FieldType(Use(x), f) = CapViewUpper(Plain(x.cap), Plain(decl[x.obj][f]))
    BY <1>0 DEF FieldType, Plain
  <1>4. x.cap # "tag" BY <1>3, SeenOfTag DEF Plain
  <1>5. p \in Object /\ decl[x.obj][f] \in Concrete BY <1>1, <1>2 DEF Regions, RegionsOf, HeapOK
  <1> PICK c : c = SeenFrom(x.cap, decl[x.obj][f]) OBVIOUS
  <1>6. FieldType(Use(x), f) = Plain(c) /\ c \in Concrete BY <1>2, <1>3, <1>4, <1>5, SeenOf DEF Seen
  <1>7. e.obj = p /\ e.type = Type(c, "none") /\ e.var = var BY <1>6 DEF Value, Plain
  <1>8. Got(e.type) = GotFrom(c, "none") BY <1>6, <1>7, GotOf
  <1>9. Written(e) = IF c \in {"trn", "ref"} THEN {ObjNode(p)} ELSE {} BY <1>7, TypeFacts DEF Written
  <1>10. PICK hk : Good(Refs(var, field, decl, hk) \cup {Temp("value", GotFrom(c, "none"), Here(t, frame), p)},
                        hk, Callers(frame), Written(e))
    BY <1>1, <1>4, <1>9, ReadThroughUse
  <1>11. BagOK(e.var, frame, made) BY <1>7 DEF Regions, RegionsOf
  <1> QED BY <1>5, <1>6, <1>7, <1>8, <1>10, <1>11 DEF Evaluated

(* What is seen through an owner that is given up, where that is no more   *)
(* than what is seen through it anyway.                                    *)
LEMMA SeenThroughConsumed ==
  ASSUME NEW c \in Concrete, NEW d \in Concrete
  PROVE  /\ c = "tag" => CapViewUpper(Type(c, "ephemeral"), Plain(d)) = NoType
         /\ c # "tag" /\ (c \notin {"iso", "trn"} \/ d \notin {"iso", "trn"})
              => CapViewUpper(Type(c, "ephemeral"), Plain(d)) = Plain(SeenFrom(c, d))
         /\ c = "iso" /\ d = "trn" => CapViewUpper(Type(c, "ephemeral"), Plain(d)) = Plain(SeenFrom(c, d))
         /\ c \in {"iso", "trn"} /\ d = "iso" =>
              CapViewUpper(Type(c, "ephemeral"), Plain(d)) = Type("iso", "ephemeral")
         /\ c = "trn" /\ d = "trn" =>
              CapViewUpper(Type(c, "ephemeral"), Plain(d)) = Type("trn", "ephemeral")
  <1>1. d \in Cap BY DEF Cap
  <1> USE DEF Concrete, SeenFrom
  <1>2. CASE c = "iso" BY <1>1, <1>2, UpperOfIso DEF Plain
  <1>3. CASE c = "trn" BY <1>1, <1>3, UpperOfTrn DEF Plain
  <1>4. CASE c = "ref" BY <1>1, <1>4, UpperOfRef DEF Plain
  <1>5. CASE c = "val" BY <1>1, <1>5, UpperOfVal DEF Plain
  <1>6. CASE c = "box" BY <1>1, <1>6, UpperOfBox DEF Plain
  <1>7. CASE c = "tag" BY <1>7, SeenOfTag
  <1> QED BY <1>2, <1>3, <1>4, <1>5, <1>6, <1>7

(* An iso field of a consumed iso can be taken.                            *)
LEMMA TakeIso ==
  ASSUME Regions, NEW t \in Thread, NEW x \in Usable(t), NEW f \in Field,
         NEW p, p = field[x.obj][f], p # Null, x.cap = "iso", decl[x.obj][f] = "iso"
  PROVE  \E hk : Good(Refs(Consume(x).var, field, decl, hk) \cup {Temp("value", "iso", Here(t, frame), p)},
                      hk, Callers(frame), {})
  <1>0. VarRefs(Consume(x).var) = VarRefs(var) \ {VarRef(x, var[x])} BY ConsumeFacts
  <1>1. x \in DOMAIN var /\ x \in VarSet /\ Home(x) \in Scope /\ Home(x) \notin Callers(frame)
    BY UsableFacts
  <1>2. x.obj \in Object BY <1>1 DEF VarSet
  <1>3. PICK hk : Good(Refs(var, field, decl, hk), hk, Callers(frame), {}) BY DEF Regions, RegionsOf
  <1> PICK R, r, s, n, K :
        /\ R = Refs(var, field, decl, hk) /\ r = VarRef(x, var[x])
        /\ s = FieldRef(x.obj, f, field, decl, hk)
        /\ n = Temp("value", "iso", Here(t, frame), p)
        /\ K = Callers(frame)
    OBVIOUS
  <1>4. r \in R BY <1>1, OwnRef
  <1>5. r.src = Home(x) /\ r.cap = "iso" /\ r.to = ObjNode(x.obj) BY VarRefFacts
  <1>6. s \in R /\ s.src = ObjNode(x.obj) /\ s.to = ObjNode(p) /\ s.cap = "iso"
    BY <1>2, OwnField
  <1>7. n.src = Here(t, frame) /\ n.to = ObjNode(p) /\ n.cap = "iso" /\ n \notin R
    BY TempFacts, TempNotIn
  <1>8. s.src \notin Scope BY <1>6, NodeFacts DEF Scope, Bases
  <1>9. Good((R \ {r}) \cup {n}, hk, K, {})
    BY <1>1, <1>3, <1>4, <1>5, <1>6, <1>7, <1>8, HereFacts, GoodTakeIso
  <1>10. r \notin FieldRefs(field, decl, hk) BY VarRefFacts, InFieldRefs, FieldRefFacts
  <1>11. R \ {r} = Refs(Consume(x).var, field, decl, hk) BY <1>0, <1>10 DEF Refs
  <1> QED BY <1>9, <1>11

(* A trn field of a consumed trn can be taken.                             *)
LEMMA TakeTrn ==
  ASSUME Regions, NEW t \in Thread, NEW x \in Usable(t), NEW f \in Field,
         NEW p, p = field[x.obj][f], p # Null, x.cap = "trn", decl[x.obj][f] = "trn"
  PROVE  \E hk : Good(Refs(Consume(x).var, field, decl, hk) \cup {Temp("value", "trn", Here(t, frame), p)},
                      hk, Callers(frame), {ObjNode(p)})
  <1>0. VarRefs(Consume(x).var) = VarRefs(var) \ {VarRef(x, var[x])} BY ConsumeFacts
  <1>1. /\ x \in DOMAIN var /\ x \in VarSet /\ Home(x) \in Scope /\ Home(x) \notin Callers(frame)
        /\ Home(x) = Here(t, frame)
    BY UsableFacts
  <1>2. x.obj \in Object BY <1>1 DEF VarSet
  <1>3. PICK hk : Good(Refs(var, field, decl, hk), hk, Callers(frame), {}) BY DEF Regions, RegionsOf
  <1> PICK R, r, s, n, b, K :
        /\ R = Refs(var, field, decl, hk) /\ r = VarRef(x, var[x])
        /\ s = FieldRef(x.obj, f, field, decl, hk)
        /\ n = Temp("value", "trn", Here(t, frame), p)
        /\ b = Temp("box", "box", ObjNode(x.obj), p)
        /\ K = Callers(frame)
    OBVIOUS
  <1>4. r \in R BY <1>1, OwnRef
  <1>5. r.src = Home(x) /\ r.cap = "trn" /\ r.to = ObjNode(x.obj) BY VarRefFacts
  <1>6. s \in R /\ s.src = ObjNode(x.obj) /\ s.to = ObjNode(p) /\ s.cap = "trn"
    <2>1. r.to \notin hk BY <1>1, <1>3, <1>4, <1>5, GoodKnown
    <2> QED BY <2>1, <1>2, <1>5, OwnField
  <1>7. /\ n.src = Here(t, frame) /\ n.to = ObjNode(p) /\ n.cap = "trn" /\ n \notin R
        /\ b.src = ObjNode(x.obj) /\ b.to = ObjNode(p) /\ b.cap = "box"
    BY TempFacts, TempNotIn
  <1>8. s.src \notin Scope BY <1>6, NodeFacts DEF Scope, Bases
  <1>9. PICK new : /\ new \cap Scope = {}
                   /\ \A S : Husked(S, R, r, n, new) => Good(S, hk \cup new, K, {n.to})
    <2>1. /\ K \subseteq Bases /\ r.src \in Scope /\ r.src \notin K /\ s.src = r.to
          /\ n.src = r.src /\ n.to = s.to /\ b.src = s.src /\ b.to = s.to
      BY <1>1, <1>5, <1>6, <1>7, HereFacts
    <2>2. Good(R, hk, K, {}) BY <1>3
    <2>3. \E new : MayHusk(R, r, n, new, hk, K)
      BY <2>1, <2>2, <1>4, <1>5, <1>6, <1>7, <1>8, GoodTakeTrn
    <2> QED BY <2>3 DEF MayHusk
  <1> DEFINE hl == hk \cup new
             S == Refs(Consume(x).var, field, decl, hl) \cup {n}
  <1>10. ASSUME NEW m \in VarRefs(Consume(x).var)
         PROVE  m \in R \ {r} /\ m.src \notin new
    <2>1. m \in VarRefs(var) /\ m # r BY <1>0, <1>10
    <2>2. m.src \in Scope
      <3>0. PICK y \in DOMAIN var : \E k \in 1..var[y] : m = VarRef(y, k) BY <2>1, InVarRefs
      <3>1. PICK k \in 1..var[y] : m = VarRef(y, k) BY <3>0
      <3>2. y.owner \in Thread BY DEF Regions, RegionsOf, BagOK, VarSet
      <3> QED BY <3>1, <3>2, VarRefFacts DEF Home, Scope, Bases
    <2> QED BY <2>1, <2>2, <1>9 DEF Refs
  <1>11. ASSUME NEW m \in FieldRefs(field, decl, hl)
         PROVE  \/ m \in R \ {r} /\ (m.src \in new => m.cap \notin {"ref", "trn"})
                \/ /\ m.cap = "box" /\ m.src \in new
                   /\ \E q \in R \ {r} : q.src = m.src /\ q.to = m.to /\ q.cap \in {"ref", "trn"}
    <2>1. PICK o \in Object, g \in Field : field[o][g] # Null /\ m = FieldRef(o, g, field, decl, hl)
      BY <1>11, InFieldRefs
    <2> PICK q : q = FieldRef(o, g, field, decl, hk) OBVIOUS
    <2>2. q \in FieldRefs(field, decl, hk) BY <2>1, InFieldRefs
    <2>3. q \in R \ {r}
      <3>1. q.kind = "field" /\ r.kind = "variable" BY FieldRefFacts, VarRefFacts
      <3> QED BY <2>2, <3>1 DEF Refs
    <2>4. /\ m.src = ObjNode(o) /\ q.src = ObjNode(o) /\ m.to = q.to
          /\ m.cap = Effective(o, g, decl, hl) /\ q.cap = Effective(o, g, decl, hk)
      BY <2>1, FieldRefFacts
    <2>5. CASE ObjNode(o) \in hk \/ ObjNode(o) \notin new \/ decl[o][g] \notin {"ref", "trn"}
      <3>1. Effective(o, g, decl, hl) = Effective(o, g, decl, hk) BY <2>5 DEF Effective
      <3>2. m = q BY <2>1, <3>1 DEF FieldRef
      <3>3. m.src \in new => m.cap \notin {"ref", "trn"} BY <2>4 DEF Effective
      <3> QED BY <2>3, <3>2, <3>3
    <2>6. CASE ObjNode(o) \notin hk /\ ObjNode(o) \in new /\ decl[o][g] \in {"ref", "trn"}
      <3>1. m.cap = "box" /\ q.cap \in {"ref", "trn"} BY <2>4, <2>6 DEF Effective
      <3> QED BY <2>3, <2>4, <2>6, <3>1
    <2> QED BY <2>5, <2>6
  <1>12. Husked(S, R, r, n, new)
    <2>1. \A m \in S : m = n \/ m \in VarRefs(Consume(x).var) \/ m \in FieldRefs(field, decl, hl)
      BY DEF Refs
    <2> HIDE DEF S, hl
    <2> QED BY <2>1, <1>10, <1>11 DEF Husked
  <1>13. Good(S, hl, K, {n.to}) BY <1>9, <1>12
  <1> QED BY <1>7, <1>13

(* A field of a consumed variable can be read, but for the gap "consumed   *)
(* trn".                                                                   *)
LEMMA EvalReadConsume ==
  ASSUME Regions, Gaps = {}, NEW t \in Thread, NEW x \in Usable(t), NEW f \in Field,
         Readable(Consume(x), f), FieldType(Consume(x), f) # NoType,
         NEW e, e = Value(field[x.obj][f], FieldType(Consume(x), f), Consume(x).var)
  PROVE  Evaluated(t, e)
  <1> PICK p, d : p = field[x.obj][f] /\ d = decl[x.obj][f] OBVIOUS
  <1>0. /\ Consume(x).obj = x.obj /\ Consume(x).type = Type(x.cap, "ephemeral")
        /\ BagOK(Consume(x).var, frame, made)
        /\ VarRefs(Consume(x).var) = VarRefs(var) \ {VarRef(x, var[x])}
    BY ConsumeFacts
  <1>1. p # Null /\ ~(d = "iso" /\ x.cap = "trn") BY <1>0 DEF Readable
  <1>2. x.cap \in Concrete /\ x.obj \in Object BY UsableFacts DEF VarSet
  <1>3. FieldType(Consume(x), f) = CapViewUpper(Type(x.cap, "ephemeral"), Plain(d))
    BY <1>0 DEF FieldType, Plain
  <1>4. p \in Object /\ d \in Concrete BY <1>1, <1>2 DEF Regions, RegionsOf, HeapOK
  <1>5. e.obj = p /\ e.type = FieldType(Consume(x), f) /\ e.var = Consume(x).var BY DEF Value
  <1>6. CASE x.cap = "iso" /\ d = "iso"
    <2>1. e.type = Type("iso", "ephemeral") BY <1>2, <1>3, <1>4, <1>5, <1>6, SeenThroughConsumed
    <2>2. Got(e.type) = "iso" BY <2>1, GotOf DEF GotFrom, Concrete
    <2>3. Written(e) = {} BY <2>1, TypeFacts DEF Written
    <2>4. PICK hk : Good(Refs(e.var, field, decl, hk) \cup {Temp("value", "iso", Here(t, frame), p)},
                         hk, Callers(frame), {})
      BY <1>1, <1>5, <1>6, TakeIso
    <2> QED BY <1>0, <1>4, <1>5, <2>1, <2>2, <2>3, <2>4 DEF Evaluated, Concrete
  <1>7. CASE x.cap = "trn" /\ d = "trn"
    <2>1. e.type = Type("trn", "ephemeral") BY <1>2, <1>3, <1>4, <1>5, <1>7, SeenThroughConsumed
    <2>2. Got(e.type) = "trn" BY <2>1, GotOf DEF GotFrom, Concrete
    <2>3. Written(e) = {ObjNode(p)} BY <2>1, <1>5, TypeFacts DEF Written
    <2>4. PICK hk : Good(Refs(e.var, field, decl, hk) \cup {Temp("value", "trn", Here(t, frame), p)},
                         hk, Callers(frame), {ObjNode(p)})
      BY <1>1, <1>5, <1>7, TakeTrn
    <2> QED BY <1>0, <1>4, <1>5, <2>1, <2>2, <2>3, <2>4 DEF Evaluated, Concrete
  <1>8. CASE ~(x.cap = "iso" /\ d = "iso") /\ ~(x.cap = "trn" /\ d = "trn")
    <2> PICK c : c = SeenFrom(x.cap, d) OBVIOUS
    <2>1. x.cap # "tag" BY <1>2, <1>3, <1>4, SeenThroughConsumed
    <2>2. e.type = Plain(c) /\ c \in Concrete
      BY <1>1, <1>2, <1>3, <1>4, <1>5, <1>8, <2>1, SeenThroughConsumed, SeenOf
    <2>3. Got(e.type) = GotFrom(c, "none") BY <2>2, GotOf DEF Plain
    <2>4. Written(e) = IF c \in {"trn", "ref"} THEN {ObjNode(p)} ELSE {}
      BY <2>2, <1>5, TypeFacts DEF Written, Plain
    <2>5. PICK hk : Good(Refs(var, field, decl, hk) \cup {Temp("value", GotFrom(c, "none"), Here(t, frame), p)},
                         hk, Callers(frame), Written(e))
      BY <1>1, <2>1, <2>4, ReadThroughUse
    <2> PICK n : n = Temp("value", GotFrom(c, "none"), Here(t, frame), p) OBVIOUS
    <2>6. Refs(e.var, field, decl, hk) \cup {n} \subseteq Refs(var, field, decl, hk) \cup {n}
      BY <1>0, <1>5 DEF Refs
    <2>7. Good(Refs(e.var, field, decl, hk) \cup {n}, hk, Callers(frame), Written(e))
      BY <2>5, <2>6, GoodSub
    <2>8. e.type = Type(c, "none") BY <2>2 DEF Plain
    <2> QED BY <1>0, <1>4, <1>5, <2>2, <2>3, <2>7, <2>8 DEF Evaluated
  <1> QED BY <1>6, <1>7, <1>8

(* An object can be made.                                                  *)
LEMMA EvalNew ==
  ASSUME Regions, NEW t \in Thread, NEW o \in Object \ made,
         NEW e, e = Value(o, Type("ref", "ephemeral"), var)
  PROVE  Evaluated(t, e)
  <1>0. e.obj = o /\ e.type = Type("ref", "ephemeral") /\ e.var = var BY DEF Value
  <1>1. Got(e.type) = "ref" BY <1>0, GotOf DEF GotFrom, Concrete
  <1>2. Written(e) = {ObjNode(o)} BY <1>0, TypeFacts DEF Written
  <1>3. PICK hk : Good(Refs(var, field, decl, hk), hk, Callers(frame), {}) BY DEF Regions, RegionsOf
  <1> PICK R, n, h, K, z :
        /\ R = Refs(var, field, decl, hk) /\ n = ObjNode(o) /\ h = Here(t, frame)
        /\ K = Callers(frame) /\ z = Temp("value", "ref", h, o)
    OBVIOUS
  <1> PICK imm, dead, cell, anc :
         /\ DOMAIN cell = Node
         /\ Divided(R, imm, dead, hk, cell, anc, Bases, FrameNode, K)
    BY <1>3 DEF Good
  <1>4. h \in Scope /\ n \in Node /\ n \notin Bases /\ n # FrameNode
    BY HereFacts, NodeFacts DEF Node, Bases
  <1>5. ASSUME NEW a \in Object, NEW f \in Field, field[a][f] # Null
        PROVE  a # o /\ field[a][f] # o
    BY <1>5 DEF Regions, RegionsOf, HeapOK
  <1>6. ASSUME NEW r \in R PROVE r.src # n /\ r.to # n
    <2>1. CASE r \in VarRefs(var)
      <3>0. PICK y \in DOMAIN var : \E k \in 1..var[y] : r = VarRef(y, k) BY <2>1, InVarRefs
      <3>1. PICK k \in 1..var[y] : r = VarRef(y, k) BY <3>0
      <3>2. y.obj # o BY DEF Regions, RegionsOf, BagOK
      <3> QED BY <3>1, <3>2, VarRefFacts, NodeFacts DEF Home
    <2>2. CASE r \in FieldRefs(field, decl, hk)
      <3>1. PICK a \in Object, f \in Field : field[a][f] # Null /\ r = FieldRef(a, f, field, decl, hk)
        BY <2>2, InFieldRefs
      <3> QED BY <3>1, <1>5, FieldRefFacts, NodeFacts
    <2> QED BY <1>6, <2>1, <2>2 DEF Refs
  <1> PICK in : in = [m \in DOMAIN cell |-> IF m = n THEN cell[h] ELSE cell[m]] OBVIOUS
  <1>7. /\ Divided(R, imm \ {n}, dead \ {n}, hk \ {n}, in, anc, Bases, FrameNode, K)
        /\ Live(n, imm \ {n}, dead \ {n}) /\ in[n] = in[h]
        /\ DOMAIN in = DOMAIN cell
    <2>1. h \in Bases \cup {FrameNode} BY <1>4 DEF Scope
    <2>2. Untouched(n, R) BY <1>6 DEF Untouched
    <2> QED BY <2>1, <2>2, <1>4, NewNode
  <1> PICK imm2, dead2, hk2 : imm2 = imm \ {n} /\ dead2 = dead \ {n} /\ hk2 = hk \ {n} OBVIOUS
  <1>8. z.src = h /\ z.to = n /\ z.cap = "ref" BY TempFacts
  <1>9. Live(h, imm2, dead2) /\ h \in Node BY <1>4, <1>7, ScopeIsLive
  <1>10. Fits(z.cap, in[z.src], z.to, imm2, dead2, hk2, in, anc)
    BY <1>7, <1>8 DEF Fits
  <1>11. Divided(R \cup {z}, imm2, dead2, hk2, in, anc, Bases, FrameNode, K)
    BY <1>4, <1>7, <1>8, <1>9, <1>10, AddRef DEF Owning
  <1>12. Good(R \cup {z}, hk2, K, {n}) BY <1>7, <1>11 DEF Good
  <1>13. FieldRefs(field, decl, hk) = FieldRefs(field, decl, hk2)
    <2>1. ASSUME NEW a \in Object, NEW f \in Field, field[a][f] # Null
          PROVE  FieldRef(a, f, field, decl, hk) = FieldRef(a, f, field, decl, hk2)
      <3>1. ObjNode(a) # n BY <1>5, <2>1, NodeFacts
      <3> QED BY <3>1 DEF FieldRef, Effective
    <2>2. ASSUME NEW r \in FieldRefs(field, decl, hk) PROVE r \in FieldRefs(field, decl, hk2)
      <3>1. PICK a \in Object, f \in Field : field[a][f] # Null /\ r = FieldRef(a, f, field, decl, hk)
        BY <2>2, InFieldRefs
      <3>2. r = FieldRef(a, f, field, decl, hk2) BY <3>1, <2>1
      <3> QED BY <3>1, <3>2, InFieldRefs
    <2>3. ASSUME NEW r \in FieldRefs(field, decl, hk2) PROVE r \in FieldRefs(field, decl, hk)
      <3>1. PICK a \in Object, f \in Field : field[a][f] # Null /\ r = FieldRef(a, f, field, decl, hk2)
        BY <2>3, InFieldRefs
      <3> QED BY <3>1, <2>1, InFieldRefs
    <2> QED BY <2>2, <2>3
  <1>14. R = Refs(var, field, decl, hk2) BY <1>13 DEF Refs
  <1>15. BagOK(e.var, frame, made) BY <1>0 DEF Regions, RegionsOf
  <1> QED BY <1>0, <1>1, <1>2, <1>12, <1>14, <1>15 DEF Evaluated, Concrete

(* Every expression can be evaluated.                                      *)
LEMMA EvalExpressions ==
  ASSUME Regions, Gaps = {}, NEW t \in Thread, NEW e \in Expressions(t)
  PROVE  Evaluated(t, e)
  <1>0. e \in Owners(t) \cup Reads(t) \cup News /\ e.type # NoType BY DEF Expressions
  <1>1. CASE e \in Owners(t) BY <1>1, EvalUse, EvalConsume DEF Owners
  <1>2. CASE e \in News BY <1>2, EvalNew DEF News
  <1>3. CASE e \in Reads(t)
    <2>1. PICK a \in Owners(t) :
            e \in {Value(field[a.obj][f], FieldType(a, f), a.var) : f \in {f \in Field : Readable(a, f)}}
      BY <1>3 DEF Reads
    <2>2. PICK f \in Field : Readable(a, f) /\ e = Value(field[a.obj][f], FieldType(a, f), a.var)
      BY <2>1
    <2>3. FieldType(a, f) # NoType BY <1>0, <2>2 DEF Value
    <2>4. CASE \E x \in Usable(t) : a = Use(x)
      <3>1. PICK x \in Usable(t) : a = Use(x) BY <2>4
      <3>2. a.obj = x.obj /\ a.var = var BY <3>1 DEF Use, Value
      <3> QED BY <3>1, <3>2, <2>2, <2>3, EvalReadUse
    <2>5. CASE \E x \in Usable(t) : a = Consume(x)
      <3>1. PICK x \in Usable(t) : a = Consume(x) BY <2>5
      <3>2. a.obj = x.obj BY <3>1 DEF Consume, Value
      <3> QED BY <3>1, <3>2, <2>2, <2>3, EvalReadConsume
    <2> QED BY <2>1, <2>4, <2>5 DEF Owners
  <1> QED BY <1>0, <1>1, <1>2, <1>3

(* A value can be bound to a new variable it is a subtype of, one that is  *)
(* held elsewhere if the variable is sendable.                             *)
LEMMA BindTemp ==
  ASSUME NEW v, NEW fl, NEW dc, NEW hk, NEW K, NEW nm, NEW c \in Concrete, NEW h \in Scope, h \notin K,
         NEW o, Counted(v), Good(Refs(v, fl, dc, hk) \cup {Temp(nm, c, h, o)}, hk, K, {}),
         NEW y, y.obj = o, y.cap \in Concrete, Weaker(c, y.cap), Home(y) \in Scope,
         Home(y) = h \/ y.cap \in {"iso", "val", "tag"},
         NEW w, Added(v, y, w)
  PROVE  Good(Refs(w, fl, dc, hk), hk, K, {})
  <1>1. PICK k : VarRefs(w) = VarRefs(v) \cup {VarRef(y, k)} BY VarAdd
  <1> PICK R, r, n, m, z :
        /\ R = Refs(v, fl, dc, hk) /\ r = Temp(nm, c, h, o) /\ n = Temp(nm, y.cap, h, o)
        /\ m = Temp(nm, "trn", h, o) /\ z = VarRef(y, k)
    OBVIOUS
  <1>2. r \notin R /\ n \notin R /\ m \notin R BY TempNotIn
  <1>3. /\ r.src = h /\ n.src = h /\ m.src = h /\ r.cap = c /\ n.cap = y.cap /\ m.cap = "trn"
        /\ r.to = ObjNode(o) /\ n.to = ObjNode(o) /\ m.to = ObjNode(o)
        /\ z.src = Home(y) /\ z.cap = y.cap /\ z.to = ObjNode(o)
    BY TempFacts, VarRefFacts
  <1>4. Good(R \cup {n}, hk, K, {}) BY <1>2, <1>3, GoodWeaken
  <1> DEFINE Q == R \cup {n}
  <1>5. Standing(n.src, Q) /\ Standing(z.src, Q) /\ (Home(y) = h => Near(z.src, n.src, Q))
    BY <1>3 DEF Standing, Near
  <1>6. n \in Q /\ (Q \ {n}) \cup {z} = R \cup {z} BY <1>2
  <1>7. Good((Q \ {n}) \cup {z}, hk, K, {})
    <2> HIDE DEF Q
    <2> QED BY <1>3, <1>4, <1>5, <1>6, GoodMove DEF Q
  <1>8. R \cup {z} = Refs(w, fl, dc, hk) BY <1>1 DEF Refs
  <1> QED BY <1>6, <1>7, <1>8

(* A bag of variables with another is one.                                 *)
LEMMA BagAddOK ==
  ASSUME NEW v, NEW fr, NEW mk, NEW nk, mk \subseteq nk, BagOK(v, fr, mk),
         NEW y \in VarSet, y.obj \in nk, y.rec => y.owner = fr.by, NEW w, Added(v, y, w)
  PROVE  BagOK(w, fr, nk)
  <1> SUFFICES ASSUME NEW x \in DOMAIN w
               PROVE  /\ x \in VarSet /\ w[x] \in Nat \ {0} /\ x.obj \in nk
                      /\ x.rec => x.owner = fr.by
    BY DEF BagOK
  <1>1. CASE x # y BY <1>1 DEF Added, BagOK
  <1>2. CASE x = y
    <2>1. w[x] \in Nat \ {0} BY <1>2 DEF Added, BagOK
    <2> QED BY <1>2, <2>1
  <1> QED BY <1>1, <1>2

(* The heap stays well-formed when an object is made.                      *)
LEMMA HeapGrows ==
  ASSUME NEW fl, NEW dc, NEW mk, HeapOK(fl, dc, mk), NEW o \in Object
  PROVE  HeapOK(fl, dc, mk \cup {o})
  BY DEF HeapOK

(* What Bound gives: a value with a new variable that accepts it.          *)
LEMMA BoundFacts ==
  ASSUME NEW e, NEW u, NEW r, NEW b \in Bound(e, u, r)
  PROVE  \E c \in Concrete : /\ Weaker(Got(e.type), c) /\ b.obj = e.obj /\ b.type = Type(c, "none")
                             /\ b.var = e.var (+) SetToBag({Variable(u, e.obj, c, r)})
  <1>1. PICK c \in Concrete : /\ Accepts(e.type, c)
                              /\ b = Value(e.obj, Type(c, "none"), e.var (+) SetToBag({Variable(u, e.obj, c, r)}))
    BY DEF Bound
  <1>2. Weaker(Got(e.type), c) BY <1>1, AcceptsOf DEF Accepts, Plain
  <1>3. b.obj = e.obj /\ b.type = Type(c, "none") /\ b.var = e.var (+) SetToBag({Variable(u, e.obj, c, r)})
    BY <1>1 DEF Value
  <1> QED BY <1>2, <1>3

(* The parts of a variable.                                                *)
LEMMA VariableFacts ==
  ASSUME NEW u \in Thread, NEW o \in Object, NEW c \in Concrete, NEW r \in BOOLEAN,
         NEW y, y = Variable(u, o, c, r)
  PROVE  /\ y \in VarSet /\ y.obj = o /\ y.cap = c /\ y.owner = u /\ y.rec = r
         /\ Home(y) = (IF r THEN FrameNode ELSE BaseNode(u)) /\ Home(y) \in Scope
  BY DEF Variable, VarSet, Home, Scope, Bases

(* What Evaluated says, without what is known of the object.               *)
LEMMA EvaluatedFacts ==
  ASSUME NEW t, NEW e, Evaluated(t, e)
  PROVE  /\ e.obj \in Object /\ Got(e.type) \in Concrete
         /\ BagOK(e.var, frame, made) /\ Counted(e.var)
         /\ \E hk : Good(Refs(e.var, field, decl, hk) \cup
                           {Temp("value", Got(e.type), Here(t, frame), e.obj)},
                         hk, Callers(frame), {})
  <1>1. e.obj \in Object /\ BagOK(e.var, frame, made) /\ Counted(e.var)
    BY BagOKCounts DEF Evaluated
  <1>2. Got(e.type) \in Concrete BY GotOf DEF Evaluated
  <1>3. PICK hk : Good(Refs(e.var, field, decl, hk) \cup {Temp("value", Got(e.type), Here(t, frame), e.obj)},
                       hk, Callers(frame), Written(e))
    BY DEF Evaluated
  <1>4. Good(Refs(e.var, field, decl, hk) \cup {Temp("value", Got(e.type), Here(t, frame), e.obj)},
             hk, Callers(frame), {})
    BY <1>3, GoodSub
  <1> QED BY <1>1, <1>2, <1>4

(* Once a value is bound the state can be divided.                         *)
LEMMA BoundRegions ==
  ASSUME Regions, NEW t \in Thread, NEW e, Evaluated(t, e), NEW u \in Thread, NEW r \in BOOLEAN,
         NEW c \in Concrete, Weaker(Got(e.type), c), NEW y, y = Variable(u, e.obj, c, r),
         r => u = frame.by, Home(y) = Here(t, frame) \/ c \in {"iso", "val", "tag"}
  PROVE  RegionsOf(e.var (+) SetToBag({y}), field, decl, made \cup {e.obj}, frame)
  <1>1. /\ e.obj \in Object /\ Got(e.type) \in Concrete
        /\ BagOK(e.var, frame, made) /\ Counted(e.var)
    BY EvaluatedFacts
  <1>2. /\ y \in VarSet /\ y.obj = e.obj /\ y.cap = c /\ y.owner = u /\ y.rec = r /\ Home(y) \in Scope
    BY <1>1, VariableFacts
  <1> PICK w : w = e.var (+) SetToBag({y}) OBVIOUS
  <1>3. Added(e.var, y, w) BY <1>1, BagAdd
  <1>4. BagOK(w, frame, made \cup {e.obj}) BY <1>1, <1>2, <1>3, BagAddOK
  <1>5. HeapOK(field, decl, made \cup {e.obj}) BY <1>1, HeapGrows DEF Regions, RegionsOf
  <1>6. PICK hk : Good(Refs(e.var, field, decl, hk) \cup
                         {Temp("value", Got(e.type), Here(t, frame), e.obj)}, hk, Callers(frame), {})
    BY EvaluatedFacts
  <1>7. Here(t, frame) \in Scope /\ Here(t, frame) \notin Callers(frame) BY HereFacts
  <1>8. Good(Refs(w, field, decl, hk), hk, Callers(frame), {})
    BY <1>1, <1>2, <1>3, <1>6, <1>7, BindTemp
  <1> QED BY <1>4, <1>5, <1>8 DEF Regions, RegionsOf

(* expr_assign to a variable keeps the regions.                            *)
LEMMA AssignKeeps ==
  ASSUME Regions, Gaps = {}, NEW t \in Thread, Assign(t)
  PROVE  Regions'
  <1>0. PICK r : r = Within(t) /\ r \in BOOLEAN BY DEF Within
  <1>1. PICK b \in UNION {Bound(e, t, Within(t)) : e \in Expressions(t)} : Becomes(b.var, b.obj)
    BY DEF Assign
  <1>2. PICK e \in Expressions(t) : b \in Bound(e, t, Within(t)) BY <1>1
  <1>a. b \in Bound(e, t, r) BY <1>0, <1>2
  <1>3. PICK c \in Concrete : /\ Weaker(Got(e.type), c) /\ b.obj = e.obj
                              /\ b.var = e.var (+) SetToBag({Variable(t, e.obj, c, r)})
    BY <1>a, BoundFacts
  <1>4. Evaluated(t, e) BY <1>2, EvalExpressions
  <1> PICK y : y = Variable(t, e.obj, c, r) OBVIOUS
  <1>5. r \in BOOLEAN /\ e.obj \in Object BY <1>0, <1>4, EvaluatedFacts
  <1>b. (r <=> frame.by = t) BY <1>0 DEF Within
  <1>c. Home(y) = (IF r THEN FrameNode ELSE BaseNode(t)) BY <1>5, VariableFacts
  <1>6. Home(y) = Here(t, frame) /\ (r => t = frame.by) BY <1>b, <1>c DEF Here
  <1>d. RegionsOf(e.var (+) SetToBag({y}), field, decl, made \cup {e.obj}, frame)
    BY <1>3, <1>4, <1>5, <1>6, BoundRegions
  <1>7. RegionsOf(b.var, field, decl, made \cup {e.obj}, frame) BY <1>3, <1>d
  <1>8. var' = b.var /\ made' = made \cup {e.obj} /\ field' = field /\ decl' = decl /\ frame' = frame
    BY <1>1, <1>3 DEF Becomes, Assign
  <1> QED BY <1>7, <1>8 DEF Regions

(* Sending a message keeps the regions: a sendable variable is held by the *)
(* other actor.                                                            *)
LEMMA SendKeeps ==
  ASSUME Regions, Gaps = {}, NEW t \in Thread, NEW u \in Thread, Send(t, u)
  PROVE  Regions'
  <1>0. PICK r : r = FALSE /\ r \in BOOLEAN OBVIOUS
  <1>1. PICK b \in UNION {Bound(e, u, FALSE) : e \in Expressions(t)} :
          CapSendable(b.type.cap) /\ Becomes(b.var, b.obj)
    BY DEF Send
  <1>2. PICK e \in Expressions(t) : b \in Bound(e, u, FALSE) BY <1>1
  <1>a. b \in Bound(e, u, r) BY <1>0, <1>2
  <1>3. PICK c \in Concrete : /\ Weaker(Got(e.type), c) /\ b.obj = e.obj /\ b.type = Type(c, "none")
                              /\ b.var = e.var (+) SetToBag({Variable(u, e.obj, c, r)})
    BY <1>a, BoundFacts
  <1>4. Evaluated(t, e) BY <1>2, EvalExpressions
  <1>5. c \in {"iso", "val", "tag"}
    BY <1>1, <1>3, TypeFacts DEF CapSendable, Concrete
  <1>b. r \in BOOLEAN /\ ~r BY <1>0
  <1> PICK y : y = Variable(u, e.obj, c, r) OBVIOUS
  <1>c. RegionsOf(e.var (+) SetToBag({y}), field, decl, made \cup {e.obj}, frame)
    BY <1>b, <1>3, <1>4, <1>5, BoundRegions
  <1>6. RegionsOf(b.var, field, decl, made \cup {e.obj}, frame) BY <1>3, <1>c
  <1>7. var' = b.var /\ made' = made \cup {e.obj} /\ field' = field /\ decl' = decl /\ frame' = frame
    BY <1>1, <1>3 DEF Becomes, Send
  <1> QED BY <1>6, <1>7 DEF Regions

(* The end of a variable keeps the regions.                                *)
LEMMA DropKeeps ==
  ASSUME Regions, NEW x \in Variables, Drop(x)
  PROVE  Regions'
  <1>1. x \in DOMAIN var BY DEF Variables, BagToSet
  <1>2. Counted(var) BY BagOKCounts DEF Regions, RegionsOf
  <1> PICK w : w = var (-) SetToBag({x}) OBVIOUS
  <1>3. VarRefs(w) \subseteq VarRefs(var) /\ DOMAIN w \subseteq DOMAIN var /\ Counted(w)
    BY <1>1, <1>2, VarDrop
  <1>4. BagOK(w, frame, made) BY <1>3 DEF Regions, RegionsOf, BagOK, Counted
  <1>5. PICK hk : Good(Refs(var, field, decl, hk), hk, Callers(frame), {}) BY DEF Regions, RegionsOf
  <1>6. Refs(w, field, decl, hk) \subseteq Refs(var, field, decl, hk) BY <1>3 DEF Refs
  <1>7. Good(Refs(w, field, decl, hk), hk, Callers(frame), {}) BY <1>5, <1>6, GoodSub
  <1>8. RegionsOf(w, field, decl, made, frame) BY <1>4, <1>7 DEF Regions, RegionsOf
  <1>9. var' = w /\ made' = made /\ field' = field /\ decl' = decl /\ frame' = frame BY DEF Drop
  <1> QED BY <1>8, <1>9 DEF Regions

(* The parts of NoFrame.                                                   *)
LEMMA NoFrameFacts ==
  /\ NoFrame.by = Null /\ NoFrame.receiver = "none" /\ FrameOK(NoFrame) /\ Callers(NoFrame) = {}
  BY DEF NoFrame, Frame, FrameOK, Callers

(* The parts of a frame.                                                   *)
LEMMA FrameFacts ==
  ASSUME NEW t \in Thread, NEW r \in {"none", "iso", "trn"}, NEW fr, fr = Frame(t, r)
  PROVE  /\ fr.by = t /\ fr.receiver = r /\ FrameOK(fr)
         /\ Callers(fr) = IF r = "none" THEN {} ELSE {BaseNode(t)}
  BY RefCapsAssumption DEF Frame, FrameOK, Callers

(* Outside of a frame no variable belongs to one.                          *)
LEMMA NoRecOutside ==
  ASSUME Regions, frame = NoFrame, NEW x \in DOMAIN var
  PROVE  ~x.rec
  BY NoFrameFacts, RefCapsAssumption DEF Regions, RegionsOf, BagOK, VarSet

(* The begin of a recover expression keeps the regions.                    *)
LEMMA StartRecoverKeeps ==
  ASSUME Regions, NEW t \in Thread, StartRecover(t)
  PROVE  Regions'
  <1>1. frame = NoFrame BY DEF StartRecover
  <1> PICK fr : fr = Frame(t, "none") OBVIOUS
  <1>2. FrameOK(fr) /\ Callers(fr) = {} BY FrameFacts
  <1>3. BagOK(var, fr, made) BY <1>1, NoRecOutside DEF Regions, RegionsOf, BagOK
  <1>4. Callers(frame) = Callers(fr) BY <1>1, <1>2, NoFrameFacts
  <1>5. RegionsOf(var, field, decl, made, fr) BY <1>2, <1>3, <1>4 DEF Regions, RegionsOf
  <1>6. var' = var /\ made' = made /\ field' = field /\ decl' = decl /\ frame' = fr
    BY DEF StartRecover
  <1> QED BY <1>5, <1>6 DEF Regions

(* No reference starts or ends at the node of the frame.                   *)
FrameFree(R) == \A r \in R : r.src # FrameNode /\ r.to # FrameNode

(* A frame without references can be put in a region of its own, with no   *)
(* caller that waits.                                                      *)
LEMMA GoodNewFrame ==
  ASSUME NEW R, NEW hk, NEW K, Good(R, hk, K, {}), FrameFree(R)
  PROVE  Good(R, hk, {}, {})
  <1> PICK imm, dead, cell, anc :
         /\ DOMAIN cell = Node
         /\ Divided(R, imm, dead, hk, cell, anc, Bases, FrameNode, K)
    BY DEF Good
  <1> PICK F : F = Fresh(DOMAIN anc) OBVIOUS
  <1> PICK in, up : /\ in = [n \in DOMAIN cell |-> IF n = FrameNode THEN F ELSE cell[n]]
                    /\ up = [c \in DOMAIN anc \cup {F} |-> IF c = F THEN {F} ELSE anc[c]]
    OBVIOUS
  <1>1. Divided(R, imm, dead, hk, in, up, Bases, FrameNode, {}) /\ DOMAIN in = DOMAIN cell
    BY FreshFrame DEF FrameFree
  <1> QED BY <1>1 DEF Good

(* F was the region of the frame: r reached into it or below.              *)
LeftRegion(F, r, S, imm, dead, hk, in, up) ==
  /\ DOMAIN in = Node /\ Divided(S, imm, dead, hk, in, up, Bases, FrameNode, {})
  /\ F \in DOMAIN up /\ F \notin ScopeCells(in, Bases, FrameNode) /\ up[F] = {F}
  /\ \A s \in S : Owner(s, imm, dead) => in[s.to] # F
  /\ r.to \in Node
  /\ r.to \in imm \/ (Live(r.to, imm, dead) /\ F \in up[in[r.to]])

(* The old region of the frame, once the frame has left it.                *)
LEMMA LeaveFrame ==
  ASSUME NEW R, NEW imm, NEW dead, NEW hk, NEW cell, NEW anc, DOMAIN cell = Node,
         NEW r, Divided(R \cup {r}, imm, dead, hk, cell, anc, Bases, FrameNode, {}),
         r.src = FrameNode, r.cap \in {"box", "trn", "ref"}, r.to \notin Scope,
         NEW S, S \subseteq R, FrameFree(S)
  PROVE  \E in, up, F : LeftRegion(F, r, S, imm, dead, hk, in, up)
  <1> DEFINE Q == R \cup {r}
  <1>0. r \in Q /\ S \subseteq Q OBVIOUS
  <1> HIDE DEF Q
  <1>i. Divided(Q, imm, dead, hk, cell, anc, Bases, FrameNode, {}) BY DEF Q
  <1>1. Divided(S, imm, dead, hk, cell, anc, Bases, FrameNode, {}) BY <1>0, <1>i, RemoveRefs
  <1> PICK F : F = cell[FrameNode] OBVIOUS
  <1>2. /\ FrameNode \in Node /\ Live(FrameNode, imm, dead) /\ r.to \in Node /\ F \in DOMAIN anc
        /\ cell[r.to] \in DOMAIN anc
    BY <1>0, <1>i DEF Divided, Scoped, RefTypes, Placed
  <1>3. Fits(r.cap, F, r.to, imm, dead, hk, cell, anc) BY <1>0, <1>i, <1>2 DEF Divided, RefsFit
  <1>4. F \in anc[F] BY <1>1, <1>2 DEF Divided, Order
  <1>5. r.to \in imm \/ (Live(r.to, imm, dead) /\ F \in anc[cell[r.to]])
    BY <1>3, <1>4 DEF Fits
  <1>6. anc[F] = {F} BY <1>1, <1>4 DEF Divided, Scoped
  <1>7. \A s \in S : Owner(s, imm, dead) => cell[s.to] # F BY <1>1 DEF Divided, Scoped
  <1>8. \A b \in Bases : cell[b] # F BY <1>1 DEF Divided, Scoped
  <1> PICK G : G = Fresh(DOMAIN anc) OBVIOUS
  <1> PICK in, up : /\ in = [n \in DOMAIN cell |-> IF n = FrameNode THEN G ELSE cell[n]]
                    /\ up = [c \in DOMAIN anc \cup {G} |-> IF c = G THEN {G} ELSE anc[c]]
    OBVIOUS
  <1>9. /\ Divided(S, imm, dead, hk, in, up, Bases, FrameNode, {}) /\ DOMAIN in = DOMAIN cell
        /\ G \notin DOMAIN anc
        /\ \A n \in DOMAIN cell : n # FrameNode => in[n] = cell[n]
        /\ \A c \in DOMAIN anc : c \in DOMAIN up /\ up[c] = anc[c]
    BY <1>1, FreshFrame DEF FrameFree
  <1>10. in[FrameNode] = G BY <1>2
  <1>11. \A b \in Bases : b \in Node /\ b # FrameNode BY NodeFacts DEF Node, Bases
  <1>12. F \notin ScopeCells(in, Bases, FrameNode)
    BY <1>2, <1>8, <1>9, <1>10, <1>11 DEF ScopeCells
  <1>13. \A s \in S : Owner(s, imm, dead) => in[s.to] # F
    <2>1. \A s \in S : s.to \in Node /\ s.to # FrameNode BY <1>1 DEF Divided, RefTypes, FrameFree
    <2> QED BY <2>1, <1>7, <1>9
  <1>14. r.to # FrameNode BY DEF Scope
  <1>15. up[F] = {F} /\ F \in DOMAIN up BY <1>2, <1>6, <1>9
  <1>16. r.to \in imm \/ (Live(r.to, imm, dead) /\ F \in up[in[r.to]])
    BY <1>2, <1>5, <1>9, <1>14
  <1>17. DOMAIN in = Node BY <1>9
  <1>18. Divided(S, imm, dead, hk, in, up, Bases, FrameNode, {}) BY <1>9
  <1>19. LeftRegion(F, r, S, imm, dead, hk, in, up)
    BY <1>2, <1>12, <1>13, <1>15, <1>16, <1>17, <1>18 DEF LeftRegion
  <1> QED BY <1>19

(* The result of a recover expression that can write is iso outside:       *)
(* nothing of the frame is left that could see it.                         *)
LEMMA GoodCut ==
  ASSUME NEW R, NEW hk, NEW r, NEW W, Good(R \cup {r}, hk, {}, W), r.to \in W,
         r.src = FrameNode, r.cap \in {"box", "trn", "ref"}, r.to \notin Scope,
         NEW S, S \subseteq R, FrameFree(S),
         NEW n, n.src \in Scope, n.to = r.to, n.cap = "iso"
  PROVE  Good(S \cup {n}, hk, {}, {})
  <1> PICK imm, dead, cell, anc :
         /\ DOMAIN cell = Node
         /\ Divided(R \cup {r}, imm, dead, hk, cell, anc, Bases, FrameNode, {})
         /\ \A m \in W : Live(m, imm, dead) /\ m \notin hk
    BY DEF Good
  <1>0. PICK in, up, F : LeftRegion(F, r, S, imm, dead, hk, in, up) BY LeaveFrame
  <1>1. /\ DOMAIN in = Node /\ Divided(S, imm, dead, hk, in, up, Bases, FrameNode, {})
        /\ F \in DOMAIN up /\ F \notin ScopeCells(in, Bases, FrameNode) /\ up[F] = {F}
        /\ \A s \in S : Owner(s, imm, dead) => in[s.to] # F
        /\ r.to \in Node
        /\ r.to \in imm \/ (Live(r.to, imm, dead) /\ F \in up[in[r.to]])
    BY <1>0 DEF LeftRegion
  <1> PICK p, D : p = r.to /\ D = in[p] OBVIOUS
  <1>2. Live(p, imm, dead) /\ p \notin hk /\ F \in up[D] /\ p \in Node BY <1>1 DEF Live
  <1>a. PICK gone : Stranded(gone, F, D, imm, dead, in, up)
    <2> WITNESS dead \cup {m \in DOMAIN in : Live(m, imm, dead) /\ F \in up[in[m]] /\ D \notin up[in[m]]}
    <2> QED BY DEF Stranded
  <1>b. PICK off : CutOff(off, D, up)
    <2> WITNESS [c \in DOMAIN up |-> IF D \in up[c] THEN up[c] \ (up[D] \ {D}) ELSE up[c]]
    <2> QED BY DEF CutOff
  <1>3. /\ Divided(S, imm, gone, hk, in, off, Bases, FrameNode, {})
        /\ Live(p, imm, gone) /\ off[D] = {D} /\ D \notin ScopeCells(in, Bases, FrameNode)
        /\ \A s \in S : Owner(s, imm, gone) => in[s.to] # D
    BY <1>a, <1>b, <1>1, <1>2, Cut
  <1>4. Live(n.src, imm, gone) /\ n.src \in Node BY <1>1, <1>3, ScopeIsLive
  <1>5. Fits(n.cap, in[n.src], n.to, imm, gone, hk, in, off) BY <1>2, <1>3 DEF Fits
  <1>6. Divided(S \cup {n}, imm, gone, hk, in, off, Bases, FrameNode, {})
    BY <1>1, <1>2, <1>3, <1>4, <1>5, AddOwner
  <1> QED BY <1>1, <1>6 DEF Good

(* The result of a recover expression that is box or val is val outside.   *)
LEMMA GoodFreezeFrame ==
  ASSUME NEW R, NEW hk, NEW r, Good(R \cup {r}, hk, {}, {}),
         r.src = FrameNode, r.cap \in {"box", "trn", "ref"}, r.to \notin Scope,
         NEW S, S \subseteq R, FrameFree(S),
         NEW n, n.src \in Scope, n.to = r.to, n.cap = "val"
  PROVE  Good(S \cup {n}, hk, {}, {})
  <1> PICK imm, dead, cell, anc :
         /\ DOMAIN cell = Node
         /\ Divided(R \cup {r}, imm, dead, hk, cell, anc, Bases, FrameNode, {})
    BY DEF Good
  <1>0. PICK in, up, F : LeftRegion(F, r, S, imm, dead, hk, in, up) BY LeaveFrame
  <1>1. /\ DOMAIN in = Node /\ Divided(S, imm, dead, hk, in, up, Bases, FrameNode, {})
        /\ F \in DOMAIN up /\ F \notin ScopeCells(in, Bases, FrameNode) /\ up[F] = {F}
        /\ \A s \in S : Owner(s, imm, dead) => in[s.to] # F
        /\ r.to \in Node
        /\ r.to \in imm \/ (Live(r.to, imm, dead) /\ F \in up[in[r.to]])
    BY <1>0 DEF LeftRegion
  <1> PICK T : T = Below({F}, S, imm, dead, in, up) OBVIOUS
  <1> PICK now : FrozenIn(now, T, imm, dead, in)
    <2> WITNESS imm \cup {m \in DOMAIN in : Live(m, imm, dead) /\ in[m] \in T}
    <2> QED BY DEF FrozenIn
  <1>2. Divided(S, now, dead, hk, in, up, Bases, FrameNode, {})
    <2>1. up[F] \subseteq {F} \cup ScopeCells(in, Bases, FrameNode) BY <1>1
    <2>2. Unowned(F, S, imm, dead, in) BY <1>1 DEF Unowned
    <2> QED BY <1>1, <2>1, <2>2, Freeze
  <1>3. r.to \in now
    <2>1. CASE r.to \in imm BY <2>1 DEF FrozenIn
    <2>2. CASE Live(r.to, imm, dead) /\ F \in up[in[r.to]]
      <3>1. F \in T /\ Closed(T, S, imm, dead, in, up)
        <4>1. {F} \in SUBSET DOMAIN up BY <1>1
        <4>2. {F} \subseteq T /\ Closed(T, S, imm, dead, in, up) BY <4>1, BelowClosed
        <4> QED BY <4>2
      <3>2. in[r.to] \in DOMAIN up BY <1>1 DEF Divided, Placed
      <3>3. in[r.to] \in T BY <2>2, <3>1, <3>2 DEF Closed, LeadsTo
      <3> QED BY <3>3, <2>2, <1>1 DEF FrozenIn
    <2> QED BY <2>1, <2>2, <1>1
  <1>4. Live(n.src, now, dead) /\ n.src \in Node BY <1>1, <1>2, ScopeIsLive
  <1>5. Fits(n.cap, in[n.src], n.to, now, dead, hk, in, up) BY <1>3 DEF Fits
  <1>6. Divided(S \cup {n}, now, dead, hk, in, up, Bases, FrameNode, {})
    BY <1>1, <1>2, <1>4, <1>5, AddRef DEF Owning
  <1> QED BY <1>1, <1>6 DEF Good

(* A sendable result leaves the frame as it is.                            *)
LEMMA GoodLeave ==
  ASSUME NEW R, NEW hk, NEW K, NEW r, r \notin R, Good(R \cup {r}, hk, K, {}),
         r.src \in Scope, r.src \notin K, r.cap \in {"iso", "val", "tag"}, r.to \notin Scope,
         NEW S, S \subseteq R, FrameFree(S),
         NEW n, n.src \in Bases, n.to = r.to, n.cap = r.cap
  PROVE  Good(S \cup {n}, hk, {}, {})
  <1> DEFINE Q == R \cup {r}
  <1>1. r \in Q /\ (Q \ {r}) \cup {n} = R \cup {n} /\ Good(Q, hk, K, {}) OBVIOUS
  <1> HIDE DEF Q
  <1>2. Standing(r.src, Q) /\ Standing(n.src, Q) BY DEF Standing, Scope
  <1>3. Good((Q \ {r}) \cup {n}, hk, K, {}) BY <1>1, <1>2, GoodMove
  <1>4. Good(S \cup {n}, hk, K, {}) BY <1>1, <1>3, GoodSub
  <1>5. FrameFree(S \cup {n}) BY NodeFacts DEF FrameFree, Scope, Bases
  <1> QED BY <1>4, <1>5, GoodNewFrame

(* At the end of a frame, no reference is left that is held by it.         *)
LEMMA LeftFacts ==
  ASSUME NEW v, NEW fr, NEW mk, BagOK(v, fr, mk), NEW fl, NEW dc, NEW hk
  PROVE  /\ Refs(Left(v), fl, dc, hk) \subseteq Refs(v, fl, dc, hk)
         /\ FrameFree(Refs(Left(v), fl, dc, hk))
         /\ BagOK(Left(v), NoFrame, mk)
  <1> PICK w : w = Left(v) OBVIOUS
  <1>1. Counted(v) /\ \A x \in DOMAIN v : x.rec \in BOOLEAN BY BagOKCounts DEF BagOK, VarSet
  <1>2. /\ \A r : r \in VarRefs(w) <=> r \in VarRefs(v) /\ r.src # FrameNode
        /\ DOMAIN w = {x \in DOMAIN v : ~x.rec} /\ Counted(w)
    BY <1>1, VarLeft
  <1>3. Refs(w, fl, dc, hk) \subseteq Refs(v, fl, dc, hk) BY <1>2 DEF Refs
  <1>4. ASSUME NEW r \in Refs(w, fl, dc, hk) PROVE r.src # FrameNode /\ r.to # FrameNode
    <2>1. CASE r \in VarRefs(w)
      <3>0. PICK y \in DOMAIN w : \E k \in 1..w[y] : r = VarRef(y, k) BY <2>1, InVarRefs
      <3>1. PICK k \in 1..w[y] : r = VarRef(y, k) BY <3>0
      <3> QED BY <3>1, <2>1, <1>2, VarRefFacts, NodeFacts
    <2>2. CASE r \in FieldRefs(fl, dc, hk)
      <3>1. PICK a \in Object, f \in Field : fl[a][f] # Null /\ r = FieldRef(a, f, fl, dc, hk)
        BY <2>2, InFieldRefs
      <3> QED BY <3>1, FieldRefFacts, NodeFacts
    <2> QED BY <1>4, <2>1, <2>2 DEF Refs
  <1>5. BagOK(w, NoFrame, mk) BY <1>2 DEF BagOK, Counted
  <1> QED BY <1>3, <1>4, <1>5 DEF FrameFree

(* Once the result of a frame is bound outside the state can be divided.   *)
LEMMA LeaveRegions ==
  ASSUME Regions, NEW t \in Thread, NEW o \in Object, NEW g \in Concrete, NEW c \in Concrete, Weaker(g, c),
         NEW v, BagOK(v, NoFrame, made),
         NEW hk, Good(Refs(v, field, decl, hk) \cup {Temp("value", g, BaseNode(t), o)}, hk, {}, {}),
         NEW r \in BOOLEAN, ~r, NEW y, y = Variable(t, o, c, r)
  PROVE  RegionsOf(v (+) SetToBag({y}), field, decl, made \cup {o}, NoFrame)
  <1>1. /\ y \in VarSet /\ y.obj = o /\ y.cap = c /\ ~y.rec /\ Home(y) = BaseNode(t) /\ Home(y) \in Scope
    BY VariableFacts
  <1> PICK w : w = v (+) SetToBag({y}) OBVIOUS
  <1>2. Counted(v) BY BagOKCounts
  <1>3. Added(v, y, w) BY <1>2, BagAdd
  <1>4. BagOK(w, NoFrame, made \cup {o}) BY <1>1, <1>3, BagAddOK
  <1>5. HeapOK(field, decl, made \cup {o}) BY HeapGrows DEF Regions, RegionsOf
  <1>6. Good(Refs(w, field, decl, hk), hk, {}, {}) BY <1>1, <1>2, <1>3, BindTemp
  <1> QED BY <1>4, <1>5, <1>6, NoFrameFacts DEF RegionsOf

(* The cases of recover_single.                                            *)
LEMMA RecoverOf ==
  ASSUME NEW c \in Concrete, NEW ep \in {"none", "ephemeral"}, NEW u,
         u = RecoverSingle(Type(c, ep), "none")
  PROVE  /\ c \in {"trn", "ref"} => Got(u) = "iso"
         /\ c \in {"box", "val"} => Got(u) = "val"
         /\ c \in {"iso", "tag"} => Got(u) = Got(Type(c, ep)) /\ Got(u) \in {"iso", "tag"}
         /\ c = "val" => Got(Type(c, ep)) = "val"
         /\ c = "box" => Got(Type(c, ep)) = "box"
         /\ c \in {"trn", "ref"} => Got(Type(c, ep)) \in {"box", "trn", "ref"}
  <1>1. Type(c, ep).cap = c /\ Type(c, ep).eph = ep BY TypeFacts
  <1>2. /\ c \in {"iso", "trn", "ref"} => RecoversTo(c) = "iso"
        /\ c \in {"val", "box"} => RecoversTo(c) = "val"
        /\ c = "tag" => RecoversTo(c) = "tag"
    BY DEF RecoversTo
  <1>3. MayRecover(Type(c, ep), RecoversTo(c)) BY <1>1, <1>2 DEF MayRecover, Concrete
  <1>4. u = Type(RecoversTo(c), IF c \in {"trn", "ref"} THEN "ephemeral" ELSE ep)
    BY <1>1, <1>3 DEF RecoverSingle
  <1>5. Got(Type(c, ep)) = GotFrom(c, ep) BY GotOf
  <1>6. CASE c \in {"trn", "ref"}
    <2>1. u = Type("iso", "ephemeral") BY <1>2, <1>4, <1>6
    <2>2. Got(u) = "iso" BY <2>1, GotOf DEF GotFrom, Concrete
    <2> QED BY <2>2, <1>5, <1>6 DEF GotFrom
  <1>7. CASE c \in {"val", "box"}
    <2>1. u = Type("val", ep) BY <1>2, <1>4, <1>7
    <2>2. Got(u) = "val" BY <2>1, GotOf DEF GotFrom, Concrete
    <2> QED BY <2>2, <1>5, <1>7 DEF GotFrom
  <1>8. CASE c \in {"iso", "tag"}
    <2>1. u = Type(c, ep) BY <1>2, <1>4, <1>8
    <2> QED BY <2>1, <1>5, <1>8 DEF GotFrom
  <1> QED BY <1>6, <1>7, <1>8 DEF Concrete

(* The result of a recover expression can be held outside.                 *)
LEMMA RecoverLeaves ==
  ASSUME Regions, NEW t \in Thread, Recovering(t), NEW e, Evaluated(t, e),
         NEW g, g = Got(RecoverSingle(e.type, "none"))
  PROVE  /\ g \in Concrete
         /\ \E hk : Good(Refs(Left(e.var), field, decl, hk) \cup {Temp("value", g, BaseNode(t), e.obj)}, hk, {}, {})
  <1>1. PICK c \in Concrete, ep \in {"none", "ephemeral"} : e.type = Type(c, ep) BY DEF Evaluated
  <1>2. PICK hk : Good(Refs(e.var, field, decl, hk) \cup
                         {Temp("value", Got(e.type), Here(t, frame), e.obj)}, hk, Callers(frame), Written(e))
    BY DEF Evaluated
  <1>3. Here(t, frame) = FrameNode /\ Callers(frame) = {} BY DEF Recovering, Within, Here, Callers
  <1> PICK R, S, r, n : /\ R = Refs(e.var, field, decl, hk) /\ S = Refs(Left(e.var), field, decl, hk)
                        /\ r = Temp("value", Got(e.type), FrameNode, e.obj)
                        /\ n = Temp("value", g, BaseNode(t), e.obj)
    OBVIOUS
  <1>4. BagOK(e.var, frame, made) BY EvaluatedFacts
  <1>5. S \subseteq R /\ FrameFree(S) BY <1>4, LeftFacts
  <1>6. /\ r.src = FrameNode /\ r.to = ObjNode(e.obj) /\ r.cap = Got(e.type) /\ r \notin R
        /\ n.src = BaseNode(t) /\ n.to = ObjNode(e.obj) /\ n.cap = g
    BY TempFacts, TempNotIn
  <1>7. r.to \notin Scope /\ n.src \in Bases /\ n.src \in Scope /\ r.src \in Scope
    BY <1>6, NodeFacts DEF Scope, Bases
  <1>8. Good(R \cup {r}, hk, {}, Written(e)) BY <1>2, <1>3
  <1>9. Good(R \cup {r}, hk, {}, {}) BY <1>8, GoodSub
  <1>10. /\ c \in {"trn", "ref"} => g = "iso" /\ r.cap \in {"box", "trn", "ref"}
         /\ c = "box" => g = "val" /\ r.cap = "box"
         /\ c = "val" => g = "val" /\ r.cap = "val"
         /\ c \in {"iso", "tag"} => g = r.cap /\ r.cap \in {"iso", "tag"}
    BY <1>1, <1>6, RecoverOf
  <1>11. CASE c \in {"trn", "ref"}
    <2>1. r.to \in Written(e) BY <1>1, <1>6, <1>11, TypeFacts DEF Written
    <2> QED BY <2>1, <1>5, <1>6, <1>7, <1>8, <1>10, <1>11, GoodCut DEF Concrete
  <1>12. CASE c = "box"
    BY <1>5, <1>6, <1>7, <1>9, <1>10, <1>12, GoodFreezeFrame DEF Concrete
  <1>13. CASE c \in {"val", "iso", "tag"}
    <2>1. r.cap \in {"iso", "val", "tag"} /\ n.cap = r.cap /\ g \in Concrete
      BY <1>6, <1>10, <1>13 DEF Concrete
    <2>2. r.src \notin {} OBVIOUS
    <2> QED BY <2>1, <2>2, <1>5, <1>6, <1>7, <1>9, GoodLeave
  <1> QED BY <1>11, <1>12, <1>13 DEF Concrete

(* The end of a recover expression keeps the regions.                      *)
LEMMA EndRecoverKeeps ==
  ASSUME Regions, Gaps = {}, NEW t \in Thread, EndRecover(t)
  PROVE  Regions'
  <1>0. PICK r : r = FALSE /\ r \in BOOLEAN OBVIOUS
  <1>1. PICK b \in UNION {Bound(Recovered(e), t, FALSE) : e \in Expressions(t)} : Becomes(b.var, b.obj)
    BY DEF EndRecover
  <1>2. PICK e \in Expressions(t) : b \in Bound(Recovered(e), t, FALSE) BY <1>1
  <1> PICK a : a = Recovered(e) OBVIOUS
  <1>a. b \in Bound(a, t, r) BY <1>0, <1>2
  <1>3. PICK c \in Concrete : /\ Weaker(Got(a.type), c) /\ b.obj = a.obj
                              /\ b.var = a.var (+) SetToBag({Variable(t, a.obj, c, r)})
    BY <1>a, BoundFacts
  <1>4. a.obj = e.obj /\ a.type = RecoverSingle(e.type, "none") /\ a.var = Left(e.var)
    BY DEF Recovered, Value
  <1>5. Evaluated(t, e) /\ e.obj \in Object /\ BagOK(e.var, frame, made)
    BY <1>2, EvalExpressions, EvaluatedFacts
  <1>6. Recovering(t) BY DEF EndRecover
  <1>7. /\ Got(a.type) \in Concrete
        /\ \E hk : Good(Refs(a.var, field, decl, hk) \cup {Temp("value", Got(a.type), BaseNode(t), e.obj)}, hk, {}, {})
    BY <1>4, <1>5, <1>6, RecoverLeaves
  <1>8. BagOK(a.var, NoFrame, made) BY <1>4, <1>5, LeftFacts
  <1>b. r \in BOOLEAN /\ ~r BY <1>0
  <1>9. RegionsOf(a.var (+) SetToBag({Variable(t, a.obj, c, r)}), field, decl, made \cup {e.obj}, NoFrame)
    BY <1>b, <1>3, <1>4, <1>5, <1>7, <1>8, LeaveRegions
  <1>10. /\ var' = a.var (+) SetToBag({Variable(t, a.obj, c, r)}) /\ made' = made \cup {e.obj}
         /\ field' = field /\ decl' = decl /\ frame' = NoFrame
    BY <1>1, <1>3, <1>4 DEF Becomes, EndRecover
  <1> QED BY <1>9, <1>10 DEF Regions

(* The result of a call whose receiver is recovered is sendable, but for   *)
(* the gap "trn result".                                                   *)
LEMMA ResultFacts ==
  ASSUME Regions, Gaps = {}, NEW t \in Thread, Calling(t), NEW a \in Results(t)
  PROVE  \E e \in Expressions(t) : /\ a.obj = e.obj /\ a.var = Left(e.var)
                                   /\ Got(a.type) \in {"iso", "val", "tag"}
                                   /\ Weaker(Got(e.type), Got(a.type))
  <1>1. PICK e \in Expressions(t) :
          a \in {Value(e.obj, r, Left(e.var)) :
                  r \in {r \in ResultTypes(e.type) :
                          /\ SafeToAutorecover(frame.receiver, r)
                          /\ "trn result" \in Gaps \/ r.cap # "trn"}}
    BY DEF Results
  <1>2. PICK r \in ResultTypes(e.type) : /\ SafeToAutorecover(frame.receiver, r) /\ r.cap # "trn"
                                         /\ a = Value(e.obj, r, Left(e.var))
    BY <1>1
  <1>3. a.obj = e.obj /\ a.var = Left(e.var) /\ a.type = r BY <1>2 DEF Value
  <1>4. /\ \E c \in Concrete, ep \in {"none", "ephemeral"} : r = Type(c, ep)
        /\ IsCapSubCap(AliasSingle(e.type), AliasSingle(r))
    BY <1>2 DEF ResultTypes
  <1>5. PICK c \in Concrete, ep \in {"none", "ephemeral"} : r = Type(c, ep) BY <1>4
  <1>6. frame.receiver \in {"iso", "trn"} BY DEF Calling, Regions, RegionsOf, FrameOK
  <1>7. CapAliasing(r).cap = c BY <1>5, AliasingOf, TypeFacts
  <1>8. c \in {"iso", "val", "tag"}
    BY <1>2, <1>5, <1>6, <1>7, TypeFacts DEF SafeToAutorecover, CapSafeToWrite, CapSendable, Concrete
  <1>9. Got(r) \in {"iso", "val", "tag"} BY <1>5, <1>8, GotOf DEF GotFrom
  <1>10. Weaker(Got(e.type), Got(r)) BY <1>4 DEF IsCapSubCap, Got, Weaker
  <1> QED BY <1>3, <1>9, <1>10

(* The result of such a call can be held by the caller.                    *)
LEMMA CallLeaves ==
  ASSUME Regions, NEW t \in Thread, Calling(t), NEW e, Evaluated(t, e),
         NEW g \in {"iso", "val", "tag"}, Weaker(Got(e.type), g)
  PROVE  \E hk : Good(Refs(Left(e.var), field, decl, hk) \cup {Temp("value", g, BaseNode(t), e.obj)}, hk, {}, {})
  <1>1. Got(e.type) \in Concrete /\ g \in Concrete BY EvaluatedFacts DEF Concrete
  <1>2. PICK hk : Good(Refs(e.var, field, decl, hk) \cup
                         {Temp("value", Got(e.type), Here(t, frame), e.obj)}, hk, Callers(frame), {})
    BY EvaluatedFacts
  <1> PICK K, h : K = Callers(frame) /\ h = Here(t, frame) OBVIOUS
  <1>3. h \in Scope /\ h \notin K BY HereFacts
  <1> PICK R, S, r, q, m, n : /\ R = Refs(e.var, field, decl, hk) /\ S = Refs(Left(e.var), field, decl, hk)
                              /\ r = Temp("value", Got(e.type), h, e.obj)
                              /\ q = Temp("value", g, h, e.obj)
                              /\ m = Temp("value", "trn", h, e.obj)
                              /\ n = Temp("value", g, BaseNode(t), e.obj)
    OBVIOUS
  <1>4. BagOK(e.var, frame, made) BY EvaluatedFacts
  <1>5. S \subseteq R /\ FrameFree(S) BY <1>4, LeftFacts
  <1>6. /\ r.src = h /\ r.to = ObjNode(e.obj) /\ r.cap = Got(e.type) /\ r \notin R
        /\ q.src = h /\ q.to = ObjNode(e.obj) /\ q.cap = g /\ q \notin R
        /\ m.src = h /\ m.to = ObjNode(e.obj) /\ m.cap = "trn" /\ m \notin R
        /\ n.src = BaseNode(t) /\ n.to = ObjNode(e.obj) /\ n.cap = g
    BY TempFacts, TempNotIn
  <1>7. q.to \notin Scope /\ n.src \in Bases
    BY <1>6, NodeFacts DEF Scope, Bases
  <1>8. Good(R \cup {q}, hk, K, {}) BY <1>1, <1>2, <1>3, <1>6, GoodWeaken
  <1>9. Good(S \cup {n}, hk, {}, {}) BY <1>3, <1>5, <1>6, <1>7, <1>8, GoodLeave
  <1> QED BY <1>9

(* The end of a call keeps the regions.                                    *)
LEMMA EndCallKeeps ==
  ASSUME Regions, Gaps = {}, NEW t \in Thread, EndCall(t)
  PROVE  Regions'
  <1>0. PICK r : r = FALSE /\ r \in BOOLEAN OBVIOUS
  <1>1. Calling(t) /\ frame' = NoFrame /\ field' = field /\ decl' = decl BY DEF EndCall
  <1>2. CASE var' = Left(var) /\ made' = made
    <2>1. BagOK(var, frame, made) BY DEF Regions, RegionsOf
    <2>2. PICK hk : Good(Refs(var, field, decl, hk), hk, Callers(frame), {}) BY DEF Regions, RegionsOf
    <2>3. /\ Refs(Left(var), field, decl, hk) \subseteq Refs(var, field, decl, hk)
          /\ FrameFree(Refs(Left(var), field, decl, hk))
          /\ BagOK(Left(var), NoFrame, made)
      BY <2>1, LeftFacts
    <2>4. Good(Refs(Left(var), field, decl, hk), hk, Callers(frame), {}) BY <2>2, <2>3, GoodSub
    <2>5. Good(Refs(Left(var), field, decl, hk), hk, {}, {}) BY <2>3, <2>4, GoodNewFrame
    <2>6. RegionsOf(Left(var), field, decl, made, NoFrame)
      BY <2>3, <2>5, NoFrameFacts DEF Regions, RegionsOf
    <2> QED BY <2>6, <1>1, <1>2 DEF Regions
  <1>3. CASE \E b \in UNION {Bound(a, t, FALSE) : a \in Results(t)} : Becomes(b.var, b.obj)
    <2>1. PICK b \in UNION {Bound(a, t, FALSE) : a \in Results(t)} : Becomes(b.var, b.obj) BY <1>3
    <2>2. PICK a \in Results(t) : b \in Bound(a, t, FALSE) BY <2>1
    <2>a. b \in Bound(a, t, r) BY <1>0, <2>2
    <2>3. PICK c \in Concrete : /\ Weaker(Got(a.type), c) /\ b.obj = a.obj
                                /\ b.var = a.var (+) SetToBag({Variable(t, a.obj, c, r)})
      BY <2>a, BoundFacts
    <2>4. PICK e \in Expressions(t) : /\ a.obj = e.obj /\ a.var = Left(e.var)
                                      /\ Got(a.type) \in {"iso", "val", "tag"}
                                      /\ Weaker(Got(e.type), Got(a.type))
      BY <1>1, <2>2, ResultFacts
    <2>5. Evaluated(t, e) /\ e.obj \in Object /\ BagOK(e.var, frame, made)
      BY EvalExpressions, EvaluatedFacts
    <2>6. \E hk : Good(Refs(a.var, field, decl, hk) \cup {Temp("value", Got(a.type), BaseNode(t), a.obj)}, hk, {}, {})
      BY <1>1, <2>4, <2>5, CallLeaves
    <2>7. BagOK(a.var, NoFrame, made) BY <2>4, <2>5, LeftFacts
    <2>b. r \in BOOLEAN /\ ~r BY <1>0
    <2>8. Got(a.type) \in Concrete /\ a.obj \in Object BY <2>4, <2>5 DEF Concrete
    <2>9. RegionsOf(a.var (+) SetToBag({Variable(t, a.obj, c, r)}), field, decl, made \cup {a.obj}, NoFrame)
      BY <2>b, <2>3, <2>6, <2>7, <2>8, LeaveRegions
    <2>10. var' = a.var (+) SetToBag({Variable(t, a.obj, c, r)}) /\ made' = made \cup {a.obj}
      BY <2>1, <2>3 DEF Becomes
    <2> QED BY <2>9, <2>10, <1>1 DEF Regions
  <1> QED BY <1>2, <1>3 DEF EndCall

(* The receiver of a call is a ref inside of the call.                     *)
LEMMA GoodJoin ==
  ASSUME NEW R, NEW hk, Good(R, hk, {}, {}), FrameFree(R),
         NEW q \in R, q.cap \in Owning, q.src \in Bases,
         NEW n, n.src = FrameNode, n.to = q.to, n.cap = "ref"
  PROVE  Good(R \cup {n}, hk, {q.src}, {})
  <1> PICK imm, dead, cell, anc :
         /\ DOMAIN cell = Node
         /\ Divided(R, imm, dead, hk, cell, anc, Bases, FrameNode, {})
    BY DEF Good
  <1>1. /\ Live(q.src, imm, dead) /\ q.to \in Node /\ FrameNode \in Node /\ q.to # FrameNode
    BY ScopeIsLive DEF Divided, RefTypes, Scope, Node, FrameFree
  <1>2. Fits(q.cap, cell[q.src], q.to, imm, dead, hk, cell, anc) BY <1>1 DEF Divided, RefsFit
  <1>3. Live(q.to, imm, dead) /\ q.to \notin hk BY <1>2 DEF Fits, Owning
  <1> PICK in : in = [m \in DOMAIN cell |-> IF m = FrameNode THEN cell[q.to] ELSE cell[m]] OBVIOUS
  <1>4. /\ Divided(R, imm, dead, hk, in, anc, Bases, FrameNode, {q.src})
        /\ DOMAIN in = DOMAIN cell /\ in[FrameNode] = cell[q.to]
        /\ \A m \in DOMAIN cell : m # FrameNode => in[m] = cell[m]
    BY JoinFrame DEF FrameFree
  <1>5. in[q.to] = in[FrameNode] BY <1>1, <1>4
  <1>6. Live(n.src, imm, dead) BY <1>4, ScopeIsLive DEF Scope
  <1>7. Fits(n.cap, in[n.src], n.to, imm, dead, hk, in, anc) BY <1>3, <1>5 DEF Fits
  <1>8. Divided(R \cup {n}, imm, dead, hk, in, anc, Bases, FrameNode, {q.src})
    BY <1>1, <1>4, <1>6, <1>7, AddRef DEF Owning
  <1> QED BY <1>4, <1>8 DEF Good

(* Only unique receivers are recovered.                                    *)
LEMMA ReceiverFacts ==
  ASSUME NEW c \in Concrete, NEW d \in {"ref", "box"},
         IsCapSubCap(Plain(c), Plain(d)), ~IsCapSubCap(AliasSingle(Plain(c)), Plain(d))
  PROVE  c \in {"iso", "trn"}
  <1>1. Got(Plain(c)) = GotFrom(c, "none") BY GotOf DEF Plain
  <1>2. ~Weaker(GotFrom(c, "none"), d) BY <1>1, AcceptsOf
  <1>3. d = c \/ d \in SubCapTable[c] BY PlainSubCap
  <1> QED BY <1>2, <1>3, SubCapRows DEF Weaker, GotFrom, Concrete

(* Without variables of a frame, no reference is held by it.               *)
LEMMA NoRefsOfFrame ==
  ASSUME NEW v, NEW fr, NEW mk, BagOK(v, fr, mk), \A x \in DOMAIN v : ~x.rec, NEW fl, NEW dc, NEW hk
  PROVE  FrameFree(Refs(v, fl, dc, hk))
  <1> SUFFICES ASSUME NEW r \in Refs(v, fl, dc, hk) PROVE r.src # FrameNode /\ r.to # FrameNode
    BY DEF FrameFree
  <1>1. CASE r \in VarRefs(v)
    <2>0. PICK y \in DOMAIN v : \E k \in 1..v[y] : r = VarRef(y, k) BY <1>1, InVarRefs
    <2>1. PICK k \in 1..v[y] : r = VarRef(y, k) BY <2>0
    <2> QED BY <2>1, VarRefFacts, NodeFacts DEF Home
  <1>2. CASE r \in FieldRefs(fl, dc, hk)
    <2>1. PICK a \in Object, f \in Field : fl[a][f] # Null /\ r = FieldRef(a, f, fl, dc, hk)
      BY <1>2, InFieldRefs
    <2> QED BY <2>1, FieldRefFacts, NodeFacts
  <1> QED BY <1>1, <1>2 DEF Refs

(* The call begins, its argument bound in v, with this still to be bound.  *)
LEMMA ThisRegions ==
  ASSUME NEW t \in Thread, NEW fr, FrameOK(fr), fr.by = t, Callers(fr) = {BaseNode(t)},
         NEW v, NEW mk, BagOK(v, fr, mk), HeapOK(field, decl, mk), NEW o \in Object, o \in mk,
         NEW c \in {"ref", "box"}, NEW y \in VarSet, y.obj = o, y.cap = c, y.owner = t, Home(y) = FrameNode,
         NEW hk, Good(Refs(v, field, decl, hk) \cup {Temp("this", "ref", FrameNode, o)}, hk, Callers(fr), {})
  PROVE  RegionsOf(v (+) SetToBag({y}), field, decl, mk, fr)
  <1>0. c \in Concrete BY DEF Concrete
  <1>1. /\ y \in VarSet /\ y.obj = o /\ y.cap = c /\ y.owner = t
        /\ Home(y) = FrameNode /\ Home(y) \in Scope /\ FrameNode \in Scope
    BY DEF Scope
  <1> PICK w : w = v (+) SetToBag({y}) OBVIOUS
  <1>2. Counted(v) BY BagOKCounts
  <1>3. Added(v, y, w) BY <1>2, BagAdd
  <1>4. BagOK(w, fr, mk) BY <1>1, <1>3, BagAddOK
  <1>5. Weaker("ref", c) /\ "ref" \in Concrete BY SubCapRows DEF Weaker, Concrete
  <1>6. FrameNode \notin Callers(fr) BY NodeFacts
  <1> PICK g, h, K : g = "ref" /\ h = FrameNode /\ K = Callers(fr) OBVIOUS
  <1>b. /\ g \in Concrete /\ h \in Scope /\ h \notin K /\ y.cap \in Concrete /\ Weaker(g, y.cap)
        /\ Home(y) = h /\ Home(y) \in Scope
        /\ Good(Refs(v, field, decl, hk) \cup {Temp("this", g, h, o)}, hk, K, {})
    BY <1>0, <1>1, <1>5, <1>6
  <1>7. Good(Refs(w, field, decl, hk), hk, K, {}) BY <1>1, <1>2, <1>3, <1>b, BindTemp
  <1> QED BY <1>4, <1>7 DEF RegionsOf

(* A call without arguments begins.                                        *)
LEMMA CallWithout ==
  ASSUME Regions, frame = NoFrame, NEW t \in Thread, NEW x \in Usable(t), x.cap \in {"iso", "trn"},
         NEW c \in {"ref", "box"},
         NEW y \in VarSet, y.obj = x.obj, y.cap = c, y.owner = t, Home(y) = FrameNode
  PROVE  RegionsOf(var (+) SetToBag({y}), field, decl, made, Frame(t, x.cap))
  <1> PICK fr : fr = Frame(t, x.cap) OBVIOUS
  <1>1. FrameOK(fr) /\ fr.by = t /\ Callers(fr) = {BaseNode(t)} BY FrameFacts
  <1>2. x \in DOMAIN var /\ x \in VarSet /\ x.owner = t /\ ~x.rec /\ x.obj \in made
    BY UsableFacts, NoRecOutside DEF Regions, RegionsOf, BagOK
  <1>3. BagOK(var, fr, made) BY NoRecOutside DEF Regions, RegionsOf, BagOK
  <1>4. PICK hk : Good(Refs(var, field, decl, hk), hk, {}, {})
    BY NoFrameFacts DEF Regions, RegionsOf
  <1> PICK q, n : q = VarRef(x, var[x]) /\ n = Temp("this", "ref", FrameNode, x.obj) OBVIOUS
  <1>5. q \in Refs(var, field, decl, hk) BY <1>2, OwnRef
  <1>6. q.src = BaseNode(t) /\ q.cap = x.cap /\ q.to = ObjNode(x.obj) BY <1>2, VarRefFacts DEF Home
  <1>7. n.src = FrameNode /\ n.to = ObjNode(x.obj) /\ n.cap = "ref" BY TempFacts
  <1>8. FrameFree(Refs(var, field, decl, hk)) BY <1>3, NoRecOutside, NoRefsOfFrame
  <1>9. Good(Refs(var, field, decl, hk) \cup {n}, hk, {q.src}, {})
    BY <1>4, <1>5, <1>6, <1>7, <1>8, GoodJoin DEF Owning, Bases
  <1>10. Good(Refs(var, field, decl, hk) \cup {n}, hk, Callers(fr), {}) BY <1>1, <1>6, <1>9
  <1>11. HeapOK(field, decl, made) BY DEF Regions, RegionsOf
  <1>12. x.obj \in Object BY <1>2 DEF VarSet
  <1> QED BY <1>1, <1>2, <1>3, <1>10, <1>11, <1>12, ThisRegions

(* A call with a safe argument begins: what is safe to write into the      *)
(* receiver is so also in the call.                                        *)
LEMMA CallWith ==
  ASSUME Regions, frame = NoFrame, NEW t \in Thread, NEW x \in Usable(t), x.cap \in {"iso", "trn"},
         NEW e, Evaluated(t, e), x \in DOMAIN e.var,
         NEW d \in Concrete, Weaker(Got(e.type), d), CapSafeToWrite(x.cap, Got(e.type)),
         NEW z \in VarSet, z.obj = e.obj, z.cap = d, z.owner = t, Home(z) = FrameNode,
         NEW c \in {"ref", "box"},
         NEW y \in VarSet, y.obj = x.obj, y.cap = c, y.owner = t, Home(y) = FrameNode
  PROVE  RegionsOf((e.var (+) SetToBag({z})) (+) SetToBag({y}), field, decl, made \cup {e.obj}, Frame(t, x.cap))
  <1> PICK fr, mk, v, w, g : /\ fr = Frame(t, x.cap) /\ mk = made \cup {e.obj} /\ v = e.var
                             /\ w = e.var (+) SetToBag({z}) /\ g = Got(e.type)
    OBVIOUS
  <1>1. FrameOK(fr) /\ fr.by = t /\ Callers(fr) = {BaseNode(t)} BY FrameFacts
  <1>2. x \in VarSet /\ x.owner = t /\ ~x.rec /\ x.obj \in made /\ x.obj \in Object
    BY UsableFacts, NoRecOutside DEF Regions, RegionsOf, BagOK, VarSet
  <1>3. /\ e.obj \in Object /\ g \in Concrete /\ BagOK(v, NoFrame, made) /\ Counted(v)
        /\ \E hk : Good(Refs(v, field, decl, hk) \cup {Temp("value", g, Here(t, NoFrame), e.obj)},
                        hk, Callers(NoFrame), {})
    BY EvaluatedFacts
  <1>4. \A u \in DOMAIN v : ~u.rec /\ u \in VarSet /\ v[u] \in Nat \ {0} /\ u.obj \in made
    BY <1>3, NoFrameFacts, RefCapsAssumption DEF BagOK, VarSet
  <1>5. Here(t, NoFrame) = BaseNode(t) BY NoFrameFacts, RefCapsAssumption DEF Here
  <1>6. PICK hk : Good(Refs(v, field, decl, hk) \cup {Temp("value", g, BaseNode(t), e.obj)}, hk, {}, {})
    BY <1>3, <1>5, NoFrameFacts
  <1>7. Added(v, z, w) BY <1>3, BagAdd
  <1>8. PICK k : VarRefs(w) = VarRefs(v) \cup {VarRef(z, k)} BY <1>3, <1>7, VarAdd
  <1> PICK R, r, q, n, j, zz :
        /\ R = Refs(v, field, decl, hk) /\ r = Temp("value", g, BaseNode(t), e.obj)
        /\ q = VarRef(x, v[x]) /\ n = Temp("value", d, ObjNode(x.obj), e.obj)
        /\ j = Temp("this", "ref", FrameNode, x.obj) /\ zz = VarRef(z, k)
    OBVIOUS
  <1>9. /\ r.src = BaseNode(t) /\ r.cap = g /\ r.to = ObjNode(e.obj)
        /\ n.src = ObjNode(x.obj) /\ n.cap = d /\ n.to = ObjNode(e.obj) /\ n.at = "value"
        /\ j.src = FrameNode /\ j.cap = "ref" /\ j.to = ObjNode(x.obj) /\ j.at = "this"
        /\ zz.src = FrameNode /\ zz.cap = d /\ zz.to = ObjNode(e.obj)
        /\ r \notin R /\ n \notin R
    BY TempFacts, TempNotIn, VarRefFacts
  <1>10. q \in R /\ q.src = BaseNode(t) /\ q.cap = x.cap /\ q.to = ObjNode(x.obj)
    <2>1. v[x] \in 1..v[x] BY <1>4
    <2>2. q \in VarRefs(v) BY <2>1, InVarRefs
    <2> QED BY <2>2, <1>2, VarRefFacts DEF Refs, Home
  <1>11. /\ BaseNode(t) \in Bases /\ BaseNode(t) \in Scope /\ q.to \notin Scope /\ q.to # FrameNode
         /\ ObjNode(x.obj) # BaseNode(t) /\ ObjNode(e.obj) # FrameNode
    BY <1>10, NodeFacts DEF Bases, Scope
  <1>12. MayPlace(q.cap, r.cap, n.cap) BY <1>9, <1>10 DEF MayPlace
  <1>13. Spare(R, r.src, r.to) /\ Spare(R, q.to, r.to)
    BY <1>9, <1>10, TempChoice
  <1>14. Good(R \cup {n}, hk, {}, {})
    <2> PICK L : L = {} OBVIOUS
    <2>1. L \subseteq Bases /\ x.cap \in Concrete /\ r.src \notin L /\ q.src \notin L
      BY DEF Concrete
    <2>2. /\ Good(R \cup {r}, hk, L, {}) /\ r.src \in Scope /\ r.cap \in Concrete
          /\ q.src \in Scope /\ q.cap \in Concrete /\ q.src = r.src
          /\ n.src = q.to /\ n.to = r.to /\ n.cap \in Concrete
      BY <2>1, <1>3, <1>6, <1>9, <1>10, <1>11
    <2>3. Good(R \cup {n}, hk, L, {}) BY <2>1, <2>2, <1>9, <1>10, <1>11, <1>12, <1>13, GoodPlace
    <2> QED BY <2>3
  <1>15. FrameFree(R \cup {n})
    <2>1. FrameFree(R) BY <1>3, <1>4, NoRefsOfFrame
    <2> QED BY <2>1, <1>9, <1>11, <1>10 DEF FrameFree
  <1> PICK S : S = R \cup {n} OBVIOUS
  <1>16. Good(S \cup {j}, hk, {BaseNode(t)}, {})
    <2>1. q \in S /\ q.cap \in Owning /\ q.src \in Bases BY <1>10, <1>11 DEF Owning
    <2>2. Good(S \cup {j}, hk, {q.src}, {}) BY <2>1, <1>9, <1>10, <1>14, <1>15, GoodJoin
    <2> QED BY <2>2, <1>10
  <1> PICK Q, K : Q = S \cup {j} /\ K = {BaseNode(t)} OBVIOUS
  <1>17. n \in Q /\ j \in Q /\ q \in Q /\ n.src \notin K BY <1>9, <1>10, <1>11
  <1>18. Standing(n.src, Q) /\ Standing(zz.src, Q) /\ Near(zz.src, n.src, Q)
    BY <1>9, <1>10, <1>11, <1>17 DEF Standing, Near, Scope
  <1>19. Good((Q \ {n}) \cup {zz}, hk, K, {}) BY <1>9, <1>16, <1>17, <1>18, GoodMove
  <1>20. n # j BY <1>9
  <1>21. (Q \ {n}) \cup {zz} = Refs(w, field, decl, hk) \cup {j} BY <1>8, <1>9, <1>20 DEF Refs
  <1>22. Good(Refs(w, field, decl, hk) \cup {j}, hk, Callers(fr), {}) BY <1>1, <1>19, <1>21
  <1>23. BagOK(v, fr, made) BY <1>4 DEF BagOK
  <1>24. BagOK(w, fr, mk) BY <1>1, <1>7, <1>23, BagAddOK
  <1>25. HeapOK(field, decl, mk) BY <1>3, HeapGrows DEF Regions, RegionsOf
  <1> QED BY <1>1, <1>2, <1>22, <1>24, <1>25, ThisRegions

(* The begin of a call keeps the regions.                                  *)
LEMMA StartCallKeeps ==
  ASSUME Regions, Gaps = {}, NEW t \in Thread, StartCall(t)
  PROVE  Regions'
  <1>0. frame = NoFrame /\ field' = field /\ decl' = decl BY DEF StartCall
  <1>1. PICK x \in Usable(t), c \in {"ref", "box"} :
          /\ RecoversReceiver(x, c)
          /\ frame' = Frame(t, x.cap)
          /\ \E b \in Arguments(t, x.cap) :
               /\ BagIn(x, b.var)
               /\ Becomes(b.var (+) SetToBag({Variable(t, x.obj, c, TRUE)}),
                          IF b.obj = Null THEN x.obj ELSE b.obj)
    BY DEF StartCall
  <1>2. x \in DOMAIN var /\ x \in VarSet /\ x.obj \in made /\ x.obj \in Object /\ x.cap \in Concrete
    BY UsableFacts DEF Regions, RegionsOf, BagOK, VarSet
  <1>3. x.cap \in {"iso", "trn"} BY <1>1, <1>2, ReceiverFacts DEF RecoversReceiver, Plain
  <1> PICK y : y = Variable(t, x.obj, c, TRUE) OBVIOUS
  <1>4. y \in VarSet /\ y.obj = x.obj /\ y.cap = c /\ y.owner = t /\ Home(y) = FrameNode
    BY <1>2 DEF Variable, VarSet, Home, Concrete
  <1>5. PICK b \in Arguments(t, x.cap) :
          /\ BagIn(x, b.var)
          /\ Becomes(b.var (+) SetToBag({y}), IF b.obj = Null THEN x.obj ELSE b.obj)
    BY <1>1
  <1>6. CASE b = Value(Null, NoType, var)
    <2>1. b.obj = Null /\ b.var = var BY <1>6 DEF Value
    <2>2. var' = var (+) SetToBag({y}) /\ made' = made BY <2>1, <1>2, <1>5 DEF Becomes
    <2>3. RegionsOf(var (+) SetToBag({y}), field, decl, made, Frame(t, x.cap))
      BY <1>0, <1>3, <1>4, CallWithout
    <2> QED BY <2>2, <2>3, <1>0, <1>1 DEF Regions
  <1>7. CASE b # Value(Null, NoType, var)
    <2>0. PICK r : r = TRUE /\ r \in BOOLEAN OBVIOUS
    <2>1. PICK e \in Expressions(t) : /\ SafeToAutorecover(x.cap, AliasSingle(e.type))
                                      /\ b \in Bound(e, t, r)
      BY <2>0, <1>7 DEF Arguments
    <2>2. PICK d \in Concrete : /\ Weaker(Got(e.type), d) /\ b.obj = e.obj
                                /\ b.var = e.var (+) SetToBag({Variable(t, e.obj, d, r)})
      BY <2>1, BoundFacts
    <2>3. Evaluated(t, e) /\ e.obj \in Object /\ Counted(e.var) /\ BagOK(e.var, frame, made)
      BY EvalExpressions, EvaluatedFacts
    <2> PICK z : z = Variable(t, e.obj, d, TRUE) OBVIOUS
    <2>4. /\ z \in VarSet /\ z.obj = e.obj /\ z.cap = d /\ z.owner = t /\ Home(z) = FrameNode /\ z.rec
      BY <2>3 DEF Variable, VarSet, Home
    <2>5. CapSafeToWrite(x.cap, Got(e.type)) BY <2>1 DEF SafeToAutorecover, Got
    <2>6. b.var = e.var (+) SetToBag({z}) BY <2>0, <2>2
    <2>7. x \in DOMAIN e.var
      <3>1. ~x.rec BY <1>0, <1>2, NoRecOutside
      <3>2. x \in DOMAIN b.var BY <1>5 DEF BagIn, BagToSet
      <3>3. Added(e.var, z, b.var) BY <2>3, <2>6, BagAdd
      <3> QED BY <3>1, <3>2, <3>3, <2>4 DEF Added
    <2>8. RegionsOf((e.var (+) SetToBag({z})) (+) SetToBag({y}), field, decl, made \cup {e.obj}, Frame(t, x.cap))
      <3> PICK g : g = Got(e.type) OBVIOUS
      <3>1. /\ frame = NoFrame /\ x \in Usable(t) /\ x.cap \in {"iso", "trn"} /\ Evaluated(t, e)
            /\ x \in DOMAIN e.var /\ d \in Concrete /\ Weaker(Got(e.type), d) /\ CapSafeToWrite(x.cap, Got(e.type))
            /\ z \in VarSet /\ z.obj = e.obj /\ z.cap = d /\ z.owner = t /\ Home(z) = FrameNode
            /\ c \in {"ref", "box"}
            /\ y \in VarSet /\ y.obj = x.obj /\ y.cap = c /\ y.owner = t /\ Home(y) = FrameNode
        BY <1>0, <1>1, <1>3, <1>4, <2>2, <2>3, <2>4, <2>5, <2>7
      <3> QED BY <3>1, CallWith
    <2>9. var' = b.var (+) SetToBag({y}) /\ made' = made \cup {e.obj}
      BY <1>5, <2>2, <2>3, RefCapsAssumption DEF Becomes
    <2> QED BY <2>6, <2>8, <2>9, <1>0, <1>1 DEF Regions
  <1> QED BY <1>6, <1>7

(* Nothing but the old value of a field.                                   *)
OnlyOld(O) == \A m \in O : m.kind = "temporary" /\ m.at = "old"

(* There are unused references beside an old value.                        *)
LEMMA SpareBeside ==
  ASSUME NEW v, NEW fl, NEW dc, NEW hk, NEW O, OnlyOld(O),
         NEW S, S \subseteq Refs(v, fl, dc, hk) \cup O,
         NEW h, NEW o, NEW p, p = ObjNode(o)
  PROVE  Spare(S, h, p)
  <1> SUFFICES \A c \in Concrete : \E m : m \notin S /\ m.src = h /\ m.to = p /\ m.cap = c
    BY DEF Spare
  <1> TAKE c \in Concrete
  <1> WITNESS Temp("choice", c, h, o)
  <1>1. Temp("choice", c, h, o).at = "choice" BY TempFacts
  <1>2. Temp("choice", c, h, o) \notin O BY <1>1 DEF OnlyOld
  <1> QED BY <1>2, TempFacts, TempNotIn

(* A field that may be assigned to is one of a mutable owner, and the      *)
(* value may be placed there.                                              *)
LEMMA StoreFacts ==
  ASSUME Regions, Gaps = {}, NEW x \in VarSet, NEW f \in Field, NEW e, MayStore(x, f, AliasSingle(e.type)),
         NEW d, d = decl[x.obj][f]
  PROVE  x.cap \in {"iso", "trn", "ref"} /\ d \in Concrete /\ MayPlace(x.cap, Got(e.type), d)
  <1>1. d \in Concrete /\ x.cap \in Concrete BY DEF VarSet, Regions, RegionsOf, HeapOK
  <1>2. IsCapSubCap(AliasSingle(e.type), Plain(d)) BY DEF MayStore, Plain
  <1>3. Weaker(Got(e.type), d) BY <1>2, AcceptsOf
  <1>4. CapSafeToWrite(x.cap, Got(e.type)) \/ CapSafeToWrite(x.cap, d)
    BY DEF MayStore, SafeToWrite, Got
  <1>5. x.cap \in {"iso", "trn", "ref"} BY <1>1, <1>4 DEF CapSafeToWrite
  <1> QED BY <1>1, <1>3, <1>4, <1>5 DEF MayPlace

(* The old value of a field can be taken out of it, but for the gap "old   *)
(* trn".                                                                   *)
LEMMA OldOut ==
  ASSUME Regions, NEW x \in VarSet, x.cap \in {"iso", "trn", "ref"}, NEW f \in Field,
         NEW p, p = field[x.obj][f], p # Null,
         NEW d, d = decl[x.obj][f], x.cap # "trn" \/ d # "trn",
         NEW v, Counted(v), x \in DOMAIN v, NEW h \in Scope, NEW K, K \subseteq Bases,
         Home(x) \in Scope, x.cap # "iso" => Home(x) = h,
         NEW hk, NEW R, R = Refs(v, field, decl, hk), NEW r, r.kind = "temporary", Good(R \cup {r}, hk, K, {}),
         NEW s, s = FieldRef(x.obj, f, field, decl, hk),
         NEW n, n = Temp("old", SeenFrom(x.cap, d), h, p)
  PROVE  Good(((R \ {s}) \cup {n}) \cup {r}, hk, K, {})
  <1> PICK Q, q, g : Q = R \cup {r} /\ q = VarRef(x, v[x]) /\ g = SeenFrom(x.cap, d) OBVIOUS
  <1>0. x.obj \in Object BY DEF VarSet
  <1>1. /\ s \in R /\ s.src = ObjNode(x.obj) /\ s.to = ObjNode(p) /\ s.kind = "field"
        /\ d \in Concrete /\ (ObjNode(x.obj) \notin hk => s.cap = d)
    BY <1>0, OwnField, FieldRefFacts
  <1>2. q \in R /\ q.src = Home(x) /\ q.cap = x.cap /\ q.to = ObjNode(x.obj)
    <2>1. v[x] \in 1..v[x] BY DEF Counted
    <2>2. q \in VarRefs(v) BY <2>1, InVarRefs
    <2> QED BY <2>2, VarRefFacts DEF Refs
  <1>3. n.src = h /\ n.cap = g /\ n.to = ObjNode(p) BY TempFacts
  <1>4. s \in Q /\ q \in Q /\ Good(Q, hk, K, {}) /\ s # r BY <1>1, <1>2
  <1>5. q.to \notin hk BY <1>2, <1>4, GoodKnown
  <1>6. s.cap = d BY <1>1, <1>2, <1>5
  <1>7. ((R \ {s}) \cup {n}) \cup {r} = (Q \ {s}) \cup {n} BY <1>4
  <1>8. CASE g = d /\ (d \in {"iso", "val", "tag"} \/ x.cap = "ref")
    <2>1. s.src \notin K BY <1>1, NodeFacts DEF Bases
    <2>2. Standing(s.src, Q) /\ Standing(n.src, Q) BY <1>1, <1>2, <1>3, <1>4 DEF Standing
    <2>3. s.cap \in {"iso", "val", "tag"} \/ Near(n.src, s.src, Q)
      BY <1>1, <1>2, <1>3, <1>4, <1>6, <1>8 DEF Near
    <2>4. Good((Q \ {s}) \cup {n}, hk, K, {})
      BY <2>1, <2>2, <2>3, <1>1, <1>3, <1>4, <1>6, <1>8, GoodMove
    <2> QED BY <2>4, <1>7
  <1>9. CASE g \in {"box", "tag"} /\ Views(x.cap, d, g) /\ (x.cap = "iso" => g = "tag")
    <2>1. Good(Q \cup {n}, hk, K, {})
      <3>1. /\ q.cap \in Concrete \ {"tag"} /\ s.cap \in Concrete /\ s.src = q.to /\ n.src \in Scope
            /\ n.to = s.to /\ Views(q.cap, s.cap, n.cap) /\ q.src \in Scope
            /\ n.src = q.src \/ n.cap \in {"tag", "val"}
        BY <1>1, <1>2, <1>3, <1>6, <1>9 DEF Concrete
      <3> QED BY <3>1, <1>4, GoodView
    <2>2. (Q \ {s}) \cup {n} \subseteq Q \cup {n} OBVIOUS
    <2>3. Good((Q \ {s}) \cup {n}, hk, K, {}) BY <2>1, <2>2, GoodSub
    <2> QED BY <2>3, <1>7
  <1>10. \/ g = d /\ (d \in {"iso", "val", "tag"} \/ x.cap = "ref")
         \/ g \in {"box", "tag"} /\ Views(x.cap, d, g) /\ (x.cap = "iso" => g = "tag")
    BY <1>1 DEF SeenFrom, Views, Concrete
  <1> QED BY <1>8, <1>9, <1>10

(* The new value can be put into the field.                                *)
LEMMA PlaceField ==
  ASSUME Regions, NEW x \in VarSet, NEW f \in Field, NEW d, d = decl[x.obj][f], d \in Concrete,
         NEW v, Counted(v), x \in DOMAIN v, NEW h \in Scope, NEW K, K \subseteq Bases, h \notin K,
         Home(x) \in Scope, Home(x) \notin K, x.cap # "iso" => Home(x) = h,
         NEW hk, NEW R, R = Refs(v, field, decl, hk), NEW g \in Concrete, NEW o \in Object,
         NEW r, r = Temp("value", g, h, o),
         NEW s, s = FieldRef(x.obj, f, field, decl, hk),
         NEW O, OnlyOld(O),
         NEW Q, Q = ((R \ {s}) \cup O) \cup {r}, Good(Q, hk, K, {}), MayPlace(x.cap, g, d),
         x.cap \in {"iso", "trn", "ref"},
         NEW fm, Stored(field, x.obj, f, o, fm)
  PROVE  Good(Refs(v, fm, decl, hk) \cup O, hk, K, {})
  <1> PICK S, q, n : /\ S = (R \ {s}) \cup O /\ q = VarRef(x, v[x])
                     /\ n = FieldRef(x.obj, f, fm, decl, hk)
    OBVIOUS
  <1>0. x.obj \in Object /\ x.cap \in Concrete BY DEF VarSet
  <1>1. o # Null BY RefCapsAssumption
  <1>2. FieldRefs(fm, decl, hk) = (FieldRefs(field, decl, hk) \ {s}) \cup {n}
    BY <1>0, <1>1, FieldStore
  <1>3. q \in VarRefs(v) /\ q.src = Home(x) /\ q.cap = x.cap /\ q.to = ObjNode(x.obj) /\ q.kind = "variable"
    <2>1. v[x] \in 1..v[x] BY DEF Counted
    <2>2. q \in VarRefs(v) BY <2>1, InVarRefs
    <2> QED BY <2>2, VarRefFacts
  <1>4. s.kind = "field" /\ r.kind = "temporary" BY FieldRefFacts, TempFacts
  <1>5. \A m \in VarRefs(v) : m.kind = "variable" BY InVarRefs, VarRefFacts
  <1>6. Refs(v, fm, decl, hk) \cup O = S \cup {n} BY <1>2, <1>4, <1>5 DEF Refs
  <1>7. q \in S BY <1>3, <1>4 DEF Refs
  <1>8. r \notin S
    <2>1. r.at = "value" BY TempFacts
    <2> QED BY <2>1, TempNotIn DEF OnlyOld
  <1>9. Good(S \cup {r}, hk, K, {}) OBVIOUS
  <1>10. q.to \notin hk
    <2> PICK T : T = S \cup {r} OBVIOUS
    <2>1. q \in T /\ q.src \in Scope /\ q.cap \in {"iso", "trn", "ref"} /\ Good(T, hk, K, {}) BY <1>3, <1>7, <1>9
    <2> QED BY <2>1, GoodKnown
  <1>11. n.src = q.to /\ n.cap = d /\ n.to = ObjNode(o)
    BY <1>3, <1>10, FieldRefFacts DEF Effective, Stored
  <1>12. r.src = h /\ r.cap = g /\ r.to = ObjNode(o) BY TempFacts
  <1>13. S \subseteq Refs(v, field, decl, hk) \cup O OBVIOUS
  <1>14. Spare(S, r.src, r.to) /\ Spare(S, q.to, r.to) BY <1>12, <1>13, SpareBeside
  <1>15. q.to \notin Scope BY <1>3, NodeFacts DEF Scope, Bases
  <1>16. /\ r.src \in Scope /\ r.src \notin K /\ r.cap \in Concrete
         /\ q.src \in Scope /\ q.src \notin K /\ q.cap \in Concrete /\ (q.cap # "iso" => q.src = r.src)
         /\ n.to = r.to /\ n.cap \in Concrete /\ MayPlace(q.cap, r.cap, n.cap)
    BY <1>0, <1>3, <1>11, <1>12
  <1>17. Good(S \cup {n}, hk, K, {})
    BY <1>7, <1>8, <1>9, <1>11, <1>14, <1>15, <1>16, GoodPlace
  <1> QED BY <1>6, <1>17

(* The heap stays well-formed.                                             *)
LEMMA HeapStored ==
  ASSUME NEW fl, NEW dc, NEW mk, HeapOK(fl, dc, mk), NEW a \in mk, NEW f \in Field, NEW o \in Object,
         NEW fm, fm = [fl EXCEPT ![a][f] = o]
  PROVE  Stored(fl, a, f, o, fm) /\ HeapOK(fm, dc, mk \cup {o})
  <1>1. a \in Object /\ fl \in [Object -> [Field -> Object \cup {Null}]] BY DEF HeapOK
  <1>2. Stored(fl, a, f, o, fm) /\ fm \in [Object -> [Field -> Object \cup {Null}]] BY <1>1 DEF Stored
  <1>3. ASSUME NEW b \in Object, NEW g \in Field, fm[b][g] # Null
        PROVE  b \in mk \cup {o} /\ fm[b][g] \in mk \cup {o}
    <2>1. CASE b = a /\ g = f BY <2>1, <1>2 DEF Stored
    <2>2. CASE b # a \/ g # f BY <2>2, <1>2, <1>3 DEF Stored, HeapOK
    <2> QED BY <2>1, <2>2
  <1> QED BY <1>2, <1>3 DEF HeapOK

(* The parts of the old value, and what can be bound to it.                *)
LEMMA OldFacts ==
  ASSUME Regions, NEW x \in VarSet, x.cap # "tag", NEW f \in Field, NEW e,
         NEW a, a = OldValue(e, x, f)
  PROVE  /\ a.obj = field[x.obj][f] /\ a.var = e.var
         /\ Got(a.type) = SeenFrom(x.cap, decl[x.obj][f]) /\ Got(a.type) \in Concrete
  <1> PICK d : d = decl[x.obj][f] OBVIOUS
  <1>1. d \in Concrete /\ x.cap \in Concrete \ {"tag"} BY DEF VarSet, Regions, RegionsOf, HeapOK
  <1>2. /\ a.obj = field[x.obj][f] /\ a.var = e.var
        /\ a.type = ConsumeSingle(FieldType(Use(x), f), "none")
    BY DEF OldValue, Value
  <1>3. FieldType(Use(x), f) = Seen(x.cap, d) BY DEF FieldType, Use, Value, Seen, Plain
  <1>4. Seen(x.cap, d) = Plain(SeenFrom(x.cap, d)) /\ SeenFrom(x.cap, d) \in Concrete BY <1>1, SeenOf
  <1>5. a.type = Type(SeenFrom(x.cap, d), "ephemeral") BY <1>2, <1>3, <1>4, ConsumeOf
  <1>6. Got(a.type) = SeenFrom(x.cap, d) BY <1>4, <1>5, GotOf DEF GotFrom
  <1> QED BY <1>2, <1>4, <1>6

(* Once a field has been assigned to, and the old value perhaps bound, the *)
(* state can be divided.                                                   *)
LEMMA StoreRegions ==
  ASSUME Regions, Gaps = {}, NEW t \in Thread, NEW e, Evaluated(t, e), NEW x \in Usable(t), x \in DOMAIN e.var,
         NEW f \in Field, MayStore(x, f, AliasSingle(e.type)),
         NEW mk, mk = made \cup {e.obj},
         NEW fm, Stored(field, x.obj, f, e.obj, fm), HeapOK(fm, decl, mk)
  PROVE  /\ RegionsOf(e.var, fm, decl, mk, frame)
         /\ \A y \in VarSet :
              /\ MayKeep(x, f) /\ y.obj = field[x.obj][f] /\ Weaker(Got(OldValue(e, x, f).type), y.cap)
              /\ Home(y) = Here(t, frame) /\ (y.rec => y.owner = frame.by)
              => RegionsOf(e.var (+) SetToBag({y}), fm, decl, mk, frame)
  <1> PICK v, d, g, h, K, o :
        /\ v = e.var /\ d = decl[x.obj][f] /\ g = Got(e.type) /\ h = Here(t, frame) /\ K = Callers(frame)
        /\ o = e.obj
    OBVIOUS
  <1>1. /\ x \in DOMAIN var /\ x \in VarSet /\ x.owner = t /\ Home(x) \in Scope /\ Home(x) \notin K
        /\ x.cap \notin {"iso", "val", "tag"} => Home(x) = h
        /\ x.obj \in made
    BY UsableFacts DEF Regions, RegionsOf, BagOK
  <1>2. /\ o \in Object /\ g \in Concrete /\ BagOK(v, frame, made) /\ Counted(v) BY EvaluatedFacts
  <1>3. PICK hk : Good(Refs(v, field, decl, hk) \cup {Temp("value", g, h, o)}, hk, K, {}) BY EvaluatedFacts
  <1>4. x.cap \in {"iso", "trn", "ref"} /\ d \in Concrete /\ MayPlace(x.cap, g, d) BY <1>1, StoreFacts
  <1>5. h \in Scope /\ h \notin K /\ K \subseteq Bases BY HereFacts
  <1>6. x.cap # "iso" => Home(x) = h BY <1>1, <1>4
  <1>7. Stored(field, x.obj, f, o, fm) OBVIOUS
  <1>8. BagOK(v, frame, mk) BY <1>2 DEF BagOK
  <1> PICK R, r, s : /\ R = Refs(v, field, decl, hk) /\ r = Temp("value", g, h, o)
                     /\ s = FieldRef(x.obj, f, field, decl, hk)
    OBVIOUS
  <1>b. ASSUME NEW O, OnlyOld(O), Good(((R \ {s}) \cup O) \cup {r}, hk, K, {})
        PROVE  Good(Refs(v, fm, decl, hk) \cup O, hk, K, {})
    <2> PICK Q : Q = ((R \ {s}) \cup O) \cup {r} OBVIOUS
    <2>1. /\ x \in VarSet /\ d \in Concrete /\ Counted(v) /\ x \in DOMAIN v /\ h \in Scope
          /\ K \subseteq Bases /\ h \notin K /\ Home(x) \in Scope /\ Home(x) \notin K
          /\ x.cap # "iso" => Home(x) = h
          /\ g \in Concrete /\ o \in Object /\ MayPlace(x.cap, g, d) /\ x.cap \in {"iso", "trn", "ref"}
          /\ Stored(field, x.obj, f, o, fm) /\ Good(Q, hk, K, {}) /\ OnlyOld(O)
      BY <1>b, <1>1, <1>2, <1>4, <1>5, <1>6, <1>7
    <2> QED BY <2>1, PlaceField
  <1>9. RegionsOf(v, fm, decl, mk, frame)
    <2> PICK O : O = {} OBVIOUS
    <2>1. OnlyOld(O) BY DEF OnlyOld
    <2>2. ((R \ {s}) \cup O) \cup {r} \subseteq R \cup {r} OBVIOUS
    <2>3. Good(((R \ {s}) \cup O) \cup {r}, hk, K, {}) BY <2>2, <1>3, GoodSub
    <2>4. Good(Refs(v, fm, decl, hk) \cup O, hk, K, {})
      BY <2>1, <2>3, <1>b
    <2>5. Good(Refs(v, fm, decl, hk), hk, K, {}) BY <2>4
    <2> QED BY <2>5, <1>7, <1>8 DEF Regions, RegionsOf
  <1>10. ASSUME NEW y \in VarSet, MayKeep(x, f), y.obj = field[x.obj][f],
                Weaker(Got(OldValue(e, x, f).type), y.cap), Home(y) = h, y.rec => y.owner = frame.by
         PROVE  RegionsOf(v (+) SetToBag({y}), fm, decl, mk, frame)
    <2> PICK p, c0, n, w : /\ p = field[x.obj][f] /\ c0 = SeenFrom(x.cap, d) /\ n = Temp("old", c0, h, p)
                           /\ w = v (+) SetToBag({y})
      OBVIOUS
    <2>1. p # Null /\ (x.cap # "trn" \/ d # "trn") BY <1>10 DEF MayKeep
    <2>2. p \in made /\ p \in Object BY <2>1, <1>1 DEF Regions, RegionsOf, HeapOK, VarSet
    <2>3. Weaker(c0, y.cap) /\ c0 \in Concrete /\ y.cap \in Concrete
      <3>1. x.cap # "tag" BY <1>4
      <3> QED BY <3>1, <1>1, <1>10, OldFacts DEF VarSet
    <2>4. r.kind = "temporary" BY TempFacts
    <2>5. Good(((R \ {s}) \cup {n}) \cup {r}, hk, K, {})
      BY <2>1, <2>4, <1>1, <1>2, <1>3, <1>4, <1>5, <1>6, OldOut
    <2>b. PICK O : O = {n} OBVIOUS
    <2>a. OnlyOld(O) BY <2>b, TempFacts DEF OnlyOld
    <2>6. OnlyOld(O) /\ Good(((R \ {s}) \cup O) \cup {r}, hk, K, {}) BY <2>5, <2>a, <2>b
    <2>7. Good(Refs(v, fm, decl, hk) \cup O, hk, K, {})
      BY <2>6, <1>b
    <2>10. Added(v, y, w) BY <1>2, BagAdd
    <2>11. BagOK(w, frame, mk)
      <3>1. y.obj \in mk /\ (y.rec => y.owner = frame.by) BY <2>2, <1>10
      <3> QED BY <3>1, <2>10, <1>8, BagAddOK
    <2>12. Good(Refs(v, fm, decl, hk) \cup {Temp("old", c0, h, p)}, hk, K, {}) BY <2>7, <2>b
    <2>13. Good(Refs(w, fm, decl, hk), hk, K, {})
      <3>1. y.obj = p /\ Home(y) = h /\ Home(y) \in Scope BY <1>5, <1>10
      <3> QED BY <3>1, <2>3, <2>10, <2>12, <1>2, <1>5, BindTemp
    <2>14. RegionsOf(w, fm, decl, mk, frame) BY <2>11, <2>13, <1>7 DEF Regions, RegionsOf
    <2> QED BY <2>14
  <1> QED BY <1>9, <1>10

(* expr_assign to a field keeps the regions.                               *)
LEMMA AssignFieldKeeps ==
  ASSUME Regions, Gaps = {}, NEW t \in Thread, AssignField(t)
  PROVE  Regions'
  <1>0. PICK r : r = Within(t) /\ r \in BOOLEAN BY DEF Within
  <1>1. PICK e \in Expressions(t), x \in Usable(t), f \in Field :
          /\ BagIn(x, e.var) /\ MayStore(x, f, AliasSingle(e.type))
          /\ field' = [field EXCEPT ![x.obj][f] = e.obj]
          /\ \/ Becomes(e.var, e.obj)
             \/ /\ MayKeep(x, f)
                /\ \E b \in Bound(OldValue(e, x, f), t, Within(t)) : Becomes(b.var, e.obj)
    BY DEF AssignField
  <1>2. decl' = decl /\ frame' = frame BY DEF AssignField
  <1>3. Evaluated(t, e) BY <1>1, EvalExpressions
  <1>4. x \in DOMAIN e.var BY <1>1 DEF BagIn, BagToSet
  <1> PICK fm, mk, a : fm = field' /\ mk = made \cup {e.obj} /\ a = OldValue(e, x, f) OBVIOUS
  <1>5. /\ RegionsOf(e.var, fm, decl, mk, frame)
        /\ \A y \in VarSet :
             /\ MayKeep(x, f) /\ y.obj = field[x.obj][f] /\ Weaker(Got(a.type), y.cap)
             /\ Home(y) = Here(t, frame) /\ (y.rec => y.owner = frame.by)
             => RegionsOf(e.var (+) SetToBag({y}), fm, decl, mk, frame)
    <2>1. e.obj \in Object /\ HeapOK(field, decl, made) /\ x.obj \in made
      BY <1>1, <1>3, EvaluatedFacts, UsableFacts DEF Regions, RegionsOf, BagOK
    <2>2. Stored(field, x.obj, f, e.obj, fm) /\ HeapOK(fm, decl, mk) BY <1>1, <2>1, HeapStored
    <2> QED BY <1>1, <1>3, <1>4, <2>2, StoreRegions
  <1>6. CASE Becomes(e.var, e.obj)
    <2>1. var' = e.var /\ made' = mk BY <1>6 DEF Becomes
    <2> QED BY <2>1, <1>2, <1>5 DEF Regions
  <1>7. CASE MayKeep(x, f) /\ \E b \in Bound(a, t, Within(t)) : Becomes(b.var, e.obj)
    <2>1. PICK b \in Bound(a, t, r) : Becomes(b.var, e.obj) BY <1>0, <1>7
    <2>2. PICK c \in Concrete : /\ Weaker(Got(a.type), c) /\ b.obj = a.obj
                                /\ b.var = a.var (+) SetToBag({Variable(t, a.obj, c, r)})
      BY <2>1, BoundFacts
    <2>3. a.obj = field[x.obj][f] /\ a.var = e.var BY DEF OldValue, Value
    <2>4. r \in BOOLEAN /\ (r <=> frame.by = t) BY <1>0 DEF Within
    <2> PICK y, p : y = Variable(t, p, c, r) /\ p = field[x.obj][f] OBVIOUS
    <2>a. p \in Object
      BY <1>1, <1>7, UsableFacts DEF MayKeep, Regions, RegionsOf, HeapOK, VarSet
    <2>b. /\ y \in VarSet /\ y.obj = p /\ y.cap = c /\ y.owner = t /\ y.rec = r
          /\ Home(y) = (IF r THEN FrameNode ELSE BaseNode(t))
      BY <2>a, <2>4, VariableFacts
    <2>c. Home(y) = Here(t, frame) /\ (y.rec => y.owner = frame.by) BY <2>b, <2>4 DEF Here
    <2>5. RegionsOf(e.var (+) SetToBag({y}), fm, decl, mk, frame)
      BY <2>2, <2>b, <2>c, <1>5, <1>7
    <2>6. var' = e.var (+) SetToBag({y}) /\ made' = mk
      BY <2>1, <2>2, <2>3 DEF Becomes
    <2> QED BY <2>5, <2>6, <1>2 DEF Regions
  <1> QED BY <1>1, <1>6, <1>7

(* Without references every node is a region of its own.                   *)
LEMMA GoodAtFirst == Good({}, {}, {}, {})
  <1> PICK cell, anc : cell = [n \in Node |-> n] /\ anc = [n \in Node |-> {n}] OBVIOUS
  <1>1. DOMAIN cell = Node /\ DOMAIN anc = Node /\ \A n \in Node : cell[n] = n /\ anc[n] = {n} OBVIOUS
  <1>2. Bases \subseteq Node /\ FrameNode \in Node /\ FrameNode \notin Bases
    BY NodeFacts DEF Node, Bases
  <1>3. Order(anc) BY <1>1 DEF Order
  <1>4. Placed(cell, anc) BY <1>1 DEF Placed
  <1>5. Scoped({}, {}, {}, cell, anc, Bases, FrameNode, {}) BY <1>1, <1>2 DEF Scoped, Live
  <1>6. RefTypes({}, cell) /\ RefsFit({}, {}, {}, {}, cell, anc) /\ OwnersUnique({}, {}, {}, cell)
    BY DEF RefTypes, RefsFit, OwnersUnique
  <1>7. Divided({}, {}, {}, {}, cell, anc, Bases, FrameNode, {}) BY <1>3, <1>4, <1>5, <1>6 DEF Divided
  <1> QED BY <1>1, <1>7 DEF Good

(* A program starts with regions.                                          *)
LEMMA RegionsInit ==
  ASSUME Init
  PROVE  Regions
  <1>1. DOMAIN var = {} BY DEF Init, EmptyBag, SetToBag
  <1>2. /\ decl \in [Object -> [Field -> Concrete]]
        /\ field \in [Object -> [Field -> Object \cup {Null}]]
        /\ \A o \in Object, f \in Field : field[o][f] = Null
        /\ made = {} /\ frame = NoFrame
    BY DEF Init
  <1>3. BagOK(var, frame, made) BY <1>1 DEF BagOK
  <1>4. HeapOK(field, decl, made) BY <1>2 DEF HeapOK
  <1>5. VarRefs(var) = {} BY <1>1, InVarRefs
  <1>6. FieldRefs(field, decl, {}) = {} BY <1>2, InFieldRefs
  <1>7. Refs(var, field, decl, {}) = {} BY <1>5, <1>6 DEF Refs
  <1>8. Good(Refs(var, field, decl, {}), {}, Callers(frame), {}) BY <1>2, <1>7, GoodAtFirst, NoFrameFacts
  <1> QED BY <1>2, <1>3, <1>4, <1>8, NoFrameFacts DEF Regions, RegionsOf

(* Every step keeps them.                                                  *)
LEMMA RegionsNext ==
  ASSUME Gaps = {}, Regions, [Next]_vars
  PROVE  Regions'
  <1>1. ASSUME NEW t \in Thread, Assign(t) PROVE Regions' BY <1>1, AssignKeeps
  <1>2. ASSUME NEW t \in Thread, AssignField(t) PROVE Regions' BY <1>2, AssignFieldKeeps
  <1>3. ASSUME NEW t \in Thread, StartRecover(t) PROVE Regions' BY <1>3, StartRecoverKeeps
  <1>4. ASSUME NEW t \in Thread, EndRecover(t) PROVE Regions' BY <1>4, EndRecoverKeeps
  <1>5. ASSUME NEW t \in Thread, StartCall(t) PROVE Regions' BY <1>5, StartCallKeeps
  <1>6. ASSUME NEW t \in Thread, EndCall(t) PROVE Regions' BY <1>6, EndCallKeeps
  <1>7. ASSUME NEW t \in Thread, NEW u \in Thread, Send(t, u) PROVE Regions' BY <1>7, SendKeeps
  <1>8. ASSUME NEW x \in Variables, Drop(x) PROVE Regions' BY <1>8, DropKeeps
  <1>9. CASE UNCHANGED vars BY <1>9 DEF vars, Regions
  <1> QED BY <1>1, <1>2, <1>3, <1>4, <1>5, <1>6, <1>7, <1>8, <1>9 DEF Next

(* For any programs of any numbers of actors, objects, fields and          *)
(* variables that use none of the gaps, the four expressions of Gap that   *)
(* the checker accepts all the same: every reachable state can be          *)
(* divided into regions.  Kept by every other expression it accepts        *)
(* (expr_assign, expr_consume, expr_fieldref, expr_recover,                *)
(* auto_recover_call and flatten_async together).                          *)
THEOREM RegionsInvariant ==
  ASSUME Gaps = {}
  PROVE  Spec => []Regions
  <1>1. Init => Regions BY RegionsInit
  <1>2. Regions /\ [Next]_vars => Regions' BY RegionsNext
  <1> QED BY <1>1, <1>2, PTL DEF Spec

(* The references of a variable, one for each copy.                        *)
LEMMA VariableRefs ==
  ASSUME Regions, NEW x \in DOMAIN var, NEW k \in 1..var[x], NEW hk
  PROVE  /\ x \in VarSet /\ VarRef(x, k) \in Refs(var, field, decl, hk) /\ Home(x) \in Scope
         /\ VarRef(x, k).src = Home(x) /\ VarRef(x, k).cap = x.cap /\ VarRef(x, k).to = ObjNode(x.obj)
  <1>1. x \in VarSet BY DEF Regions, RegionsOf, BagOK
  <1>2. VarRef(x, k) \in Refs(var, field, decl, hk) BY InVarRefs DEF Refs
  <1> QED BY <1>1, <1>2, VarRefFacts DEF Home, Scope, Bases, VarSet

(* Variables that do not wait for a call are not held by a waiting caller. *)
LEMMA NotCalled ==
  ASSUME Regions, NEW x \in VarSet, Calling(x.owner) => x.rec
  PROVE  Home(x) \notin Callers(frame)
  BY NodeFacts DEF Home, Callers, Calling, Within, Regions, RegionsOf, FrameOK

(* Two references to one object deny what their capabilities say.          *)
LEMMA PairDenied ==
  ASSUME Regions, NEW x \in DOMAIN var, NEW y \in DOMAIN var, NEW j \in 1..var[x], NEW k \in 1..var[y],
         x.obj = y.obj, VarRef(x, j) # VarRef(y, k), Home(x) \notin Callers(frame)
  PROVE  /\ x.cap = "iso" => y.cap = "tag"
         /\ x.cap = "trn" => y.cap \in {"tag", "box"}
         /\ x.cap = "val" => y.cap \in {"tag", "box", "val"}
  <1>1. PICK hk : Good(Refs(var, field, decl, hk), hk, Callers(frame), {}) BY DEF Regions, RegionsOf
  <1> PICK R, K, r, s, o : /\ R = Refs(var, field, decl, hk) /\ K = Callers(frame) /\ r = VarRef(x, j)
                           /\ s = VarRef(y, k) /\ o = ObjNode(x.obj)
    OBVIOUS
  <1>2. PICK imm, dead, cell, anc : /\ DOMAIN cell = Node
                                    /\ Divided(R, imm, dead, hk, cell, anc, Bases, FrameNode, K)
    BY <1>1 DEF Good
  <1>3. /\ r \in R /\ r.src = Home(x) /\ r.cap = x.cap /\ r.to = o /\ r.src \in Scope /\ r.src \notin K
        /\ s \in R /\ s.src = Home(y) /\ s.cap = y.cap /\ s.to = o /\ s.src \in Scope
        /\ y \in VarSet /\ y.cap \in Concrete /\ r # s
    BY VariableRefs DEF VarSet
  <1>4. Live(r.src, imm, dead) /\ Live(s.src, imm, dead) BY <1>2, <1>3, ScopeIsLive
  <1>5. /\ Fits(r.cap, cell[r.src], o, imm, dead, hk, cell, anc)
        /\ Fits(s.cap, cell[s.src], o, imm, dead, hk, cell, anc)
    BY <1>2, <1>3, <1>4 DEF Divided, RefsFit
  <1>6. CASE r.cap \in Owning
    <2>1. Live(o, imm, dead) BY <1>5, <1>6 DEF Fits, Owning
    <2>2. s.cap \notin Owning
      BY <1>2, <1>3, <1>4, <1>6 DEF Divided, OwnersUnique, Owner
    <2>3. cell[o] # cell[s.src]
      <3>1. /\ \A b \in Bases : cell[o] # cell[b]
            /\ cell[o] # cell[FrameNode]
        BY <1>2, <1>3, <1>4, <1>6 DEF Divided, Scoped, Owner
      <3> QED BY <3>1, <1>3 DEF Scope
    <2>4. s.cap \in {"tag", "box"} BY <2>1, <2>2, <2>3, <1>3, <1>5 DEF Fits, Owning, Concrete, Live
    <2>5. r.cap = "iso" => s.cap # "box" BY <2>1, <2>3, <1>5 DEF Fits, Live
    <2> QED BY <2>4, <2>5, <1>3, <1>6 DEF Owning
  <1>7. CASE r.cap = "val" BY <1>3, <1>5, <1>7 DEF Fits, Concrete, Live
  <1> QED BY <1>3, <1>6, <1>7 DEF Owning

(* Divided into regions, variables keep what their capabilities deny.      *)
LEMMA DeniesKeptOf ==
  ASSUME Regions
  PROVE  DeniesKept
  <1> SUFFICES ASSUME NEW x \in {z \in Variables : Calling(z.owner) => z.rec},
                      NEW y \in {z \in Variables : Calling(z.owner) => z.rec},
                      x.obj = y.obj, x # y \/ var[x] > 1
               PROVE  LocallyCompatible(x.cap, y.cap)
    BY DEF DeniesKept
  <1>1. x \in DOMAIN var /\ y \in DOMAIN var BY DEF Variables, BagToSet
  <1>2. /\ x \in VarSet /\ y \in VarSet /\ var[x] \in Nat \ {0} /\ var[y] \in Nat \ {0}
        /\ x.cap \in Concrete /\ y.cap \in Concrete
    BY <1>1 DEF Regions, RegionsOf, BagOK, VarSet
  <1>3. Home(x) \notin Callers(frame) /\ Home(y) \notin Callers(frame) BY <1>2, NotCalled
  <1>4. PICK j \in 1..var[x], k \in 1..var[y] : VarRef(x, j) # VarRef(y, k)
    <2>1. CASE x # y
      <3>1. 1 \in 1..var[x] /\ 1 \in 1..var[y] BY <1>2
      <3> QED BY <2>1, <3>1, VarRefIsOne
    <2>2. CASE x = y
      <3>1. 1 \in 1..var[x] /\ 2 \in 1..var[y] /\ 1 # 2 BY <1>2, <2>2
      <3> QED BY <3>1, VarRefIsOne
    <2> QED BY <2>1, <2>2
  <1>5. /\ x.cap = "iso" => y.cap = "tag"
        /\ x.cap = "trn" => y.cap \in {"tag", "box"}
        /\ x.cap = "val" => y.cap \in {"tag", "box", "val"}
    BY <1>1, <1>3, <1>4, PairDenied
  <1>6. /\ y.cap = "iso" => x.cap = "tag"
        /\ y.cap = "trn" => x.cap \in {"tag", "box"}
        /\ y.cap = "val" => x.cap \in {"tag", "box", "val"}
    BY <1>1, <1>3, <1>4, PairDenied
  <1> QED BY <1>2, <1>5, <1>6 DEF LocallyCompatible, Concrete

(* The scopes of an actor: its own, and the frame if it is inside of one.  *)
ScopesOf(t) == {n \in Scope : n = BaseNode(t) \/ (n = FrameNode /\ frame.by = t)}

(* The regions of these.                                                   *)
CellsOf(t, cell) == {cell[n] : n \in ScopesOf(t)}

(* n is seen as c by one who gets at the regions of T.                     *)
Reached(n, c, T, imm, dead, hk, cell) ==
  \/ c = "tag"
  \/ c \in {"val", "box"} /\ n \in imm
  \/ /\ Live(n, imm, dead) /\ cell[n] \in T /\ c # "val"
     /\ c \in {"iso", "trn", "ref"} => n \notin hk

(* Different actors have different regions, and nothing outside leads to   *)
(* them.                                                                   *)
LEMMA ScopesApart ==
  ASSUME Regions, NEW R, NEW imm, NEW dead, NEW hk, NEW cell, NEW anc, DOMAIN cell = Node,
         Divided(R, imm, dead, hk, cell, anc, Bases, FrameNode, Callers(frame)),
         NEW t \in Thread, NEW X, X = CellsOf(t, cell)
  PROVE  /\ X \in SUBSET DOMAIN anc /\ UpClosed(X, R, imm, dead, cell, anc)
         /\ \A u \in Thread : u # t => X \cap CellsOf(u, cell) = {}
  <1> PICK K : K = Callers(frame) OBVIOUS
  <1>1. BaseNode(t) \in Bases /\ BaseNode(t) \in ScopesOf(t) BY DEF Bases, ScopesOf, Scope
  <1>2. Scope \subseteq Node BY DEF Scope, Node
  <1>3. X \in SUBSET DOMAIN anc BY <1>2 DEF CellsOf, ScopesOf, Divided, Placed
  <1>4. ASSUME NEW k \in K, frame.by = t PROVE k = BaseNode(t) BY <1>4 DEF Callers
  <1>5. ASSUME NEW d \in X, NEW c \in DOMAIN anc, LeadsTo(c, d, R, imm, dead, cell, anc) PROVE c \in X
    <2>1. PICK n \in ScopesOf(t) : d = cell[n] BY <1>5 DEF CellsOf
    <2>2. CASE n = BaseNode(t)
      <3>1. anc[d] = {d} /\ \A r \in R : Owner(r, imm, dead) => cell[r.to] # d
        BY <2>1, <2>2, <1>1 DEF Divided, Scoped
      <3> QED BY <3>1, <1>5 DEF LeadsTo
    <2>3. CASE n = FrameNode /\ frame.by = t
      <3>1. CASE c \in anc[d]
        <4>1. c = cell[FrameNode] \/ \E k \in K : c = cell[k] BY <3>1, <2>1, <2>3 DEF Divided, Scoped
        <4>2. c = cell[FrameNode] \/ c = cell[BaseNode(t)] BY <4>1, <2>3, <1>4
        <4> QED BY <4>2, <2>1, <2>3, <1>1 DEF CellsOf
      <3>2. ASSUME NEW r \in R, Owner(r, imm, dead), cell[r.src] = c, cell[r.to] = d PROVE c \in X
        <4>1. r.src \in K BY <3>2, <2>1, <2>3 DEF Divided, Scoped
        <4>2. r.src = BaseNode(t) BY <4>1, <2>3, <1>4
        <4> QED BY <4>2, <3>2, <1>1 DEF CellsOf
      <3> QED BY <3>1, <3>2, <1>5 DEF LeadsTo
    <2> QED BY <2>1, <2>2, <2>3 DEF ScopesOf
  <1>6. ASSUME NEW u \in Thread, u # t, NEW c \in X, c \in CellsOf(u, cell) PROVE FALSE
    <2>1. PICK n \in ScopesOf(t) : c = cell[n] BY DEF CellsOf
    <2>2. PICK m \in ScopesOf(u) : c = cell[m] BY <1>6 DEF CellsOf
    <2>3. n # m BY <1>6, NodeFacts DEF ScopesOf
    <2>4. n \in Scope /\ m \in Scope /\ ~(n = FrameNode /\ m = FrameNode) BY <2>3 DEF ScopesOf
    <2> QED BY <2>1, <2>2, <2>3, <2>4 DEF Divided, Scoped, Scope
  <1> QED BY <1>3, <1>5, <1>6 DEF UpClosed

(* What a reference of one who gets at the regions of T refers to is seen. *)
LEMMA FitsReached ==
  ASSUME NEW R, NEW imm, NEW dead, NEW hk, NEW cell, NEW anc, NEW K, DOMAIN cell = Node,
         Divided(R, imm, dead, hk, cell, anc, Bases, FrameNode, K),
         NEW T, Closed(T, R, imm, dead, cell, anc),
         NEW r \in R, Live(r.src, imm, dead), cell[r.src] \in T, r.cap \in Concrete
  PROVE  Reached(r.to, r.cap, T, imm, dead, hk, cell)
  <1>1. Fits(r.cap, cell[r.src], r.to, imm, dead, hk, cell, anc) BY DEF Divided, RefsFit
  <1>2. cell[r.to] \in DOMAIN anc BY DEF Divided, RefTypes, Placed
  <1>3. CASE r.cap = "tag" BY <1>3 DEF Reached
  <1>4. CASE r.cap \in {"val", "box"} /\ r.to \in imm BY <1>4 DEF Reached
  <1>5. CASE Live(r.to, imm, dead) /\ r.cap # "tag"
    <2>1. CASE r.cap = "box"
      <3>1. LeadsTo(cell[r.src], cell[r.to], R, imm, dead, cell, anc) BY <1>1, <1>5, <2>1 DEF Fits, LeadsTo, Live
      <3> QED BY <3>1, <2>1, <1>2, <1>5 DEF Closed, Reached
    <2>2. CASE r.cap = "ref" BY <2>2, <1>1, <1>5 DEF Fits, Reached, Live
    <2>3. CASE r.cap \in Owning
      <3>1. LeadsTo(cell[r.src], cell[r.to], R, imm, dead, cell, anc) BY <2>3 DEF LeadsTo, Owner
      <3>2. r.to \notin hk BY <2>3, <1>1, <1>5 DEF Fits, Owning
      <3> QED BY <3>1, <3>2, <2>3, <1>2, <1>5 DEF Closed, Reached, Owning
    <2>4. r.cap # "val" BY <1>1, <1>5 DEF Fits, Live
    <2> QED BY <2>1, <2>2, <2>3, <2>4, <1>5 DEF Concrete, Owning
  <1> QED BY <1>1, <1>3, <1>4, <1>5 DEF Fits

(* What is seen through what is seen is seen.                              *)
LEMMA ReachedField ==
  ASSUME NEW R, NEW imm, NEW dead, NEW hk, NEW cell, NEW anc, NEW K, DOMAIN cell = Node,
         Divided(R, imm, dead, hk, cell, anc, Bases, FrameNode, K),
         NEW T, Closed(T, R, imm, dead, cell, anc),
         NEW s \in R, s.cap \in Concrete, NEW c \in Concrete \ {"tag"}, NEW d \in Concrete,
         s.cap = d \/ (s.cap = "box" /\ d \in {"ref", "trn"}), s.src \notin hk => s.cap = d,
         Reached(s.src, c, T, imm, dead, hk, cell)
  PROVE  Reached(s.to, SeenFrom(c, d), T, imm, dead, hk, cell)
  <1>1. CASE s.src \in imm
    <2>1. c \in {"val", "box"} BY <1>1 DEF Reached, Live
    <2>2. s.cap = "tag" \/ s.to \in imm BY <1>1 DEF Divided, RefsFit
    <2> QED BY <2>1, <2>2 DEF Reached, SeenFrom, Concrete
  <1>2. CASE s.src \notin imm
    <2>1. Live(s.src, imm, dead) /\ cell[s.src] \in T /\ c # "val" /\ (c \in {"iso", "trn", "ref"} => s.src \notin hk)
      BY <1>2 DEF Reached
    <2>2. Reached(s.to, s.cap, T, imm, dead, hk, cell) BY <2>1, FitsReached
    <2>3. c \in {"iso", "trn", "ref"} => s.cap = d BY <2>1
    <2>4. SeenFrom(c, d) = d \/ SeenFrom(c, d) = "tag" \/ (SeenFrom(c, d) = "box" /\ d \in {"trn", "ref", "box"})
      BY <2>1 DEF SeenFrom, Concrete
    <2>5. c = "box" => SeenFrom(c, d) \in {"tag", "val", "box"} /\ (SeenFrom(c, d) = "val" <=> d = "val")
      BY DEF SeenFrom, Concrete
    <2>6. CASE SeenFrom(c, d) = "tag" BY <2>6 DEF Reached
    <2>7. CASE SeenFrom(c, d) = "box" /\ d \in {"trn", "ref", "box"}
      <3>1. s.cap \in {"trn", "ref", "box"} BY <2>7
      <3> QED BY <3>1, <2>2, <2>7 DEF Reached
    <2>8. CASE SeenFrom(c, d) = d /\ d \notin {"tag", "box"}
      <3>1. s.cap = d BY <2>1, <2>3, <2>5, <2>8 DEF Concrete
      <3> QED BY <3>1, <2>2, <2>8
    <2> QED BY <2>4, <2>6, <2>7, <2>8
  <1> QED BY <1>1, <1>2

(* Access, its parts by name: the variables of an actor,                   *)
AccessStart(t) == {Use(x) : x \in {x \in Variables : x.owner = t}}

(* what is seen in addition through what is seen,                          *)
AccessMore(P) ==
  P \cup {e \in {Value(field[p.obj][f], FieldType(p, f), var) : p \in P, f \in Field} :
            e.obj # Null /\ e.type # NoType}

(* and the function that counts the steps.                                 *)
AccessSteps(t) ==
  CHOOSE g : g = [n \in 0..Cardinality(Object) |->
                    IF n = 0 THEN AccessStart(t) ELSE AccessMore(g[n - 1])]

(* Access is its last value.                                               *)
LEMMA AccessIsSteps ==
  ASSUME NEW t
  PROVE  Access(t) = AccessSteps(t)[Cardinality(Object)]
  BY DEF Access, AccessSteps, AccessStart, AccessMore

(* A set of numbers that holds 0, and the successor of all it holds, holds *)
(* every number.                                                           *)
LEMMA CountUp ==
  ASSUME NEW T, 0 \in T, \A n \in Nat : n \in T => n + 1 \in T
  PROVE  \A n \in Nat : n \in T
  <1> DEFINE U == Nat \ T
  <1>1. SUFFICES ASSUME U # {} PROVE FALSE OBVIOUS
  <1>2. PICK n \in U : \A m \in U : ~(<<m, n>> \in OpToRel(<, Nat))
    BY <1>1, WFMin, NatLessThanWellFounded, Zenon
  <1>3. n \in Nat /\ n # 0 /\ n - 1 \in Nat /\ n - 1 < n OBVIOUS
  <1>4. n - 1 \in U BY <1>3
  <1> QED BY <1>2, <1>3, <1>4 DEF OpToRel

(* g is that function, up to k.                                            *)
AccessUpTo(t, g, k) ==
  \A n \in 0..k : g[n] = IF n = 0 THEN AccessStart(t) ELSE AccessMore(g[n - 1])

(* There is one up to every k.                                             *)
LEMMA AccessUpToExists ==
  ASSUME NEW t, NEW k \in Nat
  PROVE  \E g : DOMAIN g = 0..k /\ AccessUpTo(t, g, k)
  <1> DEFINE T == {n \in Nat : \E g : DOMAIN g = 0..n /\ AccessUpTo(t, g, n)}
  <1>1. 0 \in T
    <2> PICK g : g = [n \in 0..0 |-> AccessStart(t)] OBVIOUS
    <2> QED BY DEF AccessUpTo
  <1>2. ASSUME NEW n \in Nat, n \in T PROVE n + 1 \in T
    <2>1. PICK g : DOMAIN g = 0..n /\ AccessUpTo(t, g, n) BY <1>2
    <2>2. PICK h : h = [m \in 0..(n + 1) |-> IF m = n + 1 THEN AccessMore(g[n]) ELSE g[m]] OBVIOUS
    <2>3. DOMAIN h = 0..(n + 1) /\ h[n + 1] = AccessMore(g[n]) /\ \A m \in 0..n : h[m] = g[m] BY <2>2
    <2>4. AccessUpTo(t, h, n + 1)
      <3> SUFFICES ASSUME NEW m \in 0..(n + 1)
                   PROVE  h[m] = IF m = 0 THEN AccessStart(t) ELSE AccessMore(h[m - 1])
        BY DEF AccessUpTo
      <3>1. CASE m = n + 1
        <4>1. m # 0 /\ m - 1 = n /\ h[n] = g[n] BY <3>1, <2>3
        <4> QED BY <4>1, <3>1, <2>3
      <3>2. CASE m \in 0..n
        <4>1. h[m] = g[m] /\ (m # 0 => m - 1 \in 0..n /\ h[m - 1] = g[m - 1]) BY <3>2, <2>3
        <4>2. g[m] = IF m = 0 THEN AccessStart(t) ELSE AccessMore(g[m - 1]) BY <3>2, <2>1 DEF AccessUpTo
        <4> QED BY <4>1, <4>2
      <3> QED BY <3>1, <3>2
    <2> QED BY <2>3, <2>4
  <1> HIDE DEF T
  <1>3. k \in T BY <1>1, <1>2, CountUp
  <1> QED BY <1>3 DEF T

(* The recursive function satisfies its equation.                          *)
LEMMA AccessStepsEquation ==
  ASSUME NEW t
  PROVE  /\ Cardinality(Object) \in Nat
         /\ AccessUpTo(t, AccessSteps(t), Cardinality(Object))
  <1>1. Cardinality(Object) \in Nat BY RefCapsAssumption, FS_CardinalityType
  <1>2. PICK g : DOMAIN g = 0..Cardinality(Object) /\ AccessUpTo(t, g, Cardinality(Object)) BY <1>1, AccessUpToExists
  <1>a. PICK h : h = [n \in 0..Cardinality(Object) |-> g[n]] OBVIOUS
  <1>3. h = [n \in 0..Cardinality(Object) |-> IF n = 0 THEN AccessStart(t) ELSE AccessMore(h[n - 1])]
    <2>1. ASSUME NEW n \in 0..Cardinality(Object)
          PROVE  h[n] = IF n = 0 THEN AccessStart(t) ELSE AccessMore(h[n - 1])
      <3>1. h[n] = g[n] /\ (n # 0 => n - 1 \in 0..Cardinality(Object) /\ h[n - 1] = g[n - 1]) BY <1>1, <1>a
      <3>2. g[n] = IF n = 0 THEN AccessStart(t) ELSE AccessMore(g[n - 1]) BY <1>2 DEF AccessUpTo
      <3> QED BY <3>1, <3>2
    <2> QED BY <2>1, <1>a
  <1>4. AccessSteps(t) = [n \in 0..Cardinality(Object) |-> IF n = 0 THEN AccessStart(t) ELSE AccessMore(AccessSteps(t)[n - 1])]
    BY <1>3 DEF AccessSteps
  <1> QED BY <1>1, <1>4 DEF AccessUpTo

(* What holds of the variables, and of the fields of what it holds of,     *)
(* holds of all an actor can get at.                                       *)
LEMMA AccessWithin ==
  ASSUME NEW t, NEW A, AccessStart(t) \subseteq A, \A P : P \subseteq A => AccessMore(P) \subseteq A
  PROVE  Access(t) \subseteq A
  <1> PICK k, g : k = Cardinality(Object) /\ g = AccessSteps(t) OBVIOUS
  <1>1. k \in Nat /\ AccessUpTo(t, g, k) BY AccessStepsEquation
  <1> DEFINE T == {n \in Nat : n <= k => g[n] \subseteq A}
  <1>2. 0 \in T
    <2>1. 0 \in 0..k BY <1>1
    <2>2. g[0] = AccessStart(t) BY <1>1, <2>1 DEF AccessUpTo
    <2> QED BY <2>2
  <1>3. ASSUME NEW n \in Nat, n \in T PROVE n + 1 \in T
    <2> SUFFICES ASSUME n + 1 <= k PROVE g[n + 1] \subseteq A OBVIOUS
    <2>1. n <= k /\ n + 1 \in 0..k /\ n + 1 # 0 /\ (n + 1) - 1 = n BY <1>1
    <2>2. g[n + 1] = AccessMore(g[n]) BY <1>1, <2>1 DEF AccessUpTo
    <2> QED BY <1>3, <2>1, <2>2
  <1> HIDE DEF T
  <1>4. k \in T BY <1>1, <1>2, <1>3, CountUp
  <1>5. g[k] \subseteq A BY <1>1, <1>4 DEF T
  <1> QED BY <1>5, AccessIsSteps

(* What one who gets at the regions of T may see.                          *)
Seeable(T, imm, dead, hk, cell) ==
  {e \in [obj : Object, type : {Plain(c) : c \in Concrete}, var : {var}] :
     Reached(ObjNode(e.obj), e.type.cap, T, imm, dead, hk, cell)}

(* How to be in Seeable.                                                   *)
LEMMA InSeeable ==
  ASSUME NEW T, NEW imm, NEW dead, NEW hk, NEW cell, NEW o \in Object, NEW c \in Concrete,
         Reached(ObjNode(o), c, T, imm, dead, hk, cell)
  PROVE  Value(o, Plain(c), var) \in Seeable(T, imm, dead, hk, cell)
  <1>1. Plain(c).cap = c BY TypeFacts DEF Plain
  <1>2. Value(o, Plain(c), var) \in [obj : Object, type : {Plain(a) : a \in Concrete}, var : {var}]
    BY DEF Value
  <1>3. Value(o, Plain(c), var).obj = o /\ Value(o, Plain(c), var).type = Plain(c) BY DEF Value
  <1> QED BY <1>1, <1>2, <1>3 DEF Seeable

(* What it means to be in it.                                              *)
LEMMA OfSeeable ==
  ASSUME NEW T, NEW imm, NEW dead, NEW hk, NEW cell, NEW e \in Seeable(T, imm, dead, hk, cell)
  PROVE  /\ e.obj \in Object /\ e.type.cap \in Concrete /\ e.type = Plain(e.type.cap)
         /\ Reached(ObjNode(e.obj), e.type.cap, T, imm, dead, hk, cell)
  <1>1. e.obj \in Object /\ e.type \in {Plain(c) : c \in Concrete} BY DEF Seeable
  <1>2. PICK c \in Concrete : e.type = Plain(c) BY <1>1
  <1>3. Plain(c).cap = c BY TypeFacts DEF Plain
  <1> QED BY <1>1, <1>2, <1>3 DEF Seeable

(* All that an actor can get at is in the regions it gets at, or frozen.   *)
LEMMA AccessSeeable ==
  ASSUME Regions, NEW hk, NEW R, R = Refs(var, field, decl, hk),
         NEW imm, NEW dead, NEW cell, NEW anc, DOMAIN cell = Node,
         Divided(R, imm, dead, hk, cell, anc, Bases, FrameNode, Callers(frame)),
         NEW t \in Thread, NEW T, CellsOf(t, cell) \subseteq T, Closed(T, R, imm, dead, cell, anc)
  PROVE  Access(t) \subseteq Seeable(T, imm, dead, hk, cell)
  <1> PICK A : A = Seeable(T, imm, dead, hk, cell) OBVIOUS
  <1>1. ASSUME NEW x \in Variables, x.owner = t PROVE Use(x) \in A
    <2>1. x \in DOMAIN var /\ x \in VarSet /\ 1 \in 1..var[x] /\ (x.rec => frame.by = t)
      BY <1>1 DEF Variables, BagToSet, Regions, RegionsOf, BagOK
    <2> PICK r : r = VarRef(x, 1) OBVIOUS
    <2>2. r \in R /\ r.src = Home(x) /\ r.cap = x.cap /\ r.to = ObjNode(x.obj) /\ Home(x) \in Scope
      BY <2>1, VariableRefs
    <2>3. x.obj \in Object /\ x.cap \in Concrete BY <2>1 DEF VarSet
    <2>4. Home(x) \in ScopesOf(t) BY <2>1, <2>2, <1>1 DEF ScopesOf, Home
    <2>5. cell[r.src] \in T BY <2>2, <2>4 DEF CellsOf
    <2>6. Live(r.src, imm, dead) BY <2>2, ScopeIsLive
    <2>7. Reached(r.to, r.cap, T, imm, dead, hk, cell) BY <2>2, <2>3, <2>5, <2>6, FitsReached
    <2>8. Value(x.obj, Plain(x.cap), var) \in A BY <2>2, <2>3, <2>7, InSeeable
    <2> QED BY <2>8 DEF Use, Plain
  <1>2. ASSUME NEW p \in A, NEW f \in Field, field[p.obj][f] # Null, FieldType(p, f) # NoType
        PROVE  Value(field[p.obj][f], FieldType(p, f), var) \in A
    <2> PICK o, q, c, d, s : /\ o = p.obj /\ q = field[p.obj][f] /\ c = p.type.cap /\ d = decl[p.obj][f]
                             /\ s = FieldRef(p.obj, f, field, decl, hk)
      OBVIOUS
    <2>1. o \in Object /\ c \in Concrete /\ p.type = Plain(c) /\ Reached(ObjNode(o), c, T, imm, dead, hk, cell)
      BY OfSeeable
    <2>2. /\ s \in R /\ s.src = ObjNode(o) /\ s.to = ObjNode(q) /\ q \in Object /\ d \in Concrete /\ s.cap \in Concrete
          /\ s.cap = d \/ (s.cap = "box" /\ d \in {"ref", "trn"})
          /\ s.src \notin hk => s.cap = d
      BY <1>2, <2>1, OwnField
    <2>3. FieldType(p, f) = Seen(c, d) BY <2>1 DEF FieldType, Seen, Plain
    <2>4. c # "tag"
      <3>1. CapViewUpper(Type("tag", "none"), Plain(d)) = NoType BY SeenOfTag
      <3> QED BY <3>1, <2>3, <1>2 DEF Seen, Plain
    <2>5. Seen(c, d) = Plain(SeenFrom(c, d)) /\ SeenFrom(c, d) \in Concrete BY <2>1, <2>2, <2>4, SeenOf
    <2>6. Reached(s.to, SeenFrom(c, d), T, imm, dead, hk, cell)
      BY <2>1, <2>2, <2>4, ReachedField
    <2>7. Value(q, Plain(SeenFrom(c, d)), var) \in A BY <2>2, <2>5, <2>6, InSeeable
    <2> QED BY <2>3, <2>5, <2>7
  <1>3. AccessStart(t) \subseteq A BY <1>1 DEF AccessStart
  <1>4. ASSUME NEW P, P \subseteq A PROVE AccessMore(P) \subseteq A
    <2> SUFFICES ASSUME NEW e \in AccessMore(P), e \notin P PROVE e \in A BY <1>4
    <2>1. PICK p \in P, f \in Field : /\ e = Value(field[p.obj][f], FieldType(p, f), var)
                                      /\ e.obj # Null /\ e.type # NoType
      BY DEF AccessMore
    <2>2. e.obj = field[p.obj][f] /\ e.type = FieldType(p, f) BY <2>1 DEF Value
    <2>3. p \in A BY <1>4, <2>1
    <2> QED BY <2>1, <2>2, <2>3, <1>2
  <1> QED BY <1>3, <1>4, AccessWithin

(* Divided into regions, no actor can write what another can read.         *)
LEMMA NoDataRaceOf ==
  ASSUME Regions
  PROVE  NoDataRace
  <1> SUFFICES ASSUME NEW t \in Thread, NEW u \in Thread, t # u, NEW o, o \in MayWrite(t), o \in MayRead(u)
               PROVE  FALSE
    BY DEF NoDataRace
  <1>1. PICK hk : Good(Refs(var, field, decl, hk), hk, Callers(frame), {}) BY DEF Regions, RegionsOf
  <1> PICK R, K : R = Refs(var, field, decl, hk) /\ K = Callers(frame) OBVIOUS
  <1>2. PICK imm, dead, cell, anc : /\ DOMAIN cell = Node
                                    /\ Divided(R, imm, dead, hk, cell, anc, Bases, FrameNode, K)
    BY <1>1 DEF Good
  <1> PICK X, Y, T, U : /\ X = CellsOf(t, cell) /\ Y = CellsOf(u, cell)
                        /\ T = Below(X, R, imm, dead, cell, anc) /\ U = Below(Y, R, imm, dead, cell, anc)
    OBVIOUS
  <1>3. /\ X \in SUBSET DOMAIN anc /\ UpClosed(X, R, imm, dead, cell, anc)
        /\ Y \in SUBSET DOMAIN anc /\ UpClosed(Y, R, imm, dead, cell, anc)
        /\ X \cap Y = {}
    BY <1>2, ScopesApart
  <1>4. /\ X \subseteq T /\ Closed(T, R, imm, dead, cell, anc)
        /\ Y \subseteq U /\ Closed(U, R, imm, dead, cell, anc)
    BY <1>3, BelowClosed
  <1>5. T \cap U = {} BY <1>2, <1>3, BelowDisjoint
  <1>6. Access(t) \subseteq Seeable(T, imm, dead, hk, cell) /\ Access(u) \subseteq Seeable(U, imm, dead, hk, cell)
    BY <1>2, <1>4, AccessSeeable
  <1>7. PICK e \in Access(t) : e.obj = o /\ e.type.cap \in {"iso", "trn", "ref"} BY DEF MayWrite
  <1>8. PICK a \in Access(u) : a.obj = o /\ a.type.cap # "tag" BY DEF MayRead
  <1>9. Live(ObjNode(o), imm, dead) /\ cell[ObjNode(o)] \in T
    BY <1>6, <1>7, OfSeeable DEF Reached
  <1>10. cell[ObjNode(o)] \in U BY <1>6, <1>8, <1>9, OfSeeable DEF Reached, Live
  <1> QED BY <1>5, <1>9, <1>10

(* Programs without the gaps are free of data races: no actor can write an *)
(* object that another actor can read, whatever is assigned, consumed,     *)
(* recovered, called and sent.  With a gap it is not so: see refcaps_call  *)
(* for one of them.                                                        *)
THEOREM NoDataRaceHolds ==
  ASSUME Gaps = {}
  PROVE  Spec => []NoDataRace
  <1>1. Regions => NoDataRace BY NoDataRaceOf
  <1> QED BY <1>1, RegionsInvariant, PTL

(* Programs without the gaps keep what capabilities deny: an iso variable  *)
(* has no other that can read its object, a trn none that can write it,    *)
(* and nothing writes what a val reads.                                    *)
THEOREM DeniesKeptHolds ==
  ASSUME Gaps = {}
  PROVE  Spec => []DeniesKept
  <1>1. Regions => DeniesKept BY DeniesKeptOf
  <1> QED BY <1>1, RegionsInvariant, PTL
=============================================================================
