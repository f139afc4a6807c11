---------------------------- MODULE ConfigProofs ----------------------------
(***************************************************************************)
(* Proofs about the configuration store (ConfigStore) and the forecast     *)
(* service (ForecastService), which take their configuration from one      *)
(* another and share no variable.                                          *)
(***************************************************************************)
EXTENDS ConfigStore, ForecastService, TLAPS

-----------------------------------------------------------------------------
(***************************************************************************)
(* The configuration store, for any shipped files, runtime files and       *)
(* patches and any number of faults.  First the dictionaries: what each    *)
(* migration makes of a field is what Says reads in the old document       *)
(* (MigratedSays), and a merge over a migrated base is read field by field *)
(* (EffectiveAt).  Then the invariant: a file fits its layout, the         *)
(* configuration that runs is what the file says (Reloadable), and         *)
(* without a fault or an update the file is the one found, or its rewrite  *)
(* (Untouched).                                                            *)
(***************************************************************************)

(* What a dictionary gives a key: one value or none. *)
At(d, k) == IF Has(d, k) THEN {d[k]} ELSE {}
Or(x, y) == IF x # {} THEN x ELSE y
Moved == {"forecast.timezone", "forecast.latitude"}
NoMoved(d) == \A k \in Moved : At(d, k) = {}

LEMMA DropAt ==
    ASSUME NEW d, NEW ks, NEW k
    PROVE  At(Drop(d, ks), k) = IF k \in ks THEN {} ELSE At(d, k)
BY DEF At, Has, Drop, Restrict

LEMMA MergeAt ==
    ASSUME NEW d, NEW e, NEW k
    PROVE  At(deep_merge(d, e), k) = Or(At(e, k), At(d, k))
BY DEF At, Has, deep_merge, Or

LEMMA MoveAt ==
    ASSUME NEW d, NEW old, NEW new, NEW k, old # new
    PROVE  /\ k = old => At(Move(d, old, new), k) = {}
           /\ k = new => At(Move(d, old, new), k) = Or(At(d, new), At(d, old))
           /\ k \notin {old, new} => At(Move(d, old, new), k) = At(d, k)
<1>1. CASE Has(d, old)
  <2> DEFINE one == [x \in {new} |-> d[old]]
  <2>1. Move(d, old, new) = deep_merge(one, Drop(d, {old}))  BY <1>1 DEF Move
  <2>2. At(one, k) = IF k = new THEN At(d, old) ELSE {}  BY <1>1 DEF At, Has
  <2> HIDE DEF one
  <2> QED  BY <2>1, <2>2, MergeAt, DropAt DEF Or
<1>2. CASE ~Has(d, old)
  BY <1>2 DEF Move, At, Or
<1> QED  BY <1>1, <1>2

LEMMA MaxOne == ASSUME NEW n \in Nat PROVE Max({n}) = n
BY DEF Max

(* The migrations from layout 5 on do not touch a field or a moved key. *)
LEMMA From5At ==
    ASSUME NEW d, NEW v, NEW k \in Fields \cup Moved
    PROVE  At(From5(d, v), k) = At(d, k)
<1>1. /\ k \notin {"grid_charge.factor_order"} /\ k \notin {"ha.token"}
      /\ k \notin {"fail_safe.heartbeat_entity", "fail_safe.heartbeat_enabled"}
  BY DEF Fields, Moved
<1>2. \A e : At(migrate_v5_to_v6(e), k) = At(e, k)  BY <1>1, DropAt DEF migrate_v5_to_v6
<1>3. \A e : At(migrate_v6_to_v7(e), k) = At(e, k)  BY <1>1, DropAt DEF migrate_v6_to_v7
<1>4. \A e : At(migrate_v7_to_v8(e), k) = At(e, k)  BY <1>1, DropAt DEF migrate_v7_to_v8
<1>5. \A e : At(From7(e, v), k) = At(e, k)  BY <1>4 DEF From7
<1>6. \A e : At(From6(e, v), k) = At(e, k)  BY <1>3, <1>5 DEF From6
<1> QED  BY <1>2, <1>6 DEF From5

LEMMA From4At ==
    ASSUME NEW d, NEW v, NEW k \in Fields \cup Moved
    PROVE  At(From4(d, v), k) =
             IF v <= 4 /\ k = "site.latitude" THEN Or(At(d, k), At(d, "forecast.latitude"))
             ELSE IF v <= 4 /\ k = "forecast.latitude" THEN {}
             ELSE At(d, k)
<1>1. CASE v <= 4
  <2>1. From4(d, v) = From5(Move(d, "forecast.latitude", "site.latitude"), v)
    BY <1>1 DEF From4, migrate_v4_to_v5
  <2> QED  BY <1>1, <2>1, From5At, MoveAt
<1>2. CASE ~(v <= 4)
  BY <1>2, From5At DEF From4
<1> QED  BY <1>1, <1>2

LEMMA From3At ==
    ASSUME NEW d, NEW v \in Nat, NEW k \in Fields \cup Moved
    PROVE  At(From3(d, v), k) =
             IF v <= 3 /\ k = "site.timezone" THEN Or(At(d, k), At(d, "forecast.timezone"))
             ELSE IF v <= 3 /\ k = "forecast.timezone" THEN {}
             ELSE At(From4(d, v), k)
<1>1. CASE v <= 3
  <2> DEFINE e == Move(d, "forecast.timezone", "site.timezone")
  <2>1. From3(d, v) = From4(e, v)  BY <1>1 DEF From3, migrate_v3_to_v4
  <2>2. /\ At(e, "site.timezone") = Or(At(d, "site.timezone"), At(d, "forecast.timezone"))
        /\ At(e, "forecast.timezone") = {}
        /\ \A x : x \notin {"site.timezone", "forecast.timezone"} => At(e, x) = At(d, x)
    BY MoveAt
  <2> HIDE DEF e
  <2> QED  BY <1>1, <2>1, <2>2, From4At
<1>2. CASE ~(v <= 3)
  BY <1>2 DEF From3
<1> QED  BY <1>1, <1>2

LEMMA From2At ==
    ASSUME NEW d, NEW v \in Nat, NEW k \in Fields \cup Moved
    PROVE  At(From2(d, v), k) =
             IF v <= 2 /\ k = "grid_charge.max_grid_charge_a"
               THEN Or(At(d, k), At(d, "battery.max_grid_charge_a"))
               ELSE At(From3(d, v), k)
<1>1. CASE v <= 2
  <2> DEFINE e == Move(d, "battery.max_grid_charge_a", "grid_charge.max_grid_charge_a")
  <2>1. From2(d, v) = From3(e, v)  BY <1>1 DEF From2, migrate_v2_to_v3
  <2>2. /\ At(e, "grid_charge.max_grid_charge_a") =
              Or(At(d, "grid_charge.max_grid_charge_a"), At(d, "battery.max_grid_charge_a"))
        /\ \A x \in Fields \cup Moved :
              x # "grid_charge.max_grid_charge_a" => At(e, x) = At(d, x)
    BY MoveAt DEF Fields, Moved
  <2>3. "forecast.latitude" \in Moved /\ "forecast.timezone" \in Moved  BY DEF Moved
  <2> HIDE DEF e
  <2> QED  BY <1>1, <2>1, <2>2, <2>3, From3At, From4At
<1>2. CASE ~(v <= 2)
  BY <1>2 DEF From2
<1> QED  BY <1>1, <1>2

Values(d) == \A k \in DOMAIN d : d[k] \in Nat

(* What Says says of a field that took the place of one key, or of none. *)
LEMMA SaysOfOne ==
    ASSUME NEW d, NEW v \in Nat, Values(d), NEW k, NEW l, Replaced(v, k) = {l}
    PROVE  Says(d, v, k) = Or(At(d, k), At(d, l))
<1> DEFINE older == {l} \cap DOMAIN d
<1>1. Says(d, v, k) = IF Has(d, k) THEN {d[k]}
                      ELSE IF older = {} THEN {} ELSE {Largest(d, older)}
  BY DEF Says
<1>2. CASE Has(d, l)
  <2>1. older = {l} /\ older # {}  BY <1>2 DEF Has
  <2>2. {d[x] : x \in older} = {d[l]}  BY <2>1
  <2>3. Max({d[l]}) = d[l]  BY <1>2, MaxOne DEF Values, Has
  <2>4. Largest(d, older) = d[l]  BY <2>2, <2>3 DEF Largest
  <2> HIDE DEF older
  <2> QED  BY <1>1, <1>2, <2>1, <2>2, <2>4 DEF Or, At
<1>3. CASE ~Has(d, l)
  <2>1. older = {}  BY <1>3 DEF Has
  <2> HIDE DEF older
  <2> QED  BY <1>1, <1>3, <2>1 DEF Or, At
<1> QED  BY <1>2, <1>3

LEMMA SaysOfNone ==
    ASSUME NEW d, NEW v \in Nat, NEW k, Replaced(v, k) = {}
    PROVE  Says(d, v, k) = At(d, k)
BY DEF Says, At

(* The first migration touches neither a field nor a moved key. *)
LEMMA FirstAt ==
    ASSUME NEW d, NEW v \in Nat
    PROVE  LET m == "battery.max_grid_charge_a"
               c == "battery.max_charge_a"
               e == IF v <= 1 THEN migrate_v1_to_v2(d) ELSE d
           IN  /\ v <= 1 /\ Has(d, c) => At(e, m) = {Largest(d, {c, m} \cap DOMAIN d)}
               /\ ~(v <= 1 /\ Has(d, c)) => At(e, m) = At(d, m)
               /\ \A x \in Fields \cup Moved : At(e, x) = At(d, x)
<1> DEFINE m == "battery.max_grid_charge_a"
           c == "battery.max_charge_a"
           larger == {Largest(d, {c, m} \cap DOMAIN d)}
           less == Drop(d, {c, "inverter.work_modes"})
           one == [y \in {m} |-> Largest(d, {c, m} \cap DOMAIN d)]
<1>1. \A x : x \notin {c, "inverter.work_modes"} => At(less, x) = At(d, x)  BY DropAt
<1>2. \A x : At(one, x) = IF x = m THEN larger ELSE {}  BY DEF At, Has
<1>3. migrate_v1_to_v2(d) = IF Has(d, c) THEN deep_merge(less, one) ELSE less
  BY DEF migrate_v1_to_v2
<1>4. /\ m \notin {c, "inverter.work_modes"}
      /\ \A x \in Fields \cup Moved : x \notin {c, m, "inverter.work_modes"}
  BY DEF Fields, Moved
<1>5. larger # {}  OBVIOUS
<1> HIDE DEF less, one
<1> QED  BY <1>1, <1>2, <1>3, <1>4, <1>5, MergeAt DEF Or

(* A layout's document read field by field is what the migrations make of it. *)
LEMMA MigratedSays ==
    ASSUME NEW d, NEW v \in Nat, Values(d), NEW k \in Fields
    PROVE  At(migrate_overrides(d, v), k) = Says(d, v, k)
<1> DEFINE g == "grid_charge.max_grid_charge_a"
           m == "battery.max_grid_charge_a"
           c == "battery.max_charge_a"
           larger == {Largest(d, {c, m} \cap DOMAIN d)}
           e == IF v <= 1 THEN migrate_v1_to_v2(d) ELSE d
<1>1. migrate_overrides(d, v) = From2(e, v)  BY DEF migrate_overrides
<1>2. /\ v <= 1 /\ Has(d, c) => At(e, m) = larger
      /\ ~(v <= 1 /\ Has(d, c)) => At(e, m) = At(d, m)
      /\ \A x \in Fields \cup Moved : At(e, x) = At(d, x)
  BY FirstAt
<1>3. {"forecast.timezone", "forecast.latitude"} \subseteq Moved  BY DEF Moved
<1> HIDE DEF e
<1>4. CASE k = g
  <2>1. At(From2(e, v), g) = IF v <= 2 THEN Or(At(e, g), At(e, m)) ELSE At(e, g)
    BY <1>4, From2At, From3At, From4At
  <2>2. At(e, g) = At(d, g)  BY <1>2, <1>4
  <2>3. CASE v <= 1
    <3>1. Replaced(v, g) = {c, m}  BY <2>3 DEF Replaced
    <3>2. CASE Has(d, c)
      <4>1. Says(d, v, g) = Or(At(d, g), larger)
        <5>1. {c, m} \cap DOMAIN d # {}  BY <3>2 DEF Has
        <5> QED  BY <3>1, <5>1 DEF Says, At, Or
      <4>2. At(From2(e, v), g) = Or(At(d, g), larger)
        BY <1>2, <2>1, <2>2, <2>3, <3>2
      <4> QED  BY <1>1, <1>4, <4>1, <4>2
    <3>3. CASE ~Has(d, c)
      <4>1. {c, m} \cap DOMAIN d = {m} \cap DOMAIN d  BY <3>3 DEF Has
      <4>2. Says(d, v, g) = Or(At(d, g), At(d, m))
        <5>2. Replaced(2, g) = {m}  BY DEF Replaced
        <5>1. Says(d, 2, g) = Or(At(d, g), At(d, m))
          BY <5>2, SaysOfOne
        <5> QED  BY <3>1, <4>1, <5>1, <5>2 DEF Says
      <4> QED  BY <1>1, <1>2, <1>4, <2>1, <2>2, <2>3, <3>3, <4>2
    <3> QED  BY <3>2, <3>3
  <2>4. CASE v = 2
    <3>1. Replaced(v, g) = {m}  BY <2>4 DEF Replaced
    <3>2. Says(d, v, g) = Or(At(d, g), At(d, m))  BY <3>1, SaysOfOne
    <3> QED  BY <1>1, <1>2, <1>4, <2>1, <2>2, <2>4, <3>2
  <2>5. CASE v > 2
    <3>1. Replaced(v, g) = {}  BY <2>5 DEF Replaced
    <3> QED  BY <1>1, <1>4, <2>1, <2>2, <2>5, <3>1, SaysOfNone
  <2> QED  BY <2>3, <2>4, <2>5
<1>5. CASE k = "site.timezone"
  <2>1. At(From2(e, v), k) = IF v <= 3 THEN Or(At(d, k), At(d, "forecast.timezone")) ELSE At(d, k)
    BY <1>2, <1>3, <1>5, From2At, From3At, From4At
  <2>2. /\ v <= 3 => Replaced(v, k) = {"forecast.timezone"}
        /\ ~(v <= 3) => Replaced(v, k) = {}
    BY <1>5 DEF Replaced
  <2> QED  BY <1>1, <2>1, <2>2, SaysOfOne, SaysOfNone
<1>6. CASE k = "site.latitude"
  <2>1. At(From2(e, v), k) = IF v <= 4 THEN Or(At(d, k), At(d, "forecast.latitude")) ELSE At(d, k)
    BY <1>2, <1>3, <1>6, From2At, From3At, From4At
  <2>2. /\ v <= 4 => Replaced(v, k) = {"forecast.latitude"}
        /\ ~(v <= 4) => Replaced(v, k) = {}
    BY <1>6 DEF Replaced
  <2> QED  BY <1>1, <2>1, <2>2, SaysOfOne, SaysOfNone
<1>7. CASE k \in {"ha.base_url", "engine.mode"}
  <2>1. At(From2(e, v), k) = At(d, k)  BY <1>2, <1>7, From2At, From3At, From4At
  <2>2. Replaced(v, k) = {}  BY <1>7 DEF Replaced
  <2> QED  BY <1>1, <2>1, <2>2, SaysOfNone
<1> QED  BY <1>4, <1>5, <1>6, <1>7 DEF Fields

(* No overrides that were read have a moved key. *)
LEMMA OverridesCurrent == ASSUME NEW f, FileLayout(f) PROVE NoMoved(Overrides(f))
<1> SUFFICES ASSUME NEW k \in Moved PROVE At(Overrides(f), k) = {}
  BY DEF NoMoved
<1>1. CASE Readable(f)
  <2> DEFINE d == f.overrides
             v == f.version
             e == IF v <= 1 THEN migrate_v1_to_v2(d) ELSE d
  <2>1. /\ v \in Nat /\ (v >= 4 => At(d, "forecast.timezone") = {})
        /\ (v >= 5 => At(d, "forecast.latitude") = {})
    BY <1>1 DEF FileLayout, At, Has
  <2>2. Overrides(f) = From2(e, v)  BY <1>1 DEF Overrides, migrate_overrides
  <2> HIDE DEF v, d
  <2>3. \A x \in Fields \cup Moved : At(e, x) = At(d, x)  BY <2>1, FirstAt
  <2> HIDE DEF e
  <2>4. {"forecast.timezone", "forecast.latitude"} = Moved
        /\ "grid_charge.max_grid_charge_a" \notin Moved /\ "site.timezone" \notin Moved
        /\ "site.latitude" \notin Moved
    BY DEF Moved
  <2>5. At(From2(e, v), k) = At(From3(e, v), k)  BY <2>1, <2>4, From2At
  <2>6. CASE k = "forecast.timezone"
    BY <2>1, <2>2, <2>3, <2>4, <2>5, <2>6, From3At, From4At
  <2>7. CASE k = "forecast.latitude"
    BY <2>1, <2>2, <2>3, <2>4, <2>5, <2>7, From3At, From4At
  <2> QED  BY <2>4, <2>6, <2>7
<1>2. CASE ~Readable(f)
  BY <1>2 DEF Overrides, NoOverrides, At, Has
<1> QED  BY <1>1, <1>2

(* Rewriting a file changes neither what it says nor that it fits its layout. *)
LEMMA RewrittenSame ==
    ASSUME NEW f, FileLayout(f)
    PROVE  /\ Overrides(Rewritten(f)) = Overrides(f)
           /\ Rewritten(Rewritten(f)) = Rewritten(f)
           /\ FileLayout(Rewritten(f))
<1>1. CASE Migrated(f)
  <2> DEFINE o == Overrides(f)
             g == RuntimeFile(8, o)
  <2>1. Rewritten(f) = g  BY <1>1 DEF Rewritten, CURRENT_SCHEMA_VERSION
  <2>2. Readable(g) /\ g.version = 8 /\ g.overrides = o  BY DEF g, RuntimeFile, Readable
  <2>3. NoMoved(o)  BY OverridesCurrent
  <2> HIDE DEF g, o
  <2>4. migrate_overrides(o, 8) = o
    BY DEF migrate_overrides, From2, From3, From4, From5, From6, From7
  <2>5. Overrides(g) = o  BY <2>2, <2>4 DEF Overrides
  <2>6. ~Migrated(g)  BY <2>2 DEF Migrated, CURRENT_SCHEMA_VERSION
  <2>7. FileLayout(g)  BY <2>2, <2>3 DEF FileLayout, NoMoved, Moved, At, Has
  <2> QED  BY <2>1, <2>5, <2>6, <2>7 DEF Rewritten, o
<1>2. CASE ~Migrated(f)
  BY <1>2 DEF Rewritten
<1> QED  BY <1>1, <1>2

(* What a torn write leaves has no key that the whole file had not. *)
LEMMA TornLayout ==
    ASSUME NEW f, FileLayout(f), NEW t \in TornFiles(f)
    PROVE  FileLayout(t)
<1>1. CASE t = Unreadable
  BY <1>1 DEF FileLayout, Unreadable, Readable
<1>2. CASE t # Unreadable
  <2>1. Readable(f)  BY DEF TornFiles
  <2>2. PICK ks \in SUBSET DOMAIN f.overrides :
           t = RuntimeFile(f.version, Restrict(f.overrides, ks))
    BY <1>2, <2>1 DEF TornFiles
  <2>3. t.version = f.version /\ DOMAIN t.overrides \subseteq DOMAIN f.overrides
    BY <2>2 DEF RuntimeFile, Restrict
  <2> QED  BY <2>1, <2>3 DEF FileLayout
<1> QED  BY <1>1, <1>2

LEMMA NewFile ==
    ASSUME NEW o, NoMoved(o)
    PROVE  LET g == RuntimeFile(CURRENT_SCHEMA_VERSION, o) IN
           /\ FileLayout(g) /\ Overrides(g) = o
           /\ \A t \in TornFiles(g) : FileLayout(t)
<1> DEFINE g == RuntimeFile(8, o)
<1>2. Readable(g) /\ g.version = 8 /\ g.overrides = o  BY DEF RuntimeFile, Readable
<1> HIDE DEF g
<1>4. migrate_overrides(o, 8) = o
  BY DEF migrate_overrides, From2, From3, From4, From5, From6, From7
<1>5. Overrides(g) = o  BY <1>2, <1>4 DEF Overrides
<1>7. FileLayout(g)  BY <1>2 DEF FileLayout, NoMoved, Moved, At, Has
<1> QED  BY <1>5, <1>7, TornLayout DEF g, CURRENT_SCHEMA_VERSION

LEMMA BaseValues == ASSUME NEW b \in Bases PROVE Values(b)
BY ConfigAssumption DEF Values

(* Overrides go before the base, whatever layout the base is in. *)
LEMMA EffectiveAt ==
    ASSUME NEW b \in Bases, NEW over, NoMoved(over), NEW k \in Fields
    PROVE  At(migrate_config_data(deep_merge(b, over)), k) = Or(At(over, k), Says(b, 3, k))
<1> DEFINE d == deep_merge(b, over)
<1>1. /\ At(d, "forecast.timezone") = At(b, "forecast.timezone")
      /\ At(d, "forecast.latitude") = At(b, "forecast.latitude")
      /\ At(d, k) = Or(At(over, k), At(b, k))
  <2>1. At(over, "forecast.timezone") = {} /\ At(over, "forecast.latitude") = {}
    BY DEF NoMoved, Moved
  <2> QED  BY <2>1, MergeAt DEF Or
<1>2. At(migrate_config_data(d), k) =
        IF k = "site.timezone" THEN Or(At(d, k), At(d, "forecast.timezone"))
        ELSE IF k = "site.latitude" THEN Or(At(d, k), At(d, "forecast.latitude"))
        ELSE At(d, k)
  <2>1. At(From3(d, 3), k) = IF k = "site.timezone" THEN Or(At(d, k), At(d, "forecast.timezone"))
                             ELSE At(From4(d, 3), k)
    <3>1. k # "forecast.timezone"  BY DEF Fields
    <3> QED  BY <3>1, From3At
  <2>2. At(From4(d, 3), k) = IF k = "site.latitude" THEN Or(At(d, k), At(d, "forecast.latitude"))
                             ELSE At(d, k)
    <3>1. k # "forecast.latitude"  BY DEF Fields
    <3> QED  BY <3>1, From4At
  <2> HIDE DEF d
  <2> QED  BY <2>1, <2>2 DEF migrate_config_data
<1>3. Values(b)  BY BaseValues
<1>4. /\ k = "site.timezone" => Says(b, 3, k) = Or(At(b, k), At(b, "forecast.timezone"))
      /\ k = "site.latitude" => Says(b, 3, k) = Or(At(b, k), At(b, "forecast.latitude"))
  <2>1. Replaced(3, "site.timezone") = {"forecast.timezone"}  BY DEF Replaced
  <2>2. Replaced(3, "site.latitude") = {"forecast.latitude"}  BY DEF Replaced
  <2> QED  BY <1>3, <2>1, <2>2, SaysOfOne
<1>5. k \notin {"site.timezone", "site.latitude"} => Says(b, 3, k) = At(b, k)
  <2>1. k \notin {"site.timezone", "site.latitude"} => Replaced(3, k) = {}
    BY DEF Fields, Replaced
  <2> QED  BY <2>1, SaysOfNone
<1> HIDE DEF d
<1>6. At(migrate_config_data(d), k) = Or(At(over, k), Says(b, 3, k))
  BY <1>1, <1>2, <1>4, <1>5 DEF Or
<1> QED  BY <1>6 DEF d

(* AppConfig and Valid look at the fields alone. *)
LEMMA AppSame ==
    ASSUME NEW d, NEW e, \A k \in Fields : At(d, k) = At(e, k)
    PROVE  AppConfig(d) = AppConfig(e) /\ (Valid(d) <=> Valid(e))
<1>1. \A k \in Fields : (Has(d, k) <=> Has(e, k)) /\ (Has(d, k) => d[k] = e[k])
  BY DEF At
<1> QED  BY <1>1 DEF AppConfig, Valid, Fields

(* On a base in the layout of now, load and update agree. *)
LEMMA UpdateAsLoad ==
    ASSUME base \in Bases, CurrentLayout(base), NEW o, NoMoved(o), Valid(deep_merge(base, o))
    PROVE  load(o) = AppConfig(deep_merge(base, o))
<1>1. /\ "forecast.timezone" \notin DOMAIN base /\ "forecast.latitude" \notin DOMAIN base
  BY DEF CurrentLayout, Fields
<1>2. ASSUME NEW k \in Fields PROVE Says(base, 3, k) = At(base, k)
  <2>1. Replaced(3, k) \cap DOMAIN base = {}
    BY <1>1, <1>2 DEF Replaced, Fields
  <2> QED  BY <2>1 DEF Says, At
<1>3. \A k \in Fields : At(Effective(o), k) = At(deep_merge(base, o), k)
  BY <1>2, EffectiveAt, MergeAt DEF Effective
<1> QED  BY <1>3, AppSame DEF load

LEMMA LoadedFields == ASSUME NEW o PROVE DOMAIN load(o) = Fields /\ DOMAIN load_app_config = Fields
BY DEF load, load_app_config, AppConfig

-----------------------------------------------------------------------------
(* The invariant of the store. *)
StoreTypes ==
    /\ base \in Bases /\ FileLayout(file) /\ found \in RuntimeFiles
    /\ cfg = Down \/ DOMAIN cfg = Fields
    /\ pristine \in BOOLEAN /\ torn \in BOOLEAN
    /\ configFaults \in 0 .. MaxConfigFaults

Reloadable == cfg # Down /\ ~torn /\ CurrentLayout(base) => cfg = load(Overrides(file))

Untouched ==
    pristine => /\ file \in {found, Rewritten(found)}
                /\ cfg = Down \/ cfg = load(Overrides(found))

StoreInv == StoreTypes /\ Reloadable /\ Untouched

LEMMA StoreInit_Inv == ConfigInit => StoreInv
<1> SUFFICES ASSUME ConfigInit PROVE StoreInv
  OBVIOUS
<1>1. FileLayout(file) /\ MaxConfigFaults \in Nat  BY ConfigAssumption DEF ConfigInit
<1>2. StoreTypes
  <2>1. configFaults \in 0 .. MaxConfigFaults  BY <1>1 DEF ConfigInit
  <2>2. base \in Bases /\ found \in RuntimeFiles /\ cfg = Down  BY DEF ConfigInit
  <2>3. pristine \in BOOLEAN /\ torn \in BOOLEAN  BY DEF ConfigInit
  <2> QED  BY <1>1, <2>1, <2>2, <2>3 DEF StoreTypes
<1>3. Reloadable /\ Untouched  BY DEF ConfigInit, Reloadable, Untouched
<1> QED  BY <1>2, <1>3 DEF StoreInv

LEMMA FoundSame ==
    ASSUME StoreInv, pristine
    PROVE  /\ Overrides(file) = Overrides(found)
           /\ Rewritten(file) \in {found, Rewritten(found)}
<1>1. FileLayout(found)  BY ConfigAssumption DEF StoreInv, StoreTypes
<1> QED  BY <1>1, RewrittenSame DEF StoreInv, Untouched

(* What an update, from any overrides, makes of file and cfg. *)
LEMMA PatchedCurrent ==
    ASSUME NEW o, NoMoved(o), NEW p \in Patches
    PROVE  NoMoved(Patched(o, p))
<1>1. \A k \in Moved : At(p, k) = {}  BY ConfigAssumption DEF Moved, At, Has
<1>2. \A k \in Moved : At(_sanitize_config_patch(p), k) = {}
  BY <1>1, DropAt DEF _sanitize_config_patch
<1> QED  BY <1>2, MergeAt DEF NoMoved, Patched, Or

LEMMA UpdateFromInv ==
    ASSUME StoreInv, NEW o, NoMoved(o), NEW p \in Patches, UpdateFrom(o, p),
           UNCHANGED <<base, found>>, pristine' = FALSE,
           configFaults' \in 0 .. MaxConfigFaults
    PROVE  StoreInv'
<1> DEFINE new == Patched(o, p)
<1>1. NoMoved(new)  BY PatchedCurrent
<1>2. /\ Valid(deep_merge(base, new)) /\ cfg' = AppConfig(deep_merge(base, new))
      /\ file' = RuntimeFile(CURRENT_SCHEMA_VERSION, new) /\ torn' = FALSE
  BY DEF UpdateFrom
<1> HIDE DEF new
<1>3. FileLayout(file') /\ Overrides(file') = new  BY <1>1, <1>2, NewFile
<1>4. DOMAIN cfg' = Fields  BY <1>2 DEF AppConfig
<1>5. CurrentLayout(base) => cfg' = load(new)
  BY <1>1, <1>2, UpdateAsLoad DEF StoreInv, StoreTypes
<1>6. load(new)' = load(new)
  BY DEF load, Effective, load_app_config, StoreInv
<1> QED
  BY <1>2, <1>3, <1>4, <1>5, <1>6 DEF StoreInv, StoreTypes, Reloadable, Untouched

(* A step that loads what it left in the file, or the file there was. *)
LEMMA ConfigStep_Inv == StoreInv /\ [ConfigNext]_configVars => StoreInv'
<1> SUFFICES ASSUME StoreInv, [ConfigNext]_configVars PROVE StoreInv'
  OBVIOUS
<1>0. StoreTypes /\ Reloadable /\ Untouched  BY DEF StoreInv
<1>a. /\ FileLayout(file) /\ FileLayout(Rewritten(file))
      /\ Overrides(Rewritten(file)) = Overrides(file)
      /\ NoMoved(Overrides(file)) /\ NoMoved(NoOverrides)
  <2>1. FileLayout(file)  BY <1>0 DEF StoreTypes
  <2>2. NoMoved(NoOverrides)  BY DEF NoMoved, NoOverrides, At, Has
  <2> QED  BY <2>1, <2>2, RewrittenSame, OverridesCurrent
<1>b. ASSUME UNCHANGED base, NEW o PROVE load(o)' = load(o)
  BY <1>b DEF load, Effective, load_app_config
<1>c. \A o : DOMAIN load(o) = Fields /\ DOMAIN load_app_config = Fields  BY LoadedFields
<1>d. MaxConfigFaults \in Nat /\ configFaults \in 0 .. MaxConfigFaults
  BY <1>0, ConfigAssumption DEF StoreTypes
<1>e. ASSUME ConfigFault PROVE configFaults' \in 0 .. MaxConfigFaults /\ pristine' = FALSE
  BY <1>d, <1>e DEF ConfigFault
<1>1. CASE Start
  <2>1. /\ cfg' = load(Overrides(file)) /\ file' = Rewritten(file) /\ torn' = FALSE
        /\ UNCHANGED <<base, found, pristine, configFaults>>
    BY <1>1 DEF Start
  <2>3. pristine => /\ Rewritten(file) \in {found, Rewritten(found)}
                    /\ Overrides(file) = Overrides(found)
    BY FoundSame
  <2>4. StoreTypes'  BY <1>0, <1>a, <1>c, <2>1 DEF StoreTypes
  <2>5. Reloadable'  BY <1>a, <1>b, <2>1 DEF Reloadable
  <2>6. Rewritten(found)' = Rewritten(found) /\ Overrides(found)' = Overrides(found)
    BY <2>1
  <2>7. Untouched'  BY <1>b, <2>1, <2>3, <2>6 DEF Untouched
  <2> QED  BY <2>4, <2>5, <2>7 DEF StoreInv
<1>2. CASE StartCannotRead
  BY <1>0, <1>2, <1>c, <1>e DEF StartCannotRead, StoreInv, StoreTypes, Reloadable, Untouched
<1>3. CASE StartCannotRewrite
  <2>1. FileLayout(file')
    BY <1>3, <1>a, TornLayout DEF StartCannotRewrite
  <2> QED
    BY <1>0, <1>3, <1>c, <1>e, <2>1
       DEF StartCannotRewrite, StoreInv, StoreTypes, Reloadable, Untouched
<1>4. CASE ConfigCrash
  <2>1. cfg' = Down /\ UNCHANGED <<base, file, found, pristine, torn, configFaults>>
    BY <1>4 DEF ConfigCrash
  <2> QED  BY <1>0, <2>1 DEF StoreInv, StoreTypes, Reloadable, Untouched
<1>5. CASE Reset
  <2>1. /\ file' = NoFile /\ cfg' = load(NoOverrides) /\ pristine' = FALSE
        /\ UNCHANGED <<base, found, configFaults>> /\ torn' = FALSE
    BY <1>5 DEF Reset
  <2>2. FileLayout(file') /\ Overrides(file') = NoOverrides
    BY <2>1 DEF NoFile, FileLayout, Readable, Overrides
  <2> QED
    BY <1>0, <1>b, <1>c, <2>1, <2>2 DEF StoreInv, StoreTypes, Reloadable, Untouched
<1>6. ASSUME NEW p \in Patches, Update(p) PROVE StoreInv'
  BY <1>6, <1>a, <1>d, UpdateFromInv DEF Update
<1>7. ASSUME NEW p \in Patches, UpdateCannotRead(p) PROVE StoreInv'
  BY <1>7, <1>a, <1>e, UpdateFromInv DEF UpdateCannotRead
<1>8. ASSUME NEW p \in Patches, UpdateRefused(p) PROVE StoreInv'
  <2>1. /\ file' = Rewritten(file)
        /\ UNCHANGED <<base, cfg, found, pristine, torn, configFaults>>
    BY <1>8 DEF UpdateRefused
  <2>2. StoreTypes'  BY <1>0, <1>a, <2>1 DEF StoreTypes
  <2>3. Reloadable'  BY <1>0, <1>a, <1>b, <2>1 DEF Reloadable
  <2>4. Untouched'  BY <1>0, <1>b, <2>1, FoundSame DEF Untouched
  <2> QED  BY <2>2, <2>3, <2>4 DEF StoreInv
<1>9. ASSUME NEW p \in Patches, UpdateCannotWrite(p) PROVE StoreInv'
  <2> DEFINE new == Patched(Overrides(file), p)
  <2>1. \A t \in TornFiles(RuntimeFile(CURRENT_SCHEMA_VERSION, new)) : FileLayout(t)
    BY <1>a, PatchedCurrent, NewFile
  <2>2. FileLayout(file')  BY <1>9, <1>a, <2>1, TornLayout DEF UpdateCannotWrite
  <2>3. /\ (cfg' = cfg /\ torn' = TRUE) \/ (cfg' = Down /\ torn' = torn)
        /\ UNCHANGED <<base, found>>
        /\ configFaults' \in 0 .. MaxConfigFaults /\ pristine' = FALSE
    BY <1>9, <1>e DEF UpdateCannotWrite
  <2> QED  BY <1>0, <2>2, <2>3 DEF StoreInv, StoreTypes, Reloadable, Untouched
<1>10. CASE UNCHANGED configVars
  BY <1>0, <1>10, <1>b DEF configVars, StoreInv, StoreTypes, Reloadable, Untouched
<1> QED
  BY <1>1, <1>2, <1>3, <1>4, <1>5, <1>6, <1>7, <1>8, <1>9, <1>10 DEF ConfigNext

LEMMA StoreInvariant == ConfigSpec => []StoreInv
BY StoreInit_Inv, ConfigStep_Inv, PTL DEF ConfigSpec

LEMMA StoreTyped == StoreInv => ConfigTypeOK
BY DEF StoreInv, StoreTypes, ConfigTypeOK, FileLayout

(* The configuration that runs is the one the next start loads, unless a  *)
(* read or write failed since or the shipped file is in an old layout:    *)
(* nothing the settings page was told is undone by a restart              *)
(* (config_store.py load, update; orchestrator.py reload and reset).      *)
THEOREM RunsReloadable == ConfigSpec => []RunningIsReloadable
<1>1. StoreInv => RunningIsReloadable
  BY StoreTyped DEF StoreInv, Reloadable, RunningIsReloadable
<1> QED  BY <1>1, StoreInvariant, PTL

(* A file of any layout, over any number of starts, rewrites and refused  *)
(* patches, keeps what it said of each field in its own layout, and the   *)
(* fields it left alone are the base's (config_migration.py).             *)
THEOREM UpgradesKeepMeaning == ConfigSpec => []UpgradeKeepsMeaning
<1>1. ASSUME StoreInv, pristine, cfg # Down PROVE UpgradeKeepsMeaning
  <2> DEFINE over == IF Readable(found) THEN found ELSE RuntimeFile(CURRENT_SCHEMA_VERSION, <<>>)
             own(k) == Says(over.overrides, over.version, k)
             said == [k \in Fields |-> IF own(k) # {} THEN own(k) ELSE Says(base, 3, k)]
             wanted == [k \in Fields |-> IF said[k] = {} THEN Default
                                         ELSE CHOOSE x \in said[k] : TRUE]
             o == Overrides(found)
             d == Effective(o)
  <2>1. cfg = load(o) /\ base \in Bases /\ FileLayout(found)
    BY <1>1, ConfigAssumption DEF StoreInv, StoreTypes, Untouched
  <2>2. ASSUME NEW k \in Fields PROVE own(k) = At(o, k)
    <3>1. CASE Readable(found)
      <4>1. Values(found.overrides) /\ found.version \in Nat
        BY <1>1, <2>1, <3>1, ConfigAssumption DEF StoreInv, StoreTypes, Values, FileLayout
      <4> QED  BY <3>1, <4>1, MigratedSays DEF Overrides
    <3>2. CASE ~Readable(found)
      <4>1. over.overrides = <<>> /\ over.version = 8
        BY <3>2 DEF RuntimeFile, CURRENT_SCHEMA_VERSION
      <4>2. o = <<>>  BY <3>2 DEF Overrides, NoOverrides
      <4>3. Says(<<>>, 8, k) = {} /\ At(<<>>, k) = {}  BY DEF Says, At, Has
      <4> HIDE DEF over, o
      <4> QED  BY <4>1, <4>2, <4>3
    <3> QED  BY <3>1, <3>2
  <2>3. ASSUME NEW k \in Fields PROVE said[k] = At(d, k)
    <3>1. At(d, k) = Or(At(o, k), Says(base, 3, k))
      BY <2>1, OverridesCurrent, EffectiveAt DEF Effective
    <3> QED  BY <2>2, <3>1 DEF Or
  <2>4. wanted = AppConfig(d)
    <3>1. ASSUME NEW k \in Fields PROVE wanted[k] = AppConfig(d)[k]
      <4> HIDE DEF said, d
      <4> QED  BY <2>3 DEF At, AppConfig
    <3> QED  BY <3>1 DEF AppConfig
  <2>5. wanted["site.timezone"] # NoSuchZone <=> Valid(d)
    <3>1. "site.timezone" \in Fields /\ Default # NoSuchZone
      BY DEF Fields, Default, NoSuchZone
    <3>2. AppConfig(d)["site.timezone"] # NoSuchZone <=> Valid(d)
      BY <3>1 DEF AppConfig, Valid
    <3> HIDE DEF wanted
    <3> QED  BY <2>4, <3>2
  <2>6. cfg = IF Valid(d) THEN AppConfig(d) ELSE load_app_config
    BY <2>1 DEF load
  <2>7. cfg = IF wanted["site.timezone"] # NoSuchZone THEN wanted ELSE load_app_config
    BY <2>4, <2>5, <2>6
  <2> QED  BY <2>7 DEF UpgradeKeepsMeaning
<1>2. StoreInv => UpgradeKeepsMeaning
  <2>1. CASE pristine /\ cfg # Down  BY <1>1, <2>1
  <2>2. CASE ~(pristine /\ cfg # Down)  BY <2>2 DEF UpgradeKeepsMeaning
  <2> QED  BY <2>1, <2>2
<1> QED  BY <1>2, StoreInvariant, PTL

-----------------------------------------------------------------------------
(***************************************************************************)
(* The forecast service, for any places, zones and configurations and any  *)
(* number of changes, imports, restarts and faults.  A configuration may   *)
(* change at every await of a refresh, so a refresh that has not asked for *)
(* the irradiance yet asks for a place configured while it ran (Asks), and *)
(* one that has no curve of its own has noted that it is degraded (Curve). *)
(***************************************************************************)
SomeZone == Zones \cup {Unknown}
Curves == Places \cup {Solcast, Nothing}
Models == {"untrained", "own", "imported"}

Begins == [pc : {"history", "zone"}, saves : BOOLEAN, site : Places, temp : BOOLEAN,
           degraded : BOOLEAN]
AskingZone == [pc : {"asked"}, saves : BOOLEAN, temp : BOOLEAN, degraded : BOOLEAN,
               asked : Places]
Fetching == [pc : {"fetch"}, saves : BOOLEAN, degraded : BOOLEAN, sync : BOOLEAN,
             place : Places, zone : SomeZone, solcast : BOOLEAN, solarDone : BOOLEAN,
             tempDone : BOOLEAN, solar : Curves, tempZone : SomeZone]
Ending == [pc : {"fetched"}, saves : BOOLEAN, solar : Curves, degraded : BOOLEAN,
           sync : BOOLEAN]

(* What a refresh remembers at each of its awaits. *)
RefTypes ==
    \/ ref = Idle
    \/ ref = [pc |-> "retrain"]
    \/ ref \in Begins
    \/ ref \in AskingZone
    \/ ref \in Fetching
    \/ ref \in Ending

Asks ==
    /\ ref.pc \in {"history", "zone", "asked", "fetch", "fetched"} => config.place \in during
    /\ ref.pc = "history" => (ref.site = Nowhere => ref.degraded)
    /\ ref.pc = "fetch" /\ ~ref.solarDone => ref.place \in during

Curve ==
    /\ ref.pc = "fetch" /\ ref.solarDone /\ ~ref.degraded => ref.solar \in during \cup {Solcast}
    /\ ref.pc = "fetched" /\ ~ref.degraded => ref.solar \in during \cup {Solcast}
    /\ ~bundle.degraded => bundle.solar \in bundle.placed \cup {Solcast}

ServiceTypes ==
    /\ config \in Configs
    /\ resolved \in SomeZone /\ solarHint \in SomeZone /\ tempHint \in SomeZone
    /\ bundle \in [solar : Curves, load : Models \cup {"profile", Nothing},
                   degraded : BOOLEAN, placed : SUBSET Places]
    /\ during \in SUBSET Places
    /\ ml \in Models /\ locked \in BOOLEAN /\ kept \in BOOLEAN
    /\ model \in {Nothing, Torn} \cup [ml : Models, locked : BOOLEAN]

(* Nobody but a Retrain gives an imported model up. *)
Kept == /\ kept => ml = "imported" /\ locked
        /\ ref.pc = "retrain" => ~kept

ForecastInv == ServiceTypes /\ RefTypes /\ Asks /\ Curve /\ Kept /\ loadZone = site_tz

-----------------------------------------------------------------------------
(* Zones stay zones. *)
LEMMA ConfigFields ==
    ASSUME NEW c \in Configs
    PROVE  /\ c.place \in Places /\ c.temperature \in BOOLEAN
           /\ Zone[c.place] \in SomeZone
           /\ \A hint \in SomeZone : SiteZone(c, hint) \in SomeZone
BY ForecastAssumption DEF SiteZone, SomeZone, Zones

(* Which of the refresh's records it is. *)
LEMMA RefAt ==
    ASSUME RefTypes
    PROVE  /\ ref.pc \in {"idle", "history", "zone", "asked", "fetch", "fetched", "retrain"}
           /\ ref.pc \in {"history", "zone"} => ref \in Begins
           /\ ref.pc = "asked" => ref \in AskingZone
           /\ ref.pc = "fetch" => ref \in Fetching
           /\ ref.pc = "fetched" => ref \in Ending
BY DEF RefTypes, Idle, Begins, AskingZone, Fetching, Ending

LEMMA BegunAsks ==
    ASSUME NEW c \in Configs, NEW saves \in BOOLEAN
    PROVE  LET r == Begun(c, saves) IN
           /\ r \in Begins /\ r.pc = "history" /\ (r.site = Nowhere => r.degraded)
BY ConfigFields, ForecastAssumption DEF Begun, Begins

LEMMA SavesModel ==
    ASSUME NEW m \in Models, NEW l \in BOOLEAN, save_model(export_model(m, l)),
           model \in {Nothing, Torn} \cup [ml : Models, locked : BOOLEAN]
    PROVE  model' \in {Nothing, Torn} \cup [ml : Models, locked : BOOLEAN]
BY DEF save_model, export_model

LEMMA ForecastInit_Inv == ForecastInit => ForecastInv
<1> SUFFICES ASSUME ForecastInit PROVE ForecastInv
  OBVIOUS
<1>1. ServiceTypes
  BY DEF ForecastInit, ServiceTypes, NoBundle, Curves, Models, SomeZone
<1>2. RefTypes /\ Asks /\ Curve /\ Kept /\ loadZone = site_tz
  BY DEF ForecastInit, RefTypes, Idle, Asks, Curve, Kept, site_tz, NoBundle
<1> QED  BY <1>1, <1>2 DEF ForecastInv

(* The requests to the providers go out for the place of now. *)
LEMMA FetchInv ==
    ASSUME ForecastInv, NEW zone \in SomeZone, Fetch(zone),
           ref \in Begins \cup AskingZone,
           UNCHANGED <<config, solarHint, tempHint, bundle, learnedVars, during>>
    PROVE  ForecastInv'
<1>1. /\ ref.saves \in BOOLEAN /\ ref.degraded \in BOOLEAN /\ ref.temp \in BOOLEAN
      /\ ref.pc \in {"history", "zone", "asked"}
  BY DEF Begins, AskingZone
<1>2. config \in Configs /\ config.place \in during  BY <1>1 DEF ForecastInv, ServiceTypes, Asks
<1>3. /\ config.place \in Places /\ SiteZone(config, Zone[config.place]) \in SomeZone
      /\ (config.provider = Solcast /\ SolcastKeys) \in BOOLEAN
  BY <1>2, ConfigFields
<1>4. /\ resolved' = zone /\ loadZone' = SiteZone(config, zone)
      /\ ref' \in Fetching /\ ref'.pc = "fetch" /\ ref'.place = config.place
      /\ ref'.solarDone = FALSE
  BY <1>1, <1>3 DEF Fetch, Fetching, Curves
<1>5. ServiceTypes'  BY <1>4 DEF ForecastInv, ServiceTypes, learnedVars
<1>6. RefTypes'  BY <1>4 DEF RefTypes
<1>7. Asks' /\ Curve' /\ Kept'
  BY <1>2, <1>4 DEF ForecastInv, Asks, Curve, Kept, learnedVars
<1>8. (loadZone = site_tz)'  BY <1>4 DEF site_tz
<1> QED  BY <1>5, <1>6, <1>7, <1>8 DEF ForecastInv

(* A refresh that goes on, with the service as it is. *)
LEMMA RefMoves ==
    ASSUME ForecastInv, ref' \in Begins \cup AskingZone \cup Fetching \cup Ending,
           solarHint' \in SomeZone, tempHint' \in SomeZone,
           ref.pc \in {"history", "zone", "asked", "fetch"}, ref'.pc # "history",
           UNCHANGED <<config, resolved, loadZone, bundle, learnedVars, during>>,
           ref'.pc = "fetch" => (ref'.solarDone \/ ref'.place \in during),
           ref'.pc = "fetch" => (ref'.solarDone /\ ~ref'.degraded
                                   => ref'.solar \in during \cup {Solcast}),
           ref'.pc = "fetched" => (~ref'.degraded => ref'.solar \in during \cup {Solcast})
    PROVE  ForecastInv'
<1>1. ref'.pc \in {"zone", "asked", "fetch", "fetched"}
  BY DEF Begins, AskingZone, Fetching, Ending
<1>2. config.place \in during  BY DEF ForecastInv, Asks
<1>3. ServiceTypes'  BY DEF ForecastInv, ServiceTypes, learnedVars
<1>4. RefTypes'  BY DEF RefTypes
<1>5. Asks' /\ Curve' /\ Kept'
  BY <1>1, <1>2 DEF ForecastInv, Asks, Curve, Kept, learnedVars
<1>6. (loadZone = site_tz)'  BY DEF ForecastInv, site_tz
<1> QED  BY <1>3, <1>4, <1>5, <1>6 DEF ForecastInv

(* The lock is free again and the bundle, if it is new, is of this refresh. *)
LEMMA RefreshEndsInv == ASSUME ForecastInv, RefreshEnds PROVE ForecastInv'
<1>1. /\ ref.pc = "fetched" /\ ref \in Ending /\ ref' = Idle
      /\ loadZone' = SiteZone(config, resolved')
      /\ UNCHANGED <<config, solarHint, tempHint, locked, during, kept>>
  BY RefAt DEF ForecastInv, RefreshEnds
<1>2. resolved' \in SomeZone
  BY DEF ForecastInv, ServiceTypes, RefreshEnds, Synced, Hint
<1>3. PICK by \in Predictions :
         /\ ml' = IF by = "profile" THEN ml ELSE by
         /\ bundle' = [solar |-> ref.solar, load |-> by, degraded |-> ref.degraded,
                       placed |-> during]
  BY DEF RefreshEnds
<1>4. ml \in Models /\ locked \in BOOLEAN /\ during \in SUBSET Places
  BY DEF ForecastInv, ServiceTypes
<1>5. ml' \in Models /\ by \in Models \cup {"profile"} /\ (kept => ml' = "imported")
  BY <1>3, <1>4 DEF Predictions, Models, ForecastInv, Kept
<1>6. /\ bundle' \in [solar : Curves, load : Models \cup {"profile", Nothing},
                      degraded : BOOLEAN, placed : SUBSET Places]
      /\ bundle'.solar = ref.solar /\ bundle'.degraded = ref.degraded
      /\ bundle'.placed = during
  BY <1>1, <1>3, <1>4, <1>5 DEF Ending
<1>7. model' \in {Nothing, Torn} \cup [ml : Models, locked : BOOLEAN]
  BY <1>4, <1>5, SavesModel DEF RefreshEnds, ForecastInv, ServiceTypes
<1>8. ServiceTypes'  BY <1>1, <1>2, <1>5, <1>6, <1>7 DEF ForecastInv, ServiceTypes
<1>9. RefTypes' /\ Asks' /\ Curve' /\ Kept'
  BY <1>1, <1>5, <1>6 DEF ForecastInv, RefTypes, Asks, Curve, Kept, Idle
<1>10. (loadZone = site_tz)'  BY <1>1 DEF site_tz
<1> QED  BY <1>8, <1>9, <1>10 DEF ForecastInv

LEMMA ForecastStep_Inv == ForecastInv /\ [ForecastNext]_forecastVars => ForecastInv'
<1> SUFFICES ASSUME ForecastInv, [ForecastNext]_forecastVars PROVE ForecastInv'
  OBVIOUS
<1>0. ServiceTypes /\ RefTypes /\ Asks /\ Curve /\ Kept /\ loadZone = site_tz
  BY DEF ForecastInv
<1> USE DEF zoneVars, learnedVars, boundVars
<1>z. solarHint \in SomeZone /\ tempHint \in SomeZone /\ resolved \in SomeZone
  BY <1>0 DEF ServiceTypes
<1>1. CASE RefreshBegins
  <2>1. ref' \in Begins /\ ref'.pc = "history" /\ (ref'.site = Nowhere => ref'.degraded)
    BY <1>0, <1>1, BegunAsks DEF RefreshBegins, ServiceTypes
  <2>2. config.place \in Places  BY <1>0, ConfigFields DEF ServiceTypes
  <2>3. ServiceTypes'  BY <1>0, <1>1, <2>2 DEF RefreshBegins, ServiceTypes
  <2>4. RefTypes' /\ Asks' /\ Curve' /\ Kept'
    BY <1>0, <1>1, <2>1 DEF RefreshBegins, RefTypes, Asks, Curve, Kept
  <2> QED  BY <1>0, <1>1, <2>3, <2>4 DEF RefreshBegins, ForecastInv, site_tz
<1>2. CASE HistoryRead
  <2>1. ref \in Begins /\ ref.pc = "history"  BY <1>0, <1>2, RefAt DEF HistoryRead
  <2>2. CASE ref.site = Nowhere
    <3>1. ref' = [pc |-> "fetched", saves |-> ref.saves, solar |-> bundle.solar,
                  degraded |-> ref.degraded, sync |-> FALSE]
      BY <1>2, <2>2 DEF HistoryRead
    <3>2. ref.degraded /\ ref.degraded \in BOOLEAN /\ bundle.solar \in Curves
      BY <1>0, <2>1, <2>2 DEF Asks, Begins, ServiceTypes
    <3>3. ref' \in Ending /\ ref'.pc = "fetched" /\ ref'.degraded
      BY <2>1, <3>1, <3>2 DEF Ending, Begins
    <3> QED  BY <1>2, <1>z, <2>1, <3>3, RefMoves DEF HistoryRead
  <2>3. CASE ref.site # Nowhere
    <3>1. ref' = [ref EXCEPT !.pc = "zone"]  BY <1>2, <2>3 DEF HistoryRead
    <3>2. ref' \in Begins /\ ref'.pc = "zone"  BY <2>1, <3>1 DEF Begins
    <3> QED  BY <1>2, <1>z, <2>1, <3>2, RefMoves DEF HistoryRead
  <2> QED  BY <2>2, <2>3
<1>3. CASE HistoryFails
  <2>1. /\ ref' = Idle /\ UNCHANGED <<config, zoneVars, bundle, learnedVars, during>>
    BY <1>3 DEF HistoryFails
  <2>2. ServiceTypes' /\ RefTypes' /\ Asks' /\ Curve' /\ Kept'
    BY <1>0, <2>1 DEF ServiceTypes, RefTypes, Asks, Curve, Kept, Idle
  <2> QED  BY <1>0, <2>1, <2>2 DEF ForecastInv, site_tz
<1>4. CASE AskZone
  <2>1. ref \in Begins /\ ref.pc = "zone"  BY <1>0, <1>4, RefAt DEF AskZone
  <2>2. config.place \in Places  BY <1>0, ConfigFields DEF ServiceTypes
  <2>3. ref' \in AskingZone /\ ref'.pc = "asked"
    BY <1>4, <2>1, <2>2 DEF AskZone, Begins, AskingZone
  <2> QED  BY <1>4, <1>z, <2>1, <2>3, RefMoves DEF AskZone
<1>5. CASE ZoneKnown
  <2>1. ref \in Begins  BY <1>0, <1>5, RefAt DEF ZoneKnown
  <2> QED  BY <1>5, <1>z, <2>1, FetchInv DEF ZoneKnown
<1>6. CASE ZoneAnswered
  <2>1. ref \in AskingZone  BY <1>0, <1>6, RefAt DEF ZoneAnswered
  <2>2. Zone[ref.asked] \in SomeZone  BY <2>1 DEF AskingZone, SomeZone, Zones
  <2> QED  BY <1>6, <2>1, <2>2, FetchInv DEF ZoneAnswered
<1>7. CASE ZoneFails
  <2>1. ref \in AskingZone  BY <1>0, <1>7, RefAt DEF ZoneFails
  <2> QED  BY <1>7, <1>z, <2>1, FetchInv DEF ZoneFails
<1>8. CASE TempArrives \/ TempFails
  <2>1. ref \in Fetching /\ ref.pc = "fetch"
    BY <1>0, <1>8, RefAt DEF TempArrives, TempFails
  <2>2. tempHint' \in SomeZone
    BY <1>8, <1>z, <2>1 DEF TempArrives, TempFails, Fetching
  <2>3. /\ ref' \in Fetching /\ ref'.pc = "fetch" /\ ref'.solarDone = ref.solarDone
        /\ ref'.place = ref.place /\ ref'.solar = ref.solar
        /\ (~ref'.degraded => ~ref.degraded)
    BY <1>8, <2>1 DEF TempArrives, TempFails, Fetching
  <2>4. UNCHANGED <<config, resolved, solarHint, loadZone, bundle, learnedVars, during>>
    BY <1>8 DEF TempArrives, TempFails
  <2>5. ref'.solarDone \/ ref'.place \in during  BY <1>0, <2>1, <2>3 DEF Asks
  <2>6. ref'.solarDone /\ ~ref'.degraded => ref'.solar \in during \cup {Solcast}
    BY <1>0, <2>1, <2>3 DEF Curve
  <2> QED  BY <1>z, <2>1, <2>2, <2>3, <2>4, <2>5, <2>6, RefMoves
<1>9. CASE SolarArrives
  <2>1. ref \in Fetching /\ ref.pc = "fetch" /\ ref.place \in during
    BY <1>0, <1>9, RefAt DEF SolarArrives, Asks
  <2>2. /\ ref' \in Fetching /\ ref'.pc = "fetch" /\ ref'.solarDone
        /\ ref'.solar \in during \cup {Solcast}
        /\ solarHint' \in SomeZone
    <3>1. ref.zone \in SomeZone /\ ref.place \in Curves /\ Solcast \in Curves
      BY <2>1 DEF Fetching, Curves
    <3>2. /\ solarHint' \in {solarHint, ref.zone}
          /\ \E curve \in {Solcast, ref.place} :
               ref' = [ref EXCEPT !.solarDone = TRUE, !.solar = curve]
      BY <1>9 DEF SolarArrives
    <3>3. PICK curve \in {Solcast, ref.place} :
             ref' = [ref EXCEPT !.solarDone = TRUE, !.solar = curve]
      BY <3>2
    <3>4. curve \in Curves /\ curve \in during \cup {Solcast}
      BY <2>1, <3>1, <3>3
    <3>5. ref' \in Fetching
      BY <2>1, <3>3, <3>4 DEF Fetching
    <3>6. ref'.pc = "fetch" /\ ref'.solarDone /\ ref'.solar = curve
      BY <2>1, <3>3 DEF Fetching
    <3> QED  BY <1>z, <3>1, <3>2, <3>4, <3>5, <3>6
  <2> QED  BY <1>9, <1>z, <2>1, <2>2, RefMoves DEF SolarArrives
<1>10. CASE SolcastFails
  <2>1. /\ ref \in Fetching /\ ref.pc = "fetch" /\ ~ref.solarDone
        /\ config.place \in during
    BY <1>0, <1>10, RefAt DEF SolcastFails, Asks
  <2>2. config.place \in Places /\ SiteZone(config, Zone[config.place]) \in SomeZone
    BY <1>0, ConfigFields DEF ServiceTypes
  <2>3. /\ ref' \in Fetching /\ ref'.pc = "fetch" /\ ref'.place = config.place
        /\ ref'.solarDone = ref.solarDone
    BY <1>10, <2>1, <2>2 DEF SolcastFails, Fetching
  <2> QED  BY <1>10, <1>z, <2>1, <2>3, RefMoves DEF SolcastFails
<1>11. CASE SolarFails
  <2>1. ref \in Fetching /\ ref.pc = "fetch"  BY <1>0, <1>11, RefAt DEF SolarFails
  <2>2. bundle.solar \in Curves  BY <1>0 DEF ServiceTypes
  <2>3. ref' \in Fetching /\ ref'.pc = "fetch" /\ ref'.solarDone /\ ref'.degraded
    BY <1>11, <2>1, <2>2 DEF SolarFails, KeepCurve, Fetching
  <2>4. solarHint' \in SomeZone  BY <1>11, <1>z, <2>1 DEF SolarFails, Fetching
  <2> QED  BY <1>11, <1>z, <2>1, <2>3, <2>4, RefMoves DEF SolarFails
<1>12. CASE Fetched
  <2>1. ref \in Fetching /\ ref.pc = "fetch" /\ ref.solarDone
    BY <1>0, <1>12, RefAt DEF Fetched
  <2>2. /\ ref' \in Ending /\ ref'.pc = "fetched" /\ ref'.solar = ref.solar
        /\ ref'.degraded = ref.degraded
    BY <1>12, <2>1 DEF Fetched, Fetching, Ending
  <2>3. ~ref'.degraded => ref'.solar \in during \cup {Solcast}
    BY <1>0, <2>1, <2>2 DEF Curve
  <2> QED  BY <1>12, <1>z, <2>1, <2>2, <2>3, RefMoves DEF Fetched
<1>13. CASE RefreshEnds  BY <1>13, RefreshEndsInv
<1>14. ASSUME NEW c \in Configs, Reconfigure(c) PROVE ForecastInv'
  <2>1. /\ config' = c /\ loadZone' = SiteZone(c, resolved')
        /\ during' = IF ref = Idle THEN during ELSE during \cup {c.place}
        /\ UNCHANGED <<solarHint, tempHint, bundle, ref, learnedVars>>
    BY <1>14 DEF Reconfigure
  <2>2. resolved' \in SomeZone  BY <1>14, <1>z DEF Reconfigure, SomeZone
  <2>3. during \in SUBSET Places /\ during' \in SUBSET Places /\ during \subseteq during'
        /\ (ref # Idle => c.place \in during')
    BY <1>0, <2>1, ConfigFields DEF ServiceTypes
  <2>4. ServiceTypes'  BY <1>0, <2>1, <2>2, <2>3 DEF ServiceTypes
  <2>5. RefTypes' /\ Kept'  BY <1>0, <2>1 DEF RefTypes, Kept
  <2>6. Asks' /\ Curve'  BY <1>0, <2>1, <2>3 DEF Asks, Curve, Idle
  <2> QED  BY <2>1, <2>4, <2>5, <2>6 DEF ForecastInv, site_tz
<1>15. ASSUME NEW withBlob \in BOOLEAN, NEW loads \in BOOLEAN, NEW wasLocked \in BOOLEAN,
              ImportModel(withBlob, loads, wasLocked)
       PROVE  ForecastInv'
  <2>1. /\ ref = Idle
        /\ ml' = IF withBlob /\ loads THEN "imported" ELSE ml
        /\ locked' = (withBlob \/ wasLocked)
        /\ kept' = ((withBlob /\ loads) \/ (kept /\ locked'))
        /\ save_model(export_model(ml', locked'))
        /\ UNCHANGED <<config, zoneVars, bundle, ref, during>>
    BY <1>15 DEF ImportModel
  <2>2. ml' \in Models /\ locked' \in BOOLEAN /\ kept' \in BOOLEAN
    BY <1>0, <2>1 DEF ServiceTypes, Models
  <2>3. model' \in {Nothing, Torn} \cup [ml : Models, locked : BOOLEAN]
    BY <1>0, <2>1, <2>2, SavesModel DEF ServiceTypes
  <2>4. ServiceTypes'  BY <1>0, <2>1, <2>2, <2>3 DEF ServiceTypes
  <2>5. Kept'  BY <1>0, <2>1 DEF Kept, Idle
  <2>6. RefTypes' /\ Asks' /\ Curve'  BY <1>0, <2>1 DEF RefTypes, Asks, Curve
  <2> QED  BY <1>0, <2>1, <2>4, <2>5, <2>6 DEF ForecastInv, site_tz
<1>16. CASE RetrainBegins
  <2>1. ServiceTypes' /\ RefTypes' /\ Asks' /\ Curve' /\ Kept'
    BY <1>0, <1>16 DEF RetrainBegins, ServiceTypes, RefTypes, Asks, Curve, Kept
  <2> QED  BY <1>0, <1>16, <2>1 DEF RetrainBegins, ForecastInv, site_tz
<1>17. CASE RetrainEnds
  <2>1. /\ ref.pc = "retrain" /\ ref' = Idle /\ ml' \in {ml, "own"}
        /\ save_model(export_model(ml', locked))
        /\ UNCHANGED <<config, zoneVars, bundle, locked, kept, during>>
    BY <1>17 DEF RetrainEnds
  <2>2. ml' \in Models /\ locked \in BOOLEAN  BY <1>0, <2>1 DEF ServiceTypes, Models
  <2>3. model' \in {Nothing, Torn} \cup [ml : Models, locked : BOOLEAN]
    BY <1>0, <2>1, <2>2, SavesModel DEF ServiceTypes
  <2>4. ServiceTypes'  BY <1>0, <2>1, <2>2, <2>3 DEF ServiceTypes
  <2>5. RefTypes' /\ Asks' /\ Curve' /\ Kept'
    BY <1>0, <2>1 DEF RefTypes, Asks, Curve, Kept, Idle
  <2> QED  BY <1>0, <2>1, <2>4, <2>5 DEF ForecastInv, site_tz
<1>18. CASE Restart
  <2>1. ref' \in Begins /\ ref'.pc = "history" /\ (ref'.site = Nowhere => ref'.degraded)
    BY <1>0, <1>18, BegunAsks DEF Restart, ServiceTypes
  <2>2. /\ resolved' = Unknown /\ solarHint' = Unknown /\ tempHint' = Unknown
        /\ loadZone' = SiteZone(config, Unknown)
        /\ bundle' = NoBundle /\ during' = {config.place}
        /\ UNCHANGED <<config, model>>
    BY <1>18 DEF Restart
  <2>3. config.place \in Places  BY <1>0, ConfigFields DEF ServiceTypes
  <2>4. ml' \in Models /\ locked' \in BOOLEAN /\ kept' \in BOOLEAN
        /\ (kept' => ml' = "imported" /\ locked')
    <3>1. CASE model \in {Nothing, Torn}
      BY <1>18, <3>1 DEF Restart, Models
    <3>2. CASE model \notin {Nothing, Torn}
      <4>1. model.ml \in Models /\ model.locked \in BOOLEAN
        BY <1>0, <3>2 DEF ServiceTypes
      <4> QED  BY <1>0, <1>18, <3>2, <4>1 DEF Restart, ServiceTypes
    <3> QED  BY <3>1, <3>2
  <2>5. ServiceTypes'
    BY <1>0, <2>2, <2>3, <2>4 DEF ServiceTypes, SomeZone, NoBundle, Curves
  <2>6. RefTypes' /\ Asks' /\ Curve' /\ Kept'
    BY <2>1, <2>2, <2>4 DEF RefTypes, Asks, Curve, Kept, NoBundle
  <2> QED  BY <2>2, <2>5, <2>6 DEF ForecastInv, site_tz
<1>19. CASE UNCHANGED forecastVars
  <2>1. ServiceTypes' /\ RefTypes' /\ Asks' /\ Curve' /\ Kept'
    BY <1>0, <1>19 DEF forecastVars, ServiceTypes, RefTypes, Asks, Curve, Kept
  <2> QED  BY <1>0, <1>19, <2>1 DEF forecastVars, ForecastInv, site_tz
<1> QED
  BY <1>1, <1>2, <1>3, <1>4, <1>5, <1>6, <1>7, <1>8, <1>9, <1>10, <1>11, <1>12, <1>13,
     <1>14, <1>15, <1>16, <1>17, <1>18, <1>19 DEF ForecastNext, RefreshStep

(* Whatever is configured, fetched, imported, retrained and restarted, and *)
(* however these fall between the awaits of a refresh: a forecast that     *)
(* does not call itself degraded has a curve of that refresh, the load     *)
(* profile is in the zone the service computes in, and an imported model   *)
(* predicts until a Retrain (forecast/service.py, solar.py, ml_load.py).   *)
THEOREM ForecastsAreTrusted == ForecastSpec => []ForecastTrusted
<1>1. ForecastInit => ForecastInv  BY ForecastInit_Inv
<1>2. ForecastInv /\ [ForecastNext]_forecastVars => ForecastInv'  BY ForecastStep_Inv
<1>3. ForecastInv => ForecastTrusted
  <2> SUFFICES ASSUME ForecastInv PROVE ForecastTrusted
    OBVIOUS
  <2>0. ServiceTypes /\ RefTypes /\ Curve /\ Kept /\ loadZone = site_tz
    BY DEF ForecastInv
  <2>1. loadZone \in SomeZone  BY <2>0, ConfigFields DEF ServiceTypes, site_tz
  <2>2. ForecastTypeOK
    BY <2>0, <2>1, RefAt DEF ServiceTypes, ForecastTypeOK, SomeZone, Curves, Models
  <2> QED  BY <2>0, <2>2 DEF ForecastTrusted, Curve, Kept
<1> QED  BY <1>1, <1>2, <1>3, PTL DEF ForecastSpec
=============================================================================
