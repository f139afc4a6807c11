---------------------------- MODULE EngineProofs -----------------------------
(***************************************************************************)
(* Proofs about DecisionCycle: what a decision is worth for every          *)
(* configuration and every input, and that nothing jumps from one cycle    *)
(* to the next; and about GridHistory: that the statistics of the grid,    *)
(* which a decision reads, say what happened.                              *)
(***************************************************************************)
EXTENDS DecisionCycle, GridHistory, FiniteSetTheorems, SequenceTheorems, TLAPS

-----------------------------------------------------------------------------
(* Finite sets and recursion over the hours.                               *)

(* Mathematical induction, for a set of numbers. *)
LEMMA Induction ==
    ASSUME NEW M, 0 \in M, \A n \in Nat : n \in M => n + 1 \in M
    PROVE  Nat \subseteq M
<1> DEFINE T == Nat \ M
<1> SUFFICES ASSUME T # {} PROVE FALSE  OBVIOUS
<1>1. PICK n \in T : \A y \in T : ~(<<y, n>> \in OpToRel(<, Nat))
  <2>1. IsWellFoundedOn(OpToRel(<, Nat), Nat)  BY NatLessThanWellFounded
  <2>2. T \subseteq Nat  OBVIOUS
  <2> HIDE DEF T
  <2> QED  BY <2>1, <2>2, WFMin
<1>2. n # 0 /\ n \in Nat  OBVIOUS
<1>3. n - 1 \in Nat /\ n - 1 < n  BY <1>2
<1>4. n - 1 \notin T  BY <1>1, <1>3, <1>2 DEF OpToRel
<1> QED  BY <1>3, <1>4

(* A sum over a finite set of indices adds them one by one, in any order,   *)
(* although the recursion that defines it picks them in an unknown one.     *)
Adds(g, f, S) ==
    /\ g \in [SUBSET S -> Int] /\ g[{}] = 0 /\ SumFunctionOnSet(f, S) = g[S]
    /\ \A s \in SUBSET S : \A x \in s : g[s] = f[x] + g[s \ {x}]

LEMMA SumUnfolds ==
    ASSUME NEW S, IsFiniteSet(S), NEW f, \A x \in S : f[x] \in Int
    PROVE  \E g : Adds(g, f, S)
<1> DEFINE D(n) == {s \in SUBSET S : Cardinality(s) <= n}
           one(s) == CHOOSE x \in s : TRUE
           Step(g, s) == IF s = {} THEN 0 ELSE f[one(s)] + g[s \ {one(s)}]
           Rec(g, E) == g = [s \in E |-> Step(g, s)]
           iter == CHOOSE g : Rec(g, SUBSET S)
<1>1. SumFunctionOnSet(f, S) = iter[S]
  BY DEF SumFunctionOnSet, FoldFunctionOnSet, MapThenFoldSet
<1>2. \A n \in Nat : \A s \in D(n + 1) : s # {} => s \ {one(s)} \in D(n)
  <2> SUFFICES ASSUME NEW n \in Nat, NEW s \in D(n + 1), s # {}
               PROVE  s \ {one(s)} \in D(n)
    OBVIOUS
  <2>1. IsFiniteSet(s) /\ one(s) \in s  BY FS_Subset
  <2>2. Cardinality(s \ {one(s)}) = Cardinality(s) - 1  BY <2>1, FS_RemoveElement
  <2>3. Cardinality(s) \in Nat  BY <2>1, FS_CardinalityType
  <2> QED  BY <2>2, <2>3
<1>3. \A s \in SUBSET S : IsFiniteSet(s) /\ Cardinality(s) \in Nat
  BY FS_Subset, FS_CardinalityType
<1>4. D(0) = {{}}
  <2>1. \A s \in SUBSET S : Cardinality(s) = 0 <=> s = {}  BY <1>3, FS_EmptySet
  <2>2. \A s \in SUBSET S : Cardinality(s) <= 0 <=> s = {}  BY <1>3, <2>1
  <2> QED  BY <2>2
<1>5. D(Cardinality(S)) = SUBSET S /\ Cardinality(S) \in Nat
  BY FS_Subset, FS_CardinalityType
<1>6. \A n \in Nat : D(n) \subseteq D(n + 1)
  <2> SUFFICES ASSUME NEW n \in Nat, NEW s \in D(n) PROVE s \in D(n + 1)
    OBVIOUS
  <2>1. Cardinality(s) \in Nat /\ s \in SUBSET S /\ Cardinality(s) <= n  BY <1>3
  <2>2. Cardinality(s) <= n + 1  BY <2>1
  <2> QED  BY <2>1, <2>2
<1> HIDE DEF D, one
<1> DEFINE M == {n \in Nat : \E g : Rec(g, D(n))}
<1>a. 0 \in M
  <2>1. Rec([s \in D(0) |-> 0], D(0))  BY <1>4
  <2> QED  BY <2>1
<1>b. \A n \in Nat : n \in M => n + 1 \in M
  <2>1. ASSUME NEW n \in Nat, NEW g, Rec(g, D(n))
        PROVE  \E h : Rec(h, D(n + 1))
    <3> DEFINE h == [s \in D(n + 1) |-> Step(g, s)]
    <3>1. \A s \in D(n) : h[s] = g[s]  BY <1>6, <2>1
    <3>2. ASSUME NEW s \in D(n + 1) PROVE Step(h, s) = Step(g, s)
      <4>1. s # {} => h[s \ {one(s)}] = g[s \ {one(s)}]  BY <1>2, <3>1
      <4> HIDE DEF h
      <4> QED  BY <4>1
    <3>3. Rec(h, D(n + 1))  BY <3>2
    <3> QED  BY <3>3
  <2> HIDE DEF Rec
  <2> QED  BY <2>1
<1>7. Rec(iter, SUBSET S)
  <2>1. Cardinality(S) \in M  BY <1>5, <1>a, <1>b, Induction
  <2> QED  BY <2>1, <1>5
<1> HIDE DEF iter
<1> DEFINE I == {n \in Nat : \A s \in D(n) : iter[s] \in Int}
<1>8. 0 \in I  BY <1>4, <1>7
<1>9. \A n \in Nat : n \in I => n + 1 \in I
  <2> SUFFICES ASSUME NEW n \in I, NEW s \in D(n + 1) PROVE iter[s] \in Int
    OBVIOUS
  <2>1. s \in SUBSET S  BY DEF D
  <2>2. iter[s] = Step(iter, s)  BY <2>1, <1>7
  <2>3. CASE s = {}  BY <2>2, <2>3
  <2>4. CASE s # {}
    <3>1. one(s) \in S  BY <2>1, <2>4 DEF one
    <3>2. iter[s \ {one(s)}] \in Int  BY <1>2, <2>4
    <3> QED  BY <3>1, <3>2, <2>2, <2>4
  <2> QED  BY <2>3, <2>4
<1>10. \A s \in SUBSET S : iter[s] \in Int
  <2>1. Cardinality(S) \in I  BY <1>5, <1>8, <1>9, Induction
  <2> QED  BY <2>1, <1>5
<1> DEFINE Splits(n) == \A s \in D(n) : \A x \in s : iter[s] = f[x] + iter[s \ {x}]
           R == {n \in Nat : Splits(n)}
<1>11. 0 \in R  BY <1>4
<1>12. ASSUME NEW n \in Nat, Splits(n) PROVE Splits(n + 1)
  <2> SUFFICES ASSUME NEW s \in D(n + 1), NEW x \in s
               PROVE  iter[s] = f[x] + iter[s \ {x}]
    OBVIOUS
  <2> DEFINE y == one(s)
  <2>1. s \in SUBSET S  BY DEF D
  <2>2. y \in s  BY DEF one
  <2>3. iter[s] = f[y] + iter[s \ {y}]  BY <2>1, <1>7
  <2>4. CASE x = y  BY <2>3, <2>4
  <2>5. CASE x # y
    <3>1. s \ {y} \in D(n)  BY <1>2
    <3> DEFINE z == (s \ {x}) \ {y}
    <3>2. s \ {x} \in D(n)
      <4>1. Cardinality(s \ {x}) = Cardinality(s) - 1 /\ Cardinality(s) \in Nat
        BY <2>1, <1>3, FS_RemoveElement
      <4>2. Cardinality(s) <= n + 1  BY DEF D
      <4> QED  BY <2>1, <4>1, <4>2 DEF D
    <3>3. (s \ {y}) \ {x} = z /\ z \in SUBSET S  BY <2>1
    <3>4. iter[s \ {y}] = f[x] + iter[z]  BY <1>12, <2>5, <3>1, <3>3
    <3>5. iter[s \ {x}] = f[y] + iter[z]  BY <1>12, <2>2, <2>5, <3>2
    <3>6. f[x] \in Int /\ f[y] \in Int /\ iter[z] \in Int  BY <2>1, <2>2, <3>3, <1>10
    <3>7. iter[s] = f[y] + (f[x] + iter[z])  BY <2>3, <3>4
    <3>8. f[x] + iter[s \ {x}] = f[x] + (f[y] + iter[z])  BY <3>5
    <3> HIDE DEF y, z
    <3> QED  BY <3>6, <3>7, <3>8
  <2> QED  BY <2>4, <2>5
<1>13. \A s \in SUBSET S : \A x \in s : iter[s] = f[x] + iter[s \ {x}]
  <2> HIDE DEF Splits
  <2>1. \A n \in Nat : n \in R => n + 1 \in R  BY <1>12
  <2>2. Cardinality(S) \in R
    <3> HIDE DEF R
    <3> QED  BY <1>5, <1>11, <2>1, Induction
  <2> QED  BY <2>2, <1>5 DEF Splits
<1>14. iter \in [SUBSET S -> Int] /\ iter[{}] = 0
  <2>1. iter = [s \in SUBSET S |-> Step(iter, s)]  BY <1>7
  <2>2. iter = [s \in SUBSET S |-> iter[s]]
    <3> HIDE DEF Step
    <3> QED  BY <2>1
  <2> QED  BY <2>1, <2>2, <1>10
<1> QED  BY <1>1, <1>13, <1>14 DEF Adds

LEMMA SumIsInt ==
    ASSUME NEW S, IsFiniteSet(S), NEW f, \A x \in S : f[x] \in Int
    PROVE  SumFunctionOnSet(f, S) \in Int
<1>1. PICK g : Adds(g, f, S)  BY SumUnfolds
<1> QED  BY <1>1 DEF Adds

(* A finite set of integers has a greatest element. *)
LEMMA MaxExists ==
    ASSUME NEW S, IsFiniteSet(S), S # {}, S \subseteq Int
    PROVE  Max(S) \in S /\ \A y \in S : y <= Max(S)
<1> DEFINE Greatest(T) == \E x \in T : \A y \in T : x >= y
           M == {n \in Nat : \A T \in SUBSET S : T # {} /\ Cardinality(T) = n => Greatest(T)}
<1>1. \A T \in SUBSET S : IsFiniteSet(T) /\ Cardinality(T) \in Nat
  BY FS_Subset, FS_CardinalityType
<1>2. 0 \in M  BY <1>1, FS_EmptySet
<1>3. \A n \in Nat : n \in M => n + 1 \in M
  <2> SUFFICES ASSUME NEW n \in M, NEW T \in SUBSET S, T # {}, Cardinality(T) = n + 1
               PROVE  Greatest(T)
    OBVIOUS
  <2>1. PICK x \in T : TRUE  OBVIOUS
  <2>2. Cardinality(T \ {x}) = n  BY <1>1, <2>1, FS_RemoveElement
  <2>3. CASE T \ {x} = {}  BY <2>3, <2>1
  <2>4. CASE T \ {x} # {}
    <3>1. PICK m \in T \ {x} : \A y \in T \ {x} : m >= y  BY <2>2, <2>4
    <3>2. CASE m >= x  BY <3>1, <3>2
    <3>3. CASE x >= m  BY <3>1, <3>3, <2>1
    <3> QED  BY <3>1, <3>2, <3>3
  <2> QED  BY <2>3, <2>4
<1>4. Cardinality(S) \in M  BY <1>1, <1>2, <1>3, Induction
<1>5. \E x \in S : \A y \in S : x >= y  BY <1>1, <1>4
<1> QED  BY <1>5 DEF Max

LEMMA ImageIsFinite ==
    ASSUME NEW S, IsFiniteSet(S), NEW f
    PROVE  IsFiniteSet({f[s] : s \in S})
<1> DEFINE g == [s \in S |-> f[s]]
<1>1. g \in Surjection(S, {f[s] : s \in S})  BY DEF Surjection
<1> QED  BY <1>1, FS_Surjection

(* A set of natural numbers has a least element. *)
LEMMA MinExists ==
    ASSUME NEW S, S # {}, S \subseteq Nat
    PROVE  Min(S) \in S /\ \A y \in S : Min(S) <= y
<1>1. PICK x \in S : \A y \in S : ~(<<y, x>> \in OpToRel(<, Nat))
  BY NatLessThanWellFounded, WFMin
<1>2. ASSUME NEW y \in S PROVE x =< y
  <2>1. x \in Nat /\ y \in Nat  OBVIOUS
  <2>2. ~(y < x)  BY <1>1, <2>1 DEF OpToRel
  <2> QED  BY <2>1, <2>2
<1>3. \E m \in S : \A y \in S : m =< y  BY <1>2
<1> QED  BY <1>3 DEF Min

-----------------------------------------------------------------------------
(* Numbers: division rounds down, and keeps the order.                      *)

LEMMA DivType == ASSUME NEW a \in Int, NEW n \in Nat \ {0} PROVE a \div n \in Int
  OBVIOUS

LEMMA DivBounds ==
    ASSUME NEW a \in Int, NEW n \in Nat \ {0}
    PROVE  n * (a \div n) <= a /\ a < n * (a \div n) + n
  OBVIOUS

LEMMA TimesMono ==
    ASSUME NEW a \in Int, NEW b \in Int, NEW c \in Nat, a <= b
    PROVE  a * c <= b * c /\ c * a <= c * b
  OBVIOUS

LEMMA DivMono ==
    ASSUME NEW a \in Int, NEW b \in Int, NEW n \in Nat \ {0}, a <= b
    PROVE  a \div n <= b \div n
  OBVIOUS

(* A fraction that is at least as large takes at least as much of m. *)
LEMMA RatioMono ==
    ASSUME NEW m \in Nat, NEW g \in Nat, NEW h \in Nat,
           NEW n \in Nat \ {0}, NEW k \in Nat \ {0}, g * k <= h * n
    PROVE  (m * g) \div n <= (m * h) \div k
  OBVIOUS

LEMMA PartType ==
    ASSUME NEW x \in Int, NEW s \in Int
    PROVE  Part(x, s) \in Int /\ (x >= 0 /\ s >= 0 => Part(x, s) >= 0)
  BY DEF Part, Full

LEMMA PartMono ==
    ASSUME NEW x \in Nat, NEW s \in Int, NEW t \in Int, s <= t
    PROVE  Part(x, s) <= Part(x, t)
  BY TimesMono, DivMono DEF Part, Full

LEMMA PartWhole ==
    ASSUME NEW x \in Nat, NEW s \in Int, s <= Full
    PROVE  Part(x, s) <= x
  BY DEF Part, Full

LEMMA ClampedType ==
    ASSUME NEW x \in Int, NEW lo \in Int, NEW hi \in Int
    PROVE  /\ Clamped(x, lo, hi) \in Int
           /\ Clamped(x, lo, hi) >= lo
           /\ lo <= hi => Clamped(x, lo, hi) <= hi
  BY DEF Clamped, Most, Least

LEMMA ClampedMono ==
    ASSUME NEW x \in Int, NEW y \in Int, NEW lo \in Int, NEW hi \in Int, x <= y
    PROVE  Clamped(x, lo, hi) <= Clamped(y, lo, hi)
  BY DEF Clamped, Most, Least

-----------------------------------------------------------------------------
(* The priorities.                                                          *)

LEMMA WeightsType ==
    ASSUME NEW o \in Orders
    PROVE  \A p \in Priority : resolve_weights(o)[p] \in {10000, 4000, 1500}
<1> SUFFICES ASSUME NEW p \in Priority PROVE resolve_weights(o)[p] \in {10000, 4000, 1500}
  OBVIOUS
<1>1. \E i \in 1..3 : o[i] = p
  BY DEF Orders, Priority
<1>2. PICK i \in 1..3 : i = (CHOOSE j \in 1..3 : o[j] = p)
  BY <1>1
<1>3. \A n \in 1..3 : RANK_WEIGHTS[n] \in {10000, 4000, 1500}
  BY DEF RANK_WEIGHTS
<1>4. resolve_weights(o)[p] = RANK_WEIGHTS[i]
  BY <1>2 DEF resolve_weights
<1> QED  BY <1>3, <1>4

LEMMA ScaleType ==
    ASSUME NEW o \in Orders, NEW p \in Priority
    PROVE  priority_scale(resolve_weights(o), p) \in Nat
<1>1. DEFAULT_PRIORITY_ORDER \in Orders
  BY DEF DEFAULT_PRIORITY_ORDER, Orders, Priority
<1>2. \A a \in {10000, 4000, 1500}, b \in {10000, 4000, 1500} : (a * Full) \div b \in Nat
  BY DEF Full
<1> QED  BY <1>1, <1>2, WeightsType DEF priority_scale

(* Blending keeps the order of what it weakens; savings, which lifts the    *)
(* grid window, has the same window to lift.                                *)
LEMMA BlendMono ==
    ASSUME NEW o \in Orders, NEW f \in Factors, NEW max \in Nat,
           NEW r \in 0 .. max, NEW s \in 0 .. max, r <= s,
           f = "grid_window" => r = s
    PROVE  LET b(raw) == blend_ceiling(raw, max, resolve_weights(o), f)
           IN  b(r) \in Int /\ b(s) \in Int /\ b(r) <= b(s)
<1> DEFINE W == resolve_weights(o)
           scale == priority_scale(W, FACTOR_BLEND[f])
           lift == Clamped(scale - Full, 0, Full)
           share == Clamped(scale, 0, Full)
<1>1. FACTOR_BLEND[f] \in Priority /\ (FACTOR_BLEND[f] = "savings" => f = "grid_window")
  BY DEF FACTOR_BLEND, Priority, Factors
<1>2. scale \in Nat  BY <1>1, ScaleType
<1> HIDE DEF scale
<1>3. lift \in Int /\ share \in Nat  BY <1>2, ClampedType DEF Full
<1> HIDE DEF lift, share
<1>4. \A raw \in 0 .. max : /\ Part(max - raw, lift) \in Int
                           /\ Part(max - raw, share) \in Int
  BY <1>3, PartType
<1>5. Part(max - s, share) <= Part(max - r, share)
  <2>1. (max - s) * share <= (max - r) * share  BY <1>3, TimesMono
  <2> QED  BY <2>1, <1>3, DivMono DEF Part, Full
<1>6. \A raw \in 0 .. max :
        blend_ceiling(raw, max, W, f) =
            IF FACTOR_BLEND[f] = "savings" THEN raw + Part(max - raw, lift)
            ELSE max - Part(max - raw, share)
  BY DEF blend_ceiling, scale, lift, share
<1> QED  BY <1>1, <1>4, <1>5, <1>6

-----------------------------------------------------------------------------
(* The factors of the ramp.  What a context consists of, and when one needs *)
(* the grid at least as much as another: with no more in the battery, and   *)
(* no lower a target or risk, on the same side of the solar bridge.         *)

RampConfig(c) ==
    /\ c.order \in Orders /\ c.ramp \in BOOLEAN
    /\ c.floor \in Nat /\ c.capacity \in Nat /\ c.hoursLeft \in Nat /\ c.horizon \in Nat
    /\ c.volts \in Nat /\ c.cont \in Nat /\ c.safety \in Nat
    /\ c.min \in Nat /\ c.step \in Nat /\ c.off \in Nat

Context(x) ==
    /\ x.tel.soc \in Nat \cup {Unknown} /\ x.tel.grid \in BOOLEAN
    /\ x.tel.load \in Int /\ x.tel.pv \in Int /\ x.tel.battery \in Int
    /\ x.stats.avg \in Int /\ x.stats.remaining \in Int
    /\ Curve(x.fc.solar)
    /\ RampConfig(x.C) /\ x.W = resolve_weights(x.C.order)
    /\ x.bridge \in Nat /\ x.target \in Nat /\ x.C.floor <= x.target
    /\ x.score \in Nat /\ x.max \in Nat /\ x.last \in Nat \cup {Unknown}

SameConfig(c, d) ==
    /\ d.order = c.order /\ d.ramp = c.ramp /\ d.floor = c.floor
    /\ d.capacity = c.capacity /\ d.hoursLeft = c.hoursLeft /\ d.horizon = c.horizon
    /\ d.volts = c.volts /\ d.cont = c.cont /\ d.safety = c.safety
    /\ d.min = c.min /\ d.step = c.step /\ d.off = c.off

Needier(y, x) ==
    /\ SameConfig(x.C, y.C) /\ y.fc = x.fc /\ y.stats = x.stats
    /\ y.max = x.max /\ y.last = x.last /\ y.bridge = x.bridge
    /\ y.tel.grid = x.tel.grid /\ y.tel.load = x.tel.load
    /\ y.tel.pv = x.tel.pv /\ y.tel.battery = x.tel.battery
    /\ Percent(y.tel.soc) <= Percent(x.tel.soc)
    /\ Percent(y.tel.soc) < x.bridge => Percent(x.tel.soc) < x.bridge
    /\ x.target <= y.target /\ x.score <= y.score

LEMMA PercentType == ASSUME NEW x, Context(x) PROVE Percent(x.tel.soc) \in Nat
<1>1. x.tel.soc \in Nat \cup {Unknown}  BY DEF Context
<1> QED  BY <1>1 DEF Percent, Known

(* Watt-hours in a percent of the battery. *)
LEMMA PerPercentType == ASSUME NEW x, Context(x) PROVE x.C.capacity \div 100 \in Nat
<1>1. \A n \in Nat : n \div 100 \in Nat  OBVIOUS
<1>2. x.C.capacity \in Nat  BY DEF Context, RampConfig
<1> QED  BY <1>1, <1>2

LEMMA SocGap ==
    ASSUME NEW x, Context(x)
    PROVE  _eval_soc_gap(x) \in Int
<1> DEFINE span == Most(x.target - x.C.floor, 1)
           gap == Clamped(x.target - Percent(x.tel.soc), 0, span)
<1>1. span \in Nat \ {0}  BY DEF Context, RampConfig, Most
<1>2. gap \in Nat
  <2> DEFINE d == x.target - Percent(x.tel.soc)
  <2>1. d \in Int  BY PercentType DEF Context
  <2> HIDE DEF span, d
  <2>2. Clamped(d, 0, span) \in Nat  BY <1>1, <2>1 DEF Clamped, Most, Least
  <2> QED  BY <2>2 DEF d
<1>3. x.max \in Nat  BY DEF Context
<1>4. _eval_soc_gap(x) = (x.max * gap) \div span  BY DEF _eval_soc_gap
<1> HIDE DEF span, gap
<1> QED  BY <1>1, <1>2, <1>3, <1>4

LEMMA SocGapMono ==
    ASSUME NEW x, NEW y, Context(x), Context(y), Needier(y, x),
           Percent(x.tel.soc) < x.target
    PROVE  _eval_soc_gap(x) <= _eval_soc_gap(y)
<1> DEFINE S(z) == Most(z.target - z.C.floor, 1)
           Gap(z) == Clamped(z.target - Percent(z.tel.soc), 0, S(z))
<1>1. /\ x.C.floor \in Nat /\ y.C.floor = x.C.floor
      /\ x.target \in Nat /\ y.target \in Nat /\ x.target <= y.target
      /\ x.C.floor <= x.target /\ x.max \in Nat /\ y.max = x.max
      /\ Percent(x.tel.soc) \in Nat /\ Percent(y.tel.soc) \in Nat
      /\ Percent(y.tel.soc) <= Percent(x.tel.soc)
  BY PercentType DEF Context, RampConfig, Needier, SameConfig
<1>2. S(x) \in Nat \ {0} /\ S(y) \in Nat \ {0} /\ Gap(x) \in Nat /\ Gap(y) \in Nat
  BY <1>1 DEF Most, Least, Clamped
<1>3. Gap(x) * S(y) <= Gap(y) * S(x)
  <2>1. Gap(x) <= S(x)  BY <1>1 DEF Most, Least, Clamped
  <2>2. CASE Gap(y) = S(y)
    <3>1. Gap(x) * S(y) <= S(x) * S(y)  BY <1>2, <2>1, TimesMono
    <3> HIDE DEF S, Gap
    <3> QED  BY <3>1, <2>2, <1>2
  <2>3. CASE Gap(y) # S(y)
    <3> DEFINE f == x.C.floor
               a == x.target - f
               b == y.target - f
               s == Percent(x.tel.soc) - f
               t == Percent(y.tel.soc) - f
    <3>1. /\ Gap(y) = b - t /\ S(y) = b /\ S(x) = a /\ Gap(x) = a - s
          /\ 0 < t /\ t <= s /\ s < a /\ a <= b
      BY <1>1, <2>3 DEF Most, Least, Clamped
    <3>2. a \in Nat /\ b \in Nat /\ s \in Nat /\ t \in Nat  BY <1>1, <3>1
    <3> HIDE DEF S, Gap, f, a, b, s, t
    <3>3. t * a <= s * b
      <4>1. t * a <= s * a /\ s * a <= s * b  BY <3>1, <3>2, TimesMono
      <4> QED  BY <4>1, <3>2
    <3> QED  BY <3>1, <3>2, <3>3
  <2> QED  BY <2>2, <2>3
<1>4. _eval_soc_gap(x) = (x.max * Gap(x)) \div S(x) /\ _eval_soc_gap(y) = (y.max * Gap(y)) \div S(y)
  BY DEF _eval_soc_gap
<1> HIDE DEF S, Gap
<1> QED  BY <1>1, <1>2, <1>3, <1>4, RatioMono

LEMMA ComingType ==
    ASSUME NEW x, Context(x)
    PROVE  _remaining_solar_wh(x) \in Int
<1> DEFINE H == {h \in DOMAIN x.fc.solar : 0 < h /\ h <= x.C.hoursLeft}
<1>1. IsFiniteSet(H)  BY FS_Subset DEF Context, Curve
<1>2. \A h \in H : x.fc.solar[h] \in Int  BY DEF Context, Curve
<1> HIDE DEF H
<1>3. SumFunctionOnSet(x.fc.solar, H) \in Int  BY <1>1, <1>2, SumIsInt
<1> QED  BY <1>3 DEF _remaining_solar_wh, H

(* The ceiling by the sun still to come today, for what is needed of it. *)
SunCeiling(max, needed, coming) ==
    IF needed <= 0 \/ coming <= 0 \/ 10 * coming < 12 * Most(needed, 1) THEN max
    ELSE Part(max, Clamped((needed * Full) \div coming, 500, Full))

LEMMA SunCeilingMono ==
    ASSUME NEW max \in Nat, NEW n \in Int, NEW coming \in Int
    PROVE  /\ SunCeiling(max, n, coming) \in Int
           /\ \A m \in Int : n <= m /\ n > 0 =>
                SunCeiling(max, n, coming) <= SunCeiling(max, m, coming)
<1> DEFINE Share(k) == Clamped((k * Full) \div coming, 500, Full)
<1>1. ASSUME coming > 0, NEW k \in Int
      PROVE  Share(k) \in Nat /\ Share(k) <= Full
  <2>1. (k * Full) \div coming \in Int  BY <1>1, DivType DEF Full
  <2> DEFINE q == (k * Full) \div coming
  <2>2. q \in Int  BY <2>1
  <2> HIDE DEF q
  <2>3. Clamped(q, 500, Full) \in Nat /\ Clamped(q, 500, Full) <= Full
    BY <2>2 DEF Full, Clamped, Most, Least
  <2> QED  BY <2>3 DEF q
<1>2. ASSUME coming > 0, NEW k \in Int, NEW m \in Int, k <= m
      PROVE  Share(k) <= Share(m)
  <2>1. (k * Full) \div coming <= (m * Full) \div coming
    BY <1>2, DivMono, TimesMono DEF Full
  <2>2. (k * Full) \div coming \in Int /\ (m * Full) \div coming \in Int
    BY <1>2, DivType DEF Full
  <2> QED  BY <2>1, <2>2, ClampedMono DEF Full
<1>3. \A k \in Int : SunCeiling(max, k, coming) =
        IF k <= 0 \/ coming <= 0 \/ 10 * coming < 12 * Most(k, 1) THEN max
        ELSE Part(max, Share(k))
  BY DEF SunCeiling
<1> HIDE DEF Share
<1>4. ASSUME coming > 0, NEW k \in Int
      PROVE  Part(max, Share(k)) \in Int /\ Part(max, Share(k)) <= max
  BY <1>1, <1>4, PartType, PartWhole
<1>5. SunCeiling(max, n, coming) \in Int  BY <1>3, <1>4
<1>6. ASSUME NEW m \in Int, n <= m, n > 0
      PROVE  SunCeiling(max, n, coming) <= SunCeiling(max, m, coming)
  <2>1. CASE coming <= 0  BY <2>1, <1>3
  <2>2. CASE coming > 0
    <3>1. Part(max, Share(n)) <= Part(max, Share(m))
      BY <1>1, <1>2, <1>6, <2>2, PartMono
    <3>2. Most(n, 1) <= Most(m, 1) /\ Most(n, 1) \in Int /\ Most(m, 1) \in Int
      BY <1>6 DEF Most
    <3> QED  BY <1>3, <1>4, <1>6, <2>2, <3>1, <3>2
  <2> QED  BY <2>1, <2>2
<1> QED  BY <1>5, <1>6

LEMMA RemainingSolar ==
    ASSUME NEW x, Context(x)
    PROVE  _eval_remaining_solar_today(x) \in Int
<1> DEFINE needed == (x.target - Percent(x.tel.soc)) * (x.C.capacity \div 100)
<1>1. needed \in Int
  <2>1. x.target - Percent(x.tel.soc) \in Int  BY PercentType DEF Context
  <2> QED  BY <2>1, PerPercentType
<1>2. _eval_remaining_solar_today(x) = SunCeiling(x.max, needed, _remaining_solar_wh(x))
  BY DEF _eval_remaining_solar_today, SunCeiling
<1> HIDE DEF needed
<1> QED  BY <1>1, <1>2, ComingType, SunCeilingMono DEF Context

LEMMA RemainingSolarMono ==
    ASSUME NEW x, NEW y, Context(x), Context(y), Needier(y, x),
           Percent(x.tel.soc) < x.target
    PROVE  _eval_remaining_solar_today(x) <= _eval_remaining_solar_today(y)
<1> DEFINE N(z) == (z.target - Percent(z.tel.soc)) * (x.C.capacity \div 100)
<1>1. /\ x.target \in Nat /\ y.target \in Nat /\ x.target <= y.target /\ x.max \in Nat
      /\ Percent(x.tel.soc) \in Nat /\ Percent(y.tel.soc) \in Nat
      /\ Percent(y.tel.soc) <= Percent(x.tel.soc)
      /\ x.C.capacity \div 100 \in Nat
  BY PercentType, PerPercentType DEF Context, Needier
<1>2. N(x) \in Nat /\ N(y) \in Nat /\ N(x) <= N(y) /\ (x.C.capacity \div 100 = 0 => N(y) = 0)
  <2> DEFINE c == x.C.capacity \div 100
  <2> HIDE DEF c
  <2>1. x.target - Percent(x.tel.soc) <= y.target - Percent(y.tel.soc)  BY <1>1
  <2> QED  BY <1>1, <2>1, TimesMono DEF c
<1>3. x.C.capacity \div 100 # 0 => N(x) > 0
  BY <1>1
<1>4. /\ _eval_remaining_solar_today(x) = SunCeiling(x.max, N(x), _remaining_solar_wh(x))
      /\ _eval_remaining_solar_today(y) = SunCeiling(x.max, N(y), _remaining_solar_wh(x))
  BY DEF _eval_remaining_solar_today, _remaining_solar_wh, SunCeiling, Needier, SameConfig
<1> HIDE DEF N
<1>5. CASE x.C.capacity \div 100 = 0
  <2>1. N(x) = 0 /\ N(y) = 0  BY <1>2, <1>5
  <2> QED  BY <2>1, <1>4, <1>1 DEF SunCeiling
<1>6. CASE x.C.capacity \div 100 # 0
  <2>1. _remaining_solar_wh(x) \in Int  BY ComingType
  <2>2. N(x) \in Int /\ N(y) \in Int /\ N(x) > 0 /\ N(x) <= N(y)
    BY <1>2, <1>3, <1>6
  <2>3. SunCeiling(x.max, N(x), _remaining_solar_wh(x))
          <= SunCeiling(x.max, N(y), _remaining_solar_wh(x))
    BY <1>1, <2>1, <2>2, SunCeilingMono
  <2> QED  BY <2>3, <1>4
<1> QED  BY <1>5, <1>6

LEMMA WattsType == ASSUME NEW x, Context(x) PROVE MaxWatts(x) \in Nat
<1>1. x.max \in Nat /\ x.C.volts \in Nat  BY DEF Context, RampConfig
<1> QED  BY <1>1 DEF MaxWatts

LEMMA NextSolar ==
    ASSUME NEW x, Context(x)
    PROVE  _eval_next_solar_power(x) \in Int
<1> DEFINE near == {h \in DOMAIN x.fc.solar : 0 <= h /\ h <= x.C.horizon}
           S == {0} \cup {x.fc.solar[h] : h \in near}
           peak == Max(S)
           q == (peak * Full) \div Most(MaxWatts(x), 1)
<1>1. S \subseteq Int /\ S # {}  BY DEF Context, Curve
<1>2. IsFiniteSet(S)
  <2>1. IsFiniteSet(near)  BY FS_Subset DEF Context, Curve
  <2> HIDE DEF near
  <2>2. IsFiniteSet({x.fc.solar[h] : h \in near})  BY <2>1, ImageIsFinite
  <2>3. IsFiniteSet({0})  BY FS_Singleton
  <2> QED  BY <2>2, <2>3, FS_Union
<1> HIDE DEF S
<1>3. peak \in Int  BY <1>1, <1>2, MaxExists
<1> HIDE DEF peak
<1>4. Most(MaxWatts(x), 1) \in Nat \ {0}  BY WattsType DEF Most
<1>5. q \in Int  BY <1>3, <1>4, DivType DEF Full
<1> HIDE DEF q
<1>6. Clamped(Full - q, 1000, Full) \in Int  BY <1>5 DEF Full, Clamped, Most, Least
<1>7. x.max \in Nat  BY DEF Context
<1>8. Part(x.max, Clamped(Full - q, 1000, Full)) \in Int  BY <1>6, <1>7 DEF Part, Full
<1>9. _eval_next_solar_power(x) =
        IF peak <= 0 \/ 2 * peak < MaxWatts(x) THEN x.max
        ELSE Part(x.max, Clamped(Full - q, 1000, Full))
  BY DEF _eval_next_solar_power, near, S, peak, q
<1> QED  BY <1>7, <1>8, <1>9

LEMMA LoadPower ==
    ASSUME NEW x, Context(x)
    PROVE  _eval_load_power(x) \in Int
<1> DEFINE deficit == x.tel.load - x.tel.pv
           q == (deficit * Full) \div Most(MaxWatts(x), 1)
<1>1. x.max \in Nat /\ deficit \in Int  BY DEF Context
<1> HIDE DEF deficit
<1>2. Most(MaxWatts(x), 1) \in Nat \ {0}  BY WattsType DEF Most
<1>3. q \in Int  BY <1>1, <1>2, DivType DEF Full
<1> HIDE DEF q
<1>4. Clamped(q, 3000, Full) \in Int  BY <1>3 DEF Full, Clamped, Most, Least
<1>5. Part(x.max, Clamped(q, 3000, Full)) \in Int  BY <1>1, <1>4 DEF Part, Full
<1>6. x.max \div 4 \in Int  BY <1>1
<1>7. _eval_load_power(x) \in {x.max, x.max \div 4, Part(x.max, Clamped(q, 3000, Full))}
  BY <1>1 DEF _eval_load_power, deficit, q
<1> QED  BY <1>1, <1>5, <1>6, <1>7

LEMMA BatteryPower ==
    ASSUME NEW x, Context(x)
    PROVE  _eval_battery_power(x) \in Int
<1> DEFINE v == Most(x.C.volts, 1)
           q == x.tel.battery \div v
<1>1. x.max \in Nat /\ x.tel.battery \in Int  BY DEF Context
<1>2. v \in Nat \ {0}  BY DEF Context, RampConfig, Most
<1> HIDE DEF v
<1>3. q \in Int  BY <1>1, <1>2
<1> HIDE DEF q
<1>4. Most(0, x.max - q) \in Int  BY <1>1, <1>3 DEF Most
<1>5. _eval_battery_power(x) \in {x.max, Most(0, x.max - q)}
  BY DEF _eval_battery_power, v, q
<1> QED  BY <1>1, <1>4, <1>5

LEMMA GridWindow ==
    ASSUME NEW x, Context(x)
    PROVE  _eval_grid_window(x) \in Int
<1> DEFINE prior == trusted_window_minutes(x.stats.avg, x.C)
           window == IF Known(x.stats.remaining) THEN x.stats.remaining ELSE prior
           q == ((window - 20) * 6000) \div 160
<1>1. x.max \in Nat /\ x.stats.remaining \in Int /\ x.stats.avg \in Int
      /\ x.C.cont \in Nat /\ x.C.safety \in Nat
  BY DEF Context, RampConfig
<1>2. prior \in Int
  <2> DEFINE m == IF x.stats.avg > 0 THEN Least(x.stats.avg, x.C.cont) ELSE x.C.cont
  <2>1. m \in Int  BY <1>1 DEF Least
  <2> HIDE DEF m
  <2>2. Part(m, x.C.safety) \in Int  BY <2>1, <1>1 DEF Part, Full
  <2> QED  BY <2>2 DEF m, trusted_window_minutes
<1> HIDE DEF prior
<1>3. window \in Int  BY <1>1, <1>2
<1> HIDE DEF window
<1>4. q \in Int  BY <1>3
<1> HIDE DEF q
<1>5. Part(x.max, 4000) \in Int  BY <1>1 DEF Part, Full
<1>6. Part(x.max, Full - q) \in Int  BY <1>1, <1>4 DEF Part, Full
<1>7. _eval_grid_window(x) \in {x.max, Part(x.max, 4000), Part(x.max, Full - q)}
  BY <1>3 DEF _eval_grid_window, prior, window, q
<1> QED  BY <1>1, <1>5, <1>6, <1>7

LEMMA BlackoutRisk ==
    ASSUME NEW x, Context(x)
    PROVE  _eval_blackout_risk(x) \in Int
<1> DEFINE s == Clamped(x.score, 0, Full)
           p == Part(6000, s)
<1>1. x.max \in Nat /\ x.score \in Nat  BY DEF Context
<1>2. s \in Int  BY <1>1 DEF Full, Clamped, Most, Least
<1> HIDE DEF s
<1>3. p \in Int  BY <1>2 DEF Part, Full
<1> HIDE DEF p
<1>4. Part(x.max, 4000 + p) \in Int  BY <1>1, <1>3 DEF Part, Full
<1> QED  BY <1>4 DEF _eval_blackout_risk, s, p

LEMMA BlackoutRiskMono ==
    ASSUME NEW x, NEW y, Context(x), Context(y), Needier(y, x)
    PROVE  _eval_blackout_risk(x) <= _eval_blackout_risk(y)
<1> DEFINE s(z) == Clamped(z.score, 0, Full)
           p(z) == 4000 + Part(6000, s(z))
<1>1. x.score \in Nat /\ y.score \in Nat /\ x.score <= y.score
      /\ x.max \in Nat /\ y.max = x.max
  BY DEF Context, Needier
<1>2. s(x) \in Int /\ s(y) \in Int /\ s(x) <= s(y)
  BY <1>1 DEF Full, Clamped, Most, Least
<1> HIDE DEF s
<1>3. p(x) \in Int /\ p(y) \in Int /\ p(x) <= p(y)
  <2>1. Part(6000, s(x)) \in Int /\ Part(6000, s(y)) \in Int  BY <1>2 DEF Part, Full
  <2>2. Part(6000, s(x)) <= Part(6000, s(y))  BY <1>2, PartMono
  <2> QED  BY <2>1, <2>2
<1> HIDE DEF p
<1>4. Part(x.max, p(x)) <= Part(x.max, p(y))  BY <1>1, <1>3, PartMono
<1> QED  BY <1>1, <1>4 DEF _eval_blackout_risk, s, p

LEMMA SolarBridge ==
    ASSUME NEW x, Context(x)
    PROVE  _eval_solar_bridge(x) \in Int
<1> DEFINE gap == x.bridge - Percent(x.tel.soc)
           span == Most(x.bridge - x.C.floor, 1)
           q == (gap * Full) \div span
<1>1. x.max \in Nat  BY DEF Context
<1>2. gap \in Int  BY PercentType DEF Context
<1>3. span \in Nat \ {0}  BY DEF Context, RampConfig, Most
<1> HIDE DEF gap, span
<1>4. q \in Int  BY <1>2, <1>3, DivType DEF Full
<1> HIDE DEF q
<1>5. Clamped(q, 2500, Full) \in Int  BY <1>4 DEF Full, Clamped, Most, Least
<1>6. Part(x.max, Clamped(q, 2500, Full)) \in Int  BY <1>1, <1>5 DEF Part, Full
<1>7. _eval_solar_bridge(x) \in {x.max, Part(x.max, Clamped(q, 2500, Full))}
  BY DEF _eval_solar_bridge, gap, span, q
<1> QED  BY <1>1, <1>6, <1>7

LEMMA SolarBridgeMono ==
    ASSUME NEW x, NEW y, Context(x), Context(y), Needier(y, x)
    PROVE  _eval_solar_bridge(x) <= _eval_solar_bridge(y)
<1> DEFINE gap(z) == z.bridge - Percent(z.tel.soc)
           span == Most(x.bridge - x.C.floor, 1)
           q(z) == (gap(z) * Full) \div span
           share(z) == Clamped(q(z), 2500, Full)
<1>1. /\ x.max \in Nat /\ y.max = x.max /\ x.bridge \in Nat /\ y.bridge = x.bridge
      /\ x.C.floor \in Nat /\ y.C.floor = x.C.floor
      /\ Percent(x.tel.soc) \in Nat /\ Percent(y.tel.soc) \in Nat
      /\ Percent(y.tel.soc) <= Percent(x.tel.soc)
      /\ Percent(y.tel.soc) < x.bridge => Percent(x.tel.soc) < x.bridge
  BY PercentType DEF Context, RampConfig, Needier, SameConfig
<1>2. gap(x) \in Int /\ gap(y) \in Int /\ gap(x) <= gap(y) /\ (gap(y) > 0 => gap(x) > 0)
  BY <1>1
<1>3. span \in Nat \ {0}  BY <1>1 DEF Most
<1>4. /\ _eval_solar_bridge(x) = IF gap(x) <= 0 THEN x.max ELSE Part(x.max, share(x))
      /\ _eval_solar_bridge(y) = IF gap(y) <= 0 THEN x.max ELSE Part(x.max, share(y))
  BY <1>1 DEF _eval_solar_bridge
<1> HIDE DEF gap, span
<1>5. q(x) \in Int /\ q(y) \in Int  BY <1>2, <1>3, DivType DEF Full
<1>6. q(x) <= q(y)  BY <1>2, <1>3, TimesMono, DivMono DEF Full
<1> HIDE DEF q
<1>7. share(x) \in Int /\ share(y) \in Int /\ share(x) <= share(y)
  BY <1>5, <1>6 DEF Full, Clamped, Most, Least
<1> HIDE DEF share
<1>8. Part(x.max, share(x)) <= Part(x.max, share(y))  BY <1>1, <1>7, PartMono
<1> QED  BY <1>1, <1>2, <1>4, <1>8

-----------------------------------------------------------------------------
(* The chain.                                                               *)

LEMMA EvaluatorsType ==
    ASSUME NEW x, Context(x)
    PROVE  \A f \in Factors : _EVALUATORS(x)[f] \in Int
<1> SUFFICES ASSUME NEW f \in Factors PROVE _EVALUATORS(x)[f] \in Int
  OBVIOUS
<1>1. _EVALUATORS(x)[f] \in
        {_eval_soc_gap(x), _eval_grid_window(x), _eval_battery_power(x),
         _eval_remaining_solar_today(x), _eval_next_solar_power(x),
         _eval_load_power(x), _eval_solar_bridge(x), _eval_blackout_risk(x)}
  BY DEF _EVALUATORS, Factors
<1> QED  BY <1>1, SocGap, GridWindow, BatteryPower, RemainingSolar, NextSolar,
            LoadPower, SolarBridge, BlackoutRisk

LEMMA EvaluatorsMono ==
    ASSUME NEW x, NEW y, Context(x), Context(y), Needier(y, x),
           Percent(x.tel.soc) < x.target
    PROVE  \A f \in Factors : /\ _EVALUATORS(x)[f] <= _EVALUATORS(y)[f]
                              /\ f = "grid_window" => _EVALUATORS(x)[f] = _EVALUATORS(y)[f]
<1>1. /\ x.max = y.max /\ x.fc = y.fc /\ x.stats = y.stats
      /\ x.tel.load = y.tel.load /\ x.tel.pv = y.tel.pv /\ x.tel.battery = y.tel.battery
      /\ x.C.volts = y.C.volts /\ x.C.horizon = y.C.horizon
      /\ x.C.cont = y.C.cont /\ x.C.safety = y.C.safety
  BY DEF Needier, SameConfig
<1>2. MaxWatts(x) = MaxWatts(y)  BY <1>1 DEF MaxWatts
<1>3. _eval_next_solar_power(x) = _eval_next_solar_power(y)
  BY <1>1, <1>2 DEF _eval_next_solar_power
<1>4. _eval_load_power(x) = _eval_load_power(y)  BY <1>1, <1>2 DEF _eval_load_power
<1>5. _eval_battery_power(x) = _eval_battery_power(y)
  BY <1>1 DEF _eval_battery_power
<1>6. _eval_grid_window(x) = _eval_grid_window(y)
  BY <1>1 DEF _eval_grid_window, trusted_window_minutes
<1>7. /\ _eval_soc_gap(x) <= _eval_soc_gap(y)
      /\ _eval_remaining_solar_today(x) <= _eval_remaining_solar_today(y)
      /\ _eval_solar_bridge(x) <= _eval_solar_bridge(y)
      /\ _eval_blackout_risk(x) <= _eval_blackout_risk(y)
  BY SocGapMono, RemainingSolarMono, SolarBridgeMono, BlackoutRiskMono
<1>8. /\ _eval_next_solar_power(x) \in Int /\ _eval_load_power(x) \in Int
      /\ _eval_battery_power(x) \in Int /\ _eval_grid_window(x) \in Int
  BY NextSolar, LoadPower, BatteryPower, GridWindow
<1>9. ASSUME NEW z
      PROVE  /\ _EVALUATORS(z)["soc_gap"] = _eval_soc_gap(z)
             /\ _EVALUATORS(z)["grid_window"] = _eval_grid_window(z)
             /\ _EVALUATORS(z)["battery_power"] = _eval_battery_power(z)
             /\ _EVALUATORS(z)["remaining_solar_today"] = _eval_remaining_solar_today(z)
             /\ _EVALUATORS(z)["next_solar_power"] = _eval_next_solar_power(z)
             /\ _EVALUATORS(z)["load_power"] = _eval_load_power(z)
             /\ _EVALUATORS(z)["solar_bridge"] = _eval_solar_bridge(z)
             /\ _EVALUATORS(z)["blackout_risk"] = _eval_blackout_risk(z)
  BY DEF _EVALUATORS, Factors
<1> QED  BY <1>3, <1>4, <1>5, <1>6, <1>7, <1>8, <1>9 DEF Factors

\* What a factor leaves of the current, blended.
Ceiling(x, f) ==
    Clamped(blend_ceiling(Clamped(_EVALUATORS(x)[f], 0, x.max), x.max, x.W, f), 0, x.max)

LEMMA CeilingType ==
    ASSUME NEW x, Context(x), NEW f \in Factors
    PROVE  Ceiling(x, f) \in Nat
<1> DEFINE r == Clamped(_EVALUATORS(x)[f], 0, x.max)
           b == blend_ceiling(r, x.max, x.W, f)
<1>1. /\ x.max \in Nat /\ x.C.order \in Orders /\ x.W = resolve_weights(x.C.order)
      /\ _EVALUATORS(x)[f] \in Int
  BY EvaluatorsType DEF Context, RampConfig
<1>2. r \in 0 .. x.max  BY <1>1 DEF Clamped, Most, Least
<1> HIDE DEF r
<1>3. b \in Int  BY <1>1, <1>2, BlendMono
<1> HIDE DEF b
<1>4. Clamped(b, 0, x.max) \in Nat  BY <1>1, <1>3 DEF Clamped, Most, Least
<1> QED  BY <1>4 DEF Ceiling, r, b

LEMMA CeilingMono ==
    ASSUME NEW x, NEW y, Context(x), Context(y), Needier(y, x),
           Percent(x.tel.soc) < x.target, NEW f \in Factors
    PROVE  Ceiling(x, f) <= Ceiling(y, f)
<1> DEFINE r(z) == Clamped(_EVALUATORS(z)[f], 0, x.max)
           b(z) == blend_ceiling(r(z), x.max, resolve_weights(x.C.order), f)
<1>1. /\ x.max \in Nat /\ y.max = x.max /\ x.C.order \in Orders
      /\ x.W = resolve_weights(x.C.order) /\ y.W = resolve_weights(x.C.order)
  BY DEF Context, RampConfig, Needier, SameConfig
<1>2. /\ _EVALUATORS(x)[f] \in Int /\ _EVALUATORS(y)[f] \in Int
      /\ _EVALUATORS(x)[f] <= _EVALUATORS(y)[f]
      /\ f = "grid_window" => _EVALUATORS(x)[f] = _EVALUATORS(y)[f]
  BY EvaluatorsType, EvaluatorsMono
<1>3. /\ r(x) \in 0 .. x.max /\ r(y) \in 0 .. x.max /\ r(x) <= r(y)
      /\ f = "grid_window" => r(x) = r(y)
  BY <1>1, <1>2 DEF Clamped, Most, Least
<1>4. Ceiling(x, f) = Clamped(b(x), 0, x.max) /\ Ceiling(y, f) = Clamped(b(y), 0, x.max)
  BY <1>1 DEF Ceiling
<1> HIDE DEF r
<1>5. b(x) \in Int /\ b(y) \in Int /\ b(x) <= b(y)  BY <1>1, <1>3, BlendMono
<1> HIDE DEF b
<1> QED  BY <1>1, <1>4, <1>5 DEF Clamped, Most, Least

LEMMA CapChainType ==
    ASSUME NEW x, Context(x)
    PROVE  /\ CapChain(x) \in 0 .. x.max
           /\ CapChain(x) \in {x.max} \cup {Ceiling(x, f) : f \in Factors}
           /\ \A c \in {x.max} \cup {Ceiling(x, f) : f \in Factors} : CapChain(x) <= c
<1> DEFINE S == {x.max} \cup {Ceiling(x, f) : f \in Factors}
<1>1. S \subseteq Nat /\ S # {} /\ x.max \in S  BY CeilingType DEF Context
<1>2. CapChain(x) = Min(S)  BY DEF CapChain, Ceiling
<1> HIDE DEF S
<1>3. CapChain(x) \in S /\ \A c \in S : CapChain(x) <= c  BY <1>1, <1>2, MinExists
<1>4. CapChain(x) \in Nat /\ CapChain(x) <= x.max  BY <1>1, <1>3
<1>5. x.max \in Nat  BY DEF Context
<1> QED  BY <1>3, <1>4, <1>5 DEF S

LEMMA CapChainMono ==
    ASSUME NEW x, NEW y, Context(x), Context(y), Needier(y, x),
           Percent(x.tel.soc) < x.target
    PROVE  CapChain(x) <= CapChain(y)
<1>1. x.max \in Nat /\ y.max = x.max  BY DEF Context, Needier
<1>2. /\ CapChain(x) <= x.max /\ CapChain(x) \in Nat
      /\ \A f \in Factors : CapChain(x) <= Ceiling(x, f)
  BY CapChainType
<1>3. CASE CapChain(y) = x.max  BY <1>2, <1>3
<1>4. ASSUME NEW f \in Factors, CapChain(y) = Ceiling(y, f)
      PROVE  CapChain(x) <= CapChain(y)
  <2>1. Ceiling(x, f) \in Nat /\ Ceiling(y, f) \in Nat  BY CeilingType
  <2>2. Ceiling(x, f) <= Ceiling(y, f)  BY CeilingMono
  <2>3. CapChain(x) <= Ceiling(x, f)  BY <1>2
  <2> QED  BY <1>2, <1>4, <2>1, <2>2, <2>3
<1>5. CapChain(y) \in {y.max} \cup {Ceiling(y, f) : f \in Factors}  BY CapChainType
<1> QED  BY <1>1, <1>3, <1>4, <1>5

LEMMA RampedType ==
    ASSUME NEW x, Context(x), NEW c \in 0 .. x.max
    PROVE  /\ Ramped(c, x) \in Nat
           /\ Known(x.last) => Ramped(c, x) <= x.last + x.C.step
           /\ c > 0 /\ x.C.step >= x.C.min => Ramped(c, x) >= Least(x.C.min, x.max)
<1>1. /\ x.max \in Nat /\ x.C.min \in Nat /\ x.C.step \in Nat
      /\ x.last \in Nat \cup {Unknown}
  BY DEF Context, RampConfig
<1> DEFINE bumped == IF c > 0 /\ c < x.C.min THEN x.C.min ELSE c
<1>2. bumped \in Nat /\ (c > 0 => bumped >= x.C.min)  BY <1>1
<1>3. Ramped(c, x) = IF Known(x.last)
                     THEN Clamped(Clamped(bumped, x.last - x.C.step, x.last + x.C.step), 0, x.max)
                     ELSE bumped
  BY DEF Ramped
<1> HIDE DEF bumped
<1> QED  BY <1>1, <1>2, <1>3 DEF Known, Unknown, Clamped, Most, Least

LEMMA RampedMono ==
    ASSUME NEW x, NEW y, Context(x), Context(y), Needier(y, x),
           NEW c \in 0 .. x.max, NEW d \in 0 .. x.max, c <= d
    PROVE  Ramped(c, x) <= Ramped(d, y)
<1>1. /\ x.max \in Nat /\ x.C.min \in Nat /\ x.C.step \in Nat
      /\ x.last \in Nat \cup {Unknown}
      /\ y.max = x.max /\ y.last = x.last /\ y.C.min = x.C.min /\ y.C.step = x.C.step
  BY DEF Context, RampConfig, Needier, SameConfig
<1> DEFINE bumped(n) == IF n > 0 /\ n < x.C.min THEN x.C.min ELSE n
           ramped(n) == IF Known(x.last)
                        THEN Clamped(Clamped(n, x.last - x.C.step, x.last + x.C.step), 0, x.max)
                        ELSE n
<1>2. bumped(c) \in Nat /\ bumped(d) \in Nat /\ bumped(c) <= bumped(d)  BY <1>1
<1>3. Ramped(c, x) = ramped(bumped(c)) /\ Ramped(d, y) = ramped(bumped(d))
  BY <1>1 DEF Ramped
<1> HIDE DEF bumped
<1> QED  BY <1>1, <1>2, <1>3 DEF Known, Unknown, Clamped, Most, Least

Plans == [enabled : BOOLEAN, amps : Nat]

LEMMA OpportunisticPlanType ==
    ASSUME NEW x, Context(x)
    PROVE  LET plan == opportunistic_plan(x)
           IN  /\ plan \in Plans
               /\ ~plan.enabled => plan.amps = 0
               /\ x.C.ramp /\ Known(x.last) => plan.amps <= x.last + x.C.step
               /\ x.C.ramp /\ plan.enabled /\ x.C.step >= x.C.min /\ x.C.off > 0
                    => plan.amps >= Least(x.C.min, x.max)
<1>1. /\ x.max \in Nat /\ x.C.off \in Nat /\ x.C.step \in Nat /\ x.C.ramp \in BOOLEAN
      /\ x.last \in Nat \cup {Unknown}
  BY DEF Context, RampConfig
<1>2. CASE ~x.C.ramp
  BY <1>1, <1>2 DEF opportunistic_plan, _legacy_actions, On, Off, Plans
<1>3. CASE x.C.ramp /\ compute_ramp_plan(x) = Off
  BY <1>1, <1>3 DEF opportunistic_plan, Off, Plans, Known, Unknown
<1>4. CASE x.C.ramp /\ compute_ramp_plan(x) # Off
  <2>1. /\ CapChain(x) \in 0 .. x.max /\ ~(CapChain(x) < x.C.off)
        /\ compute_ramp_plan(x) = On(Ramped(CapChain(x), x))
    BY <1>4, CapChainType DEF compute_ramp_plan
  <2>2. /\ Ramped(CapChain(x), x) \in Nat
        /\ Known(x.last) => Ramped(CapChain(x), x) <= x.last + x.C.step
        /\ CapChain(x) > 0 /\ x.C.step >= x.C.min
             => Ramped(CapChain(x), x) >= Least(x.C.min, x.max)
    BY <2>1, RampedType
  <2> QED  BY <1>1, <1>4, <2>1, <2>2 DEF opportunistic_plan, On, Plans
<1> QED  BY <1>1, <1>2, <1>3, <1>4

(* The ramp never charges less for a battery that needs it more. *)
LEMMA OpportunisticPlanMono ==
    ASSUME NEW x, NEW y, Context(x), Context(y), Needier(y, x)
    PROVE  opportunistic_plan(x).amps <= opportunistic_plan(y).amps
<1>1. /\ x.max \in Nat /\ y.max = x.max /\ x.C.off \in Nat /\ y.C.off = x.C.off
      /\ y.C.ramp = x.C.ramp /\ x.C.ramp \in BOOLEAN
      /\ x.target \in Nat /\ y.target \in Nat /\ x.target <= y.target
      /\ y.tel.grid = x.tel.grid
      /\ Percent(x.tel.soc) \in Nat /\ Percent(y.tel.soc) \in Nat
      /\ Percent(y.tel.soc) <= Percent(x.tel.soc)
  BY PercentType DEF Context, RampConfig, Needier, SameConfig
<1>2. opportunistic_plan(y) \in Plans  BY OpportunisticPlanType
<1>3. CASE opportunistic_plan(x).amps = 0  BY <1>2, <1>3 DEF Plans
<1>4. CASE ~x.C.ramp /\ opportunistic_plan(x).amps # 0
  BY <1>1, <1>4 DEF opportunistic_plan, _legacy_actions, On, Off
<1>5. CASE x.C.ramp /\ opportunistic_plan(x).amps # 0
  <2>1. /\ x.tel.grid /\ Percent(x.tel.soc) < x.target /\ ~(CapChain(x) < x.C.off)
        /\ opportunistic_plan(x) = On(Ramped(CapChain(x), x))
    BY <1>1, <1>5 DEF opportunistic_plan, compute_ramp_plan, Off
  <2>2. CapChain(x) \in 0 .. x.max /\ CapChain(y) \in 0 .. x.max
    BY <1>1, CapChainType
  <2>3. CapChain(x) <= CapChain(y)  BY <2>1, CapChainMono
  <2>4. opportunistic_plan(y) = On(Ramped(CapChain(y), y))
    BY <1>1, <1>5, <2>1, <2>2, <2>3 DEF opportunistic_plan, compute_ramp_plan
  <2>5. Ramped(CapChain(x), x) <= Ramped(CapChain(y), y)
    BY <2>2, <2>3, RampedMono
  <2> QED  BY <2>1, <2>4, <2>5 DEF On
<1> QED  BY <1>1, <1>3, <1>4, <1>5

-----------------------------------------------------------------------------
(* Configurations and inputs.                                              *)

Config(c) == c \in Configuration /\ c.floor <= c.ceiling

LEMMA ConfigFields ==
    ASSUME NEW c, Config(c)
    PROVE  /\ RampConfig(c)
           /\ c.engine \in BOOLEAN /\ c.mpc \in BOOLEAN /\ c.shed \in BOOLEAN
           /\ c.charge \in BOOLEAN /\ c.adaptive \in BOOLEAN /\ c.gridRestores \in BOOLEAN
           /\ c.max \in Nat /\ c.ceiling \in Nat /\ c.efficiency \in Nat
           /\ c.capacity \in Nat \ {0} /\ c.clear \in Nat \ {0}
           /\ c.critical \in Nat /\ c.cap \in Nat /\ c.hours \in Nat
           /\ c.buffer \in Nat /\ c.cloudy \in Nat
           /\ c.tiers \in Seq(Tier)
           /\ c.floor \in Nat /\ c.floor <= c.ceiling
<1>1. c \in Configuration /\ c.floor <= c.ceiling  BY DEF Config
<1>2. RampConfig(c)  BY <1>1 DEF Configuration, RampConfig
<1>3. /\ c.engine \in BOOLEAN /\ c.mpc \in BOOLEAN /\ c.shed \in BOOLEAN
      /\ c.charge \in BOOLEAN /\ c.adaptive \in BOOLEAN /\ c.gridRestores \in BOOLEAN
  BY <1>1 DEF Configuration
<1>4. /\ c.max \in Nat /\ c.ceiling \in Nat /\ c.efficiency \in Nat
      /\ c.capacity \in Nat \ {0} /\ c.clear \in Nat \ {0}
      /\ c.critical \in Nat /\ c.cap \in Nat /\ c.hours \in Nat
      /\ c.buffer \in Nat /\ c.cloudy \in Nat
      /\ c.tiers \in Seq(Tier) /\ c.floor \in Nat
  BY <1>1 DEF Configuration
<1> QED  BY <1>1, <1>2, <1>3, <1>4

LEMMA InputFields ==
    ASSUME NEW i, Input(i)
    PROVE  /\ i.tel.soc \in Nat \cup {Unknown} /\ i.tel.grid \in BOOLEAN
           /\ i.tel.load \in Int /\ i.tel.pv \in Int /\ i.tel.battery \in Int
           /\ i.stale \in BOOLEAN /\ i.rows \in Seq(Sample) /\ i.site \in Int
           /\ i.stats.elapsed \in Nat \cup {Unknown}
           /\ i.stats.remaining \in Nat \cup {Unknown}
           /\ i.stats.avg \in Nat \cup {Unknown}
           /\ i.ov.pin \in Nat \cup {Unknown}
           /\ i.ov.force \in {"auto", "on", "off"} /\ i.ov.shed_off \in BOOLEAN
           /\ i.fc.known \in BOOLEAN /\ i.fc.cloudy \in BOOLEAN /\ i.fc.degraded \in BOOLEAN
           /\ i.fc.tomorrow \in Nat /\ Curve(i.fc.load) /\ Curve(i.fc.solar)
<1>1. /\ i.tel \in Telemetry /\ i.stats \in Stats /\ i.ov \in Override
      /\ i.stale \in BOOLEAN /\ i.rows \in Seq(Sample) /\ i.site \in Int
      /\ i.fc.known \in BOOLEAN /\ i.fc.cloudy \in BOOLEAN /\ i.fc.degraded \in BOOLEAN
      /\ i.fc.tomorrow \in Nat /\ Curve(i.fc.load) /\ Curve(i.fc.solar)
  BY DEF Input
<1>2. /\ i.tel.soc \in Nat \cup {Unknown} /\ i.tel.grid \in BOOLEAN
      /\ i.tel.load \in Int /\ i.tel.pv \in Int /\ i.tel.battery \in Int
  BY <1>1 DEF Telemetry
<1>3. /\ i.stats.elapsed \in Nat \cup {Unknown}
      /\ i.stats.remaining \in Nat \cup {Unknown}
      /\ i.stats.avg \in Nat \cup {Unknown}
  BY <1>1 DEF Stats
<1>4. /\ i.ov.pin \in Nat \cup {Unknown}
      /\ i.ov.force \in {"auto", "on", "off"} /\ i.ov.shed_off \in BOOLEAN
  BY <1>1 DEF Override
<1> QED  BY <1>1, <1>2, <1>3, <1>4

(* The same cycle with another state of charge. *)
LEMMA InputWithSoc ==
    ASSUME NEW i, Input(i), NEW o \in Nat
    PROVE  LET j == [i EXCEPT !.tel.soc = o]
           IN  /\ Input(j) /\ j.tel.soc = o
               /\ j.tel.grid = i.tel.grid /\ j.tel.load = i.tel.load
               /\ j.tel.pv = i.tel.pv /\ j.tel.battery = i.tel.battery
               /\ j.stale = i.stale /\ j.fc = i.fc /\ j.stats = i.stats
               /\ j.site = i.site /\ j.lp = i.lp /\ j.ov = i.ov
<1> DEFINE j == [i EXCEPT !.tel.soc = o]
<1>1. i \in [tel : Telemetry, stale : BOOLEAN, rows : Seq(Sample), fc : {i.fc},
             stats : Stats, site : Int, lp : {"served", "unserved", "error"}, ov : Override]
  BY DEF Input
<1>2. i.tel \in Telemetry  BY <1>1
<1>3. j.tel = [i.tel EXCEPT !.soc = o]  BY <1>1
<1>4. /\ j.tel.soc = o /\ j.tel \in Telemetry
      /\ j.tel.grid = i.tel.grid /\ j.tel.load = i.tel.load
      /\ j.tel.pv = i.tel.pv /\ j.tel.battery = i.tel.battery
  BY <1>2, <1>3 DEF Telemetry
<1>5. /\ j.stale = i.stale /\ j.fc = i.fc /\ j.stats = i.stats
      /\ j.site = i.site /\ j.lp = i.lp /\ j.ov = i.ov /\ j.rows = i.rows
  BY <1>1
<1>6. j \in [tel : Telemetry, stale : BOOLEAN, rows : Seq(Sample), fc : {i.fc},
             stats : Stats, site : Int, lp : {"served", "unserved", "error"}, ov : Override]
  BY <1>1, <1>4
<1> HIDE DEF j
<1>7. Input(j)  BY <1>5, <1>6 DEF Input
<1> QED  BY <1>4, <1>5, <1>7 DEF j

(* The same configuration without the MPC. *)
LEMMA ConfigWithoutMpc ==
    ASSUME NEW c, Config(c)
    PROVE  LET d == [c EXCEPT !.mpc = FALSE]
           IN  /\ Config(d) /\ d.mpc = FALSE /\ SameConfig(c, d)
               /\ d.engine = c.engine /\ d.charge = c.charge /\ d.shed = c.shed
               /\ d.hours = c.hours /\ d.ceiling = c.ceiling /\ d.max = c.max
               /\ d.efficiency = c.efficiency /\ d.buffer = c.buffer
               /\ d.cloudy = c.cloudy /\ d.clear = c.clear
<1> DEFINE d == [c EXCEPT !.mpc = FALSE]
<1>1. c \in Configuration  BY DEF Config
<1>2. /\ d.mpc = FALSE
      /\ d.order = c.order /\ d.ramp = c.ramp /\ d.floor = c.floor
      /\ d.capacity = c.capacity /\ d.hoursLeft = c.hoursLeft /\ d.horizon = c.horizon
      /\ d.volts = c.volts /\ d.cont = c.cont /\ d.safety = c.safety
      /\ d.min = c.min /\ d.step = c.step /\ d.off = c.off
      /\ d.engine = c.engine /\ d.charge = c.charge /\ d.shed = c.shed
      /\ d.hours = c.hours /\ d.ceiling = c.ceiling /\ d.max = c.max
      /\ d.efficiency = c.efficiency /\ d.buffer = c.buffer
      /\ d.cloudy = c.cloudy /\ d.clear = c.clear
  BY <1>1 DEF Configuration
<1>3. d \in Configuration  BY <1>1 DEF Configuration
<1> HIDE DEF d
<1>4. Config(d) /\ SameConfig(c, d)  BY <1>2, <1>3 DEF Config, SameConfig
<1> QED  BY <1>2, <1>4 DEF d

-----------------------------------------------------------------------------
(* The effective load.                                                      *)

Weight == {10000, 4000, 1500}

LEMMA ScalesType ==
    ASSUME NEW w \in Weight
    PROVE  /\ buffer_scale(w) \in Nat /\ autonomy_hours_scale(w) \in Nat
           /\ savings_buffer_relief(w) \in Nat
<1>1. RANK_WEIGHTS[2] = 4000 /\ RANK_WEIGHTS[3] = 1500  BY DEF RANK_WEIGHTS
<1>2. Rise(w) \in Int  BY <1>1 DEF Rise, Full, Weight
<1>3. Part(1000, Rise(w)) \in Int /\ Part(1500, Rise(w)) \in Int
  BY <1>2 DEF Part, Full
<1>4. buffer_scale(w) \in Nat /\ autonomy_hours_scale(w) \in Nat
  BY <1>3 DEF buffer_scale, autonomy_hours_scale, Full, Clamped, Most, Least
<1>5. savings_buffer_relief(w) \in Nat
  BY <1>1 DEF savings_buffer_relief, Full, Most, Weight
<1> QED  BY <1>4, <1>5

LEMMA OrderScales ==
    ASSUME NEW o \in Orders
    PROVE  LET W == resolve_weights(o)
           IN  /\ buffer_scale(W["resilience"]) \in Nat
               /\ autonomy_hours_scale(W["resilience"]) \in Nat
               /\ savings_buffer_relief(W["savings"]) \in Nat
<1> DEFINE r == resolve_weights(o)["resilience"]
           v == resolve_weights(o)["savings"]
<1>1. r \in Weight /\ v \in Weight  BY WeightsType DEF Weight, Priority
<1> HIDE DEF r, v
<1>2. /\ buffer_scale(r) \in Nat /\ autonomy_hours_scale(r) \in Nat
      /\ savings_buffer_relief(v) \in Nat
  BY <1>1, ScalesType
<1> QED  BY <1>2 DEF r, v

LEMMA TrustType ==
    ASSUME NEW o \in Orders
    PROVE  adaptive_load_scale(resolve_weights(o)) \in Nat
<1> DEFINE W == resolve_weights(o)
           p == Part(6500, Rise(W["resilience"]))
           trust == Clamped(3500 + p, 3500, Full)
           lean == IF W["savings"] = Full THEN 8500
                   ELSE IF W["self_sufficiency"] = Full THEN 9000 ELSE Full
           q == Part(trust, lean)
<1>1. W["resilience"] \in Weight  BY WeightsType DEF Weight, Priority
<1>2. Rise(W["resilience"]) \in Int  BY <1>1 DEF Rise, Full, RANK_WEIGHTS, Weight
<1>3. p \in Int  BY <1>2 DEF Part, Full
<1> HIDE DEF p
<1>4. trust \in Int  BY <1>3 DEF Full, Clamped, Most, Least
<1> HIDE DEF trust
<1>5. lean \in Int  BY DEF Full
<1> HIDE DEF lean
<1>6. q \in Int  BY <1>4, <1>5 DEF Part, Full
<1> HIDE DEF q
<1>7. Clamped(q, 3500, Full) \in Nat  BY <1>6 DEF Full, Clamped, Most, Least
<1> QED  BY <1>7 DEF adaptive_load_scale, W, p, trust, lean, q

LEMMA MeanType ==
    ASSUME NEW n \in Nat, NEW samples \in [1 .. n -> Int], NEW otherwise \in Int
    PROVE  mean_load_power_w(samples, otherwise) \in Int
<1> DEFINE known == {k \in DOMAIN samples : Known(samples[k])}
<1>1. IsFiniteSet(known)
  <2>1. IsFiniteSet(1 .. n)  BY FS_Interval
  <2> QED  BY <2>1, FS_Subset
<1>2. Cardinality(known) \in Nat  BY <1>1, FS_CardinalityType
<1>3. \A k \in known : samples[k] \in Int  OBVIOUS
<1> HIDE DEF known
<1>4. SumFunctionOnSet(samples, known) \in Int  BY <1>1, <1>3, SumIsInt
<1>5. mean_load_power_w(samples, otherwise) =
        IF Cardinality(known) >= 3
        THEN SumFunctionOnSet(samples, known) \div Cardinality(known) ELSE otherwise
  BY DEF mean_load_power_w, known
<1>6. Cardinality(known) >= 3
        => SumFunctionOnSet(samples, known) \div Cardinality(known) \in Int
  BY <1>2, <1>4, DivType
<1> QED  BY <1>5, <1>6

LEMMA SmoothedType ==
    ASSUME NEW i, Input(i)
    PROVE  smoothed_adaptive_load_w(i.rows, i.tel) \in Int
<1> DEFINE drawn == discharge_power_w(i.tel.battery)
           loads == [k \in DOMAIN i.rows |-> i.rows[k].load]
           dis == [k \in DOMAIN i.rows |-> discharge_power_w(i.rows[k].battery)]
<1>1. i.rows \in Seq(Sample) /\ i.tel.load \in Int /\ i.tel.battery \in Int
  BY InputFields
<1>2. \A b \in Int : discharge_power_w(b) \in Int
  BY DEF discharge_power_w, Most, Known, Unknown
<1>3. /\ DOMAIN i.rows = 1 .. Len(i.rows) /\ Len(i.rows) \in Nat
      /\ \A k \in DOMAIN i.rows : i.rows[k].load \in Int /\ i.rows[k].battery \in Int
  <2>1. DOMAIN i.rows = 1 .. Len(i.rows) /\ Len(i.rows) \in Nat  BY <1>1
  <2>2. ASSUME NEW k \in DOMAIN i.rows PROVE i.rows[k] \in Sample
    BY <1>1, <2>1, <2>2
  <2>3. \A r \in Sample : r.load \in Int /\ r.battery \in Int  BY DEF Sample
  <2> QED  BY <2>1, <2>2, <2>3
<1>4. /\ loads \in [1 .. Len(i.rows) -> Int] /\ dis \in [1 .. Len(i.rows) -> Int]
      /\ drawn \in Int
  BY <1>1, <1>2, <1>3
<1> HIDE DEF loads, dis, drawn
<1>5. mean_load_power_w(loads, i.tel.load) \in Int  BY <1>1, <1>3, <1>4, MeanType
<1>6. mean_load_power_w(dis, drawn) \in Int  BY <1>3, <1>4, MeanType
<1>7. smoothed_adaptive_load_w(i.rows, i.tel) =
        Most(mean_load_power_w(loads, i.tel.load), mean_load_power_w(dis, drawn))
  BY DEF smoothed_adaptive_load_w, loads, dis, drawn
<1> QED  BY <1>5, <1>6, <1>7 DEF Most

(* The load that the reserve is made for: within its cap, and not a tenth   *)
(* below the one before, whenever the cycle saw a load.                     *)
LEMMA EffectiveLoadBounds ==
    ASSUME NEW c, Config(c), NEW i, Input(i), NEW p \in Nat \cup {Unknown}
    PROVE  /\ EffectiveLoad(c, i, p) \in Nat
           /\ c.adaptive /\ Sees(i) =>
                /\ EffectiveLoad(c, i, p) <= Most(c.critical, c.cap)
                /\ Known(p) /\ p <= Most(c.critical, c.cap)
                     => EffectiveLoad(c, i, p) >= Part(p, 9000)
<1> DEFINE seen == smoothed_adaptive_load_w(i.rows, i.tel)
           scale == adaptive_load_scale(resolve_weights(c.order))
           raw == c.critical + Part(Most(0, seen - c.critical), scale)
           cap == Most(c.critical, c.cap)
           low == IF Known(p) THEN Part(p, 9000) ELSE 0
<1>1. c.critical \in Nat /\ c.cap \in Nat /\ c.order \in Orders /\ c.adaptive \in BOOLEAN
  BY ConfigFields DEF RampConfig
<1>2. seen \in Int  BY SmoothedType
<1>3. scale \in Nat  BY <1>1, TrustType
<1> HIDE DEF seen, scale
<1>4. raw \in Nat
  <2> DEFINE above == Most(0, seen - c.critical)
  <2>1. above \in Nat  BY <1>1, <1>2 DEF Most
  <2> HIDE DEF above
  <2>2. Part(above, scale) \in Nat  BY <1>3, <2>1 DEF Part, Full
  <2> QED  BY <1>1, <2>2 DEF above
<1> HIDE DEF raw
<1>5. cap \in Nat  BY <1>1 DEF Most
<1>6. low \in Nat /\ (Known(p) => low = Part(p, 9000) /\ low <= p)
  <2>1. p \in Nat => Part(p, 9000) \in Nat /\ Part(p, 9000) <= p  BY DEF Part, Full
  <2> QED  BY <2>1 DEF Known
<1> HIDE DEF cap, low
<1>7. EffectiveLoad(c, i, p) =
        IF ~c.adaptive \/ ~Known(seen) THEN c.critical
        ELSE Least(cap, Most(low, Least(raw, cap)))
  BY <1>1 DEF EffectiveLoad, effective_critical_w, seen, scale, raw, cap, low, Known
<1>8. Sees(i) <=> Known(seen)  BY DEF Sees, seen
<1>9. cap = Most(c.critical, c.cap)  BY DEF cap
<1> QED
  <2>1. EffectiveLoad(c, i, p) \in Nat  BY <1>1, <1>4, <1>5, <1>6, <1>7 DEF Least, Most
  <2>2. ASSUME c.adaptive, Sees(i) PROVE EffectiveLoad(c, i, p) <= cap
    BY <1>4, <1>5, <1>6, <1>7, <1>8, <2>2 DEF Least, Most
  <2>3. ASSUME c.adaptive, Sees(i), Known(p), p <= cap
        PROVE  EffectiveLoad(c, i, p) >= Part(p, 9000)
    <3>1. p \in Nat  BY <2>3 DEF Known
    <3>2. low \in Nat /\ low = Part(p, 9000) /\ low <= cap  BY <1>5, <1>6, <2>3, <3>1
    <3> QED  BY <1>4, <1>5, <1>7, <1>8, <2>3, <3>2 DEF Least, Most
  <2> QED  BY <1>9, <2>1, <2>2, <2>3

-----------------------------------------------------------------------------
(* The reserve.                                                             *)

(* The peak of a running sum that never falls below zero: the recursion     *)
(* over the hours has a solution, and its greatest value is a number.       *)
LEMMA PeakType ==
    ASSUME NEW drawn \in [Ahead -> Int]
    PROVE  PeakDeficit(drawn) \in Nat
<1> DEFINE Step(g, h) == IF h = 0 THEN 0 ELSE Most(0, g[h - 1] + drawn[h - 1])
           Rec(g, n) == g = [h \in 0 .. n |-> Step(g, h)]
           cum == CHOOSE g : Rec(g, Hours)
<1>1. Hours \in Nat \ {0}  BY HorizonAssumption
<1> DEFINE M == {n \in Nat : \E g : Rec(g, n)}
<1>2. 0 \in M
  <2>1. Rec([h \in 0 .. 0 |-> 0], 0)  OBVIOUS
  <2> QED  BY <2>1
<1>3. \A n \in Nat : n \in M => n + 1 \in M
  <2>1. ASSUME NEW n \in Nat, NEW g, Rec(g, n) PROVE \E f : Rec(f, n + 1)
    <3> DEFINE f == [h \in 0 .. n + 1 |-> Step(g, h)]
    <3>1. \A h \in 0 .. n : f[h] = g[h]  BY <2>1
    <3>2. ASSUME NEW h \in 0 .. n + 1 PROVE Step(f, h) = Step(g, h)
      <4>1. h # 0 => h - 1 \in 0 .. n  OBVIOUS
      <4>2. h # 0 => f[h - 1] = g[h - 1]  BY <3>1, <4>1
      <4> HIDE DEF f
      <4> QED  BY <4>2
    <3>3. Rec(f, n + 1)  BY <3>2
    <3> QED  BY <3>3
  <2> HIDE DEF Rec
  <2> QED  BY <2>1
<1>4. Rec(cum, Hours)
  <2>1. Hours \in M  BY <1>1, <1>2, <1>3, Induction
  <2> QED  BY <2>1
<1>5. PeakDeficit(drawn) = Max({cum[h] : h \in 0 .. Hours})
  BY DEF PeakDeficit
<1> HIDE DEF cum
<1>6. \A h \in 0 .. Hours : cum[h] \in Nat
  <2> DEFINE I == {n \in Nat : n <= Hours => cum[n] \in Nat}
  <2>1. 0 \in I  BY <1>1, <1>4
  <2>2. \A n \in Nat : n \in I => n + 1 \in I
    <3> SUFFICES ASSUME NEW n \in I, n + 1 <= Hours PROVE cum[n + 1] \in Nat
      OBVIOUS
    <3>1. cum[n] \in Nat /\ n \in Ahead  BY <1>1 DEF Ahead
    <3>2. drawn[n] \in Int  BY <3>1
    <3>3. cum[n + 1] = Most(0, cum[n] + drawn[n])  BY <1>1, <1>4
    <3> QED  BY <3>1, <3>2, <3>3 DEF Most
  <2>3. Nat \subseteq I  BY <2>1, <2>2, Induction
  <2> QED  BY <1>1, <2>3
<1> DEFINE S == {cum[h] : h \in 0 .. Hours}
<1>7. IsFiniteSet(S)
  <2>1. IsFiniteSet(0 .. Hours)  BY <1>1, FS_Interval
  <2> QED  BY <2>1, ImageIsFinite
<1>8. S \subseteq Nat /\ S # {}  BY <1>1, <1>6
<1>9. PeakDeficit(drawn) = Max(S)  BY <1>5
<1> HIDE DEF S
<1>10. Max(S) \in S
  <2>1. S \subseteq Int  BY <1>8
  <2> QED  BY <1>7, <1>8, <2>1, MaxExists
<1> QED  BY <1>8, <1>9, <1>10

LEMMA DrawnType ==
    ASSUME NEW load \in Int, NEW sun \in Int, NEW efficiency \in Nat
    PROVE  Drawn(load, sun, efficiency) \in Int
<1> DEFINE a == Most(0, load - sun)
           b == Most(0, sun - load)
<1>1. a \in Int /\ b \in Int  BY DEF Most
<1> HIDE DEF a, b
<1>2. Part(b, efficiency) \in Int  BY <1>1 DEF Part, Full
<1>3. a - Part(b, efficiency) \in Int  BY <1>1, <1>2
<1> QED  BY <1>3 DEF Drawn, a, b

LEMMA ForecastType ==
    ASSUME NEW i, Input(i), NEW h, NEW otherwise \in Int
    PROVE  _load_at(i.fc, h, otherwise) \in Int /\ SolarAt(i.fc, h) \in Nat
<1>1. /\ \A k \in DOMAIN i.fc.load : i.fc.load[k] \in Int
      /\ \A k \in DOMAIN i.fc.solar : i.fc.solar[k] \in Nat
  BY InputFields DEF Curve
<1>2. SolarAt(i.fc, h) \in Nat  BY <1>1 DEF SolarAt
<1>3. _load_at(i.fc, h, otherwise) \in Int
  <2>1. CASE h \in DOMAIN i.fc.load  BY <1>1, <2>1 DEF _load_at
  <2>2. CASE h \notin DOMAIN i.fc.load /\ h - 1 \in DOMAIN i.fc.load
    BY <1>1, <2>2 DEF _load_at
  <2>3. CASE {h, h - 1} \cap DOMAIN i.fc.load = {} /\ h + 1 \in DOMAIN i.fc.load
    BY <1>1, <2>3 DEF _load_at
  <2>4. CASE {h, h - 1} \cap DOMAIN i.fc.load = {} /\ h + 1 \notin DOMAIN i.fc.load
    BY <2>4 DEF _load_at
  <2> QED  BY <2>1, <2>2, <2>3, <2>4
<1> QED  BY <1>2, <1>3

LEMMA BridgeType ==
    ASSUME NEW c, Config(c), NEW i, Input(i), NEW leff \in Nat
    PROVE  _solar_bridge_wh(c, i.fc, leff) \in Nat
<1> DEFINE drawn == [h \in Ahead |-> Drawn(Most(_load_at(i.fc, h, leff), leff),
                                          SolarAt(i.fc, h), c.efficiency)]
<1>1. c.efficiency \in Nat  BY ConfigFields
<1>2. drawn \in [Ahead -> Int]
  <2> SUFFICES ASSUME NEW h \in Ahead
               PROVE  Drawn(Most(_load_at(i.fc, h, leff), leff),
                            SolarAt(i.fc, h), c.efficiency) \in Int
    OBVIOUS
  <2>0. _load_at(i.fc, h, leff) \in Int /\ SolarAt(i.fc, h) \in Nat
    <3>1. leff \in Int  OBVIOUS
    <3> QED  BY <3>1, ForecastType
  <2>1. _load_at(i.fc, h, leff) \in Int /\ SolarAt(i.fc, h) \in Int  BY <2>0
  <2>2. Most(_load_at(i.fc, h, leff), leff) \in Int  BY <2>1 DEF Most
  <2> QED  BY <1>1, <2>1, <2>2, DrawnType
<1>3. _solar_bridge_wh(c, i.fc, leff) =
        IF i.fc.load = <<>> THEN leff * 12 ELSE PeakDeficit(drawn)
  BY DEF _solar_bridge_wh
<1> HIDE DEF drawn
<1>4. PeakDeficit(drawn) \in Nat  BY <1>2, PeakType
<1> QED  BY <1>3, <1>4

LEMMA ReserveType ==
    ASSUME NEW c, Config(c), NEW i, Input(i), NEW leff \in Nat
    PROVE  LET r == compute_reserve(c, i.fc, leff)
           IN  /\ r.autonomy \in Nat /\ r.bridge \in Nat /\ r.target \in Nat
               /\ c.floor <= r.target /\ r.target <= c.ceiling
<1> DEFINE W == resolve_weights(c.order)
           buffer == Part(Part(Buffer(c, i.fc), buffer_scale(W["resilience"])),
                          savings_buffer_relief(W["savings"]))
           wh == _solar_bridge_wh(c, i.fc, leff)
           bridge == (wh * (100 + buffer)) \div c.capacity
           autonomy == (100 * Part(leff * c.hours, autonomy_hours_scale(W["resilience"])))
                       \div c.capacity
<1>1. /\ c.order \in Orders /\ c.hours \in Nat /\ c.capacity \in Nat \ {0}
      /\ c.floor \in Nat /\ c.ceiling \in Nat /\ c.floor <= c.ceiling
      /\ c.buffer \in Nat /\ c.cloudy \in Nat
  BY ConfigFields DEF RampConfig
<1>2. /\ buffer_scale(W["resilience"]) \in Nat
      /\ autonomy_hours_scale(W["resilience"]) \in Nat
      /\ savings_buffer_relief(W["savings"]) \in Nat
  BY <1>1, OrderScales
<1>3. buffer \in Nat
  <2>1. Buffer(c, i.fc) \in Nat  BY <1>1 DEF Buffer
  <2>2. \A a, b \in Nat : Part(a, b) \in Nat  BY DEF Part, Full
  <2> HIDE DEF W
  <2>3. Part(Buffer(c, i.fc), buffer_scale(W["resilience"])) \in Nat  BY <1>2, <2>1, <2>2
  <2> QED  BY <1>2, <2>2, <2>3
<1>4. wh \in Nat  BY BridgeType
<1> HIDE DEF buffer, wh
<1>5. bridge \in Nat
  <2>1. \A a \in Nat : a \div c.capacity \in Nat  BY <1>1
  <2>2. wh * (100 + buffer) \in Nat  BY <1>3, <1>4
  <2> QED  BY <2>1, <2>2
<1>6. autonomy \in Nat
  <2> DEFINE s == autonomy_hours_scale(W["resilience"])
             a == leff * c.hours
  <2>1. a \in Nat /\ s \in Nat  BY <1>1, <1>2
  <2> HIDE DEF a, s
  <2>2. Part(a, s) \in Nat  BY <2>1 DEF Part, Full
  <2>3. \A n \in Nat : (100 * n) \div c.capacity \in Nat  BY <1>1
  <2> QED  BY <2>2, <2>3 DEF a, s
<1>7. compute_reserve(c, i.fc, leff) =
        [autonomy |-> Most(c.floor, autonomy),
         bridge |-> Least(c.ceiling, c.floor + bridge),
         target |-> Least(c.ceiling, Most(Most(c.floor, autonomy),
                                          Least(c.ceiling, c.floor + bridge)))]
  BY DEF compute_reserve, buffer, bridge, wh, autonomy, W
<1> HIDE DEF bridge, autonomy
<1> QED  BY <1>1, <1>5, <1>6, <1>7 DEF Most, Least

LEMMA SolveType ==
    ASSUME NEW c, Config(c), NEW i, Input(i), NEW leff \in Nat
    PROVE  _solve(c, i, leff) \in Nat \cup {Unknown}
<1> DEFINE W == resolve_weights(c.order)
           final == LastLoad(i.fc)
           at(h) == Drawn(Most(_load_at(i.fc, h, final), leff),
                          Most(0, SolarAt(i.fc, h)), c.efficiency)
           drawn == [h \in Ahead |-> at(h)]
           peak == PeakDeficit(drawn)
           share == Part(Part(peak, buffer_scale(W["resilience"])),
                         savings_buffer_relief(W["savings"]))
<1> SUFFICES ASSUME i.fc.load # <<>> PROVE _solve(c, i, leff) \in Nat \cup {Unknown}
  BY DEF _solve
<1>1. /\ c.order \in Orders /\ c.capacity \in Nat \ {0} /\ c.efficiency \in Nat
      /\ c.floor \in Nat /\ c.ceiling \in Nat
  BY ConfigFields DEF RampConfig
<1>2. final \in Int
  <2> DEFINE f == i.fc.load
             D == DOMAIN f
  <2>1. IsFiniteSet(D) /\ D \subseteq Int /\ f \in [D -> Nat]  BY InputFields DEF Curve
  <2>2. D # {}
    <3> SUFFICES ASSUME D = {} PROVE FALSE  OBVIOUS
    <3>1. f \in [1 .. 0 -> Nat]  BY <2>1
    <3>2. f \in Seq(Nat) /\ Len(f) = 0  BY <3>1
    <3> QED  BY <3>2, EmptySeq
  <2> DEFINE h0 == CHOOSE h \in D : \A k \in D : k <= h
  <2>3. LastLoad(i.fc) = f[h0]  BY DEF LastLoad
  <2> HIDE DEF D, f
  <2>4. \E h \in D : \A k \in D : k <= h  BY <2>1, <2>2, MaxExists
  <2>5. h0 \in D  BY <2>4
  <2> HIDE DEF h0
  <2> QED  BY <2>1, <2>3, <2>5
<1> HIDE DEF final
<1>3. ASSUME NEW h \in Ahead PROVE at(h) \in Int
  <2>0. _load_at(i.fc, h, final) \in Int /\ SolarAt(i.fc, h) \in Nat
    BY <1>2, ForecastType
  <2>1. _load_at(i.fc, h, final) \in Int /\ SolarAt(i.fc, h) \in Int  BY <2>0
  <2>2. /\ Most(_load_at(i.fc, h, final), leff) \in Int
        /\ Most(0, SolarAt(i.fc, h)) \in Int
    BY <2>1 DEF Most
  <2> QED  BY <1>1, <2>2, DrawnType
<1>a. drawn \in [Ahead -> Int]
  <2> HIDE DEF at
  <2> QED  BY <1>3
<1> HIDE DEF drawn
<1>4. peak \in Nat  BY <1>a, PeakType
<1> HIDE DEF peak
<1>5. share \in Nat
  <2>1. buffer_scale(W["resilience"]) \in Nat /\ savings_buffer_relief(W["savings"]) \in Nat
    BY <1>1, OrderScales
  <2>2. \A a, b \in Nat : Part(a, b) \in Nat  BY DEF Part, Full
  <2> HIDE DEF W
  <2>3. Part(peak, buffer_scale(W["resilience"])) \in Nat  BY <1>4, <2>1, <2>2
  <2> QED  BY <2>1, <2>2, <2>3
<1>6. _solve(c, i, leff) \in {Unknown, Least(c.ceiling, c.floor + (100 * share) \div c.capacity)}
  BY DEF _solve, share, peak, drawn, final, W
<1> HIDE DEF share
<1>7. (100 * share) \div c.capacity \in Nat
  <2>1. \A n \in Nat : (100 * n) \div c.capacity \in Nat  BY <1>1
  <2> QED  BY <1>5, <2>1
<1> QED  BY <1>1, <1>6, <1>7 DEF Least

(* With the MPC the reserve is never below that of the rules. *)
LEMMA TargetSocBounds ==
    ASSUME NEW c, Config(c), NEW i, Input(i), NEW rules \in Nat,
           c.floor <= rules, rules <= c.ceiling, NEW mpc \in Nat \cup {Unknown}
    PROVE  /\ TargetSoc(c, i, rules, mpc) \in Nat
           /\ c.floor <= TargetSoc(c, i, rules, mpc)
           /\ TargetSoc(c, i, rules, Unknown) <= TargetSoc(c, i, rules, mpc)
<1>1. /\ c.floor \in Nat /\ c.ceiling \in Nat /\ c.floor <= c.ceiling
      /\ i.ov.pin \in Nat \cup {Unknown}
  BY ConfigFields, InputFields DEF RampConfig
<1>2. CASE Known(i.ov.pin)
  BY <1>1, <1>2 DEF TargetSoc, Known, Most, Least
<1>3. CASE ~Known(i.ov.pin) /\ Known(mpc)
  BY <1>1, <1>3 DEF TargetSoc, Known, Most, Least
<1>4. CASE ~Known(i.ov.pin) /\ ~Known(mpc)
  BY <1>1, <1>4 DEF TargetSoc, Known
<1> QED  BY <1>2, <1>3, <1>4

-----------------------------------------------------------------------------
(* The risk of a blackout.                                                  *)

LEMMA UpToFull == Full \in Nat /\ \A x : x \in 0 .. Full <=> x \in Nat /\ x <= Full
<1>1. Full \in Nat  BY DEF Full
<1> QED  BY <1>1

LEMMA MultiplierType ==
    ASSUME NEW o \in Orders, NEW e \in Nat \cup {Unknown}, NEW r \in Nat \cup {Unknown}
    PROVE  grid_present_risk_multiplier(resolve_weights(o), e, r) \in 0 .. Full
<1> DEFINE W == resolve_weights(o)
           ranks == (1500 * (Full - W["resilience"])) \div (Full - RANK_WEIGHTS[3])
                    - (1000 * (W["savings"] - RANK_WEIGHTS[2])) \div (Full - RANK_WEIGHTS[2])
           mult == Clamped(5000 + ranks, 3500, 6500)
           q == ((Full - mult) * e) \div (e + r)
<1>1. W["resilience"] \in Weight /\ W["savings"] \in Weight
  BY WeightsType DEF Weight, Priority
<1>2. ranks \in Int
  <2>1. RANK_WEIGHTS[2] = 4000 /\ RANK_WEIGHTS[3] = 1500  BY DEF RANK_WEIGHTS
  <2> DEFINE a == W["resilience"]
             b == W["savings"]
  <2> HIDE DEF W
  <2>2. a \in Int /\ b \in Int  BY <1>1 DEF Weight
  <2> HIDE DEF a, b
  <2>3. (1500 * (10000 - a)) \div (10000 - 1500) - (1000 * (b - 4000)) \div (10000 - 4000) \in Int
    BY <2>2
  <2> QED  BY <2>1, <2>3 DEF Full, a, b
<1> HIDE DEF ranks
<1>3. mult \in 3500 .. 6500  BY <1>2 DEF Clamped, Most, Least
<1>4. grid_present_risk_multiplier(W, e, r) =
        CASE ~Known(e) \/ ~Known(r) -> mult
          [] e + r = 0 -> Full
          [] OTHER -> mult + q
  BY DEF grid_present_risk_multiplier, mult, ranks, q
<1> HIDE DEF mult, W, q
<1>5. ASSUME ~Known(e) \/ ~Known(r)
      PROVE  grid_present_risk_multiplier(W, e, r) \in 0 .. Full
  BY <1>3, <1>4, <1>5 DEF Full
<1>6. ASSUME Known(e), Known(r)
      PROVE  grid_present_risk_multiplier(W, e, r) \in 0 .. Full
  <2>1. e \in Nat /\ r \in Nat  BY <1>6 DEF Known
  <2>2. CASE e + r = 0  BY <1>4, <1>6, <2>2 DEF Full
  <2>3. CASE e + r # 0
    <3>1. e + r \in Nat \ {0}  BY <2>1, <2>3
    <3> DEFINE n == e + r
               m == Full - mult
    <3>2. n \in Nat \ {0} /\ e <= n /\ m \in Nat  BY <1>3, <2>1, <3>1 DEF Full
    <3>3. q = (m * e) \div n  BY DEF q
    <3> HIDE DEF n, m, q
    <3>4. (m * e) \div n \in Nat /\ (m * e) \div n <= (m * n) \div n /\ (m * n) \div n = m
      <4>1. m * e <= m * n  BY <2>1, <3>2, TimesMono
      <4>2. (m * e) \div n <= (m * n) \div n  BY <2>1, <3>2, <4>1, DivMono
      <4>3. (m * n) \div n = m  BY <3>2
      <4>4. (m * e) \div n \in Nat  BY <2>1, <3>2
      <4> QED  BY <4>2, <4>3, <4>4
    <3>5. mult \in Nat /\ m = Full - mult /\ q \in Nat /\ q <= m
      BY <1>3, <3>3, <3>4 DEF m
    <3>6. mult + q <= Full /\ mult + q \in Nat  BY <3>5, UpToFull
    <3> QED  BY <1>4, <1>6, <2>3, <3>6, UpToFull
  <2> QED  BY <2>2, <2>3
<1> QED  BY <1>5, <1>6 DEF W

(* Parts of a whole. *)
LEMMA PartBounds ==
    ASSUME NEW n \in 0 .. Full, NEW m \in 0 .. Full
    PROVE  Part(n, m) \in 0 .. Full /\ Part(n, m) <= m
<1> DEFINE k == n * m
<1>1. n \in Nat /\ m \in Nat /\ n <= 10000 /\ m <= 10000  BY DEF Full
<1>2. n * m <= 10000 * m  BY <1>1, TimesMono
<1>3. k \in Nat /\ k <= 10000 * m  BY <1>1, <1>2
<1> HIDE DEF k
<1>4. k \div 10000 \in Nat /\ k \div 10000 <= m  BY <1>1, <1>3
<1>5. Part(n, m) = k \div 10000  BY DEF Part, Full, k
<1>6. m <= Full  BY UpToFull
<1> QED  BY <1>1, <1>4, <1>5, <1>6, UpToFull

LEMMA PartMonoLeft ==
    ASSUME NEW n \in Nat, NEW k \in Nat, NEW m \in Nat, n <= k
    PROVE  Part(n, m) <= Part(k, m)
  BY TimesMono, DivMono DEF Part, Full

Deficit(aim, soc) == Clamped(((aim - soc) * Full) \div aim, 0, Full)

LEMMA DeficitMono ==
    ASSUME NEW a \in Nat \ {0}, NEW b \in Nat \ {0}, NEW s \in Nat, NEW t \in Nat,
           a <= b, t <= s
    PROVE  /\ Deficit(a, s) \in 0 .. Full /\ Deficit(b, t) \in 0 .. Full
           /\ Deficit(a, s) <= Deficit(b, t)
<1> DEFINE p == ((a - s) * Full) \div a
           q == ((b - t) * Full) \div b
<1>1. p \in Int /\ q \in Int  BY DivType DEF Full
<1>2. Deficit(a, s) = Clamped(p, 0, Full) /\ Deficit(b, t) = Clamped(q, 0, Full)
  BY DEF Deficit
<1>3. p <= 0 \/ p <= q
  <2>1. CASE s >= a
    <3> DEFINE n == (a - s) * Full
    <3>1. n \in Int /\ n <= 0  BY <2>1 DEF Full
    <3> HIDE DEF n
    <3>2. n \div a <= 0  BY <3>1
    <3> QED  BY <3>2 DEF n
  <2>2. CASE s < a
    <3> DEFINE g == a - s
               h == b - t
    <3>1. g \in Nat /\ h \in Nat  BY <2>2
    <3>2. g * b <= h * a
      <4>1. t * a <= s * a /\ s * a <= s * b  BY TimesMono
      <4>2. t * a <= s * b  BY <4>1
      <4> QED  BY <4>2
    <3>3. (Full * g) \div a <= (Full * h) \div b
      <4> HIDE DEF g, h
      <4> QED  BY <3>1, <3>2, RatioMono DEF Full
    <3>4. p = (Full * g) \div a /\ q = (Full * h) \div b  BY DEF Full
    <3> QED  BY <3>3, <3>4
  <2> QED  BY <2>1, <2>2
<1> HIDE DEF p, q
<1>4. \A x \in Int : Clamped(x, 0, Full) = IF x <= 0 THEN 0 ELSE IF x < Full THEN x ELSE Full
  BY UpToFull DEF Clamped, Most, Least
<1>5. \A x \in Int : Clamped(x, 0, Full) \in Nat /\ Clamped(x, 0, Full) <= Full
  BY <1>4, UpToFull
<1>6. Clamped(p, 0, Full) <= Clamped(q, 0, Full)  BY <1>1, <1>3, <1>4, UpToFull
<1> QED  BY <1>1, <1>2, <1>5, <1>6, UpToFull

LEMMA SolarFactorType ==
    ASSUME NEW c, Config(c), NEW i, Input(i)
    PROVE  SolarFactor(c, i.fc) \in 0 .. Full
<1> DEFINE q == (i.fc.tomorrow * Full) \div c.clear
<1>1. i.fc.tomorrow \in Nat /\ c.clear \in Nat \ {0}  BY ConfigFields, InputFields
<1>2. q \in Int  BY <1>1, DivType DEF Full
<1>3. SolarFactor(c, i.fc) = IF i.fc.known THEN Full - Clamped(q, 0, Full) ELSE 5000
  BY DEF SolarFactor
<1> HIDE DEF q
<1> QED  BY <1>2, <1>3 DEF Clamped, Most, Least, Full

Score(deficit, sun) == Part(deficit, 6000) + Part(sun, 4000)

LEMMA ScoreMono ==
    ASSUME NEW d \in 0 .. Full, NEW e \in 0 .. Full, NEW sun \in 0 .. Full, d <= e,
           NEW m \in 0 .. Full
    PROVE  /\ Score(d, sun) \in 0 .. Full /\ Score(e, sun) \in 0 .. Full
           /\ Score(d, sun) <= Score(e, sun)
           /\ Part(Score(d, sun), m) \in 0 .. Full /\ Part(Score(e, sun), m) \in 0 .. Full
           /\ Part(Score(d, sun), m) <= Part(Score(e, sun), m)
<1> DEFINE v == Part(d, 6000)
           w == Part(e, 6000)
           z == Part(sun, 4000)
<1>1. v \in 0 .. Full /\ v <= 6000 /\ w \in 0 .. Full /\ w <= 6000
      /\ z \in 0 .. Full /\ z <= 4000
  <2>1. 4000 \in 0 .. Full /\ 6000 \in 0 .. Full  BY DEF Full
  <2> QED  BY <2>1, PartBounds
<1>2. v <= w
  <2>1. d \in Nat /\ e \in Nat  BY DEF Full
  <2> QED  BY <2>1, PartMonoLeft
<1>3. Score(d, sun) = v + z /\ Score(e, sun) = w + z  BY DEF Score
<1> HIDE DEF v, w, z
<1>0. v \in Nat /\ w \in Nat /\ z \in Nat /\ m \in Nat  BY <1>1, UpToFull
<1>4. v + z \in 0 .. Full /\ w + z \in 0 .. Full /\ v + z <= w + z
  <2>1. v + z <= 10000 /\ w + z <= 10000  BY <1>0, <1>1
  <2>2. v + z <= Full /\ w + z <= Full  BY <2>1 DEF Full
  <2>3. v + z <= w + z  BY <1>0, <1>2
  <2> QED  BY <1>0, <2>2, <2>3, UpToFull
<1>5. Part(v + z, m) \in 0 .. Full /\ Part(w + z, m) \in 0 .. Full
  BY <1>4, PartBounds
<1>6. Part(v + z, m) <= Part(w + z, m)
  <2>1. v + z \in Nat /\ w + z \in Nat  BY <1>0
  <2> QED  BY <1>0, <1>4, <2>1, PartMonoLeft
<1> QED  BY <1>3, <1>4, <1>5, <1>6

\* The risk for what is known of the battery and the discount.
Risk(soc, floor, autonomy, discounted) ==
    IF soc <= floor THEN Full
    ELSE IF soc <= autonomy THEN Most(7000, discounted) ELSE discounted

LEMMA RiskStep ==
    ASSUME NEW s \in Nat, NEW t \in Nat, t <= s, NEW floor \in Nat, NEW a \in Nat,
           NEW d \in 0 .. Full, NEW e \in 0 .. Full, d <= e
    PROVE  /\ Risk(s, floor, a, d) \in Nat /\ Risk(t, floor, a, e) \in Nat
           /\ Risk(s, floor, a, d) <= Risk(t, floor, a, e)
  BY DEF Risk, Most, Full

(* A cycle j that finds no more in the battery than i, or aims higher, and   *)
(* sees the rest the same takes the risk to be at least as high.            *)
LEMMA RiskMono ==
    ASSUME NEW c, Config(c), NEW i, Input(i), NEW j, Input(j),
           j.fc = i.fc, j.stats = i.stats, j.tel.grid = i.tel.grid,
           Known(j.tel.soc) <=> Known(i.tel.soc),
           j.tel.soc <= i.tel.soc,
           NEW a \in Nat, NEW t \in Nat, NEW u \in Nat, t <= u
    PROVE  /\ _blackout_risk(c, i, t, a) \in Nat /\ _blackout_risk(c, j, u, a) \in Nat
           /\ _blackout_risk(c, i, t, a) <= _blackout_risk(c, j, u, a)
<1> DEFINE m == IF ~i.tel.grid THEN Full
                ELSE grid_present_risk_multiplier(resolve_weights(c.order),
                                                  i.stats.elapsed, i.stats.remaining)
           sun == SolarFactor(c, i.fc)
           d == Deficit(Most(t, 1), i.tel.soc)
           e == Deficit(Most(u, 1), j.tel.soc)
           D(x) == IF ~i.tel.grid THEN Score(x, sun) ELSE Part(Score(x, sun), m)
<1>1. /\ c.floor \in Nat /\ c.order \in Orders
      /\ i.tel.soc \in Nat \cup {Unknown} /\ j.tel.soc \in Nat \cup {Unknown}
      /\ i.stats.elapsed \in Nat \cup {Unknown} /\ i.stats.remaining \in Nat \cup {Unknown}
  BY ConfigFields, InputFields DEF RampConfig
<1>2. m \in 0 .. Full
  <2>1. Full \in 0 .. Full  BY DEF Full
  <2>2. grid_present_risk_multiplier(resolve_weights(c.order),
                                     i.stats.elapsed, i.stats.remaining) \in 0 .. Full
    BY <1>1, MultiplierType
  <2> QED  BY <2>1, <2>2
<1>3. sun \in 0 .. Full  BY SolarFactorType
<1>4. CASE ~Known(i.tel.soc)
  BY <1>4 DEF _blackout_risk
<1>5. CASE Known(i.tel.soc)
  <2>1. /\ i.tel.soc \in Nat /\ j.tel.soc \in Nat
        /\ Known(i.tel.soc) /\ Known(j.tel.soc)
    BY <1>1, <1>5 DEF Known
  <2>2. Most(t, 1) \in Nat \ {0} /\ Most(u, 1) \in Nat \ {0} /\ Most(t, 1) <= Most(u, 1)
    BY DEF Most
  <2>3. d \in 0 .. Full /\ e \in 0 .. Full /\ d <= e  BY <2>1, <2>2, DeficitMono
  <2>4. /\ _blackout_risk(c, i, t, a) = Risk(i.tel.soc, c.floor, a, D(d))
        /\ _blackout_risk(c, j, u, a) = Risk(j.tel.soc, c.floor, a, D(e))
    BY <2>1 DEF _blackout_risk, Deficit, Score, Risk
  <2>a. i.tel.grid \in BOOLEAN  BY InputFields
  <2> HIDE DEF m, sun, d, e
  <2>5. D(d) \in 0 .. Full /\ D(e) \in 0 .. Full /\ D(d) <= D(e)
    BY <1>2, <1>3, <2>3, ScoreMono
  <2> HIDE DEF D
  <2> DEFINE k == D(d)
             n == D(e)
  <2>6. k \in 0 .. Full /\ n \in 0 .. Full /\ k <= n  BY <2>5
  <2>7. /\ _blackout_risk(c, i, t, a) = Risk(i.tel.soc, c.floor, a, k)
        /\ _blackout_risk(c, j, u, a) = Risk(j.tel.soc, c.floor, a, n)
    BY <2>4
  <2> HIDE DEF k, n
  <2>8. /\ Risk(i.tel.soc, c.floor, a, k) \in Nat /\ Risk(j.tel.soc, c.floor, a, n) \in Nat
        /\ Risk(i.tel.soc, c.floor, a, k) <= Risk(j.tel.soc, c.floor, a, n)
    BY <1>1, <2>1, <2>6, RiskStep
  <2> QED  BY <2>7, <2>8
<1> QED  BY <1>4, <1>5

-----------------------------------------------------------------------------
(* The decision.                                                            *)

\* The context that GridChargePlan gives the ramp.
ContextOf(c, i, target, bridge, score, amps) ==
    [tel |-> i.tel, fc |-> i.fc, stats |-> i.stats, target |-> target,
     bridge |-> bridge, score |-> score, max |-> effective_max_grid_charge_a(c, i.site),
     last |-> amps, C |-> c, W |-> resolve_weights(c.order)]

LEMMA ContextType ==
    ASSUME NEW c, Config(c), NEW i, Input(i), NEW target \in Nat, c.floor <= target,
           NEW bridge \in Nat, NEW score \in Nat, NEW amps \in Nat \cup {Unknown}
    PROVE  /\ Context(ContextOf(c, i, target, bridge, score, amps))
           /\ effective_max_grid_charge_a(c, i.site) \in Nat
<1> DEFINE x == ContextOf(c, i, target, bridge, score, amps)
<1>1. RampConfig(c) /\ c.max \in Nat  BY ConfigFields
<1>2. effective_max_grid_charge_a(c, i.site) \in Nat
  <2> DEFINE n == Most(c.volts, 1)
             m == Most(0, i.site)
  <2>1. c.volts \in Nat /\ i.site \in Int  BY <1>1, InputFields DEF RampConfig
  <2>2. n \in Nat \ {0} /\ m \in Nat  BY <2>1 DEF Most
  <2>3. effective_max_grid_charge_a(c, i.site) \in {c.max, Least(c.max, m \div n)}
    BY DEF effective_max_grid_charge_a
  <2> HIDE DEF n, m
  <2>4. m \div n \in Nat  BY <2>2
  <2> QED  BY <1>1, <2>3, <2>4 DEF Least
<1>3. /\ i.tel.soc \in Nat \cup {Unknown} /\ i.tel.grid \in BOOLEAN
      /\ i.tel.load \in Int /\ i.tel.pv \in Int /\ i.tel.battery \in Int
      /\ i.stats.avg \in Int /\ i.stats.remaining \in Int /\ Curve(i.fc.solar)
  BY InputFields DEF Unknown
<1>4. /\ x.tel = i.tel /\ x.fc = i.fc /\ x.stats = i.stats /\ x.target = target
      /\ x.bridge = bridge /\ x.score = score /\ x.last = amps /\ x.C = c
      /\ x.max = effective_max_grid_charge_a(c, i.site)
      /\ x.W = resolve_weights(c.order)
  BY DEF ContextOf
<1> HIDE DEF x
<1>5. Context(x)  BY <1>1, <1>2, <1>3, <1>4 DEF Context
<1> QED  BY <1>2, <1>5 DEF x

None == <<Write("enable", 0), Write("amps", 0)>>

LEMMA GridChargePlanType ==
    ASSUME NEW c, Config(c), NEW i, Input(i), NEW target \in Nat, c.floor <= target,
           NEW bridge \in Nat, NEW score \in Nat, NEW amps \in Nat \cup {Unknown}
    PROVE  LET r == GridChargePlan(c, i, target, bridge, score, amps)
           IN  /\ r.plan \in Plans
               /\ \/ ~r.plan.enabled /\ r.plan.amps = 0 /\ r.writes \in {SwitchOff, None}
                  \/ r.plan.enabled /\ r.writes = Charge(r.plan.amps)
               /\ i.ov.force = "auto" /\ c.ramp /\ Known(amps)
                    => r.plan.amps <= amps + c.step
               /\ i.ov.force = "auto" /\ c.ramp /\ r.plan.enabled
                  /\ c.step >= c.min /\ c.off > 0
                    => r.plan.amps >= Least(c.min, effective_max_grid_charge_a(c, i.site))
<1> DEFINE x == ContextOf(c, i, target, bridge, score, amps)
           plan == opportunistic_plan(x)
           r == GridChargePlan(c, i, target, bridge, score, amps)
<1>1. Context(x) /\ effective_max_grid_charge_a(c, i.site) \in Nat  BY ContextType
<1>2. /\ plan \in Plans /\ (~plan.enabled => plan.amps = 0)
      /\ x.C.ramp /\ Known(x.last) => plan.amps <= x.last + x.C.step
      /\ x.C.ramp /\ plan.enabled /\ x.C.step >= x.C.min /\ x.C.off > 0
           => plan.amps >= Least(x.C.min, x.max)
  BY <1>1, OpportunisticPlanType
<1>3. x.C = c /\ x.last = amps /\ x.max = effective_max_grid_charge_a(c, i.site)
  BY DEF ContextOf
<1>4. /\ i.ov.force \in {"auto", "on", "off"} /\ i.stale \in BOOLEAN
      /\ c.step \in Nat
  BY ConfigFields, InputFields DEF RampConfig
<1>5. CASE i.ov.force = "on"
  <2>1. r = [plan |-> On(effective_max_grid_charge_a(c, i.site)),
             writes |-> Charge(effective_max_grid_charge_a(c, i.site))]
    BY <1>5 DEF GridChargePlan
  <2> HIDE DEF r
  <2> QED  BY <1>1, <1>5, <2>1 DEF On, Plans, r
<1>6. CASE i.ov.force = "off" \/ (i.ov.force = "auto" /\ i.stale)
  <2>1. r = [plan |-> Off, writes |-> None]  BY <1>6 DEF GridChargePlan, None
  <2>2. Known(amps) => 0 <= amps + c.step  BY <1>4 DEF Known
  <2> HIDE DEF r
  <2> QED  BY <1>6, <2>1, <2>2 DEF Off, Plans, r
<1>7. CASE i.ov.force = "auto" /\ ~i.stale
  <2>1. r = [plan |-> plan, writes |-> _plan_to_result(plan)]
    BY <1>7 DEF GridChargePlan, ContextOf
  <2> HIDE DEF r, x
  <2> QED  BY <1>2, <1>3, <1>7, <2>1 DEF Plans, _plan_to_result, r
<1> QED  BY <1>4, <1>5, <1>6, <1>7

LEMMA GridChargePlanMono ==
    ASSUME NEW c, Config(c), NEW d, Config(d), SameConfig(c, d), d.max = c.max,
           NEW i, Input(i), NEW j, Input(j),
           j.fc = i.fc, j.stats = i.stats, j.site = i.site, j.ov = i.ov, j.stale = i.stale,
           j.tel.grid = i.tel.grid, j.tel.load = i.tel.load,
           j.tel.pv = i.tel.pv, j.tel.battery = i.tel.battery,
           NEW t \in Nat, NEW u \in Nat, c.floor <= t, t <= u, NEW bridge \in Nat,
           NEW s \in Nat, NEW v \in Nat, s <= v, NEW amps \in Nat \cup {Unknown},
           Percent(j.tel.soc) <= Percent(i.tel.soc),
           Percent(j.tel.soc) < bridge => Percent(i.tel.soc) < bridge
    PROVE  GridChargePlan(c, i, t, bridge, s, amps).plan.amps
             <= GridChargePlan(d, j, u, bridge, v, amps).plan.amps
<1> DEFINE x == ContextOf(c, i, t, bridge, s, amps)
           y == ContextOf(d, j, u, bridge, v, amps)
           max == effective_max_grid_charge_a(c, i.site)
<1>1. c.floor \in Nat /\ d.floor \in Nat /\ d.floor <= u
  BY ConfigFields DEF RampConfig, SameConfig
<1>2. Context(x) /\ Context(y) /\ max \in Nat  BY <1>1, ContextType
<1>3. effective_max_grid_charge_a(d, j.site) = max
  BY DEF effective_max_grid_charge_a, SameConfig
<1>4. Needier(y, x)
  <2>1. /\ x.tel = i.tel /\ x.fc = i.fc /\ x.stats = i.stats /\ x.target = t
        /\ x.bridge = bridge /\ x.score = s /\ x.last = amps /\ x.C = c /\ x.max = max
    BY DEF ContextOf
  <2>2. /\ y.tel = j.tel /\ y.fc = j.fc /\ y.stats = j.stats /\ y.target = u
        /\ y.bridge = bridge /\ y.score = v /\ y.last = amps /\ y.C = d /\ y.max = max
    BY <1>3 DEF ContextOf
  <2> HIDE DEF x, y, max
  <2> QED  BY <2>1, <2>2 DEF Needier
<1>5. opportunistic_plan(x).amps <= opportunistic_plan(y).amps
  BY <1>2, <1>4, OpportunisticPlanMono
<1>6. i.ov.force \in {"auto", "on", "off"} /\ i.stale \in BOOLEAN  BY InputFields
<1>7. CASE i.ov.force = "on"
  <2>1. GridChargePlan(c, i, t, bridge, s, amps).plan = On(max)
        /\ GridChargePlan(d, j, u, bridge, v, amps).plan = On(max)
    BY <1>3, <1>7 DEF GridChargePlan
  <2> QED  BY <1>2, <2>1 DEF On
<1>8. CASE i.ov.force = "off" \/ (i.ov.force = "auto" /\ i.stale)
  <2>1. GridChargePlan(c, i, t, bridge, s, amps).plan = Off
        /\ GridChargePlan(d, j, u, bridge, v, amps).plan = Off
    BY <1>8 DEF GridChargePlan
  <2> QED  BY <2>1 DEF Off
<1>9. CASE i.ov.force = "auto" /\ ~i.stale
  <2>1. GridChargePlan(c, i, t, bridge, s, amps).plan = opportunistic_plan(x)
    BY <1>9 DEF GridChargePlan, ContextOf
  <2>2. GridChargePlan(d, j, u, bridge, v, amps).plan = opportunistic_plan(y)
    BY <1>9 DEF GridChargePlan, ContextOf
  <2> HIDE DEF x, y
  <2> QED  BY <1>5, <2>1, <2>2
<1> QED  BY <1>6, <1>7, <1>8, <1>9

\* The parts of decide: the reserve of the MPC, the target and the risk.
Mpc(c, i, leff) == IF c.mpc THEN _solve(c, i, leff) ELSE Unknown
Rules(c, i, leff) == compute_reserve(c, i.fc, leff)
Target(c, i, leff) == TargetSoc(c, i, Rules(c, i, leff).target, Mpc(c, i, leff))
RiskOf(c, i, leff) ==
    _blackout_risk(c, i, Target(c, i, leff), Rules(c, i, leff).autonomy)
ChargeOf(c, i, leff, amps) ==
    GridChargePlan(c, i, Target(c, i, leff), Rules(c, i, leff).bridge,
                   RiskOf(c, i, leff), amps)

LEMMA DecideParts ==
    ASSUME NEW c, NEW i, NEW leff, NEW amps, NEW pending
    PROVE  LET d == decide(c, i, leff, amps, pending)
           IN  /\ c.engine /\ c.charge => /\ d.plan = ChargeOf(c, i, leff, amps).plan
                                          /\ d.writes = ChargeOf(c, i, leff, amps).writes
               /\ ~(c.engine /\ c.charge) => d.plan = NoPlan /\ d.writes = <<>>
               /\ d.shed = IF i.ov.shed_off THEN force_off_plan(c) ELSE shed_plan(c, i, pending)
               /\ c.engine => d.target = Target(c, i, leff)
               /\ ~c.engine => d.target = IF i.tel.soc \notin {0, Unknown} THEN i.tel.soc
                                          ELSE c.floor
               /\ d.score = IF ~c.engine THEN 0
                            ELSE IF Known(Mpc(c, i, leff)) /\ i.lp = "unserved"
                            THEN Most(RiskOf(c, i, leff), 9000) ELSE RiskOf(c, i, leff)
<1> DEFINE d == decide(c, i, leff, amps, pending)
           t == Target(c, i, leff)
           s == RiskOf(c, i, leff)
           m == Mpc(c, i, leff)
           g == IF c.engine /\ c.charge THEN ChargeOf(c, i, leff, amps)
                ELSE [plan |-> NoPlan, writes |-> <<>>]
<1>1. d = [plan |-> g.plan, writes |-> g.writes,
           shed |-> IF i.ov.shed_off THEN force_off_plan(c) ELSE shed_plan(c, i, pending),
           target |-> CASE c.engine -> t
                        [] ~c.engine /\ i.tel.soc \notin {0, Unknown} -> i.tel.soc
                        [] OTHER -> c.floor,
           rules |-> Rules(c, i, leff).target,
           score |-> CASE ~c.engine -> 0
                       [] c.engine /\ Known(m) /\ i.lp = "unserved" -> Most(s, 9000)
                       [] OTHER -> s]
  BY DEF decide, ChargeOf, RiskOf, Target, Rules, Mpc
<1> HIDE DEF d, t, s, m
<1>2. d.plan = g.plan /\ d.writes = g.writes
      /\ d.shed = IF i.ov.shed_off THEN force_off_plan(c) ELSE shed_plan(c, i, pending)
  BY <1>1
<1>3. /\ c.engine => d.target = t
      /\ ~c.engine => d.target = IF i.tel.soc \notin {0, Unknown} THEN i.tel.soc ELSE c.floor
  BY <1>1
<1>4. d.score = IF ~c.engine THEN 0
                ELSE IF Known(m) /\ i.lp = "unserved" THEN Most(s, 9000) ELSE s
  BY <1>1
<1> QED  BY <1>2, <1>3, <1>4 DEF d, t, s, m

LEMMA PartsType ==
    ASSUME NEW c, Config(c), NEW i, Input(i), NEW leff \in Nat
    PROVE  /\ Mpc(c, i, leff) \in Nat \cup {Unknown}
           /\ Rules(c, i, leff).autonomy \in Nat /\ Rules(c, i, leff).bridge \in Nat
           /\ Rules(c, i, leff).target \in Nat
           /\ c.floor <= Rules(c, i, leff).target /\ Rules(c, i, leff).target <= c.ceiling
           /\ Target(c, i, leff) \in Nat /\ c.floor <= Target(c, i, leff)
           /\ RiskOf(c, i, leff) \in Nat
<1>1. Mpc(c, i, leff) \in Nat \cup {Unknown}  BY SolveType DEF Mpc
<1>2. /\ Rules(c, i, leff).autonomy \in Nat /\ Rules(c, i, leff).bridge \in Nat
      /\ Rules(c, i, leff).target \in Nat
      /\ c.floor <= Rules(c, i, leff).target /\ Rules(c, i, leff).target <= c.ceiling
  BY ReserveType DEF Rules
<1>3. Target(c, i, leff) \in Nat /\ c.floor <= Target(c, i, leff)
  BY <1>1, <1>2, TargetSocBounds DEF Target
<1>4. RiskOf(c, i, leff) \in Nat
  <2>1. i.tel.soc \in Int  BY InputFields DEF Unknown
  <2>2. i.tel.soc <= i.tel.soc /\ Target(c, i, leff) <= Target(c, i, leff)  BY <1>3, <2>1
  <2> QED  BY <1>2, <1>3, <2>2, RiskMono DEF RiskOf
<1> QED  BY <1>1, <1>2, <1>3, <1>4

(* What a decision makes of the grid charge. *)
LEMMA DecidePlan ==
    ASSUME NEW c, Config(c), NEW i, Input(i), NEW leff \in Nat,
           NEW amps \in Nat \cup {Unknown}, NEW pending
    PROVE  LET d == decide(c, i, leff, amps, pending)
           IN  /\ d.plan \in Plans \cup {NoPlan}
               /\ \/ d.plan = NoPlan /\ d.writes = <<>>
                  \/ d.plan = Off /\ d.writes \in {SwitchOff, None}
                  \/ d.plan \in Plans /\ d.plan.enabled /\ d.writes = Charge(d.plan.amps)
               /\ i.ov.force = "auto" /\ c.ramp /\ Known(amps)
                    => d.plan.amps <= amps + c.step
               /\ i.ov.force = "auto" /\ c.ramp /\ d.plan.enabled
                  /\ c.step >= c.min /\ c.off > 0
                    => d.plan.amps >= Least(c.min, effective_max_grid_charge_a(c, i.site))
<1> DEFINE d == decide(c, i, leff, amps, pending)
           g == ChargeOf(c, i, leff, amps)
<1>1. /\ c.engine /\ c.charge => d.plan = g.plan /\ d.writes = g.writes
      /\ ~(c.engine /\ c.charge) => d.plan = NoPlan /\ d.writes = <<>>
  BY DecideParts
<1>2. /\ g.plan \in Plans
      /\ \/ ~g.plan.enabled /\ g.plan.amps = 0 /\ g.writes \in {SwitchOff, None}
         \/ g.plan.enabled /\ g.writes = Charge(g.plan.amps)
      /\ i.ov.force = "auto" /\ c.ramp /\ Known(amps) => g.plan.amps <= amps + c.step
      /\ i.ov.force = "auto" /\ c.ramp /\ g.plan.enabled /\ c.step >= c.min /\ c.off > 0
           => g.plan.amps >= Least(c.min, effective_max_grid_charge_a(c, i.site))
  BY PartsType, GridChargePlanType DEF ChargeOf
<1>3. Known(amps) => 0 <= amps + c.step
  BY ConfigFields DEF Known, RampConfig
<1> DEFINE Sound(e) ==
             /\ e.plan \in Plans \cup {NoPlan}
             /\ \/ e.plan = NoPlan /\ e.writes = <<>>
                \/ e.plan = Off /\ e.writes \in {SwitchOff, None}
                \/ e.plan \in Plans /\ e.plan.enabled /\ e.writes = Charge(e.plan.amps)
             /\ i.ov.force = "auto" /\ c.ramp /\ Known(amps) => e.plan.amps <= amps + c.step
             /\ i.ov.force = "auto" /\ c.ramp /\ e.plan.enabled /\ c.step >= c.min /\ c.off > 0
                  => e.plan.amps >= Least(c.min, effective_max_grid_charge_a(c, i.site))
<1> HIDE DEF d, g
<1>4. Sound(g)
  <2>1. ~g.plan.enabled /\ g.plan.amps = 0 => g.plan = Off
    BY <1>2 DEF Off, Plans
  <2> QED  BY <1>2, <2>1
<1>5. ASSUME c.engine /\ c.charge PROVE Sound(d)
  <2>1. d.plan = g.plan /\ d.writes = g.writes  BY <1>1, <1>5
  <2> QED  BY <1>4, <2>1
<1>6. ASSUME ~(c.engine /\ c.charge) PROVE Sound(d)
  <2>1. d.plan = NoPlan /\ d.writes = <<>>  BY <1>1, <1>6
  <2>2. ~NoPlan.enabled /\ NoPlan.amps < 0  BY DEF NoPlan, Unknown
  <2>3. Known(amps) => amps + c.step \in Int  BY ConfigFields DEF Known, RampConfig
  <2>4. NoPlan.amps \in Int  BY DEF NoPlan, Unknown
  <2> QED  BY <1>3, <2>1, <2>2, <2>3, <2>4
<1>7. Sound(d)  BY <1>5, <1>6
<1> QED  BY <1>7 DEF d

LEMMA SheddingMono ==
    ASSUME NEW c, Config(c), NEW i, Input(i), NEW j, Input(j),
           j.ov = i.ov, j.stale = i.stale, j.tel.grid = i.tel.grid,
           Known(i.tel.soc), Known(j.tel.soc), j.tel.soc <= i.tel.soc,
           NEW leff, NEW amps, NEW pending
    PROVE  SheddingOf(decide(c, i, leff, amps, pending))
             \subseteq SheddingOf(decide(c, j, leff, amps, pending))
<1> DEFINE d == decide(c, i, leff, amps, pending)
           e == decide(c, j, leff, amps, pending)
<1>1. /\ d.shed = IF i.ov.shed_off THEN force_off_plan(c) ELSE shed_plan(c, i, pending)
      /\ e.shed = IF i.ov.shed_off THEN force_off_plan(c) ELSE shed_plan(c, j, pending)
  BY DecideParts
<1> HIDE DEF d, e
<1>2. CASE i.ov.shed_off \/ ~c.shed
  BY <1>1, <1>2 DEF SheddingOf, shed_plan, d, e
<1>3. CASE ~i.ov.shed_off /\ c.shed
  <2>1. /\ d.shed = [n \in DOMAIN c.tiers |-> TierPlan(c, c.tiers[n], i, pending)]
        /\ e.shed = [n \in DOMAIN c.tiers |-> TierPlan(c, c.tiers[n], j, pending)]
    BY <1>1, <1>3 DEF shed_plan
  <2>2. /\ c.tiers \in Seq(Tier) /\ i.tel.soc \in Nat /\ j.tel.soc \in Nat
        /\ c.gridRestores \in BOOLEAN /\ i.tel.grid \in BOOLEAN /\ i.stale \in BOOLEAN
    BY ConfigFields, InputFields DEF Known
  <2>3. ASSUME NEW n \in DOMAIN c.tiers, ~TierPlan(c, c.tiers[n], i, pending).on
        PROVE  TierPlan(c, c.tiers[n], j, pending) = TierPlan(c, c.tiers[n], i, pending)
    <3> DEFINE tier == c.tiers[n]
    <3>1. tier.below \in Int /\ tier.above \in Int
      <4>1. tier \in Tier  BY <2>2
      <4> HIDE DEF tier
      <4> QED  BY <4>1 DEF Tier
    <3>2. ~TierPlan(c, tier, i, pending).on  BY <2>3
    <3> HIDE DEF tier
    <3>3. ~(i.tel.grid /\ c.gridRestores)
      BY <3>2 DEF TierPlan, Switch, Leave
    <3>4. CASE i.stale
      <4>1. /\ TierPlan(c, tier, i, pending) = Switch(tier.loads, FALSE)
            /\ TierPlan(c, tier, j, pending) = Switch(tier.loads, FALSE)
        <5>1. \A k : ~(k.tel.grid /\ c.gridRestores) /\ k.stale
                => TierPlan(c, tier, k, pending) = Switch(tier.loads, FALSE)
          BY DEF TierPlan
        <5>2. ~(j.tel.grid /\ c.gridRestores) /\ j.stale  BY <3>3, <3>4
        <5> QED  BY <3>3, <3>4, <5>1, <5>2
      <4> QED  BY <4>1 DEF tier
    <3>5. CASE ~i.stale
      <4>1. i.tel.soc < tier.below
        BY <3>2, <3>3, <3>5 DEF TierPlan, Switch, Leave
      <4>2. j.tel.soc < tier.below  BY <2>2, <3>1, <4>1
      <4>3. /\ TierPlan(c, tier, i, pending) = Switch(tier.loads, FALSE)
            /\ TierPlan(c, tier, j, pending) = Switch(tier.loads, FALSE)
        <5>1. \A k : /\ ~(k.tel.grid /\ c.gridRestores) /\ ~k.stale
                     /\ Known(k.tel.soc) /\ k.tel.soc < tier.below
                => TierPlan(c, tier, k, pending) = Switch(tier.loads, FALSE)
          BY DEF TierPlan
        <5>2. ~(j.tel.grid /\ c.gridRestores) /\ ~j.stale  BY <3>3, <3>5
        <5> QED  BY <2>2, <3>3, <3>5, <4>1, <4>2, <5>1, <5>2
      <4> QED  BY <4>3 DEF tier
    <3> QED  BY <2>2, <3>4, <3>5
  <2>4. SheddingOf(d) \subseteq SheddingOf(e)
    <3> SUFFICES ASSUME NEW l \in SheddingOf(d) PROVE l \in SheddingOf(e)
      OBVIOUS
    <3>1. PICK n \in DOMAIN d.shed : ~d.shed[n].on /\ l \in d.shed[n].loads
      BY DEF SheddingOf
    <3>2. n \in DOMAIN e.shed /\ e.shed[n] = d.shed[n]  BY <2>1, <2>3, <3>1
    <3> QED  BY <3>1, <3>2 DEF SheddingOf
  <2> QED  BY <2>4 DEF d, e
<1> QED  BY <1>2, <1>3

(* A decision for less in the battery is not less careful. *)
LEMMA DecideMono ==
    ASSUME NEW c, Config(c), NEW i, Input(i), Known(i.tel.soc), NEW leff \in Nat,
           NEW amps \in Nat \cup {Unknown}, NEW pending,
           NEW other \in Nat, other < i.tel.soc
    PROVE  LET d == decide(c, i, leff, amps, pending)
               e == decide(c, [i EXCEPT !.tel.soc = other], leff, amps, pending)
               bridge == compute_reserve(c, i.fc, leff).bridge
           IN  /\ ~(other < bridge /\ bridge <= i.tel.soc) => e.plan.amps >= d.plan.amps
               /\ e.score >= d.score
               /\ SheddingOf(d) \subseteq SheddingOf(e)
<1> DEFINE j == [i EXCEPT !.tel.soc = other]
           d == decide(c, i, leff, amps, pending)
           e == decide(c, j, leff, amps, pending)
           bridge == compute_reserve(c, i.fc, leff).bridge
<1>1. /\ Input(j) /\ j.tel.soc = other
      /\ j.tel.grid = i.tel.grid /\ j.tel.load = i.tel.load
      /\ j.tel.pv = i.tel.pv /\ j.tel.battery = i.tel.battery
      /\ j.stale = i.stale /\ j.fc = i.fc /\ j.stats = i.stats
      /\ j.site = i.site /\ j.lp = i.lp /\ j.ov = i.ov
  BY InputWithSoc
<1> HIDE DEF j
<1>2. i.tel.soc \in Nat /\ Known(j.tel.soc) /\ j.tel.soc <= i.tel.soc
      /\ Percent(j.tel.soc) = other /\ Percent(i.tel.soc) = i.tel.soc
  BY <1>1, InputFields DEF Known, Unknown, Percent
<1>3. Rules(c, j, leff) = Rules(c, i, leff) /\ bridge = Rules(c, i, leff).bridge
  BY <1>1 DEF Rules
<1>4. Mpc(c, j, leff) = Mpc(c, i, leff)
  BY <1>1, <1>2 DEF Mpc, _solve
<1>5. Target(c, j, leff) = Target(c, i, leff)
  BY <1>1, <1>3, <1>4 DEF Target, TargetSoc
<1>6. /\ Rules(c, i, leff).autonomy \in Nat /\ Rules(c, i, leff).bridge \in Nat
      /\ Target(c, i, leff) \in Nat /\ c.floor <= Target(c, i, leff)
      /\ RiskOf(c, i, leff) \in Nat /\ RiskOf(c, j, leff) \in Nat
  BY <1>1, PartsType
<1>7. RiskOf(c, i, leff) <= RiskOf(c, j, leff)
  <2>1. Target(c, i, leff) <= Target(c, i, leff)  BY <1>6
  <2> QED  BY <1>1, <1>2, <1>3, <1>5, <1>6, <2>1, RiskMono DEF RiskOf
<1>8. /\ c.engine /\ c.charge => d.plan = ChargeOf(c, i, leff, amps).plan
      /\ ~(c.engine /\ c.charge) => d.plan = NoPlan
      /\ d.score = IF ~c.engine THEN 0
                   ELSE IF Known(Mpc(c, i, leff)) /\ i.lp = "unserved"
                   THEN Most(RiskOf(c, i, leff), 9000) ELSE RiskOf(c, i, leff)
  BY DecideParts
<1>9. /\ c.engine /\ c.charge => e.plan = ChargeOf(c, j, leff, amps).plan
      /\ ~(c.engine /\ c.charge) => e.plan = NoPlan
      /\ e.score = IF ~c.engine THEN 0
                   ELSE IF Known(Mpc(c, j, leff)) /\ j.lp = "unserved"
                   THEN Most(RiskOf(c, j, leff), 9000) ELSE RiskOf(c, j, leff)
  BY DecideParts
<1>10. SheddingOf(d) \subseteq SheddingOf(e)  BY <1>1, <1>2, SheddingMono
<1> HIDE DEF d, e, bridge
<1>11. e.score >= d.score
  BY <1>1, <1>4, <1>6, <1>7, <1>8, <1>9 DEF Most
<1>12. ASSUME ~(other < bridge /\ bridge <= i.tel.soc) PROVE e.plan.amps >= d.plan.amps
  <2>1. CASE ~(c.engine /\ c.charge)
    BY <1>8, <1>9, <2>1 DEF NoPlan, Unknown
  <2>2. CASE c.engine /\ c.charge
    <3> DEFINE b == Rules(c, i, leff).bridge
               t == Target(c, i, leff)
    <3>1. b \in Nat /\ t \in Nat /\ t <= t /\ c.floor <= t /\ (other < b => i.tel.soc < b)
      BY <1>2, <1>3, <1>6, <1>12
    <3>2. SameConfig(c, c)  BY DEF SameConfig
    <3>3. GridChargePlan(c, i, t, b, RiskOf(c, i, leff), amps).plan.amps
            <= GridChargePlan(c, j, t, b, RiskOf(c, j, leff), amps).plan.amps
      <4> HIDE DEF b, t
      <4>1. Percent(j.tel.soc) <= Percent(i.tel.soc)
            /\ (Percent(j.tel.soc) < b => Percent(i.tel.soc) < b)
        BY <1>1, <1>2, <3>1
      <4> QED  BY <1>1, <1>6, <1>7, <3>1, <3>2, <4>1, GridChargePlanMono
    <3>4. /\ d.plan = GridChargePlan(c, i, t, b, RiskOf(c, i, leff), amps).plan
          /\ e.plan = GridChargePlan(c, j, t, b, RiskOf(c, j, leff), amps).plan
      BY <1>3, <1>5, <1>8, <1>9, <2>2 DEF ChargeOf
    <3>5. d.plan.amps \in Int /\ e.plan.amps \in Int
      <4>1. d.plan \in Plans \cup {NoPlan}  BY DecidePlan DEF d
      <4>2. e.plan \in Plans \cup {NoPlan}  BY <1>1, DecidePlan DEF e
      <4> QED  BY <4>1, <4>2 DEF Plans, NoPlan, Unknown
    <3> HIDE DEF b, t
    <3> QED  BY <3>3, <3>4, <3>5
  <2> QED  BY <2>1, <2>2
<1> QED  BY <1>10, <1>11, <1>12 DEF d, e, j, bridge

(* The MPC takes nothing away from what the rules ask for. *)
LEMMA MpcAdds ==
    ASSUME NEW c, Config(c), NEW i, Input(i), NEW leff \in Nat,
           NEW amps \in Nat \cup {Unknown}, NEW pending
    PROVE  LET d == decide([c EXCEPT !.mpc = FALSE], i, leff, amps, pending)
               e == decide(c, i, leff, amps, pending)
           IN  /\ e.target >= d.target /\ e.score >= d.score
               /\ e.plan.amps >= d.plan.amps
<1> DEFINE b == [c EXCEPT !.mpc = FALSE]
           d == decide(b, i, leff, amps, pending)
           e == decide(c, i, leff, amps, pending)
<1>1. /\ Config(b) /\ b.mpc = FALSE /\ SameConfig(c, b)
      /\ b.engine = c.engine /\ b.charge = c.charge
      /\ b.hours = c.hours /\ b.ceiling = c.ceiling /\ b.max = c.max
      /\ b.efficiency = c.efficiency /\ b.buffer = c.buffer
      /\ b.cloudy = c.cloudy /\ b.clear = c.clear
  BY ConfigWithoutMpc
<1> HIDE DEF b
<1>2. /\ b.order = c.order /\ b.floor = c.floor /\ b.capacity = c.capacity
      /\ SameConfig(b, c)
  BY <1>1 DEF SameConfig
<1>3. Rules(b, i, leff) = Rules(c, i, leff)
  BY <1>1, <1>2 DEF Rules, compute_reserve, Buffer, _solar_bridge_wh
<1>4. Mpc(b, i, leff) = Unknown  BY <1>1 DEF Mpc
<1>5. /\ Mpc(c, i, leff) \in Nat \cup {Unknown}
      /\ Rules(c, i, leff).autonomy \in Nat /\ Rules(c, i, leff).bridge \in Nat
      /\ Rules(c, i, leff).target \in Nat
      /\ c.floor <= Rules(c, i, leff).target /\ Rules(c, i, leff).target <= c.ceiling
      /\ Target(c, i, leff) \in Nat /\ c.floor <= Target(c, i, leff)
      /\ RiskOf(c, i, leff) \in Nat
      /\ Target(b, i, leff) \in Nat /\ b.floor <= Target(b, i, leff)
      /\ RiskOf(b, i, leff) \in Nat
  BY <1>1, PartsType
<1>6. Target(b, i, leff) <= Target(c, i, leff)
  <2>1. Target(b, i, leff) = TargetSoc(c, i, Rules(c, i, leff).target, Unknown)
    BY <1>1, <1>2, <1>3, <1>4 DEF Target, TargetSoc
  <2> QED  BY <1>5, <2>1, TargetSocBounds DEF Target
<1>7. RiskOf(b, i, leff) <= RiskOf(c, i, leff)
  <2>1. i.tel.soc \in Int /\ i.tel.soc <= i.tel.soc  BY InputFields DEF Unknown
  <2>2. _blackout_risk(c, i, Target(b, i, leff), Rules(c, i, leff).autonomy)
          <= _blackout_risk(c, i, Target(c, i, leff), Rules(c, i, leff).autonomy)
    BY <1>5, <1>6, <2>1, RiskMono
  <2>3. \A t, a : _blackout_risk(b, i, t, a) = _blackout_risk(c, i, t, a)
    BY <1>1, <1>2 DEF _blackout_risk, SolarFactor
  <2> QED  BY <1>3, <2>2, <2>3 DEF RiskOf
<1>8. /\ c.engine /\ c.charge => d.plan = ChargeOf(b, i, leff, amps).plan
      /\ ~(c.engine /\ c.charge) => d.plan = NoPlan
      /\ c.engine => d.target = Target(b, i, leff)
      /\ ~c.engine => d.target = IF i.tel.soc \notin {0, Unknown} THEN i.tel.soc ELSE c.floor
      /\ d.score = IF ~c.engine THEN 0 ELSE RiskOf(b, i, leff)
  BY <1>1, <1>2, <1>4, DecideParts DEF Known
<1>9. /\ c.engine /\ c.charge => e.plan = ChargeOf(c, i, leff, amps).plan
      /\ ~(c.engine /\ c.charge) => e.plan = NoPlan
      /\ c.engine => e.target = Target(c, i, leff)
      /\ ~c.engine => e.target = IF i.tel.soc \notin {0, Unknown} THEN i.tel.soc ELSE c.floor
      /\ e.score = IF ~c.engine THEN 0
                   ELSE IF Known(Mpc(c, i, leff)) /\ i.lp = "unserved"
                   THEN Most(RiskOf(c, i, leff), 9000) ELSE RiskOf(c, i, leff)
  BY DecideParts
<1>10. d.plan \in Plans \cup {NoPlan} /\ e.plan \in Plans \cup {NoPlan}
  BY <1>1, DecidePlan
<1> HIDE DEF d, e
<1>11. e.target >= d.target
  <2>1. i.tel.soc \in Int /\ c.floor \in Int /\ c.engine \in BOOLEAN
    BY ConfigFields, InputFields DEF Unknown
  <2>2. CASE c.engine  BY <1>5, <1>6, <1>8, <1>9, <2>2
  <2>3. CASE ~c.engine
    <3>1. d.target = e.target /\ d.target \in {i.tel.soc, c.floor}  BY <1>8, <1>9, <2>3
    <3> QED  BY <2>1, <3>1
  <2> QED  BY <2>2, <2>3
<1>12. e.score >= d.score  BY <1>5, <1>7, <1>8, <1>9 DEF Most
<1>13. e.plan.amps >= d.plan.amps
  <2>1. CASE ~(c.engine /\ c.charge)  BY <1>8, <1>9, <2>1 DEF NoPlan, Unknown
  <2>2. CASE c.engine /\ c.charge
    <3> DEFINE r == Rules(c, i, leff).bridge
               t == Target(b, i, leff)
               u == Target(c, i, leff)
               s == RiskOf(b, i, leff)
               v == RiskOf(c, i, leff)
    <3>1. /\ r \in Nat /\ t \in Nat /\ u \in Nat /\ s \in Nat /\ v \in Nat
          /\ t <= u /\ s <= v /\ b.floor <= t /\ c.max = b.max
      BY <1>1, <1>5, <1>6, <1>7
    <3>2. /\ d.plan = GridChargePlan(b, i, t, r, s, amps).plan
          /\ e.plan = GridChargePlan(c, i, u, r, v, amps).plan
      BY <1>3, <1>8, <1>9, <2>2 DEF ChargeOf
    <3>3. Percent(i.tel.soc) \in Int  BY InputFields DEF Percent, Known
    <3> HIDE DEF r, t, u, s, v
    <3>4. Percent(i.tel.soc) <= Percent(i.tel.soc)  BY <3>3
    <3>5. GridChargePlan(b, i, t, r, s, amps).plan.amps
            <= GridChargePlan(c, i, u, r, v, amps).plan.amps
      BY <1>1, <1>2, <3>1, <3>4, GridChargePlanMono
    <3>6. d.plan.amps \in Int /\ e.plan.amps \in Int
      BY <1>10 DEF Plans, NoPlan, Unknown
    <3> QED  BY <3>2, <3>5, <3>6
  <2> QED  BY <2>1, <2>2
<1> QED  BY <1>11, <1>12, <1>13 DEF d, e, b

-----------------------------------------------------------------------------
(* The cycle.  The decision being carried out is still what decide makes of *)
(* the memory; what the memory holds is not above the inverter's current    *)
(* unless it may be wrong; after a counted cycle without charge the last    *)
(* plan says so, and after two the memory is zero; and the load remembered  *)
(* for the reserve is the one of the last cycle that saw a load.            *)

DecisionInv == cur # Nothing => cur.d = decide(C, cur.i, cur.leff, last, shed)
AmpsInv == Known(last) /\ ~astray => last <= reg.amps
OffsInv == /\ offs >= 1 => latest = Off
           /\ offs = 2 => last = 0
LoadInv == Known(before) => before = prev /\ before <= Most(C.critical, C.cap)
CycleInv == TypeOK /\ DecisionInv /\ AmpsInv /\ OffsInv /\ LoadInv

LEMMA CycleFacts ==
    ASSUME TypeOK
    PROVE  /\ Config(C) /\ C.max \in Nat /\ C.critical \in Nat /\ C.cap \in Nat
           /\ C.step \in Nat
           /\ cur # Nothing => Input(cur.i)
<1>1. C \in Configs /\ (cur # Nothing => cur.i \in Inputs)  BY DEF TypeOK
<1>2. Config(C)  BY <1>1, CycleAssumption DEF Config
<1>3. cur # Nothing => Input(cur.i)  BY <1>1, CycleAssumption
<1> QED  BY <1>2, <1>3, ConfigFields DEF RampConfig

(* The fields of a plan, or of none. *)
LEMMA PlanFields ==
    ASSUME NEW p \in Plans \cup {NoPlan}
    PROVE  p.enabled \in BOOLEAN /\ p.amps \in Nat \cup {Unknown}
<1>1. CASE p \in Plans  BY <1>1 DEF Plans
<1>2. CASE p = NoPlan
  <2>1. NoPlan.enabled = FALSE /\ NoPlan.amps = Unknown  BY DEF NoPlan
  <2> QED  BY <1>2, <2>1
<1> QED  BY <1>1, <1>2

(* What is asked of the registers. *)
LEMMA AskedFacts ==
    ASSUME TypeOK, DecisionInv, cur # Nothing
    PROVE  /\ cur.d.plan \in Plans \cup {NoPlan}
           /\ cur.d.plan.amps \in Int /\ cur.d.plan.enabled \in BOOLEAN
           /\ Asked("enable") \subseteq {0, 1}
           /\ Asked("amps") \subseteq {cur.d.plan.amps}
           /\ Asked("amps") \subseteq Nat
           /\ cur.d.writes = <<>> => /\ Asked("amps") = {} /\ Asked("enable") = {}
                                     /\ cur.d.plan # Off
           /\ cur.i.ov.force = "auto" /\ C.ramp /\ Known(last)
                => cur.d.plan.amps <= last + C.step
<1> DEFINE d == cur.d
<1>1. /\ d.plan \in Plans \cup {NoPlan}
      /\ \/ d.plan = NoPlan /\ d.writes = <<>>
         \/ d.plan = Off /\ d.writes \in {SwitchOff, None}
         \/ d.plan \in Plans /\ d.plan.enabled /\ d.writes = Charge(d.plan.amps)
      /\ cur.i.ov.force = "auto" /\ C.ramp /\ Known(last) => d.plan.amps <= last + C.step
  <2>1. cur.leff \in Nat /\ last \in Nat \cup {Unknown}  BY DEF TypeOK
  <2> DEFINE e == decide(C, cur.i, cur.leff, last, shed)
  <2>2. d = e  BY DEF DecisionInv
  <2>3. /\ e.plan \in Plans \cup {NoPlan}
        /\ \/ e.plan = NoPlan /\ e.writes = <<>>
           \/ e.plan = Off /\ e.writes \in {SwitchOff, None}
           \/ e.plan \in Plans /\ e.plan.enabled /\ e.writes = Charge(e.plan.amps)
        /\ cur.i.ov.force = "auto" /\ C.ramp /\ Known(last) => e.plan.amps <= last + C.step
    BY <2>1, CycleFacts, DecidePlan
  <2> HIDE DEF d, e
  <2> QED  BY <2>2, <2>3
<1> DEFINE Of(w, cap) == {w[n].value : n \in {m \in DOMAIN w : w[m].cap = cap}}
<1>2. Asked("amps") = Of(d.writes, "amps") /\ Asked("enable") = Of(d.writes, "enable")
  BY DEF Asked
<1>3. Of(<<>>, "amps") = {} /\ Of(<<>>, "enable") = {}  OBVIOUS
<1>4. Of(SwitchOff, "amps") = {} /\ Of(SwitchOff, "enable") \subseteq {0, 1}
      /\ SwitchOff # <<>>
  BY DEF SwitchOff, Write
<1>5. Of(None, "amps") \subseteq {0} /\ Of(None, "enable") \subseteq {0, 1} /\ None # <<>>
  BY DEF None, Write
<1>6. \A a : /\ Of(Charge(a), "amps") \subseteq {a} /\ Of(Charge(a), "enable") \subseteq {0, 1}
             /\ Charge(a) # <<>>
  BY DEF Charge, Write
<1> HIDE DEF Of, d
<1>p. d.plan.amps \in Int /\ d.plan.enabled \in BOOLEAN
  BY <1>1, PlanFields DEF Unknown
<1>n. NoPlan # Off  BY DEF NoPlan, Off, Unknown
<1>7. CASE d.plan = NoPlan /\ d.writes = <<>>
  BY <1>1, <1>2, <1>3, <1>n, <1>p, <1>7 DEF d
<1>8. CASE d.plan = Off /\ d.writes \in {SwitchOff, None}
  <2>1. Off.amps = 0  BY DEF Off
  <2> QED  BY <1>1, <1>2, <1>4, <1>5, <1>p, <1>8, <2>1 DEF d
<1>9. CASE d.plan \in Plans /\ d.plan.enabled /\ d.writes = Charge(d.plan.amps)
  <2>1. d.plan.amps \in Nat  BY <1>9 DEF Plans
  <2> QED  BY <1>1, <1>2, <1>6, <1>p, <1>9, <2>1 DEF d
<1> QED  BY <1>1, <1>7, <1>8, <1>9

LEMMA CycleInit == Init => CycleInv
<1> SUFFICES ASSUME Init PROVE CycleInv
  OBVIOUS
<1>1. C \in Configs /\ C.max \in Nat
  <2>1. C \in Configs  BY DEF Init
  <2> QED  BY <2>1, CycleAssumption, ConfigFields DEF Config
<1>2. TypeOK
  <2>1. MaxFaults \in Nat  BY CycleAssumption
  <2>2. /\ prev = Unknown /\ last = Unknown /\ before = Unknown /\ latest = NoPlan
        /\ reg = [enable |-> 0, amps |-> C.max] /\ shed = {} /\ cur = Nothing
        /\ faults = 0 /\ offs = 0 /\ astray = FALSE
    BY DEF Init
  <2>3. latest.enabled \in BOOLEAN /\ latest.amps \in Nat \cup {Unknown}
    BY <2>2 DEF NoPlan
  <2>4. reg.enable \in {0, 1} /\ reg.amps \in Nat  BY <1>1, <2>2
  <2>5. astray \in BOOLEAN  BY <2>2
  <2> QED  BY <1>1, <2>1, <2>2, <2>3, <2>4, <2>5 DEF TypeOK
<1> QED  BY <1>2 DEF Init, CycleInv, DecisionInv, AmpsInv, OffsInv, LoadInv, Known

LEMMA DecideInv ==
    ASSUME CycleInv, NEW i \in Inputs, Decide(i)
    PROVE  CycleInv'
<1> DEFINE leff == EffectiveLoad(C, i, prev)
<1>1. TypeOK /\ Config(C) /\ Input(i) /\ prev \in Nat \cup {Unknown}
  BY CycleFacts, CycleAssumption DEF CycleInv, TypeOK
<1>2. /\ leff \in Nat
      /\ C.adaptive /\ Sees(i) => leff <= Most(C.critical, C.cap)
  BY <1>1, EffectiveLoadBounds
<1> HIDE DEF leff
<1>3. /\ cur' = [pc |-> "write", i |-> i, leff |-> leff, d |-> decide(C, i, leff, last, shed)]
      /\ prev' = (IF C.engine THEN leff ELSE prev)
      /\ before' = (IF C.engine /\ C.adaptive /\ Sees(i) THEN leff ELSE Unknown)
      /\ UNCHANGED <<C, last, latest, reg, shed, faults, offs, astray>>
  BY DEF Decide, plant, Remembered, leff
<1>4. TypeOK'  BY <1>1, <1>2, <1>3 DEF TypeOK
<1>5. DecisionInv'
  <2>1. cur'.i = i /\ cur'.leff = leff /\ cur'.d = decide(C, i, leff, last, shed)
    BY <1>3
  <2>2. C' = C /\ last' = last /\ shed' = shed  BY <1>3
  <2> QED  BY <2>1, <2>2 DEF DecisionInv
<1>6. LoadInv'  BY <1>2, <1>3 DEF LoadInv, Known
<1>7. AmpsInv' /\ OffsInv'  BY <1>3 DEF CycleInv, AmpsInv, OffsInv
<1> QED  BY <1>4, <1>5, <1>6, <1>7 DEF CycleInv

LEMMA SimulateInv ==
    ASSUME CycleInv, simulate_decision
    PROVE  CycleInv'
<1>1. UNCHANGED <<C, prev, last, latest, reg, shed, cur, faults, before, offs, astray>>
  BY DEF simulate_decision, plant, past, Remembered
<1> QED
  BY <1>1 DEF CycleInv, TypeOK, DecisionInv, AmpsInv, OffsInv, LoadInv

(* What closing a cycle leaves, whether the decision could be saved or not. *)
LEMMA CloseFacts ==
    ASSUME TypeOK, DecisionInv, cur # Nothing, NEW met \in Nat, Close(met)
    PROVE  /\ cur' = Nothing /\ UNCHANGED <<C, prev, before>>
           /\ latest'.enabled \in BOOLEAN /\ latest'.amps \in Nat \cup {Unknown}
           /\ faults' \in 0 .. MaxFaults
<1>1. latest' \in {cur.d.plan, latest}  BY DEF Close
<1>2. cur.d.plan \in Plans \cup {NoPlan}  BY AskedFacts
<1>3. cur.d.plan.enabled \in BOOLEAN /\ cur.d.plan.amps \in Nat \cup {Unknown}
  BY <1>2, PlanFields
<1>4. latest.enabled \in BOOLEAN /\ latest.amps \in Nat \cup {Unknown}  BY DEF TypeOK
<1>5. faults' \in 0 .. MaxFaults
  <2>1. faults \in 0 .. MaxFaults /\ MaxFaults \in Nat
    BY CycleAssumption DEF TypeOK
  <2> QED  BY <2>1 DEF Close
<1> QED  BY <1>1, <1>3, <1>4, <1>5 DEF Close

(* What a cycle in control does to the memory: what was asked of the        *)
(* current, zero after a plan without charge, or nothing.                   *)
LEMMA UpdateFacts ==
    ASSUME TypeOK, DecisionInv, cur # Nothing, NEW amps \in Outcomes
    PROVE  LET n == _update_last_grid_charge_amps(amps, FALSE)
               told == Asked("amps") # {} /\ amps \in {"applied", "ignored", "already"}
           IN  /\ told => Asked("amps") = {n} /\ n = cur.d.plan.amps
               /\ ~told => n = IF latest # NoPlan /\ ~latest.enabled THEN 0 ELSE last
<1> DEFINE n == _update_last_grid_charge_amps(amps, FALSE)
           told == Asked("amps") # {} /\ amps \in {"applied", "ignored", "already"}
<1>1. Asked("amps") \subseteq {cur.d.plan.amps}  BY AskedFacts
<1>2. CASE told
  <2>1. Asked("amps") = {cur.d.plan.amps}  BY <1>1, <1>2
  <2>2. n = CHOOSE v \in Asked("amps") : TRUE
    BY <1>2 DEF _update_last_grid_charge_amps
  <2> QED  BY <1>2, <2>1, <2>2
<1>3. CASE ~told
  <2>1. n = CASE latest # NoPlan /\ FALSE -> latest.amps
              [] latest # NoPlan /\ ~FALSE /\ ~latest.enabled -> 0
              [] OTHER -> last
    BY <1>3 DEF _update_last_grid_charge_amps
  <2> HIDE DEF n, told
  <2> QED  BY <1>3, <2>1 DEF n, told
<1> QED  BY <1>2, <1>3

(* The registers after a cycle in control. *)
LEMMA RegisterFacts ==
    ASSUME TypeOK, DecisionInv, cur # Nothing, NEW e, NEW o,
           NEW v \in After("enable", e), NEW a \in After("amps", o)
    PROVE  /\ v \in {0, 1} /\ a \in Nat
           /\ a = reg.amps \/ a = cur.d.plan.amps
           /\ Asked("amps") = {} \/ o = "skipped" => a = reg.amps
           /\ Asked("amps") # {} /\ o \in {"applied", "already"} => a \in Asked("amps")
<1>1. /\ Asked("enable") \subseteq {0, 1} /\ Asked("amps") \subseteq {cur.d.plan.amps}
  BY AskedFacts
<1>2. Asked("amps") \subseteq Nat  BY AskedFacts
<1>3. reg.enable \in {0, 1} /\ reg.amps \in Nat  BY DEF TypeOK
<1>4. v \in {reg.enable} \cup Asked("enable")
  BY DEF After
<1>5. a \in {reg.amps} \cup Asked("amps")
  BY DEF After
<1>6. Asked("amps") = {} \/ o = "skipped" => a = reg.amps
  BY DEF After
<1>7. Asked("amps") # {} /\ o \in {"applied", "already"} => a \in Asked("amps")
  BY DEF After
<1> QED  BY <1>1, <1>2, <1>3, <1>4, <1>5, <1>6, <1>7

LEMMA SwitchedFacts == ASSUME TypeOK, ShedWrites PROVE shed' \subseteq Loads
  BY DEF TypeOK, ShedWrites, Switched

LEMMA PossibleOutcomes == \A cap : Possible(cap) \subseteq Outcomes
  BY DEF Possible, Outcomes

LEMMA InControlInv ==
    ASSUME CycleInv, NEW e \in Outcomes, NEW o \in Outcomes, InControl(e, o)
    PROVE  CycleInv'
<1>1. TypeOK /\ DecisionInv /\ cur # Nothing  BY DEF CycleInv, InControl
<1>2. /\ cur' = Nothing /\ UNCHANGED <<C, prev, before>>
      /\ latest'.enabled \in BOOLEAN /\ latest'.amps \in Nat \cup {Unknown}
      /\ faults' \in 0 .. MaxFaults
  BY <1>1, CloseFacts DEF InControl
<1>3. PICK v \in After("enable", e), a \in After("amps", o) :
        reg' = [enable |-> v, amps |-> a]
  BY DEF InControl
<1>4. /\ reg'.enable \in {0, 1} /\ reg'.amps \in Nat /\ reg'.amps = a
      /\ Asked("amps") = {} \/ o = "skipped" => reg'.amps = reg.amps
      /\ Asked("amps") # {} /\ o \in {"applied", "already"} => reg'.amps \in Asked("amps")
  BY <1>1, <1>3, RegisterFacts
<1>5. shed' \subseteq Loads  BY <1>1, SwitchedFacts DEF InControl
<1>6. /\ offs' = (IF cur.d.plan = Off /\ latest' = Off THEN Least(2, offs + 1) ELSE 0)
      /\ Off.amps = 0 /\ Off.enabled = FALSE /\ Off # NoPlan
  BY DEF InControl, Off, NoPlan, Unknown
<1> DEFINE n == _update_last_grid_charge_amps(o, FALSE)
           told == Asked("amps") # {} /\ o \in {"applied", "ignored", "already"}
<1>7. /\ told => Asked("amps") = {n} /\ n = cur.d.plan.amps
      /\ ~told => n = IF latest # NoPlan /\ ~latest.enabled THEN 0 ELSE last
  BY <1>1, UpdateFacts
<1>8. /\ Asked("amps") \subseteq Nat
      /\ cur.d.writes = <<>> => Asked("amps") = {} /\ cur.d.plan # Off
  BY <1>1, AskedFacts
<1>9. /\ last \in Nat \cup {Unknown} /\ offs \in 0 .. 2 /\ astray \in BOOLEAN
      /\ reg.amps \in Nat
  BY <1>1 DEF TypeOK
<1>10. CASE cur.d.writes = <<>>
  <2>1. UNCHANGED <<last, astray>> /\ offs' = 0 /\ reg'.amps = reg.amps
    BY <1>4, <1>6, <1>8, <1>10 DEF InControl
  <2>2. TypeOK'  BY <1>1, <1>2, <1>4, <1>5, <2>1 DEF TypeOK
  <2>3. AmpsInv' /\ OffsInv' /\ LoadInv'
    BY <1>2, <2>1 DEF CycleInv, AmpsInv, OffsInv, LoadInv
  <2> QED  BY <1>2, <2>2, <2>3 DEF CycleInv, DecisionInv
<1>11. CASE cur.d.writes # <<>>
  <2>1. /\ last' = n
        /\ astray' = (IF Asked("amps") = {} \/ o = "skipped" THEN astray ELSE IsFault(o))
    BY <1>11 DEF InControl
  <2> HIDE DEF n, told
  <2>2. n \in Nat \cup {Unknown}  BY <1>7, <1>8, <1>9
  <2>3. offs' \in 0 .. 2 /\ astray' \in BOOLEAN
    <3>1. offs' \in 0 .. 2  BY <1>6, <1>9 DEF Least
    <3>2. IsFault(o) \in BOOLEAN  BY DEF IsFault
    <3>3. astray' \in BOOLEAN  BY <1>9, <2>1, <3>2
    <3> QED  BY <3>1, <3>3
  <2>4. TypeOK'  BY <1>1, <1>2, <1>4, <1>5, <2>1, <2>2, <2>3 DEF TypeOK
  <2>5. AmpsInv'
    <3> SUFFICES ASSUME Known(last'), ~astray' PROVE last' <= reg'.amps
      BY DEF AmpsInv
    <3>1. CASE Asked("amps") = {} \/ o = "skipped"
      <4>1. ~told /\ ~astray /\ reg'.amps = reg.amps  BY <1>4, <2>1, <3>1 DEF told
      <4>2. last' = 0 \/ last' = last  BY <1>7, <2>1, <4>1
      <4>3. last' = last => last <= reg.amps  BY <4>1 DEF CycleInv, AmpsInv
      <4> QED  BY <1>9, <4>1, <4>2, <4>3
    <3>2. CASE Asked("amps") # {} /\ o # "skipped"
      <4>1. o \in {"applied", "already"}  BY <2>1, <3>2 DEF IsFault, Outcomes
      <4>2. last' \in Nat /\ reg'.amps = last'  BY <1>4, <1>7, <1>8, <2>1, <3>2, <4>1 DEF told
      <4> QED  BY <4>2
    <3> QED  BY <3>1, <3>2
  <2>6. OffsInv'
    <3>1. offs' >= 1 => latest' = Off  BY <1>6
    <3>2. ASSUME offs' = 2 PROVE last' = 0
      <4>1. offs >= 1 /\ cur.d.plan = Off  BY <1>6, <1>9, <3>2 DEF Least
      <4>2. latest = Off  BY <4>1 DEF CycleInv, OffsInv
      <4> QED  BY <1>6, <1>7, <2>1, <4>1, <4>2
    <3> QED  BY <3>1, <3>2 DEF OffsInv
  <2>7. LoadInv'  BY <1>2 DEF CycleInv, LoadInv
  <2> QED  BY <1>2, <2>4, <2>5, <2>6, <2>7 DEF CycleInv, DecisionInv
<1> QED  BY <1>10, <1>11

LEMMA InShadowInv ==
    ASSUME CycleInv, InShadow
    PROVE  CycleInv'
<1>1. TypeOK /\ DecisionInv /\ cur # Nothing  BY DEF CycleInv, InShadow
<1>2. /\ cur' = Nothing /\ UNCHANGED <<C, prev, before>>
      /\ latest'.enabled \in BOOLEAN /\ latest'.amps \in Nat \cup {Unknown}
      /\ faults' \in 0 .. MaxFaults
  BY <1>1, CloseFacts DEF InShadow
<1>3. UNCHANGED <<reg, shed>> /\ offs' = 0  BY DEF InShadow, plant
<1>4. /\ last \in Nat \cup {Unknown} /\ astray \in BOOLEAN
      /\ latest.enabled \in BOOLEAN /\ latest.amps \in Nat \cup {Unknown}
  BY <1>1 DEF TypeOK
<1>5. CASE cur.d.writes = <<>>
  <2>1. UNCHANGED <<last, astray>>  BY <1>5 DEF InShadow
  <2>2. TypeOK'  BY <1>1, <1>2, <1>3, <2>1 DEF TypeOK
  <2>3. AmpsInv' /\ OffsInv' /\ LoadInv'
    BY <1>2, <1>3, <2>1 DEF CycleInv, AmpsInv, OffsInv, LoadInv
  <2> QED  BY <1>2, <2>2, <2>3 DEF CycleInv, DecisionInv
<1>6. CASE cur.d.writes # <<>>
  <2> DEFINE o == IF reg.amps \in Asked("amps") THEN "already" ELSE "skipped"
             n == _update_last_grid_charge_amps(o, TRUE)
  <2>1. last' = n /\ astray' = (last' # reg.amps)  BY <1>6 DEF InShadow
  <2>2. n \in Nat \cup {Unknown}
    <3>1. Asked("amps") \subseteq {cur.d.plan.amps} /\ Asked("amps") \subseteq Nat
      BY <1>1, AskedFacts
    <3>3. CASE o = "already"
      <4>1. n = CHOOSE v \in Asked("amps") : TRUE
        BY <3>3 DEF _update_last_grid_charge_amps
      <4>2. Asked("amps") = {cur.d.plan.amps}  BY <3>1, <3>3
      <4> HIDE DEF n
      <4>3. n = cur.d.plan.amps  BY <4>1, <4>2
      <4> QED  BY <3>1, <4>2, <4>3
    <3>4. CASE o = "skipped"
      <4>1. n \in {latest.amps, 0, last}
        BY <3>4 DEF _update_last_grid_charge_amps
      <4> HIDE DEF n
      <4> QED  BY <1>4, <4>1
    <3> QED  BY <3>3, <3>4
  <2> HIDE DEF n
  <2>3. astray' \in BOOLEAN /\ last' \in Nat \cup {Unknown}  BY <2>1, <2>2
  <2>4. TypeOK'  BY <1>1, <1>2, <1>3, <2>3 DEF TypeOK
  <2>5. AmpsInv'
    <3>1. reg.amps \in Nat /\ reg' = reg  BY <1>1, <1>3 DEF TypeOK
    <3>2. ~astray' => last' = reg.amps  BY <2>1, Zenon
    <3> QED  BY <3>1, <3>2 DEF AmpsInv
  <2>6. OffsInv' /\ LoadInv'  BY <1>2, <1>3 DEF CycleInv, OffsInv, LoadInv
  <2> QED  BY <1>2, <2>4, <2>5, <2>6 DEF CycleInv, DecisionInv
<1> QED  BY <1>5, <1>6

LEMMA PausedInv ==
    ASSUME CycleInv, Paused
    PROVE  CycleInv'
<1>1. TypeOK /\ DecisionInv /\ cur # Nothing  BY DEF CycleInv, Paused
<1>2. /\ cur' = Nothing /\ UNCHANGED <<C, prev, before>>
      /\ latest'.enabled \in BOOLEAN /\ latest'.amps \in Nat \cup {Unknown}
      /\ faults' \in 0 .. MaxFaults
  BY <1>1, CloseFacts DEF Paused
<1>3. UNCHANGED <<last, reg, astray>> /\ offs' = 0  BY DEF Paused
<1>4. shed' \subseteq Loads  BY <1>1, SwitchedFacts DEF Paused
<1>5. TypeOK'  BY <1>1, <1>2, <1>3, <1>4 DEF TypeOK
<1>6. AmpsInv' /\ OffsInv' /\ LoadInv'
  BY <1>2, <1>3 DEF CycleInv, AmpsInv, OffsInv, LoadInv
<1> QED  BY <1>2, <1>5, <1>6 DEF CycleInv, DecisionInv

LEMMA ExecutorFailsInv ==
    ASSUME CycleInv, ExecutorFails
    PROVE  CycleInv'
<1>1. TypeOK /\ DecisionInv /\ cur # Nothing  BY DEF CycleInv, ExecutorFails
<1>2. /\ cur' = Nothing /\ UNCHANGED <<C, prev, before>>
      /\ latest'.enabled \in BOOLEAN /\ latest'.amps \in Nat \cup {Unknown}
      /\ faults' \in 0 .. MaxFaults
  BY <1>1, CloseFacts DEF ExecutorFails
<1>3. UNCHANGED <<last, shed>> /\ astray' = TRUE /\ offs' = 0
  BY DEF ExecutorFails
<1>4. PICK v \in After("enable", "error"), a \in After("amps", "error") :
        reg' = [enable |-> v, amps |-> a]
  BY DEF ExecutorFails
<1>5. reg'.enable \in {0, 1} /\ reg'.amps \in Nat  BY <1>1, <1>4, RegisterFacts
<1>6. TypeOK'  BY <1>1, <1>2, <1>3, <1>5 DEF TypeOK
<1>7. AmpsInv' /\ OffsInv' /\ LoadInv'
  BY <1>2, <1>3 DEF CycleInv, AmpsInv, OffsInv, LoadInv
<1> QED  BY <1>2, <1>6, <1>7 DEF CycleInv, DecisionInv

LEMMA ReloadInv ==
    ASSUME CycleInv, NEW c \in Configs, Reload(c)
    PROVE  CycleInv'
<1>1. TypeOK /\ cur = Nothing  BY DEF CycleInv, Reload
<1>2. /\ C' = c /\ prev' = Unknown /\ before' = Unknown /\ shed' \subseteq shed
      /\ UNCHANGED <<last, latest, reg, cur, faults, offs, astray>>
  BY DEF Reload
<1>3. TypeOK'  BY <1>1, <1>2 DEF TypeOK
<1>4. AmpsInv' /\ OffsInv' /\ LoadInv'
  BY <1>2 DEF CycleInv, AmpsInv, OffsInv, LoadInv, Known
<1> QED  BY <1>1, <1>2, <1>3, <1>4 DEF CycleInv, DecisionInv

LEMMA RestartInv ==
    ASSUME CycleInv, Restart
    PROVE  CycleInv'
<1>1. /\ prev' = Unknown /\ last' = Unknown /\ latest' = NoPlan
      /\ cur' = Nothing /\ before' = Unknown /\ offs' = 0 /\ astray' = FALSE
      /\ UNCHANGED <<C, reg, shed, faults>>
  BY DEF Restart, plant
<1>2. TypeOK'
  <2>1. latest'.enabled \in BOOLEAN /\ latest'.amps \in Nat \cup {Unknown}
    BY <1>1 DEF NoPlan
  <2>2. astray' \in BOOLEAN  BY <1>1
  <2> QED  BY <1>1, <2>1, <2>2 DEF CycleInv, TypeOK
<1>3. AmpsInv' /\ OffsInv' /\ LoadInv'  BY <1>1 DEF AmpsInv, OffsInv, LoadInv, Known
<1> QED  BY <1>1, <1>2, <1>3 DEF CycleInv, DecisionInv

LEMMA CycleStutter == ASSUME CycleInv, UNCHANGED vars PROVE CycleInv'
<1>1. UNCHANGED <<C, prev, last, latest, reg, shed, cur, faults, before, offs, astray>>
  BY DEF vars, memory, plant, past
<1> QED
  BY <1>1 DEF CycleInv, TypeOK, DecisionInv, AmpsInv, OffsInv, LoadInv

LEMMA CycleNext == ASSUME CycleInv, [NextCycle]_vars PROVE CycleInv'
<1>1. CASE NextCycle
  <2>1. CASE \E i \in Inputs : Decide(i)  BY <2>1, DecideInv
  <2>2. CASE simulate_decision  BY <2>2, SimulateInv
  <2>3. CASE \E enable, amps \in Outcomes : InControl(enable, amps)
    BY <2>3, InControlInv
  <2>4. CASE InShadow  BY <2>4, InShadowInv
  <2>5. CASE Paused  BY <2>5, PausedInv
  <2>6. CASE ExecutorFails  BY <2>6, ExecutorFailsInv
  <2>7. CASE Restart  BY <2>7, RestartInv
  <2>8. CASE \E c \in Configs : Reload(c)  BY <2>8, ReloadInv
  <2> QED
    BY <1>1, <2>1, <2>2, <2>3, <2>4, <2>5, <2>6, <2>7, <2>8, PossibleOutcomes DEF NextCycle
<1>2. CASE UNCHANGED vars  BY <1>2, CycleStutter
<1> QED  BY <1>1, <1>2

(* What the cycle remembers is in order in every state: the decision being  *)
(* carried out (orchestrator.py, _control_cycle_body) is still what the     *)
(* memory gives, and _last_grid_charge_amps is not above the register.      *)
THEOREM TheCycleRemembers == SpecCycle => []CycleInv
<1>1. Init => CycleInv  BY CycleInit
<1>2. CycleInv /\ [NextCycle]_vars => CycleInv'  BY CycleNext
<1> QED  BY <1>1, <1>2, PTL DEF SpecCycle

(* The soundness of a decision, part by part.                               *)
LEMMA SoundByInvariant == CycleInv => DecisionSound
<1> SUFFICES ASSUME CycleInv PROVE DecisionSound
  OBVIOUS
<1>1. TypeOK /\ DecisionInv /\ OffsInv  BY DEF CycleInv
<1>2. Config(C) /\ (cur # Nothing => Input(cur.i))  BY <1>1, CycleFacts
<1>3. last \in Nat \cup {Unknown} /\ (cur # Nothing => cur.leff \in Nat)
  BY <1>1 DEF TypeOK
<1>4. NeedIsMonotone
  <2> SUFFICES ASSUME cur # Nothing, Known(cur.i.tel.soc),
                      NEW j \in Inputs, Known(j.tel.soc), j.tel.soc < cur.i.tel.soc
               PROVE  LET d == decide(C, [cur.i EXCEPT !.tel.soc = j.tel.soc],
                                      cur.leff, last, shed)
                          bridge == compute_reserve(C, cur.i.fc, cur.leff).bridge
                      IN  /\ ~(j.tel.soc < bridge /\ bridge <= cur.i.tel.soc)
                                => d.plan.amps >= cur.d.plan.amps
                          /\ d.score >= cur.d.score
                          /\ SheddingOf(cur.d) \subseteq SheddingOf(d)
    BY DEF NeedIsMonotone
  <2>1. j.tel.soc \in Nat  BY CycleAssumption, InputFields DEF Known
  <2>2. cur.d = decide(C, cur.i, cur.leff, last, shed)  BY <1>1 DEF DecisionInv
  <2> QED  BY <1>2, <1>3, <2>1, <2>2, DecideMono
<1>5. MpcOnlyAdds
  <2> SUFFICES ASSUME cur # Nothing
               PROVE  LET d == decide([C EXCEPT !.mpc = FALSE], cur.i, cur.leff, last, shed)
                      IN  /\ cur.d.target >= d.target
                          /\ cur.d.score >= d.score
                          /\ cur.d.plan.amps >= d.plan.amps
    BY DEF MpcOnlyAdds
  <2>1. cur.d = decide(C, cur.i, cur.leff, last, shed)  BY <1>1 DEF DecisionInv
  <2> QED  BY <1>2, <1>3, <2>1, MpcAdds
<1>6. MinimumKept
  <2> SUFFICES ASSUME cur # Nothing, C.ramp, cur.i.ov.force = "auto", cur.d.plan.enabled,
                      C.step >= C.min, C.off > 0
               PROVE  cur.d.plan.amps >= Least(C.min, effective_max_grid_charge_a(C, cur.i.site))
    BY DEF MinimumKept
  <2>1. cur.d = decide(C, cur.i, cur.leff, last, shed)  BY <1>1 DEF DecisionInv
  <2> QED  BY <1>2, <1>3, <2>1, DecidePlan
<1>7. RestartsFromZero  BY <1>1 DEF OffsInv, RestartsFromZero
<1> QED  BY <1>1, <1>4, <1>5, <1>6, <1>7 DEF DecisionSound

(* A decision is sound in itself: with less in the battery it is not less   *)
(* careful, the MPC only adds, a ramp that can reach the minimum in one     *)
(* step never charges with less, and two live cycles that planned to charge *)
(* nothing, the first of them kept as latest_decision, start the ramp from  *)
(* zero (RuleEngine.decide, MPCEngine.decide, the chain of grid/ramp.py and *)
(* _update_last_grid_charge_amps).                                          *)
THEOREM DecisionsAreSound == SpecCycle => []DecisionSound
<1>1. CycleInv => DecisionSound  BY SoundByInvariant
<1> QED  BY <1>1, TheCycleRemembers, PTL

BoundedCurrent ==
    (cur # Nothing /\ cur.i.ov.force = "auto" /\ C.ramp /\ Known(last) /\ ~astray)
        => reg'.amps <= reg.amps + C.step

BoundedLoad ==
    (Known(before) /\ Known(before')) =>
        /\ before' >= Part(before, 9000)
        /\ before' <= Most(C.critical, C.cap)

(* Only a cycle in control writes the current, and it writes the plan.      *)
LEMMA CurrentByPlan ==
    ASSUME CycleInv, cur # Nothing, [NextCycle]_vars
    PROVE  reg'.amps = reg.amps \/ reg'.amps = cur.d.plan.amps
<1>1. TypeOK /\ DecisionInv  BY DEF CycleInv
<1>2. ASSUME NEW e \in Outcomes, NEW o \in Outcomes, InControl(e, o)
      PROVE  reg'.amps = reg.amps \/ reg'.amps = cur.d.plan.amps
  <2>1. PICK v \in After("enable", e), a \in After("amps", o) :
          reg' = [enable |-> v, amps |-> a]
    BY <1>2 DEF InControl
  <2>2. a = reg.amps \/ a = cur.d.plan.amps  BY <1>1, RegisterFacts
  <2> QED  BY <2>1, <2>2
<1>3. ASSUME ExecutorFails
      PROVE  reg'.amps = reg.amps \/ reg'.amps = cur.d.plan.amps
  <2>1. PICK v \in After("enable", "error"), a \in After("amps", "error") :
          reg' = [enable |-> v, amps |-> a]
    BY <1>3 DEF ExecutorFails
  <2>2. a = reg.amps \/ a = cur.d.plan.amps  BY <1>1, RegisterFacts
  <2> QED  BY <2>1, <2>2
<1>4. ASSUME \/ \E i \in Inputs : Decide(i)
             \/ simulate_decision
             \/ InShadow \/ Paused \/ Restart
             \/ \E c \in Configs : Reload(c)
             \/ UNCHANGED vars
      PROVE  reg' = reg
  BY <1>4 DEF Decide, simulate_decision, InShadow, Paused, Restart, Reload,
              vars, plant
<1> QED  BY <1>2, <1>3, <1>4, PossibleOutcomes DEF NextCycle

LEMMA CurrentIsBounded == CycleInv /\ [NextCycle]_vars => BoundedCurrent
<1> SUFFICES ASSUME CycleInv, [NextCycle]_vars,
                    cur # Nothing, cur.i.ov.force = "auto", C.ramp, Known(last), ~astray
             PROVE  reg'.amps <= reg.amps + C.step
  BY DEF BoundedCurrent
<1>1. TypeOK /\ DecisionInv /\ last <= reg.amps  BY DEF CycleInv, AmpsInv
<1>2. /\ last \in Nat /\ reg.amps \in Nat /\ C.step \in Nat
  BY <1>1, CycleFacts DEF TypeOK, Known
<1>3. cur.d.plan.amps <= last + C.step  BY <1>1, AskedFacts
<1>4. cur.d.plan.amps \in Int  BY <1>1, AskedFacts
<1>5. reg'.amps = reg.amps \/ reg'.amps = cur.d.plan.amps  BY CurrentByPlan
<1> QED  BY <1>1, <1>2, <1>3, <1>4, <1>5

LEMMA LoadIsBounded == CycleInv /\ [NextCycle]_vars => BoundedLoad
<1> SUFFICES ASSUME CycleInv, [NextCycle]_vars, Known(before), Known(before')
             PROVE  /\ before' >= Part(before, 9000)
                    /\ before' <= Most(C.critical, C.cap)
  BY DEF BoundedLoad
<1>1. TypeOK /\ before = prev /\ before <= Most(C.critical, C.cap)
  BY DEF CycleInv, LoadInv
<1>2. before \in Nat /\ prev \in Nat  BY <1>1 DEF TypeOK, Known
<1>3. CASE before' = before
  <2>1. Part(before, 9000) <= before  BY <1>2, PartWhole DEF Full
  <2> QED  BY <1>1, <1>3, <2>1
<1>4. ASSUME NEW i \in Inputs, Decide(i)
      PROVE  /\ before' >= Part(before, 9000) /\ before' <= Most(C.critical, C.cap)
  <2>1. Config(C) /\ Input(i)  BY <1>1, CycleFacts, CycleAssumption
  <2>2. C.adaptive /\ Sees(i) /\ before' = EffectiveLoad(C, i, prev)
    BY <1>4 DEF Decide, Known
  <2> QED  BY <1>1, <1>2, <2>1, <2>2, EffectiveLoadBounds
<1>5. ASSUME \/ simulate_decision
             \/ \E e, o \in Outcomes : InControl(e, o)
             \/ InShadow \/ Paused \/ ExecutorFails
             \/ UNCHANGED vars
      PROVE  before' = before
  BY <1>5 DEF simulate_decision, InControl, InShadow, Paused, ExecutorFails, Close,
              vars, past
<1>6. ASSUME Restart \/ \E c \in Configs : Reload(c)
      PROVE  FALSE
  BY <1>6 DEF Restart, Reload, Known
<1> QED  BY <1>3, <1>4, <1>5, <1>6, PossibleOutcomes DEF NextCycle

(* Nothing jumps: unless it is forced or the memory may be wrong, a cycle   *)
(* sets the current at most one step above what it was; and the load that   *)
(* the reserve is made for falls by a tenth at most and keeps to its cap    *)
(* (compute_ramp_plan, effective_critical_w and what they remember).        *)
THEOREM TheStepsAreBounded == SpecCycle => StepsAreBounded
<1>1. CycleInv /\ [NextCycle]_vars => BoundedCurrent /\ BoundedLoad
  BY CurrentIsBounded, LoadIsBounded
<1>2. CycleInv /\ [NextCycle]_vars => [BoundedCurrent /\ BoundedLoad]_vars
  BY <1>1
<1> QED  BY <1>2, TheCycleRemembers, PTL
         DEF SpecCycle, StepsAreBounded, BoundedCurrent, BoundedLoad

-----------------------------------------------------------------------------
(* Sequences picked from sequences.                                         *)

(* g starts from base and takes the steps 1 to n. *)
Steps(N, A) == [1..N -> [A -> A]]
Follows(g, N, A, base, step) ==
    /\ g \in [0..N -> A] /\ g[0] = base
    /\ \A n \in 1..N : g[n] = step[n][g[n - 1]]

(* A function may be defined by recursion on an index. *)
LEMMA Recursion ==
    ASSUME NEW N \in Nat, NEW A, NEW base \in A, NEW step \in Steps(N, A)
    PROVE  \E g : Follows(g, N, A, base, step)
<1> USE DEF Steps
<1> DEFINE Rec(g, m) == /\ g \in [0..m -> A] /\ g[0] = base
                        /\ \A n \in 1..m : g[n] = step[n][g[n - 1]]
           M == {m \in Nat : m <= N => \E g : Rec(g, m)}
<1>1. 0 \in M
  <2>1. Rec([n \in 0..0 |-> base], 0)  OBVIOUS
  <2> QED  BY <2>1
<1>2. \A m \in Nat : m \in M => m + 1 \in M
  <2> SUFFICES ASSUME NEW m \in Nat, m \in M, m + 1 <= N
               PROVE  \E h : Rec(h, m + 1)
    <3> HIDE DEF Rec
    <3> QED  OBVIOUS
  <2>0. PICK g : Rec(g, m)  OBVIOUS
  <2> DEFINE h == [n \in 0..m + 1 |-> IF n = m + 1 THEN step[m + 1][g[m]] ELSE g[n]]
  <2>1. step[m + 1][g[m]] \in A
    <3>1. m + 1 \in 1..N /\ g[m] \in A  BY <2>0
    <3> QED  BY <3>1
  <2>2. h \in [0..m + 1 -> A] /\ h[0] = base  BY <2>0, <2>1
  <2>3. ASSUME NEW n \in 1..m + 1 PROVE h[n] = step[n][h[n - 1]]
    <3>1. CASE n = m + 1  BY <3>1
    <3>2. CASE n # m + 1
      <4>1. n \in 1..m /\ n - 1 \in 0..m /\ n - 1 # m + 1  BY <3>2
      <4> QED  BY <2>0, <4>1
    <3> QED  BY <3>1, <3>2
  <2> HIDE DEF h
  <2> QED  BY <2>2, <2>3
<1>3. N \in M  BY <1>1, <1>2, Induction
<1> QED  BY <1>3 DEF Follows

(* What Picked builds, element by element. *)
Unfolds(u, s, ns, T) ==
    /\ u \in [0..Len(s) -> Seq(T)] /\ u[0] = <<>> /\ Picked(s, ns) = u[Len(s)]
    /\ \A n \in 1..Len(s) :
          u[n] = IF n \in ns THEN Append(u[n - 1], s[n]) ELSE u[n - 1]

LEMMA PickedUnfolds ==
    ASSUME NEW T, NEW s \in Seq(T), NEW ns
    PROVE  \E u : Unfolds(u, s, ns, T)
<1> DEFINE N == Len(s)
           Next1(n, p) == IF n \in ns THEN Append(p, s[n]) ELSE p
           step == [n \in 1..N |-> [p \in Seq(T) |-> Next1(n, p)]]
           Rec(g) == g = [n \in 0..N |-> IF n = 0 THEN <<>> ELSE Next1(n, g[n - 1])]
           u == CHOOSE g : Rec(g)
<1>0. N \in Nat  OBVIOUS
<1>1. step \in Steps(N, Seq(T))
  <2>1. \A n \in 1..N, p \in Seq(T) : Next1(n, p) \in Seq(T)  OBVIOUS
  <2> QED  BY <2>1 DEF Steps
<1>2. PICK g \in [0..N -> Seq(T)] :
         g[0] = <<>> /\ \A n \in 1..N : g[n] = step[n][g[n - 1]]
  <2>1. <<>> \in Seq(T)  OBVIOUS
  <2> HIDE DEF step, N, Rec
  <2>2. \E g : Follows(g, N, Seq(T), <<>>, step)  BY <1>0, <1>1, <2>1, Recursion
  <2> QED  BY <2>2 DEF Follows
<1>3. Rec(g)
  <2>1. \A n \in 1..N : g[n] = Next1(n, g[n - 1])
    <3> TAKE n \in 1..N
    <3>1. n - 1 \in 0..N /\ g[n - 1] \in Seq(T)  BY <1>2
    <3> QED  BY <1>2, <3>1
  <2> HIDE DEF Next1
  <2> QED  BY <1>2, <2>1
<1>4. Rec(u)  BY <1>3
<1>5. Picked(s, ns) = u[N]  BY Zenon DEF Picked
<1>6. u = g
  <2> HIDE DEF u, Next1
  <2>1. \A n \in 1..N : g[n] = Next1(n, g[n - 1])  BY <1>3
  <2>2. \A n \in 1..N : u[n] = Next1(n, u[n - 1])  BY <1>4
  <2>3. u[0] = <<>> /\ g[0] = <<>>  BY <1>3, <1>4
  <2> DEFINE M == {n \in Nat : n <= N => u[n] = g[n]}
  <2>4. 0 \in M  BY <2>3
  <2>5. \A n \in Nat : n \in M => n + 1 \in M
    <3> SUFFICES ASSUME NEW n \in Nat, n + 1 <= N, u[n] = g[n]
                 PROVE  u[n + 1] = g[n + 1]
      OBVIOUS
    <3>1. n + 1 \in 1..N /\ (n + 1) - 1 = n  OBVIOUS
    <3> QED  BY <2>1, <2>2, <3>1
  <2>6. \A n \in 0..N : u[n] = g[n]
    <3>1. Nat \subseteq M
      <4> HIDE DEF M
      <4> QED  BY <2>4, <2>5, Induction
    <3> QED  BY <3>1
  <2> QED  BY <2>6, <1>3, <1>4
<1>7. \A n \in 1..N : u[n] = Next1(n, u[n - 1])
  <2> HIDE DEF u, Next1
  <2> QED  BY <1>4
<1>8. u \in [0..N -> Seq(T)]  BY <1>6
<1>9. u[0] = <<>>  BY <1>6, <1>2
<1> HIDE DEF u
<1> QED  BY <1>5, <1>7, <1>8, <1>9 DEF Unfolds

(* p consists of the elements of s at the positions K, in their order; h    *)
(* tells the position of each.                                              *)
Traces(h, p, s, K) ==
    /\ h \in [1..Len(p) -> K]
    /\ \A k \in 1..Len(p) : p[k] = s[h[k]]
    /\ \A j, k \in 1..Len(p) : j < k => h[j] < h[k]
    /\ \A n \in K : \E k \in 1..Len(p) : h[k] = n
Selects(p, s, K) == \E h : Traces(h, p, s, K)

LEMMA PickedSelects ==
    ASSUME NEW T, NEW s \in Seq(T), NEW ns \in SUBSET DOMAIN s
    PROVE  Picked(s, ns) \in Seq(T) /\ Selects(Picked(s, ns), s, ns)
<1> DEFINE N == Len(s)
<1>0. N \in Nat /\ DOMAIN s = 1..N  OBVIOUS
<1>1. PICK u \in [0..N -> Seq(T)] :
         /\ u[0] = <<>> /\ Picked(s, ns) = u[N]
         /\ \A n \in 1..N :
               u[n] = IF n \in ns THEN Append(u[n - 1], s[n]) ELSE u[n - 1]
  <2>1. \E v : Unfolds(v, s, ns, T)  BY PickedUnfolds
  <2> QED  BY <2>1 DEF Unfolds
<1> DEFINE Good(n) == Selects(u[n], s, ns \cap (1..n))
           M == {n \in Nat : n <= N => Good(n)}
<1>2. 0 \in M
  <2>1. Traces([k \in {} |-> 0], <<>>, s, {})  BY DEF Traces
  <2>2. ns \cap (1..0) = {}  OBVIOUS
  <2> QED  BY <2>1, <2>2, <1>1 DEF Selects
<1>3. \A n \in Nat : n \in M => n + 1 \in M
  <2> SUFFICES ASSUME NEW n \in Nat, n + 1 <= N, Good(n)
               PROVE  Good(n + 1)
    <3> HIDE DEF Good
    <3> QED  OBVIOUS
  <2>1. PICK h : Traces(h, u[n], s, ns \cap (1..n))  BY DEF Selects
  <2>2. n + 1 \in 1..N /\ n \in 0..N /\ (n + 1) - 1 = n  BY <1>0
  <2>3. CASE n + 1 \notin ns
    <3>1. ns \cap (1..n + 1) = ns \cap (1..n)  BY <2>3
    <3>2. u[n + 1] = u[n]  BY <1>1, <2>2, <2>3
    <3> QED  BY <3>1, <3>2
  <2>4. CASE n + 1 \in ns
    <3> DEFINE p == u[n]
               l == Len(p)
               g == [k \in 1..l + 1 |-> IF k = l + 1 THEN n + 1 ELSE h[k]]
               q == Append(p, s[n + 1])
               K == ns \cap (1..n + 1)
    <3>1. u[n + 1] = q  BY <1>1, <2>2, <2>4
    <3>2. p \in Seq(T) /\ l \in Nat /\ s[n + 1] \in T  BY <1>1, <2>2
    <3>3. Len(q) = l + 1 /\ q[l + 1] = s[n + 1] /\ \A k \in 1..l : q[k] = p[k]
      BY <3>2, AppendProperties
    <3>4. /\ h \in [1..l -> ns \cap (1..n)]
          /\ \A k \in 1..l : p[k] = s[h[k]]
          /\ \A j, k \in 1..l : j < k => h[j] < h[k]
          /\ \A m \in ns \cap (1..n) : \E k \in 1..l : h[k] = m
      BY <2>1 DEF Traces
    <3> HIDE DEF p, l, q
    <3>5. \A k \in 1..l : g[k] = h[k] /\ h[k] \in K /\ h[k] < n + 1
      BY <3>2, <3>4
    <3>6. g[l + 1] = n + 1 /\ n + 1 \in K  BY <3>2, <2>4
    <3>7. \A k \in 1..l + 1 : k \in 1..l \/ k = l + 1  BY <3>2
    <3>8. 1..l \subseteq 1..l + 1 /\ l + 1 \in 1..l + 1 /\ \A k \in 1..l : k < l + 1
      BY <3>2
    <3>9. g \in [1..Len(q) -> K]  BY <3>3, <3>5, <3>6, <3>7
    <3>10. \A k \in 1..Len(q) : q[k] = s[g[k]]  BY <3>3, <3>4, <3>5, <3>6, <3>7
    <3>11. \A j, k \in 1..l + 1 : j < k => g[j] < g[k]
      <4> HIDE DEF g, K
      <4> TAKE j, k \in 1..l + 1
      <4>1. CASE k = l + 1 /\ j # l + 1  BY <4>1, <3>5, <3>6, <3>7
      <4>2. CASE k # l + 1 /\ j # l + 1  BY <4>2, <3>4, <3>5, <3>7
      <4>3. CASE j = l + 1 /\ k # l + 1  BY <4>3, <3>7, <3>8
      <4>4. CASE j = l + 1 /\ k = l + 1  BY <4>4, <3>2
      <4> QED  BY <4>1, <4>2, <4>3, <4>4
    <3>12. \A m \in K : \E k \in 1..Len(q) : g[k] = m
      <4> TAKE m \in K
      <4>1. CASE m = n + 1  BY <4>1, <3>3, <3>6, <3>8
      <4>2. CASE m # n + 1
        <5>1. m \in ns \cap (1..n)  BY <4>2
        <5> HIDE DEF g, K
        <5> QED  BY <5>1, <3>3, <3>4, <3>5, <3>8
      <4> QED  BY <4>1, <4>2
    <3> HIDE DEF g, K
    <3>13. Traces(g, q, s, K)  BY <3>3, <3>9, <3>10, <3>11, <3>12 DEF Traces
    <3> QED  BY <3>1, <3>13 DEF Selects, K
  <2> QED  BY <2>3, <2>4
<1>4. Nat \subseteq M
  <2> HIDE DEF M
  <2> QED  BY <1>2, <1>3, Induction
<1>5. Good(N)
  <2> HIDE DEF Good
  <2> QED  BY <1>0, <1>4
<1>6. ns \cap (1..N) = ns  BY <1>0
<1>7. Selects(u[N], s, ns)  BY <1>5, <1>6
<1> QED  BY <1>0, <1>1, <1>7

LEMMA SelectsAll ==
    ASSUME NEW T, NEW s \in Seq(T)
    PROVE  Selects(s, s, DOMAIN s)
<1> DEFINE h == [n \in 1..Len(s) |-> n]
<1>1. DOMAIN s = 1..Len(s)  OBVIOUS
<1>2. Traces(h, s, s, DOMAIN s)  BY <1>1 DEF Traces
<1> QED  BY <1>2 DEF Selects

(* Picking again, by what the elements are. *)
LEMMA PickedAgain ==
    ASSUME NEW T, NEW s \in Seq(T), NEW K \in SUBSET DOMAIN s,
           NEW p \in Seq(T), Selects(p, s, K), NEW E,
           NEW L \in SUBSET DOMAIN p, \A n \in DOMAIN p : n \in L <=> p[n] \in E,
           NEW J \in SUBSET K, \A n \in K : n \in J <=> s[n] \in E
    PROVE  Picked(p, L) \in Seq(T) /\ Selects(Picked(p, L), s, J)
<1> DEFINE q == Picked(p, L)
<1>1. q \in Seq(T) /\ Selects(q, p, L)  BY PickedSelects
<1>2. PICK g : Traces(g, q, p, L)  BY <1>1 DEF Selects
<1>3. PICK h : Traces(h, p, s, K)  BY DEF Selects
<1> DEFINE f == [k \in 1..Len(q) |-> h[g[k]]]
<1>4. /\ Len(q) \in Nat /\ DOMAIN p = 1..Len(p) /\ K \subseteq Int
      /\ L \subseteq 1..Len(p)
  BY <1>1
<1>5. /\ g \in [1..Len(q) -> L]
      /\ \A k \in 1..Len(q) : q[k] = p[g[k]]
      /\ \A j, k \in 1..Len(q) : j < k => g[j] < g[k]
      /\ \A n \in L : \E k \in 1..Len(q) : g[k] = n
  BY <1>2 DEF Traces
<1>6. /\ h \in [1..Len(p) -> K]
      /\ \A k \in 1..Len(p) : p[k] = s[h[k]]
      /\ \A j, k \in 1..Len(p) : j < k => h[j] < h[k]
      /\ \A n \in K : \E k \in 1..Len(p) : h[k] = n
  BY <1>3 DEF Traces
<1>7. \A k \in 1..Len(q) : g[k] \in 1..Len(p) /\ p[g[k]] \in E
  BY <1>4, <1>5
<1>8. \A n \in 1..Len(p) : p[n] \in E => n \in L  BY <1>4
<1> HIDE DEF q
<1>9. \A k \in 1..Len(q) : f[k] = h[g[k]] /\ f[k] \in J /\ q[k] = s[f[k]]
  BY <1>5, <1>6, <1>7
<1>10. \A j, k \in 1..Len(q) : j < k => f[j] < f[k]
  <2> SUFFICES ASSUME NEW j \in 1..Len(q), NEW k \in 1..Len(q), j < k PROVE f[j] < f[k]
    OBVIOUS
  <2> HIDE DEF f
  <2>1. g[j] < g[k] /\ g[j] \in 1..Len(p) /\ g[k] \in 1..Len(p)  BY <1>5, <1>7
  <2>2. h[g[j]] < h[g[k]]  BY <2>1, <1>6
  <2> QED  BY <2>2, <1>9
<1>11. \A n \in J : \E k \in 1..Len(q) : f[k] = n
  <2> SUFFICES ASSUME NEW n \in J PROVE \E k \in 1..Len(q) : f[k] = n
    OBVIOUS
  <2>1. PICK m \in 1..Len(p) : h[m] = n  BY <1>6
  <2>2. p[m] \in E  BY <1>6, <2>1
  <2>3. PICK k \in 1..Len(q) : g[k] = m  BY <1>5, <1>8, <2>2
  <2> QED  BY <1>9, <2>1, <2>3
<1>12. f \in [1..Len(q) -> J]  BY <1>9
<1> HIDE DEF f
<1>13. Traces(f, q, s, J)  BY <1>9, <1>10, <1>11, <1>12 DEF Traces
<1>14. q \in Seq(T) /\ Selects(q, s, J)  BY <1>1, <1>13 DEF Selects
<1> QED  BY <1>14 DEF q

(* The last element picked. *)
LEMMA LastSelected ==
    ASSUME NEW T, NEW s \in Seq(T), NEW K \in SUBSET DOMAIN s,
           NEW p \in Seq(T), Selects(p, s, K)
    PROVE  /\ p = <<>> <=> K = {}
           /\ p # <<>> => \E n \in K : Last(p) = s[n] /\ \A m \in K : m <= n
<1>1. PICK h : Traces(h, p, s, K)  BY DEF Selects
<1>2. /\ h \in [1..Len(p) -> K]
      /\ \A k \in 1..Len(p) : p[k] = s[h[k]]
      /\ \A j, k \in 1..Len(p) : j < k => h[j] < h[k]
      /\ \A n \in K : \E k \in 1..Len(p) : h[k] = n
  BY <1>1 DEF Traces
<1>3. CASE p = <<>>
  <2>1. Len(p) = 0  BY <1>3
  <2> QED  BY <1>2, <1>3, <2>1
<1>4. CASE p # <<>>
  <2> DEFINE l == Len(p)
  <2>1. l \in Nat \ {0}  BY <1>4, EmptySeq
  <2>2. l \in 1..l /\ \A k \in 1..l : k < l \/ k = l  BY <2>1
  <2>3. \A n \in K : n \in Int  OBVIOUS
  <2>4. h[l] \in K /\ Last(p) = s[h[l]]  BY <1>2, <2>2 DEF Last
  <2>5. \A m \in K : m <= h[l]
    <3> TAKE m \in K
    <3>1. PICK k \in 1..l : h[k] = m  BY <1>2
    <3>2. m \in Int /\ h[l] \in Int  BY <2>3, <2>4
    <3>3. CASE k = l  BY <3>1, <3>2, <3>3
    <3>4. CASE k < l  BY <1>2, <2>2, <3>1, <3>2, <3>4
    <3> QED  BY <2>2, <3>3, <3>4
  <2> QED  BY <1>4, <2>4, <2>5
<1> QED  BY <1>3, <1>4

-----------------------------------------------------------------------------
(* The log of the grid, in order, and what it says of a minute.             *)

Event == [ts : Nat, present : BOOLEAN]

HistoryInv ==
    /\ events \in Seq(Event) /\ now \in Nat
    /\ \A i \in DOMAIN events : events[i].ts <= now
    /\ \A i, j \in DOMAIN events : i <= j => events[i].ts <= events[j].ts

LEMMA HistoryInit == NoHistory => HistoryInv
  BY DEF NoHistory, HistoryInv

LEMMA EventFields == \A e \in Event : e.ts \in Nat /\ e.present \in BOOLEAN
  BY DEF Event

LEMMA HistoryFacts ==
    ASSUME HistoryInv
    PROVE  /\ now \in Nat /\ events \in Seq(Event) /\ Selects(events, events, DOMAIN events)
           /\ Len(events) \in Nat /\ DOMAIN events = 1..Len(events)
           /\ \A i \in DOMAIN events :
                 /\ events[i] \in Event /\ events[i].ts \in Nat /\ events[i].ts <= now
                 /\ events[i].present \in BOOLEAN
           /\ \A i, j \in DOMAIN events : i <= j => events[i].ts <= events[j].ts
<1>1. now \in Nat /\ events \in Seq(Event)  BY DEF HistoryInv
<1>2. \A i \in DOMAIN events : events[i] \in Event  BY <1>1
<1>3. Selects(events, events, DOMAIN events)  BY <1>1, SelectsAll
<1> QED  BY <1>1, <1>2, <1>3, EventFields DEF HistoryInv

LEMMA HistoryStep == HistoryInv /\ [NextEvent]_historyVars => HistoryInv'
<1> SUFFICES ASSUME HistoryInv, [NextEvent]_historyVars PROVE HistoryInv'
  OBVIOUS
<1>1. CASE TimePasses  BY <1>1, HistoryFacts DEF TimePasses, HistoryInv
<1>2. ASSUME NEW present \in BOOLEAN, LogGridEvent(present) PROVE HistoryInv'
  <2> DEFINE e == [ts |-> now, present |-> present]
             l == Len(events)
  <2>1. events' = Append(events, e) /\ now' = now  BY <1>2 DEF LogGridEvent
  <2>2. e \in Event /\ events \in Seq(Event) /\ l \in Nat  BY DEF HistoryInv, Event
  <2>3. /\ Append(events, e) \in Seq(Event) /\ DOMAIN Append(events, e) = 1..l + 1
        /\ \A i \in 1..l : Append(events, e)[i] = events[i]
        /\ Append(events, e)[l + 1] = e
    BY <2>2, AppendProperties
  <2>4. \A i \in 1..l + 1 : i \in 1..l \/ i = l + 1  BY <2>2
  <2>5. e.ts = now /\ now \in Nat /\ DOMAIN events = 1..l  BY <2>2 DEF HistoryInv
  <2>6. \A i \in 1..l : events[i].ts \in Nat /\ events[i].ts <= now
    BY <2>5, HistoryFacts
  <2> HIDE DEF e, l
  <2>7. ASSUME NEW i \in 1..l + 1 PROVE Append(events, e)[i].ts <= now
    <3>1. CASE i = l + 1  BY <3>1, <2>3, <2>5
    <3>2. CASE i \in 1..l
      <4>1. Append(events, e)[i] = events[i]  BY <3>2, <2>3
      <4> QED  BY <3>2, <4>1, <2>6
    <3> QED  BY <3>1, <3>2, <2>4
  <2>8. ASSUME NEW i \in 1..l + 1, NEW j \in 1..l + 1, i <= j
        PROVE  Append(events, e)[i].ts <= Append(events, e)[j].ts
    <3>1. CASE j = l + 1  BY <3>1, <2>3, <2>5, <2>7
    <3>2. CASE j # l + 1
      <4>1. i \in 1..l /\ j \in 1..l  BY <3>2, <2>2, <2>8
      <4> QED  BY <4>1, <2>3, <2>5, <2>8 DEF HistoryInv
    <3> QED  BY <3>1, <3>2
  <2> QED  BY <2>1, <2>3, <2>5, <2>7, <2>8 DEF HistoryInv
<1>3. CASE UNCHANGED historyVars  BY <1>3 DEF historyVars, HistoryInv
<1> QED  BY <1>1, <1>2, <1>3 DEF NextEvent

LEMMA SinceSelects ==
    ASSUME NEW s \in Seq(Event), NEW K \in SUBSET DOMAIN s,
           NEW p \in Seq(Event), Selects(p, s, K), NEW t \in Int
    PROVE  /\ Since(p, t) \in Seq(Event)
           /\ Selects(Since(p, t), s, {n \in K : s[n].ts >= t})
<1> DEFINE E == {e \in Event : e.ts >= t}
           L == {n \in DOMAIN p : p[n].ts >= t}
           J == {n \in K : s[n].ts >= t}
<1>1. L \in SUBSET DOMAIN p /\ \A n \in DOMAIN p : n \in L <=> p[n] \in E  OBVIOUS
<1>2. J \in SUBSET K /\ \A n \in K : n \in J <=> s[n] \in E  OBVIOUS
<1>3. Since(p, t) = Picked(p, L)  BY DEF Since
<1> HIDE DEF E, L
<1>4. \A Q : Q = J => Selects(Picked(p, L), s, Q) /\ Picked(p, L) \in Seq(Event)
  <2> HIDE DEF J
  <2> QED  BY <1>1, <1>2, PickedAgain
<1> QED  BY <1>3, <1>4

LEMMA UpToSelects ==
    ASSUME NEW s \in Seq(Event), NEW K \in SUBSET DOMAIN s,
           NEW p \in Seq(Event), Selects(p, s, K), NEW t \in Int
    PROVE  /\ UpTo(p, t) \in Seq(Event)
           /\ Selects(UpTo(p, t), s, {n \in K : s[n].ts <= t})
<1> DEFINE E == {e \in Event : e.ts <= t}
           L == {n \in DOMAIN p : p[n].ts <= t}
           J == {n \in K : s[n].ts <= t}
<1>1. L \in SUBSET DOMAIN p /\ \A n \in DOMAIN p : n \in L <=> p[n] \in E  OBVIOUS
<1>2. J \in SUBSET K /\ \A n \in K : n \in J <=> s[n] \in E  OBVIOUS
<1>3. UpTo(p, t) = Picked(p, L)  BY DEF UpTo
<1> HIDE DEF E, L
<1>4. \A Q : Q = J => Selects(Picked(p, L), s, Q) /\ Picked(p, L) \in Seq(Event)
  <2> HIDE DEF J
  <2> QED  BY <1>1, <1>2, PickedAgain
<1> QED  BY <1>3, <1>4

(* The last event up to m is i. *)
LastBy(i, m) ==
    /\ i \in DOMAIN events /\ events[i].ts <= m
    /\ \A j \in DOMAIN events : events[j].ts <= m => j <= i

(* What the reference says of a minute, by the last event up to it. *)
LEMMA LastEventUpTo ==
    ASSUME HistoryInv, NEW m \in Int
    PROVE  /\ UpTo(events, m) = <<>> <=> \A i \in DOMAIN events : events[i].ts > m
           /\ UpTo(events, m) # <<>> =>
                 \E i \in DOMAIN events : LastBy(i, m) /\ Last(UpTo(events, m)) = events[i]
<1> DEFINE K == {n \in DOMAIN events : events[n].ts <= m}
<1>1. UpTo(events, m) \in Seq(Event) /\ Selects(UpTo(events, m), events, K)
  BY HistoryFacts, UpToSelects
<1>2. /\ UpTo(events, m) = <<>> <=> K = {}
      /\ UpTo(events, m) # <<>> =>
            \E n \in K : Last(UpTo(events, m)) = events[n] /\ \A k \in K : k <= n
  <2>1. K \in SUBSET DOMAIN events  OBVIOUS
  <2> HIDE DEF K
  <2> QED  BY <1>1, <2>1, HistoryFacts, LastSelected
<1> QED  BY <1>2, HistoryFacts DEF LastBy

LEMMA PresentByLast ==
    ASSUME HistoryInv, NEW m \in Int
    PROVE  /\ WasPresent(m) \in BOOLEAN
           /\ WasPresent(m) => \E i \in DOMAIN events : LastBy(i, m)
           /\ \A i \in DOMAIN events : LastBy(i, m) => (WasPresent(m) <=> events[i].present)
<1>1. WasPresent(m) <=> UpTo(events, m) # <<>> /\ Last(UpTo(events, m)).present
  BY DEF WasPresent
<1>2. \A i, j \in DOMAIN events : LastBy(i, m) /\ LastBy(j, m) => i = j
  BY HistoryFacts DEF LastBy
<1>3. \A i \in DOMAIN events : LastBy(i, m) => UpTo(events, m) # <<>>
  BY LastEventUpTo, HistoryFacts DEF LastBy
<1> QED  BY <1>1, <1>2, <1>3, LastEventUpTo DEF WasPresent

(* The state the program starts a window with. *)
LEMMA StateAtStart ==
    ASSUME HistoryInv, NEW w \in Int
    PROVE  /\ _state_at(events, w) \in BOOLEAN
           /\ _state_at(events, w) => WasPresent(w)
           /\ (\A i \in DOMAIN events : LastBy(i, w) => events[i].ts >= w - Month)
                 => (_state_at(events, w) <=> WasPresent(w))
<1> DEFINE month == Since(events, w - Month)
           prior == UpTo(month, w)
           KM == {n \in DOMAIN events : events[n].ts >= w - Month}
           K == {n \in KM : events[n].ts <= w}
<1>0. Month \in Nat /\ w - Month \in Int /\ KM \in SUBSET DOMAIN events
  BY OpportunityAssumption
<1>1. month \in Seq(Event) /\ Selects(month, events, KM)
  BY <1>0, HistoryFacts, SinceSelects
<1>2. prior \in Seq(Event) /\ Selects(prior, events, K)
  <2> HIDE DEF month, KM
  <2> QED  BY <1>0, <1>1, HistoryFacts, UpToSelects
<1>3. /\ prior = <<>> <=> K = {}
      /\ prior # <<>> => \E n \in K : Last(prior) = events[n] /\ \A k \in K : k <= n
  <2>1. K \in SUBSET DOMAIN events  OBVIOUS
  <2> HIDE DEF prior, K
  <2> QED  BY <1>2, <2>1, HistoryFacts, LastSelected
<1>4. _state_at(events, w) <=> prior # <<>> /\ Last(prior).present  BY DEF _state_at
<1> HIDE DEF prior
<1>5. ASSUME NEW n \in K, \A k \in K : k <= n PROVE LastBy(n, w)
  <2>1. n \in DOMAIN events /\ events[n].ts <= w /\ events[n].ts >= w - Month  OBVIOUS
  <2>2. ASSUME NEW j \in DOMAIN events, events[j].ts <= w PROVE j <= n
    <3>1. CASE j \in K  BY <1>5, <3>1
    <3>2. CASE j \notin K
      <4>1. ~(events[j].ts >= w - Month)  BY <2>2, <3>2
      <4>2. ~(n <= j)  BY <1>0, <2>1, <4>1, HistoryFacts
      <4> QED  BY <4>2, <2>1, HistoryFacts
    <3> QED  BY <3>1, <3>2
  <2> QED  BY <2>1, <2>2 DEF LastBy
<1>6. _state_at(events, w) => WasPresent(w)
  <2> SUFFICES ASSUME prior # <<>>, Last(prior).present PROVE WasPresent(w)
    BY <1>4
  <2>1. PICK n \in K : Last(prior) = events[n] /\ \A k \in K : k <= n  BY <1>3
  <2> QED  BY <1>5, <2>1, PresentByLast
<1>7. ASSUME \A i \in DOMAIN events : LastBy(i, w) => events[i].ts >= w - Month, WasPresent(w)
      PROVE  _state_at(events, w)
  <2>1. PICK i \in DOMAIN events : LastBy(i, w)  BY <1>7, PresentByLast
  <2>2. i \in K  BY <1>7, <2>1 DEF LastBy
  <2>3. PICK n \in K : Last(prior) = events[n] /\ \A k \in K : k <= n  BY <1>3, <2>2
  <2>4. LastBy(n, w)  BY <1>5, <2>3
  <2> QED  BY <1>3, <1>4, <1>7, <2>2, <2>3, <2>4, PresentByLast
<1>8. _state_at(events, w) \in BOOLEAN  BY DEF _state_at
<1> QED  BY <1>6, <1>7, <1>8

(* What a window that begins at start takes a minute for. *)
Believed(start, m) ==
    IF \E i \in DOMAIN events : start <= events[i].ts /\ events[i].ts <= m
    THEN WasPresent(m) ELSE _state_at(events, start)

LEMMA BeliefIsTrue ==
    ASSUME HistoryInv, NEW start \in Int, NEW m \in Int, start <= m
    PROVE  /\ Believed(start, m) \in BOOLEAN
           /\ Believed(start, m) => WasPresent(m)
           /\ (\A i \in DOMAIN events : LastBy(i, start) => events[i].ts >= start - Month)
                 => (Believed(start, m) <=> WasPresent(m))
<1>1. CASE \E i \in DOMAIN events : start <= events[i].ts /\ events[i].ts <= m
  BY <1>1, PresentByLast DEF Believed
<1>2. CASE ~\E i \in DOMAIN events : start <= events[i].ts /\ events[i].ts <= m
  <2>1. \A j \in DOMAIN events : events[j].ts <= m <=> events[j].ts <= start
    BY <1>2, HistoryFacts
  <2>2. \A i \in DOMAIN events : LastBy(i, m) <=> LastBy(i, start)
    BY <2>1 DEF LastBy
  <2>3. WasPresent(m) <=> WasPresent(start)  BY <2>2, PresentByLast
  <2>4. Believed(start, m) = _state_at(events, start)  BY <1>2 DEF Believed
  <2> QED  BY <2>3, <2>4, StateAtStart, PresentByLast
<1> QED  BY <1>1, <1>2

-----------------------------------------------------------------------------
(* The intervals cover their window, in order, and say what is believed.    *)

Interval == [from : Int, to : Int, present : BOOLEAN]

Describes(ivs, start, end) ==
    /\ ivs \in Seq(Interval)
    /\ \A j \in DOMAIN ivs :
          /\ start <= ivs[j].from /\ ivs[j].from < ivs[j].to /\ ivs[j].to <= end
          /\ \A m \in ivs[j].from .. ivs[j].to - 1 : ivs[j].present <=> Believed(start, m)
    /\ \A j, k \in DOMAIN ivs : j < k => ivs[j].to <= ivs[k].from
    /\ \A m \in start .. end - 1 : \E j \in DOMAIN ivs : ivs[j].from <= m /\ m < ivs[j].to

LEMMA IntervalFields ==
    \A v \in Interval : v.from \in Int /\ v.to \in Int /\ v.present \in BOOLEAN
  BY DEF Interval

(* The events of a window. *)
LEMMA CutsOfWindow ==
    ASSUME HistoryInv, NEW back \in Int, NEW start \in Int, back <= start
    PROVE  /\ UpTo(Since(Since(events, back), start), now) \in Seq(Event)
           /\ Selects(UpTo(Since(Since(events, back), start), now), events,
                      {n \in DOMAIN events : events[n].ts >= start})
<1> DEFINE KB == {n \in DOMAIN events : events[n].ts >= back}
           KS == {n \in KB : events[n].ts >= start}
           KN == {n \in KS : events[n].ts <= now}
           K  == {n \in DOMAIN events : events[n].ts >= start}
           recent == Since(events, back)
           cuts == Since(recent, start)
<1>0. KB \in SUBSET DOMAIN events /\ KS \in SUBSET DOMAIN events /\ now \in Int
  BY HistoryFacts
<1>1. recent \in Seq(Event) /\ Selects(recent, events, KB)
  BY HistoryFacts, SinceSelects
<1>2. cuts \in Seq(Event) /\ Selects(cuts, events, KS)
  <2> HIDE DEF recent, KB
  <2> QED  BY <1>0, <1>1, HistoryFacts, SinceSelects
<1>3. UpTo(cuts, now) \in Seq(Event) /\ Selects(UpTo(cuts, now), events, KN)
  <2> HIDE DEF cuts, KS
  <2> QED  BY <1>0, <1>2, HistoryFacts, UpToSelects
<1>4. KN = K
  <2>1. \A n \in DOMAIN events : events[n].ts \in Int /\ events[n].ts <= now
    BY HistoryFacts
  <2> QED  BY <2>1, <1>0
<1> HIDE DEF KN, K
<1> QED  BY <1>3, <1>4 DEF K

(* The intervals before the empty ones are dropped: n cuts c at the events h. *)
Lengths(c, n, start, initial) ==
    [i \in 1..n + 1 |->
        [from |-> IF i = 1 THEN start ELSE c[i - 1].ts,
         to |-> IF i = n + 1 THEN now ELSE c[i].ts,
         present |-> IF i = 1 THEN initial ELSE c[i - 1].present]]

LEMMA LengthsDescribe ==
    ASSUME HistoryInv, NEW start \in Int, start <= now,
           NEW c \in Seq(Event), NEW h,
           Traces(h, c, events, {n \in DOMAIN events : events[n].ts >= start}),
           NEW i \in 1..Len(c) + 1
    PROVE  LET v == Lengths(c, Len(c), start, _state_at(events, start))
           IN  /\ v[i] \in Interval
               /\ start <= v[i].from /\ v[i].from <= v[i].to /\ v[i].to <= now
               /\ \A m \in v[i].from .. v[i].to - 1 : v[i].present <=> Believed(start, m)
               /\ \A k \in 1..Len(c) + 1 : i < k => v[i].to <= v[k].from
               /\ i <= Len(c) => v[i].to = v[i + 1].from
               /\ i = 1 => v[i].from = start
               /\ i = Len(c) + 1 => v[i].to = now
<1> DEFINE n == Len(c)
           initial == _state_at(events, start)
           v == Lengths(c, n, start, initial)
           At(k) == events[h[k]].ts
<1>1. n \in Nat /\ now \in Int /\ initial \in BOOLEAN
  BY HistoryFacts, StateAtStart
<1>2. /\ \A k \in 1..n : h[k] \in DOMAIN events /\ At(k) >= start /\ c[k] = events[h[k]]
      /\ \A j, k \in 1..n : j < k => h[j] < h[k]
      /\ \A j \in DOMAIN events : events[j].ts >= start => \E k \in 1..n : h[k] = j
  BY DEF Traces
<1>3. \A k \in 1..n : /\ At(k) \in Int /\ At(k) <= now /\ h[k] \in Int
                      /\ events[h[k]].present \in BOOLEAN
  BY <1>2, HistoryFacts
<1>4. ASSUME NEW j \in 1..n, NEW k \in 1..n, j <= k PROVE h[j] <= h[k] /\ At(j) <= At(k)
  <2>1. h[j] <= h[k]
    <3>1. h[j] \in Int /\ h[k] \in Int  BY <1>3
    <3>2. CASE j = k  BY <3>1, <3>2
    <3>3. CASE j < k
      <4>1. h[j] < h[k]  BY <3>3, <1>2
      <4> QED  BY <3>1, <4>1
    <3> QED  BY <3>2, <3>3, <1>1, <1>4
  <2> QED  BY <2>1, <1>2, HistoryFacts
<1>5. \A j \in 1..n + 1 :
         /\ v[j].from = IF j = 1 THEN start ELSE c[j - 1].ts
         /\ v[j].to = IF j = n + 1 THEN now ELSE c[j].ts
         /\ v[j].present = IF j = 1 THEN initial ELSE c[j - 1].present
         /\ DOMAIN v = 1..n + 1
         /\ v[j] = [from |-> v[j].from, to |-> v[j].to, present |-> v[j].present]
  BY DEF Lengths
<1> HIDE DEF v, initial, n
<1>6. \A j \in 1..n + 1 : (j # 1 => j - 1 \in 1..n) /\ (j # n + 1 => j \in 1..n)
  BY <1>1
<1>7. \A j \in 1..n + 1 :
         /\ j = 1 => v[j].from = start /\ v[j].present = initial
         /\ j # 1 => v[j].from = At(j - 1) /\ v[j].present = events[h[j - 1]].present
         /\ j = n + 1 => v[j].to = now
         /\ j # n + 1 => v[j].to = At(j)
  <2> TAKE j \in 1..n + 1
  <2>2. j # 1 => v[j].from = c[j - 1].ts /\ v[j].present = c[j - 1].present  BY <1>5
  <2>3. j # n + 1 => v[j].to = c[j].ts  BY <1>5
  <2>4. j = n + 1 => v[j].to = now  BY <1>5
  <2>5. j # n + 1 => c[j] = events[h[j]]  BY <1>2, <1>6
  <2>6. j # 1 => c[j - 1] = events[h[j - 1]]  BY <1>2, <1>6
  <2>7. j = 1 => v[j].from = start /\ v[j].present = initial  BY <1>5
  <2> QED  BY <2>2, <2>3, <2>4, <2>5, <2>6, <2>7
<1>8. i \in 1..n + 1 /\ i \in Int  BY <1>1 DEF n
<1> HIDE DEF At
<1>9. /\ v[i].from \in Int /\ v[i].to \in Int /\ v[i].present \in BOOLEAN
      /\ start <= v[i].from /\ v[i].from <= v[i].to /\ v[i].to <= now
  <2>1. v[i].from \in Int /\ start <= v[i].from /\ v[i].from <= now
        /\ v[i].present \in BOOLEAN
    BY <1>1, <1>2, <1>3, <1>6, <1>7, <1>8
  <2>2. CASE i = n + 1  BY <2>1, <2>2, <1>1, <1>7, <1>8
  <2>3. CASE i # n + 1
    <3>1. v[i].to = At(i) /\ i \in 1..n /\ At(i) \in Int /\ At(i) <= now /\ start <= At(i)
      BY <2>3, <1>2, <1>3, <1>6, <1>7, <1>8
    <3>2. CASE i = 1  BY <2>1, <3>1, <3>2, <1>7, <1>8
    <3>3. CASE i # 1
      <4>1. i - 1 \in 1..n /\ i - 1 <= i /\ v[i].from = At(i - 1)  BY <3>3, <1>6, <1>7, <1>8
      <4> QED  BY <2>1, <3>1, <4>1, <1>4
    <3> QED  BY <3>2, <3>3
  <2> QED  BY <2>2, <2>3
<1>10. v[i] \in Interval
  <2>1. \A a, b \in Int, q \in BOOLEAN : [from |-> a, to |-> b, present |-> q] \in Interval
    BY DEF Interval
  <2>2. [from |-> v[i].from, to |-> v[i].to, present |-> v[i].present] \in Interval
    BY <1>9, <2>1
  <2>3. v[i] = [from |-> v[i].from, to |-> v[i].to, present |-> v[i].present]  BY <1>5, <1>8
  <2> QED  BY <2>2, <2>3
<1>11. ASSUME NEW m \in v[i].from .. v[i].to - 1 PROVE v[i].present <=> Believed(start, m)
  <2>0. m \in Int /\ v[i].from <= m /\ m < v[i].to  BY <1>9
  <2>1. ASSUME NEW k \in 1..n, k >= i PROVE At(k) > m
    <3>1. i # n + 1 /\ i \in 1..n  BY <2>1, <1>1, <1>6, <1>8
    <3>2. At(i) <= At(k) /\ v[i].to = At(i)  BY <3>1, <2>1, <1>4, <1>7, <1>8
    <3> QED  BY <3>2, <3>1, <2>0, <1>3, <1>9
  <2>2. CASE i = 1
    <3>1. ASSUME NEW j \in DOMAIN events, start <= events[j].ts, events[j].ts <= m
          PROVE  FALSE
      <4>1. events[j].ts \in Int  BY HistoryFacts
      <4>2. PICK k \in 1..n : h[k] = j  BY <1>2, <3>1, <4>1
      <4>3. At(k) > m /\ At(k) = events[j].ts
        <5>1. k >= i  BY <2>2, <1>1
        <5> QED  BY <5>1, <4>2, <2>1 DEF At
      <4> QED  BY <4>1, <4>3, <2>0, <3>1
    <3>2. Believed(start, m) = initial  BY <3>1 DEF Believed, initial
    <3> QED  BY <2>2, <3>2, <1>7, <1>8
  <2>3. CASE i # 1
    <3> DEFINE l == h[i - 1]
    <3>1. i - 1 \in 1..n /\ v[i].from = At(i - 1) /\ v[i].present = events[l].present
      BY <2>3, <1>6, <1>7, <1>8
    <3>2. l \in DOMAIN events /\ l \in Int /\ events[l].ts = At(i - 1) /\ start <= events[l].ts
      BY <3>1, <1>2, <1>3 DEF At
    <3>3. events[l].ts <= m /\ events[l].ts \in Int  BY <2>0, <3>1, <3>2, <1>3
    <3>4. ASSUME NEW j \in DOMAIN events, events[j].ts <= m PROVE j <= l
      <4>0. events[j].ts \in Int /\ j \in Int  BY HistoryFacts
      <4>1. CASE events[j].ts < start
        <5>1. ~(l <= j)  BY <4>0, <4>1, <3>2, <3>3, HistoryFacts
        <5> QED  BY <5>1, <4>0, <3>2
      <4>2. CASE events[j].ts >= start
        <5>1. PICK k \in 1..n : h[k] = j  BY <1>2, <4>2
        <5>2. At(k) = events[j].ts  BY <5>1 DEF At
        <5>3. ~(k >= i)  BY <2>1, <3>4, <4>0, <5>2, <2>0
        <5>4. k <= i - 1  BY <5>3, <1>1, <1>8
        <5> QED  BY <1>4, <3>1, <5>1, <5>4
      <4> QED  BY <4>0, <4>1, <4>2
    <3>5. LastBy(l, m)  BY <3>2, <3>3, <3>4 DEF LastBy
    <3>6. WasPresent(m) <=> events[l].present  BY <2>0, <3>2, <3>5, PresentByLast
    <3>7. Believed(start, m) = WasPresent(m)  BY <3>2, <3>3 DEF Believed
    <3> QED  BY <3>1, <3>6, <3>7, <1>9
  <2> QED  BY <2>2, <2>3
<1>12. ASSUME NEW k \in 1..n + 1, i < k PROVE v[i].to <= v[k].from
  <2>1. /\ k # 1 /\ i # n + 1 /\ k \in Int /\ i <= k - 1  BY <1>12, <1>1, <1>8
  <2>2. v[i].to = At(i) /\ v[k].from = At(k - 1) /\ i \in 1..n /\ k - 1 \in 1..n
    BY <2>1, <1>6, <1>7, <1>8
  <2> QED  BY <2>1, <2>2, <1>4
<1>13. i <= n => v[i].to = v[i + 1].from
  <2> SUFFICES ASSUME i <= n PROVE v[i].to = v[i + 1].from  OBVIOUS
  <2>1. i # n + 1 /\ i + 1 # 1 /\ i + 1 \in 1..n + 1 /\ (i + 1) - 1 = i  BY <1>1, <1>8
  <2> QED  BY <2>1, <1>7, <1>8
<1>14. (i = 1 => v[i].from = start) /\ (i = n + 1 => v[i].to = now)  BY <1>7, <1>8
<1> QED  BY <1>9, <1>10, <1>11, <1>12, <1>13, <1>14 DEF v, n, initial

LEMMA IntervalsDescribe ==
    ASSUME HistoryInv, NEW back \in Int, NEW start \in Int, back <= start, start <= now
    PROVE  Describes(_intervals(Since(events, back), start, now, _state_at(events, start)),
                     start, now)
<1> DEFINE K == {n \in DOMAIN events : events[n].ts >= start}
           c == UpTo(Since(Since(events, back), start), now)
           v == Lengths(c, Len(c), start, _state_at(events, start))
           L == {i \in DOMAIN v : v[i].from < v[i].to}
           p == Picked(v, L)
           n == Len(c) + 1
<1>1. c \in Seq(Event) /\ Selects(c, events, K)  BY CutsOfWindow
<1>2. p = _intervals(Since(events, back), start, now, _state_at(events, start))
  BY DEF _intervals, Lengths
<1> HIDE DEF c
<1>3. PICK h : Traces(h, c, events, K)  BY <1>1 DEF Selects
<1>4. \A i \in 1..n :
         /\ v[i] \in Interval
         /\ start <= v[i].from /\ v[i].from <= v[i].to /\ v[i].to <= now
         /\ \A m \in v[i].from .. v[i].to - 1 : v[i].present <=> Believed(start, m)
         /\ \A k \in 1..n : i < k => v[i].to <= v[k].from
         /\ i < n => v[i].to = v[i + 1].from
         /\ i = 1 => v[i].from = start
         /\ i = n => v[i].to = now
  <2> TAKE i \in 1..n
  <2>1. i < n <=> i <= Len(c)  BY <1>1
  <2> QED  BY <2>1, <1>1, <1>3, LengthsDescribe
<1>5. DOMAIN v = 1..n /\ n \in Nat \ {0}  BY <1>1 DEF Lengths
<1>6. v \in Seq(Interval)
  <2>1. v = [i \in 1..n |-> v[i]]  BY DEF Lengths
  <2> HIDE DEF v, n
  <2>2. \A i \in 1..n : v[i] \in Interval  BY <1>4
  <2>3. n \in Nat  BY <1>5
  <2> QED  BY <2>1, <2>2, <2>3
<1> HIDE DEF v, n
<1>7. L \in SUBSET DOMAIN v  OBVIOUS
<1>8. p \in Seq(Interval) /\ Selects(p, v, L)
  <2> HIDE DEF L
  <2> QED  BY <1>6, <1>7, PickedSelects
<1> HIDE DEF p
<1>9. PICK g : Traces(g, p, v, L)  BY <1>8 DEF Selects
<1>10. /\ DOMAIN p = 1..Len(p)
       /\ \A k \in DOMAIN p : g[k] \in 1..n /\ v[g[k]].from < v[g[k]].to /\ p[k] = v[g[k]]
       /\ \A j, k \in DOMAIN p : j < k => g[j] < g[k]
       /\ \A i \in 1..n : v[i].from < v[i].to => \E k \in DOMAIN p : g[k] = i
  <2>1. DOMAIN p = 1..Len(p)  BY <1>8
  <2> QED  BY <2>1, <1>5, <1>9 DEF Traces
<1>11. ASSUME NEW m \in start .. now - 1
       PROVE  \E k \in DOMAIN p : p[k].from <= m /\ m < p[k].to
  <2> DEFINE S == {i \in 1..n : v[i].from <= m}
  <2>1. now \in Int /\ m \in Int /\ start <= m /\ m < now  BY HistoryFacts
  <2>2. 1 \in S  BY <2>1, <1>4, <1>5
  <2>3. IsFiniteSet(S) /\ S \subseteq Int
    <3>1. IsFiniteSet(1..n) /\ S \subseteq 1..n  BY <1>5, FS_Interval
    <3>2. 1..n \subseteq Int  OBVIOUS
    <3> HIDE DEF S
    <3> QED  BY <3>1, <3>2, FS_Subset
  <2>4. PICK i \in S : \A j \in S : j <= i  BY <2>2, <2>3, MaxExists
  <2>5. i \in 1..n /\ v[i].from <= m /\ v[i].to \in Int  BY <1>4, IntervalFields
  <2>6. m < v[i].to
    <3>1. CASE i = n  BY <3>1, <2>1, <2>5, <1>4
    <3>2. CASE i # n
      <4>1. i < n /\ i + 1 \in 1..n /\ ~(i + 1 <= i)  BY <3>2, <2>5, <1>5
      <4>2. i + 1 \notin S  BY <2>4, <4>1
      <4>3. ~(v[i].to <= m)  BY <4>1, <4>2, <2>5, <1>4
      <4> QED  BY <4>3, <2>1, <2>5
    <3> QED  BY <3>1, <3>2
  <2>7. v[i].from \in Int  BY <2>5, <1>4, IntervalFields
  <2>8. v[i].from < v[i].to  BY <2>1, <2>5, <2>6, <2>7
  <2>9. PICK k \in DOMAIN p : g[k] = i  BY <2>5, <2>8, <1>10
  <2> QED  BY <2>5, <2>6, <2>9, <1>10
<1>12. \A j, k \in DOMAIN p : j < k => p[j].to <= p[k].from  BY <1>4, <1>10
<1>13. \A j \in DOMAIN p :
          /\ start <= p[j].from /\ p[j].from < p[j].to /\ p[j].to <= now
          /\ \A m \in p[j].from .. p[j].to - 1 : p[j].present <=> Believed(start, m)
  BY <1>4, <1>10
<1>14. Describes(p, start, now)  BY <1>8, <1>11, <1>12, <1>13 DEF Describes
<1> QED  BY <1>2, <1>14

-----------------------------------------------------------------------------
(* The uptime counts the minutes.                                           *)

(* The minutes of the first k intervals with the grid present. *)
UpIn(ivs, k, start, end) ==
    {m \in start .. end - 1 :
        Believed(start, m) /\ \E j \in 1..k : ivs[j].from <= m /\ m < ivs[j].to}

LEMMA OneMoreInterval ==
    ASSUME NEW start \in Int, NEW end \in Int, NEW ivs, Describes(ivs, start, end),
           NEW k \in Nat, k < Len(ivs)
    PROVE  Cardinality(UpIn(ivs, k + 1, start, end)) =
               Cardinality(UpIn(ivs, k, start, end))
                 + (IF ivs[k + 1].present THEN ivs[k + 1].to - ivs[k + 1].from ELSE 0)
<1> DEFINE v == ivs[k + 1]
           A == UpIn(ivs, k, start, end)
           B == UpIn(ivs, k + 1, start, end)
           I == v.from .. v.to - 1
<1>1. /\ DOMAIN ivs = 1..Len(ivs) /\ Len(ivs) \in Nat
      /\ \A j \in DOMAIN ivs :
            /\ ivs[j].from \in Int /\ ivs[j].to \in Int /\ ivs[j].present \in BOOLEAN
            /\ start <= ivs[j].from /\ ivs[j].from < ivs[j].to /\ ivs[j].to <= end
            /\ \A m \in ivs[j].from .. ivs[j].to - 1 : ivs[j].present <=> Believed(start, m)
      /\ \A j, l \in DOMAIN ivs : j < l => ivs[j].to <= ivs[l].from
  <2>1. ivs \in Seq(Interval)  BY DEF Describes
  <2>2. \A j \in DOMAIN ivs : ivs[j] \in Interval  BY <2>1
  <2> QED  BY <2>1, <2>2, IntervalFields DEF Describes
<1>2. /\ k + 1 \in DOMAIN ivs /\ \A j \in 1..k : j \in DOMAIN ivs /\ j < k + 1
      /\ \A j \in 1..k + 1 : j \in 1..k \/ j = k + 1
      /\ 1..k \subseteq 1..k + 1 /\ k + 1 \in 1..k + 1
  BY <1>1
<1>3. /\ v.from \in Int /\ v.to \in Int /\ v.present \in BOOLEAN
      /\ start <= v.from /\ v.from < v.to /\ v.to <= end
      /\ \A m \in I : v.present <=> Believed(start, m)
      /\ \A j \in 1..k : ivs[j].to <= v.from /\ ivs[j].to \in Int
  BY <1>1, <1>2
<1> HIDE DEF v
<1>4. IsFiniteSet(A) /\ IsFiniteSet(I) /\ Cardinality(I) = v.to - v.from
  <2>1. IsFiniteSet(start .. end - 1)  BY FS_Interval
  <2>2. IsFiniteSet(A)
    <3>1. A \subseteq start .. end - 1  BY DEF UpIn
    <3> HIDE DEF A
    <3> QED  BY <2>1, <3>1, FS_Subset
  <2>3. IsFiniteSet(I) /\ Cardinality(I) = v.to - v.from
    <3> DEFINE b == v.to - 1
    <3>1. v.from \in Int /\ b \in Int /\ ~(v.from > b) /\ b - v.from + 1 = v.to - v.from
      BY <1>3
    <3> HIDE DEF b
    <3>2. IsFiniteSet(v.from .. b) /\ Cardinality(v.from .. b) = v.to - v.from
      BY <3>1, FS_Interval
    <3> QED  BY <3>2 DEF b
  <2> QED  BY <2>2, <2>3
<1>5. \A m \in I : m \in start .. end - 1 /\ v.from <= m /\ m < v.to /\ m \in Int
  BY <1>3
<1>6. \A m \in start .. end - 1 : v.from <= m /\ m < v.to => m \in I
  BY <1>3
<1>7. B = IF v.present THEN A \cup I ELSE A
  <2>1. \A m \in B : m \in A \/ (v.present /\ m \in I)
    BY <1>2, <1>3, <1>6 DEF UpIn, v
  <2>2. \A m \in A : m \in B  BY <1>2 DEF UpIn
  <2>3. v.present => \A m \in I : m \in B  BY <1>2, <1>3, <1>5 DEF UpIn, v
  <2> HIDE DEF A, B, I
  <2> QED  BY <2>1, <2>2, <2>3, <1>3
<1>8. A \cap I = {}
  <2> SUFFICES ASSUME NEW m \in A, m \in I PROVE FALSE  OBVIOUS
  <2>1. PICK j \in 1..k : m < ivs[j].to  BY DEF UpIn
  <2> QED  BY <2>1, <1>3, <1>5
<1> HIDE DEF A, B, I
<1>9. Cardinality(A) \in Nat  BY <1>4, FS_CardinalityType
<1>10. Cardinality(A \cup I) = Cardinality(A) + (v.to - v.from)
  <2>1. Cardinality(A \cap I) = 0  BY <1>8, FS_EmptySet
  <2>2. Cardinality(A \cup I) = Cardinality(A) + Cardinality(I) - Cardinality(A \cap I)
    BY <1>4, FS_Union
  <2> QED  BY <2>1, <2>2, <1>3, <1>4, <1>9
<1>11. CASE v.present  BY <1>11, <1>7, <1>10 DEF v, A, B
<1>12. CASE ~v.present  BY <1>12, <1>7, <1>9 DEF v, A, B
<1> QED  BY <1>11, <1>12

LEMMA SumIsCount ==
    ASSUME NEW start \in Int, NEW end \in Int, NEW ivs, Describes(ivs, start, end)
    PROVE  SumFunction([i \in DOMAIN ivs |->
                           IF ivs[i].present THEN ivs[i].to - ivs[i].from ELSE 0])
               = Cardinality({m \in start .. end - 1 : Believed(start, m)})
<1> DEFINE Worth(i) == IF ivs[i].present THEN ivs[i].to - ivs[i].from ELSE 0
           f == [i \in DOMAIN ivs |-> Worth(i)]
           N == Len(ivs)
           U(k) == UpIn(ivs, k, start, end)
<1>1. /\ DOMAIN ivs = 1..N /\ N \in Nat
      /\ \A j \in DOMAIN ivs : Worth(j) \in Int
      /\ \A m \in start .. end - 1 : \E j \in DOMAIN ivs : ivs[j].from <= m /\ m < ivs[j].to
  <2>1. ivs \in Seq(Interval)  BY DEF Describes
  <2>2. \A j \in DOMAIN ivs : ivs[j] \in Interval  BY <2>1
  <2> QED  BY <2>1, <2>2, IntervalFields DEF Describes
<1> HIDE DEF Worth
<1>2. SumFunction(f) = SumFunctionOnSet(f, 1..N) /\ \A x \in 1..N : f[x] = Worth(x)
  BY <1>1 DEF SumFunction
<1>3. PICK g : Adds(g, f, 1..N)
  <2>1. IsFiniteSet(1..N)  BY <1>1, FS_Interval
  <2> HIDE DEF f, N
  <2> QED  BY <2>1, <1>1, <1>2, SumUnfolds
<1> HIDE DEF f
<1> DEFINE Counts(k) == k <= N => g[1..k] = Cardinality(U(k))
           M == {k \in Nat : Counts(k)}
<1>4. Counts(0)
  <2>1. 1..0 = {} /\ U(0) = {}  BY DEF UpIn
  <2> QED  BY <2>1, <1>3, FS_EmptySet DEF Adds
<1>5. ASSUME NEW k \in Nat, Counts(k) PROVE Counts(k + 1)
  <2> SUFFICES ASSUME k + 1 <= N PROVE g[1..k + 1] = Cardinality(U(k + 1))
    OBVIOUS
  <2>1. k < N /\ k <= N /\ k + 1 \in 1..N /\ k + 1 \in 1..k + 1 /\ 1..k + 1 \in SUBSET (1..N)
        /\ (1..k + 1) \ {k + 1} = 1..k
    BY <1>1
  <2>2. g[1..k + 1] = f[k + 1] + g[1..k]
    <3>1. g[1..k + 1] = f[k + 1] + g[(1..k + 1) \ {k + 1}]  BY <2>1, <1>3 DEF Adds
    <3> QED  BY <2>1, <3>1
  <2>3. g[1..k + 1] = Worth(k + 1) + g[1..k] /\ g[1..k] \in Int /\ Worth(k + 1) \in Int
    <3>1. 1..k \in SUBSET (1..N)  BY <2>1
    <3> QED  BY <2>1, <2>2, <3>1, <1>1, <1>2, <1>3 DEF Adds
  <2>4. Cardinality(U(k + 1)) = Cardinality(U(k)) + Worth(k + 1)
    BY <2>1, OneMoreInterval DEF Worth
  <2>5. g[1..k] = Cardinality(U(k))  BY <1>5, <2>1
  <2> HIDE DEF U
  <2> QED  BY <2>3, <2>4, <2>5
<1>6. N \in M
  <2> HIDE DEF Counts
  <2>1. 0 \in M /\ \A n \in Nat : n \in M => n + 1 \in M  BY <1>4, <1>5
  <2> HIDE DEF M
  <2> QED  BY <2>1, <1>1, Induction
<1>7. U(N) = {m \in start .. end - 1 : Believed(start, m)}  BY <1>1 DEF UpIn
<1>8. SumFunction(f) = g[1..N]  BY <1>2, <1>3 DEF Adds
<1>9. SumFunction(f) = Cardinality(U(N))  BY <1>6, <1>8, <1>1
<1> QED  BY <1>7, <1>9 DEF f, Worth

(* Every window of at most a week: what compute_stats makes of it. *)
LEMMA UptimeIsCount ==
    ASSUME HistoryInv, NEW back \in Int, NEW start \in Int, back <= start, start <= now
    PROVE  _uptime(Since(events, back), start, now, _state_at(events, start))
               = Cardinality({m \in start .. now - 1 : Believed(start, m)})
<1> DEFINE ivs == _intervals(Since(events, back), start, now, _state_at(events, start))
<1>1. Describes(ivs, start, now) /\ now \in Int  BY IntervalsDescribe, HistoryFacts
<1>2. _uptime(Since(events, back), start, now, _state_at(events, start)) =
         SumFunction([i \in DOMAIN ivs |->
                         IF ivs[i].present THEN ivs[i].to - ivs[i].from ELSE 0])
  BY DEF _uptime
<1> HIDE DEF ivs
<1> QED  BY <1>1, <1>2, SumIsCount

-----------------------------------------------------------------------------
(* The windows are the spells of presence and the short gaps between them.  *)

Window == [from : Int, to : Int]

Spells(sp, start, end) ==
    /\ sp \in Seq(Interval)
    /\ \A k \in DOMAIN sp : start <= sp[k].from /\ sp[k].from < sp[k].to /\ sp[k].to <= end
    /\ \A j, k \in DOMAIN sp : j < k => sp[j].to <= sp[k].from
    /\ \A m \in start .. end - 1 :
          Believed(start, m) <=> \E k \in DOMAIN sp : sp[k].from <= m /\ m < sp[k].to

LEMMA WindowFields ==
    /\ \A w \in Window : w.from \in Int /\ w.to \in Int
    /\ \A a, b \in Int : [from |-> a, to |-> b] \in Window
  BY DEF Window

LEMMA PresentAreSpells ==
    ASSUME NEW start \in Int, NEW end \in Int, NEW ivs, Describes(ivs, start, end)
    PROVE  Spells(Picked(ivs, {n \in DOMAIN ivs : ivs[n].present}), start, end)
<1> DEFINE L == {n \in DOMAIN ivs : ivs[n].present}
           sp == Picked(ivs, L)
<1>0. /\ ivs \in Seq(Interval) /\ L \in SUBSET DOMAIN ivs /\ DOMAIN ivs = 1..Len(ivs)
      /\ \A j \in DOMAIN ivs : /\ ivs[j].from \in Int /\ ivs[j].to \in Int
                               /\ ivs[j].present \in BOOLEAN
  <2>1. ivs \in Seq(Interval)  BY DEF Describes
  <2>2. \A j \in DOMAIN ivs : ivs[j] \in Interval  BY <2>1
  <2> QED  BY <2>1, <2>2, IntervalFields
<1>1. sp \in Seq(Interval) /\ Selects(sp, ivs, L)
  <2> HIDE DEF L
  <2> QED  BY <1>0, PickedSelects
<1>2. PICK h : Traces(h, sp, ivs, L)  BY <1>1 DEF Selects
<1>3. /\ DOMAIN sp = 1..Len(sp)
      /\ \A k \in DOMAIN sp : h[k] \in DOMAIN ivs /\ ivs[h[k]].present /\ sp[k] = ivs[h[k]]
      /\ \A j, k \in DOMAIN sp : j < k => h[j] < h[k]
      /\ \A n \in DOMAIN ivs : ivs[n].present => \E k \in DOMAIN sp : h[k] = n
  <2>1. DOMAIN sp = 1..Len(sp)  BY <1>1
  <2> HIDE DEF sp
  <2> QED  BY <2>1, <1>2 DEF Traces
<1> HIDE DEF sp, L
<1>4. \A k \in DOMAIN sp : start <= sp[k].from /\ sp[k].from < sp[k].to /\ sp[k].to <= end
  BY <1>3 DEF Describes
<1>5. \A j, k \in DOMAIN sp : j < k => sp[j].to <= sp[k].from
  BY <1>3 DEF Describes
<1>6. ASSUME NEW m \in start .. end - 1
      PROVE  Believed(start, m) <=> \E k \in DOMAIN sp : sp[k].from <= m /\ m < sp[k].to
  <2>1. ASSUME NEW j \in DOMAIN ivs, ivs[j].from <= m, m < ivs[j].to
        PROVE  ivs[j].present <=> Believed(start, m)
    <3>1. m \in ivs[j].from .. ivs[j].to - 1  BY <2>1, <1>0
    <3> QED  BY <3>1 DEF Describes
  <2>2. PICK i \in DOMAIN ivs : ivs[i].from <= m /\ m < ivs[i].to  BY DEF Describes
  <2>3. ASSUME NEW k \in DOMAIN sp, sp[k].from <= m, m < sp[k].to PROVE Believed(start, m)
    BY <2>1, <2>3, <1>3
  <2>4. ASSUME Believed(start, m) PROVE \E k \in DOMAIN sp : sp[k].from <= m /\ m < sp[k].to
    <3>1. ivs[i].present  BY <2>1, <2>2, <2>4, <1>0
    <3>2. PICK k \in DOMAIN sp : h[k] = i  BY <3>1, <1>3
    <3> QED  BY <3>2, <2>2, <1>3
  <2> QED  BY <2>3, <2>4
<1>7. Spells(sp, start, end)  BY <1>1, <1>4, <1>5, <1>6 DEF Spells
<1> QED  BY <1>7 DEF sp, L

(* One more spell, at the end of the last window or in one of its own. *)
Joined(ws, v, ignore) ==
    IF ws # <<>> /\ v.from - Last(ws).to <= ignore
    THEN [ws EXCEPT ![Len(ws)].to = v.to]
    ELSE Append(ws, [from |-> v.from, to |-> v.to])

Merges(u, sp, ignore) ==
    /\ u \in [0..Len(sp) -> Seq(Window)] /\ u[0] = <<>>
    /\ \A n \in 1..Len(sp) : u[n] = Joined(u[n - 1], sp[n], ignore)

(* What joining does to a sequence of windows: the last one becomes longer. *)
LEMMA JoinedLast ==
    ASSUME NEW ws \in Seq(Window), NEW v \in Interval, NEW ignore \in Int,
           ws # <<>>, v.from - Last(ws).to <= ignore
    PROVE  LET w == Joined(ws, v, ignore)
               n == Len(ws)
           IN  /\ w \in Seq(Window) /\ Len(w) = n /\ n \in Nat \ {0}
               /\ \A i \in 1..n - 1 : w[i] = ws[i]
               /\ w[n].from = ws[n].from /\ w[n].to = v.to
<1> DEFINE n == Len(ws)
           w == Joined(ws, v, ignore)
           x == [ws[n] EXCEPT !.to = v.to]
<1>1. n \in Nat \ {0} /\ DOMAIN ws = 1..n /\ n \in 1..n  BY EmptySeq
<1>2. w = [ws EXCEPT ![n].to = v.to]  BY DEF Joined
<1>3. v.to \in Int /\ ws[n] \in Window  BY <1>1, IntervalFields
<1>4. x \in Window /\ x.from = ws[n].from /\ x.to = v.to  BY <1>3 DEF Window
<1>5. w = [ws EXCEPT ![n] = x]  BY <1>2
<1> HIDE DEF x, n, w
<1>6. w \in Seq(Window) /\ Len(w) = n /\ w[n] = x /\ \A i \in 1..n - 1 : w[i] = ws[i]
  <2>1. w = [i \in 1..n |-> IF i = n THEN x ELSE ws[i]]  BY <1>1, <1>5
  <2>2. \A i \in 1..n : ws[i] \in Window  BY <1>1
  <2>3. \A i \in 1..n : (IF i = n THEN x ELSE ws[i]) \in Window  BY <1>4, <2>2
  <2>4. w \in Seq(Window) /\ Len(w) = n  BY <2>1, <2>3, <1>1
  <2>5. \A i \in 1..n - 1 : i \in 1..n /\ i # n  BY <1>1
  <2> QED  BY <2>1, <2>4, <2>5, <1>1
<1> QED  BY <1>1, <1>4, <1>6 DEF w, n

LEMMA JoinedNew ==
    ASSUME NEW ws \in Seq(Window), NEW v \in Interval, NEW ignore \in Int,
           ~(ws # <<>> /\ v.from - Last(ws).to <= ignore)
    PROVE  LET w == Joined(ws, v, ignore)
               n == Len(ws)
           IN  /\ w \in Seq(Window) /\ Len(w) = n + 1 /\ n \in Nat
               /\ \A i \in 1..n : w[i] = ws[i]
               /\ w[n + 1].from = v.from /\ w[n + 1].to = v.to
<1> DEFINE n == Len(ws)
           w == Joined(ws, v, ignore)
           x == [from |-> v.from, to |-> v.to]
<1>1. w = Append(ws, x)  BY DEF Joined
<1>2. x \in Window /\ x.from = v.from /\ x.to = v.to  BY IntervalFields, WindowFields
<1> HIDE DEF x, w
<1>3. /\ w \in Seq(Window) /\ Len(w) = n + 1 /\ n \in Nat
      /\ \A i \in 1..n : w[i] = ws[i]
      /\ w[n + 1] = x
  BY <1>1, <1>2, AppendProperties
<1> QED  BY <1>2, <1>3 DEF w

LEMMA JoinedType ==
    ASSUME NEW ws \in Seq(Window), NEW v \in Interval, NEW ignore \in Int
    PROVE  Joined(ws, v, ignore) \in Seq(Window)
  BY JoinedLast, JoinedNew

LEMMA MergeUnfolds ==
    ASSUME NEW ivs, NEW ignore \in Int,
           Picked(ivs, {n \in DOMAIN ivs : ivs[n].present}) \in Seq(Interval)
    PROVE  \E u : /\ Merges(u, Picked(ivs, {n \in DOMAIN ivs : ivs[n].present}), ignore)
                  /\ merge_opportunity_windows(ivs, ignore) =
                        u[Len(Picked(ivs, {n \in DOMAIN ivs : ivs[n].present}))]
<1> DEFINE sp == Picked(ivs, {n \in DOMAIN ivs : ivs[n].present})
           N == Len(sp)
           T == Seq(Window)
           Next1(n, p) == IF p # <<>> /\ sp[n].from - Last(p).to <= ignore
                          THEN [p EXCEPT ![Len(p)].to = sp[n].to]
                          ELSE Append(p, [from |-> sp[n].from, to |-> sp[n].to])
           step == [n \in 1..N |-> [p \in T |-> Next1(n, p)]]
           Rec(g) == g = [n \in 0..N |-> IF n = 0 THEN <<>> ELSE Next1(n, g[n - 1])]
           u == CHOOSE g : Rec(g)
<1>5. merge_opportunity_windows(ivs, ignore) = u[N]
  BY Zenon DEF merge_opportunity_windows
<1>b. sp \in Seq(Interval)  OBVIOUS
<1> HIDE DEF sp
<1>0. N \in Nat /\ \A n \in 1..N : sp[n] \in Interval  BY <1>b
<1>a. \A n \in 1..N, p \in T : Next1(n, p) = Joined(p, sp[n], ignore)  BY DEF Joined
<1>1. step \in Steps(N, T)
  <2>1. \A n \in 1..N, p \in T : Next1(n, p) \in T
    <3> HIDE DEF Next1
    <3> QED  BY <1>0, <1>a, JoinedType
  <2> HIDE DEF Next1
  <2> QED  BY <2>1 DEF Steps
<1> HIDE DEF Next1
<1>2. PICK g \in [0..N -> T] :
         g[0] = <<>> /\ \A n \in 1..N : g[n] = step[n][g[n - 1]]
  <2>1. <<>> \in T  OBVIOUS
  <2> HIDE DEF step, N, Rec, T
  <2>2. \E g : Follows(g, N, T, <<>>, step)  BY <1>0, <1>1, <2>1, Recursion
  <2> QED  BY <2>2 DEF Follows
<1>3. Rec(g)
  <2>1. \A n \in 1..N : g[n] = Next1(n, g[n - 1])
    <3> TAKE n \in 1..N
    <3>1. n - 1 \in 0..N  BY <1>0
    <3>2. g[n - 1] \in T  BY <1>2, <3>1
    <3>3. g[n] = step[n][g[n - 1]]  BY <1>2
    <3> HIDE DEF T, N
    <3> QED  BY <3>2, <3>3
  <2> QED  BY <1>2, <2>1
<1>4. Rec(u)  BY <1>3
<1>6. u = g
  <2> HIDE DEF u
  <2>1. \A n \in 1..N : g[n] = Next1(n, g[n - 1])  BY <1>3
  <2>2. \A n \in 1..N : u[n] = Next1(n, u[n - 1])
    <3> SUFFICES ASSUME NEW n \in 1..N PROVE u[n] = Next1(n, u[n - 1])  OBVIOUS
    <3>1. n \in 0..N /\ n # 0  BY <1>0
    <3>2. u = [j \in 0..N |-> IF j = 0 THEN <<>> ELSE Next1(j, u[j - 1])]  BY <1>4
    <3> QED  BY <3>1, <3>2
  <2>3. u[0] = <<>> /\ g[0] = <<>>  BY <1>0, <1>3, <1>4
  <2> DEFINE M == {n \in Nat : n <= N => u[n] = g[n]}
  <2>4. 0 \in M  BY <2>3
  <2>5. \A n \in Nat : n \in M => n + 1 \in M
    <3> SUFFICES ASSUME NEW n \in Nat, n + 1 <= N, u[n] = g[n]
                 PROVE  u[n + 1] = g[n + 1]
      BY <1>0
    <3>1. n + 1 \in 1..N /\ (n + 1) - 1 = n  BY <1>0
    <3> QED  BY <2>1, <2>2, <3>1
  <2>6. \A n \in 0..N : u[n] = g[n]
    <3>1. Nat \subseteq M
      <4> HIDE DEF M
      <4> QED  BY <2>4, <2>5, Induction
    <3> QED  BY <3>1, <1>0
  <2> QED  BY <2>6, <1>3, <1>4
<1>7. \A n \in 1..N : u[n] = Joined(u[n - 1], sp[n], ignore)
  <2> HIDE DEF u
  <2>1. \A n \in 1..N : n - 1 \in 0..N  BY <1>0
  <2>2. \A n \in 1..N : u[n] = Next1(n, u[n - 1]) /\ u[n - 1] \in T
    BY <1>2, <1>4, <1>6, <2>1
  <2> QED  BY <2>2, <1>a
<1>8. u \in [0..N -> T] /\ u[0] = <<>>  BY <1>2, <1>6
<1> HIDE DEF u
<1>9. Merges(u, sp, ignore)  BY <1>7, <1>8 DEF Merges
<1> QED  BY <1>5, <1>9 DEF sp

(* The minutes in a window, in one of the first n spells and in a short gap. *)
InWindow(w, m) == \E i \in 1..Len(w) : w[i].from <= m /\ m < w[i].to
InSpell(sp, n, m) == \E k \in 1..n : sp[k].from <= m /\ m < sp[k].to
InGap(sp, n, m, ignore) ==
    \E k \in 1..n - 1 :
        sp[k].to <= m /\ m < sp[k + 1].from /\ sp[k + 1].from - sp[k].to <= ignore

(* The windows w are those of the first n spells. *)
Merged(w, sp, n, start, ignore) ==
    /\ w \in Seq(Window) /\ (n = 0 <=> Len(w) = 0)
    /\ n # 0 => w[Len(w)].to = sp[n].to
    /\ \A i \in 1..Len(w) : start <= w[i].from /\ w[i].from < w[i].to
    /\ \A i \in 1..Len(w) - 1 : w[i + 1].from - w[i].to > ignore
    /\ \A m \in Int : InWindow(w, m) <=> InSpell(sp, n, m) \/ InGap(sp, n, m, ignore)

LEMMA SpellFields ==
    ASSUME NEW start \in Int, NEW end \in Int, NEW sp, Spells(sp, start, end)
    PROVE  /\ Len(sp) \in Nat /\ DOMAIN sp = 1..Len(sp) /\ sp \in Seq(Interval)
           /\ \A k \in 1..Len(sp) :
                 /\ sp[k] \in Interval /\ sp[k].from \in Int /\ sp[k].to \in Int
                 /\ start <= sp[k].from /\ sp[k].from < sp[k].to /\ sp[k].to <= end
           /\ \A j, k \in 1..Len(sp) : j < k => sp[j].to <= sp[k].from
<1>1. sp \in Seq(Interval)  BY DEF Spells
<1>2. \A k \in 1..Len(sp) : sp[k] \in Interval  BY <1>1
<1> QED  BY <1>1, <1>2, IntervalFields DEF Spells

(* One spell more is one spell and at most one gap more. *)
LEMMA OneMoreSpell ==
    ASSUME NEW sp, NEW n \in Nat, NEW m \in Int, NEW ignore \in Int
    PROVE  /\ InSpell(sp, n + 1, m) <=>
                 InSpell(sp, n, m) \/ (sp[n + 1].from <= m /\ m < sp[n + 1].to)
           /\ InGap(sp, n + 1, m, ignore) <=>
                 \/ InGap(sp, n, m, ignore)
                 \/ /\ n # 0 /\ sp[n].to <= m /\ m < sp[n + 1].from
                    /\ sp[n + 1].from - sp[n].to <= ignore
<1>1. \A k \in 1..n + 1 : k \in 1..n \/ k = n + 1  OBVIOUS
<1>2. 1..n \subseteq 1..n + 1 /\ n + 1 \in 1..n + 1  OBVIOUS
<1>3. \A k \in 1..(n + 1) - 1 : k \in 1..n - 1 \/ (k = n /\ n # 0)  OBVIOUS
<1>4. 1..n - 1 \subseteq 1..(n + 1) - 1 /\ (n # 0 => n \in 1..(n + 1) - 1)  OBVIOUS
<1>5. InSpell(sp, n + 1, m) <=>
         InSpell(sp, n, m) \/ (sp[n + 1].from <= m /\ m < sp[n + 1].to)
  BY <1>1, <1>2 DEF InSpell
<1>6. InGap(sp, n + 1, m, ignore) <=>
         \/ InGap(sp, n, m, ignore)
         \/ /\ n # 0 /\ sp[n].to <= m /\ m < sp[n + 1].from
            /\ sp[n + 1].from - sp[n].to <= ignore
  BY <1>3, <1>4 DEF InGap
<1> QED  BY <1>5, <1>6

LEMMA MergedStep ==
    ASSUME NEW start \in Int, NEW end \in Int, NEW sp, Spells(sp, start, end),
           NEW n \in Nat, n < Len(sp), NEW ignore \in Nat,
           NEW w, Merged(w, sp, n, start, ignore)
    PROVE  Merged(Joined(w, sp[n + 1], ignore), sp, n + 1, start, ignore)
<1> DEFINE v == sp[n + 1]
           x == Joined(w, v, ignore)
           l == Len(w)
<1>1. /\ n + 1 \in 1..Len(sp) /\ v \in Interval /\ v.from \in Int /\ v.to \in Int
      /\ start <= v.from /\ v.from < v.to
      /\ n # 0 => sp[n].to \in Int /\ sp[n].to <= v.from
  <2>1. n + 1 \in 1..Len(sp) /\ (n # 0 => n \in 1..Len(sp) /\ n < n + 1)  BY SpellFields
  <2> QED  BY <2>1, SpellFields
<1>2. /\ w \in Seq(Window) /\ l \in Nat /\ (n = 0 <=> l = 0)
      /\ n # 0 => w[l].to = sp[n].to
      /\ \A i \in 1..l : /\ w[i].from \in Int /\ w[i].to \in Int
                         /\ start <= w[i].from /\ w[i].from < w[i].to
      /\ \A i \in 1..l - 1 : w[i + 1].from - w[i].to > ignore
  <2>1. w \in Seq(Window)  BY DEF Merged
  <2>2. \A i \in 1..l : w[i] \in Window  BY <2>1
  <2> QED  BY <2>1, <2>2, WindowFields DEF Merged
<1>3. w = <<>> <=> l = 0  BY <1>2, EmptySeq
<1>4. w # <<>> => Last(w).to = sp[n].to /\ l \in 1..l  BY <1>2, <1>3 DEF Last
<1>5. \A m \in Int : InWindow(w, m) <=> InSpell(sp, n, m) \/ InGap(sp, n, m, ignore)
  BY DEF Merged
<1> HIDE DEF v, x, l
<1>6. CASE w # <<>> /\ v.from - Last(w).to <= ignore
  <2>1. /\ x \in Seq(Window) /\ Len(x) = l /\ l \in Nat \ {0}
        /\ \A i \in 1..l - 1 : x[i] = w[i]
        /\ x[l].from = w[l].from /\ x[l].to = v.to
    BY <1>1, <1>2, <1>6, JoinedLast DEF x, l
  <2>2. /\ n # 0 /\ sp[n].to \in Int /\ sp[n].to <= v.from /\ v.from - sp[n].to <= ignore
        /\ w[l].to = sp[n].to /\ w[l].from < sp[n].to /\ l \in 1..l /\ w[l].from \in Int
        /\ start <= w[l].from
    BY <1>1, <1>2, <1>3, <1>4, <1>6
  <2>3. \A i \in 1..l : i \in 1..l - 1 \/ i = l  BY <2>1
  <2>4. ASSUME NEW i \in 1..l PROVE start <= x[i].from /\ x[i].from < x[i].to
    <3>1. CASE i \in 1..l - 1  BY <3>1, <1>2, <2>1
    <3>2. CASE i = l  BY <3>2, <1>1, <2>1, <2>2
    <3> QED  BY <3>1, <3>2, <2>3
  <2>5. ASSUME NEW i \in 1..l - 1 PROVE x[i + 1].from - x[i].to > ignore
    <3>1. x[i] = w[i] /\ i + 1 \in 1..l  BY <2>1
    <3>2. x[i + 1].from = w[i + 1].from  BY <2>1, <2>3, <3>1
    <3> QED  BY <3>1, <3>2, <1>2
  <2>6. ASSUME NEW m \in Int
        PROVE  InWindow(x, m) <=> InSpell(sp, n + 1, m) \/ InGap(sp, n + 1, m, ignore)
    <3> DEFINE In(y, i) == y[i].from <= m /\ m < y[i].to
    <3>1. InWindow(x, m) <=> (\E i \in 1..l - 1 : In(w, i)) \/ In(x, l)
      <4>1. \A i \in 1..l - 1 : i \in 1..l /\ x[i] = w[i]  BY <2>1
      <4> QED  BY <4>1, <2>1, <2>2, <2>3 DEF InWindow
    <3>2. InWindow(w, m) <=> (\E i \in 1..l - 1 : In(w, i)) \/ In(w, l)
      <4>1. \A i \in 1..l - 1 : i \in 1..l  BY <2>1
      <4> QED  BY <4>1, <2>2, <2>3 DEF InWindow, l
    <3>3. In(x, l) <=> In(w, l) \/ (sp[n].to <= m /\ m < v.from) \/ (v.from <= m /\ m < v.to)
      <4> DEFINE a == w[l].from
                 b == sp[n].to
                 c == v.from
                 d == v.to
      <4>1. In(x, l) <=> a <= m /\ m < d  BY <2>1
      <4>2. In(w, l) <=> a <= m /\ m < b  BY <2>2
      <4>3. a \in Int /\ b \in Int /\ c \in Int /\ d \in Int /\ a < b /\ b <= c /\ c < d
        BY <1>1, <2>2
      <4> HIDE DEF In, a, b, c, d
      <4>4. a <= m /\ m < d <=> (a <= m /\ m < b) \/ (b <= m /\ m < c) \/ (c <= m /\ m < d)
        BY <4>3
      <4> QED  BY <4>1, <4>2, <4>4 DEF b, c, d
    <3> HIDE DEF In
    <3> QED  BY <3>1, <3>2, <3>3, <2>2, <1>5, OneMoreSpell DEF v
  <2> QED  BY <1>2, <2>1, <2>4, <2>5, <2>6 DEF Merged, x, v
<1>7. CASE ~(w # <<>> /\ v.from - Last(w).to <= ignore)
  <2>1. /\ x \in Seq(Window) /\ Len(x) = l + 1 /\ l \in Nat
        /\ \A i \in 1..l : x[i] = w[i]
        /\ x[l + 1].from = v.from /\ x[l + 1].to = v.to
    BY <1>1, <1>2, <1>7, JoinedNew DEF x, l
  <2>2. n # 0 => v.from - sp[n].to > ignore
    BY <1>1, <1>2, <1>3, <1>4, <1>7
  <2>3. /\ \A i \in 1..l + 1 : i \in 1..l \/ i = l + 1
        /\ 1..l \subseteq 1..l + 1 /\ l + 1 \in 1..l + 1
    BY <2>1
  <2>4. ASSUME NEW i \in 1..l + 1 PROVE start <= x[i].from /\ x[i].from < x[i].to
    <3>1. CASE i \in 1..l  BY <3>1, <1>2, <2>1
    <3>2. CASE i = l + 1  BY <3>2, <1>1, <2>1
    <3> QED  BY <3>1, <3>2, <2>3
  <2>5. ASSUME NEW i \in 1..(l + 1) - 1 PROVE x[i + 1].from - x[i].to > ignore
    <3>1. CASE i = l
      <4>1. n # 0 /\ x[i] = w[l] /\ x[i + 1].from = v.from  BY <3>1, <1>2, <2>1
      <4> QED  BY <4>1, <1>2, <2>2
    <3>2. CASE i # l
      <4>1. i \in 1..l - 1 /\ i \in 1..l /\ i + 1 \in 1..l  BY <3>2, <2>1
      <4> QED  BY <4>1, <1>2, <2>1
    <3> QED  BY <3>1, <3>2
  <2>6. ASSUME NEW m \in Int
        PROVE  InWindow(x, m) <=> InSpell(sp, n + 1, m) \/ InGap(sp, n + 1, m, ignore)
    <3>1. InWindow(x, m) <=> InWindow(w, m) \/ (v.from <= m /\ m < v.to)
      BY <2>1, <2>3 DEF InWindow, l
    <3>2. ~(n # 0 /\ v.from - sp[n].to <= ignore)  BY <1>1, <2>2
    <3>3. InSpell(sp, n + 1, m) <=> InSpell(sp, n, m) \/ (v.from <= m /\ m < v.to)
      BY OneMoreSpell DEF v
    <3>4. InGap(sp, n + 1, m, ignore) <=>
             \/ InGap(sp, n, m, ignore)
             \/ /\ n # 0 /\ sp[n].to <= m /\ m < v.from
                /\ v.from - sp[n].to <= ignore
      BY OneMoreSpell DEF v
    <3>5. InGap(sp, n + 1, m, ignore) <=> InGap(sp, n, m, ignore)  BY <3>2, <3>4
    <3> QED  BY <3>1, <3>3, <3>5, <1>5
  <2>7. x[Len(x)].to = v.to /\ n + 1 # 0 /\ Len(x) # 0  BY <2>1
  <2>8. \A i \in 1..Len(x) - 1 : x[i + 1].from - x[i].to > ignore  BY <2>1, <2>5
  <2>9. \A i \in 1..Len(x) : start <= x[i].from /\ x[i].from < x[i].to  BY <2>1, <2>4
  <2> QED  BY <2>1, <2>6, <2>7, <2>8, <2>9 DEF Merged, x, v
<1> QED  BY <1>6, <1>7

LEMMA WindowsMerge ==
    ASSUME NEW start \in Int, NEW end \in Int, NEW ivs, Describes(ivs, start, end),
           NEW ignore \in Nat
    PROVE  \E sp : /\ Spells(sp, start, end)
                   /\ Merged(merge_opportunity_windows(ivs, ignore), sp, Len(sp), start, ignore)
<1> DEFINE sp == Picked(ivs, {n \in DOMAIN ivs : ivs[n].present})
           N == Len(sp)
<1>1. Spells(sp, start, end)  BY PresentAreSpells
<1>2. PICK u : Merges(u, sp, ignore) /\ merge_opportunity_windows(ivs, ignore) = u[N]
  <2>1. sp \in Seq(Interval)  BY <1>1 DEF Spells
  <2> QED  BY <2>1, MergeUnfolds
<1> HIDE DEF sp
<1>3. N \in Nat  BY <1>1, SpellFields
<1> DEFINE Good(n) == n <= N => Merged(u[n], sp, n, start, ignore)
           M == {n \in Nat : Good(n)}
<1>4. Good(0)
  <2>1. u[0] = <<>> /\ Len(<<>>) = 0 /\ 1..0 = {} /\ 1..0 - 1 = {}  BY <1>2 DEF Merges
  <2>2. \A m \in Int : ~InWindow(<<>>, m)  BY <2>1 DEF InWindow
  <2>3. \A m \in Int : ~InSpell(sp, 0, m) /\ ~InGap(sp, 0, m, ignore)
    BY <2>1 DEF InSpell, InGap
  <2>4. Merged(<<>>, sp, 0, start, ignore)  BY <2>1, <2>2, <2>3 DEF Merged
  <2> QED  BY <2>1, <2>4
<1>5. ASSUME NEW n \in Nat, Good(n) PROVE Good(n + 1)
  <2> SUFFICES ASSUME n + 1 <= N PROVE Merged(u[n + 1], sp, n + 1, start, ignore)
    OBVIOUS
  <2>1. n < N /\ n <= N /\ n + 1 \in 1..N /\ (n + 1) - 1 = n  BY <1>3
  <2>2. u[n + 1] = Joined(u[n], sp[n + 1], ignore)  BY <2>1, <1>2 DEF Merges
  <2>3. Merged(u[n], sp, n, start, ignore)  BY <1>5, <2>1
  <2> QED  BY <1>1, <2>1, <2>2, <2>3, MergedStep
<1>6. Good(N)
  <2> HIDE DEF Good
  <2>1. 0 \in M /\ \A n \in Nat : n \in M => n + 1 \in M  BY <1>4, <1>5
  <2>2. N \in M
    <3> HIDE DEF M
    <3> QED  BY <2>1, <1>3, Induction
  <2> QED  BY <2>2
<1>7. Merged(merge_opportunity_windows(ivs, ignore), sp, Len(sp), start, ignore)
  BY <1>2, <1>3, <1>6
<1> QED  BY <1>1, <1>7

-----------------------------------------------------------------------------
(* The statistics.                                                          *)

LEMMA StartOfWindow ==
    ASSUME HistoryInv, NEW n \in Nat
    PROVE  /\ now - n \in Int /\ now - n <= now /\ now \in Nat
           /\ \A m \in LastMinutes(n) : Believed(now - n, m) => WasPresent(m)
           /\ WithinLookback(n) =>
                 \A m \in LastMinutes(n) : Believed(now - n, m) <=> WasPresent(m)
<1> DEFINE start == now - n
<1>1. start \in Int /\ start <= now /\ now \in Nat  BY HistoryFacts
<1>2. \A m \in LastMinutes(n) : m \in Int /\ start <= m  BY <1>1 DEF LastMinutes
<1>3. ASSUME WithinLookback(n), NEW i \in DOMAIN events, LastBy(i, start)
      PROVE  events[i].ts >= start - Month
  <2>1. UpTo(events, start) # <<>>  BY <1>1, <1>3, LastEventUpTo, HistoryFacts DEF LastBy
  <2>2. PICK j \in DOMAIN events : LastBy(j, start) /\ Last(UpTo(events, start)) = events[j]
    BY <1>1, <2>1, LastEventUpTo
  <2>3. i = j  BY <1>3, <2>2, HistoryFacts DEF LastBy
  <2> QED  BY <1>3, <2>1, <2>2, <2>3 DEF WithinLookback
<1> HIDE DEF start
<1>4. \A m \in LastMinutes(n) : Believed(start, m) => WasPresent(m)
  BY <1>1, <1>2, BeliefIsTrue
<1>5. ASSUME WithinLookback(n), NEW m \in LastMinutes(n)
      PROVE  Believed(start, m) <=> WasPresent(m)
  BY <1>1, <1>2, <1>3, <1>5, BeliefIsTrue
<1> QED  BY <1>1, <1>4, <1>5 DEF start

LEMMA UptimeHolds == ASSUME HistoryInv PROVE UptimeMatchesHistory
<1>0. Week \in Nat /\ Day \in Nat /\ Day <= Week  BY OpportunityAssumption
<1>1. /\ StatsNow.up_7d = _uptime(Since(events, now - Week), now - Week, now,
                                  _state_at(events, now - Week))
      /\ StatsNow.up_24h = _uptime(Since(events, now - Week), now - Day, now,
                                   _state_at(events, now - Day))
  BY DEF StatsNow, compute_stats
<1>2. ASSUME NEW n \in Nat, n <= Week, WithinLookback(n)
      PROVE  _uptime(Since(events, now - Week), now - n, now, _state_at(events, now - n))
                = Cardinality({m \in LastMinutes(n) : WasPresent(m)})
  <2>1. now - Week \in Int /\ now - n \in Int /\ now - Week <= now - n /\ now - n <= now
    BY <1>0, <1>2, HistoryFacts
  <2>2. \A m \in LastMinutes(n) : Believed(now - n, m) <=> WasPresent(m)
    BY <1>2, StartOfWindow
  <2>3. {m \in now - n .. now - 1 : Believed(now - n, m)}
           = {m \in LastMinutes(n) : WasPresent(m)}
    BY <2>2 DEF LastMinutes
  <2>4. _uptime(Since(events, now - Week), now - n, now, _state_at(events, now - n))
           = Cardinality({m \in now - n .. now - 1 : Believed(now - n, m)})
    BY <2>1, UptimeIsCount
  <2> QED  BY <2>3, <2>4
<1>3. WithinLookback(Week) =>
         StatsNow.up_7d = Cardinality({m \in LastMinutes(Week) : WasPresent(m)})
  BY <1>0, <1>1, <1>2
<1>4. WithinLookback(Day) =>
         StatsNow.up_24h = Cardinality({m \in LastMinutes(Day) : WasPresent(m)})
  BY <1>0, <1>1, <1>2
<1> QED  BY <1>3, <1>4 DEF UptimeMatchesHistory

WeekWindows == merge_opportunity_windows(
                   _intervals(Since(events, now - Week), now - Week, now,
                              _state_at(events, now - Week)), G.ignore)

LEMMA WeekSpells ==
    ASSUME HistoryInv
    PROVE  \E sp : /\ Spells(sp, now - Week, now)
                   /\ Merged(WeekWindows, sp, Len(sp), now - Week, G.ignore)
<1>1. now - Week \in Int /\ now - Week <= now /\ now \in Int /\ G.ignore \in Nat
  BY HistoryFacts, OpportunityAssumption, HistoryAssumption
<1>2. Describes(_intervals(Since(events, now - Week), now - Week, now,
                           _state_at(events, now - Week)), now - Week, now)
  BY <1>1, IntervalsDescribe
<1> QED  BY <1>1, <1>2, WindowsMerge DEF WeekWindows

(* A gap between two spells that is short enough to ignore, and a bridge    *)
(* between two minutes of presence, are the same thing.                     *)
LEMMA GapIsBridge ==
    ASSUME HistoryInv, NEW sp, Spells(sp, now - Week, now),
           \A m \in LastMinutes(Week) : Believed(now - Week, m) <=> WasPresent(m),
           NEW m \in LastMinutes(Week)
    PROVE  /\ InSpell(sp, Len(sp), m) <=> WasPresent(m)
           /\ InGap(sp, Len(sp), m, G.ignore) => Bridged(m)
           /\ Bridged(m) /\ ~WasPresent(m) => InGap(sp, Len(sp), m, G.ignore)
<1> DEFINE N == Len(sp)
           start == now - Week
           In(t, k) == sp[k].from <= t /\ t < sp[k].to
<1>0. G.ignore \in Nat /\ now \in Int /\ start \in Int
  BY HistoryFacts, OpportunityAssumption, HistoryAssumption
<1>1. /\ N \in Nat /\ DOMAIN sp = 1..N
      /\ \A k \in 1..N : /\ sp[k].from \in Int /\ sp[k].to \in Int
                         /\ start <= sp[k].from /\ sp[k].from < sp[k].to /\ sp[k].to <= now
      /\ \A j, k \in 1..N : j < k => sp[j].to <= sp[k].from
  BY <1>0, SpellFields
<1>2. \A t \in LastMinutes(Week) : t \in Int /\ start <= t /\ t < now
  BY <1>0 DEF LastMinutes
<1>3. \A t \in Int : start <= t /\ t < now => t \in LastMinutes(Week)
  BY <1>0 DEF LastMinutes
<1>4. \A t \in LastMinutes(Week) : WasPresent(t) <=> \E k \in 1..N : In(t, k)
  BY <1>1 DEF Spells, LastMinutes
<1> HIDE DEF N, start
<1>5. InSpell(sp, N, m) <=> WasPresent(m)  BY <1>4 DEF InSpell
<1>6. ASSUME InGap(sp, N, m, G.ignore) PROVE Bridged(m)
  <2>1. PICK k \in 1..N - 1 : /\ sp[k].to <= m /\ m < sp[k + 1].from
                              /\ sp[k + 1].from - sp[k].to <= G.ignore
    BY <1>6 DEF InGap
  <2>2. k \in 1..N /\ k + 1 \in 1..N  BY <1>1
  <2> DEFINE a == sp[k].to - 1
             b == sp[k + 1].from
  <2>a. /\ sp[k].from \in Int /\ sp[k].to \in Int /\ start <= sp[k].from
        /\ sp[k].from < sp[k].to /\ sp[k].to <= now
        /\ sp[k + 1].from \in Int /\ sp[k + 1].to \in Int /\ start <= sp[k + 1].from
        /\ sp[k + 1].from < sp[k + 1].to /\ sp[k + 1].to <= now
        /\ m \in Int /\ start \in Int /\ now \in Int
    BY <1>0, <1>1, <1>2, <2>2
  <2>3. /\ a \in Int /\ b \in Int /\ In(a, k) /\ In(b, k + 1) /\ a < m /\ m < b
        /\ start <= a /\ a < now /\ start <= b /\ b < now /\ b - a - 1 <= G.ignore
    <3>1. a \in Int /\ In(a, k) /\ a < m /\ start <= a /\ a < now  BY <2>a, <2>1
    <3>2. b \in Int /\ In(b, k + 1) /\ m < b /\ start <= b /\ b < now  BY <2>a, <2>1
    <3>3. b - a - 1 = sp[k + 1].from - sp[k].to  BY <2>a
    <3> QED  BY <3>1, <3>2, <3>3, <2>1
  <2> HIDE DEF a, b, In
  <2>4. a \in LastMinutes(Week) /\ b \in LastMinutes(Week)  BY <1>3, <2>3
  <2>5. WasPresent(a) /\ WasPresent(b)  BY <1>4, <2>2, <2>3, <2>4
  <2> QED  BY <2>3, <2>4, <2>5 DEF Bridged
<1>7. ASSUME Bridged(m), ~WasPresent(m) PROVE InGap(sp, N, m, G.ignore)
  <2>1. PICK a \in LastMinutes(Week), b \in LastMinutes(Week) :
           /\ a < m /\ WasPresent(a) /\ m < b /\ b - a - 1 <= G.ignore /\ WasPresent(b)
    BY <1>7 DEF Bridged
  <2>2. PICK i \in 1..N : In(a, i)  BY <1>4, <2>1
  <2>3. PICK j \in 1..N : In(b, j)  BY <1>4, <2>1
  <2>4. \A k \in 1..N : ~In(m, k)  BY <1>4, <1>7
  <2>5. m \in Int /\ a \in Int /\ b \in Int  BY <1>2
  <2> DEFINE S == {k \in 1..N : sp[k].to <= m}
  <2>6. i \in S  BY <1>1, <2>1, <2>2, <2>4, <2>5
  <2>7. IsFiniteSet(S) /\ S \subseteq Int
    <3>1. IsFiniteSet(1..N) /\ S \subseteq 1..N  BY <1>1, FS_Interval
    <3>2. 1..N \subseteq Int  OBVIOUS
    <3> HIDE DEF S
    <3> QED  BY <3>1, <3>2, FS_Subset
  <2>8. PICK k \in S : \A l \in S : l <= k  BY <2>6, <2>7, MaxExists
  <2>9. k \in 1..N /\ sp[k].to <= m /\ i <= k  BY <2>6, <2>8
  <2>10. sp[j].from > m  BY <1>1, <2>1, <2>3, <2>4, <2>5
  <2>11. k < j
    <3>1. CASE j = k  BY <3>1, <2>5, <2>9, <2>10, <1>1
    <3>2. CASE j < k
      <4>1. sp[j].to <= sp[k].from  BY <3>2, <2>9, <1>1
      <4> QED  BY <4>1, <2>5, <2>9, <2>10, <1>1
    <3> QED  BY <3>1, <3>2, <2>9
  <2>12. k \in 1..N - 1 /\ k + 1 \in 1..N /\ k + 1 <= j /\ ~(k + 1 <= k)
    BY <2>9, <2>11, <1>1
  <2>13. sp[k + 1].to > m
    <3>1. k + 1 \notin S  BY <2>8, <2>12
    <3> QED  BY <3>1, <2>5, <2>12, <1>1
  <2>14. sp[k + 1].from > m  BY <2>4, <2>5, <2>12, <2>13, <1>1
  <2>15. sp[k + 1].from <= b
    <3>1. CASE j = k + 1  BY <3>1, <2>3
    <3>2. CASE j # k + 1
      <4>1. sp[k + 1].to <= sp[j].from  BY <3>2, <2>12, <1>1
      <4> QED  BY <4>1, <2>3, <2>5, <2>12, <1>1
    <3> QED  BY <3>1, <3>2
  <2>16. sp[k].to > a
    <3>1. CASE i = k  BY <3>1, <2>2
    <3>2. CASE i # k
      <4>1. sp[i].to <= sp[k].from  BY <3>2, <2>9, <1>1
      <4> QED  BY <4>1, <2>2, <2>5, <2>9, <1>1
    <3> QED  BY <3>1, <3>2
  <2>17. sp[k + 1].from - sp[k].to <= G.ignore
    BY <1>0, <1>1, <2>1, <2>5, <2>9, <2>12, <2>15, <2>16
  <2> QED  BY <2>9, <2>12, <2>14, <2>17 DEF InGap
<1> QED  BY <1>5, <1>6, <1>7 DEF N

LEMMA WindowsHold == ASSUME HistoryInv PROVE WindowsMatchHistory
<1> DEFINE w == WeekWindows
<1> SUFFICES ASSUME WithinLookback(Week)
             PROVE  /\ \A m \in LastMinutes(Week) :
                          (\E i \in DOMAIN w : w[i].from <= m /\ m < w[i].to)
                              <=> WasPresent(m) \/ Bridged(m)
                    /\ \A i \in 1..Len(w) - 1 : w[i + 1].from - w[i].to > G.ignore
  BY DEF WindowsMatchHistory, WeekWindows
<1>1. PICK sp : /\ Spells(sp, now - Week, now)
                /\ Merged(w, sp, Len(sp), now - Week, G.ignore)
  BY WeekSpells
<1>2. \A m \in LastMinutes(Week) : Believed(now - Week, m) <=> WasPresent(m)
  BY StartOfWindow, OpportunityAssumption
<1> HIDE DEF w
<1>3. DOMAIN w = 1..Len(w)  BY <1>1 DEF Merged
<1>4. ASSUME NEW m \in LastMinutes(Week)
      PROVE  InWindow(w, m) <=> WasPresent(m) \/ Bridged(m)
  <2>1. m \in Int  BY HistoryFacts, OpportunityAssumption DEF LastMinutes
  <2>2. InWindow(w, m) <=> InSpell(sp, Len(sp), m) \/ InGap(sp, Len(sp), m, G.ignore)
    BY <1>1, <2>1 DEF Merged
  <2> QED  BY <2>2, <1>1, <1>2, GapIsBridge
<1>5. \A i \in 1..Len(w) - 1 : w[i + 1].from - w[i].to > G.ignore  BY <1>1 DEF Merged
<1> QED  BY <1>3, <1>4, <1>5 DEF InWindow

(* The mean length of the windows is a number. *)
LEMMA AverageIsInt ==
    ASSUME NEW ws \in Seq(Window), NEW island, NEW t, NEW currently
    PROVE  avg_opportunity_minutes(ws, island, t, currently) \in Int
<1> DEFINE length == [i \in DOMAIN ws |-> ws[i].to - ws[i].from]
           counted == {i \in DOMAIN ws :
                          length[i] >= island \/ (currently /\ ws[i].to >= t)}
<1>1. avg_opportunity_minutes(ws, island, t, currently) =
         IF counted = {} THEN 0
         ELSE SumFunctionOnSet(length, counted) \div Cardinality(counted)
  BY DEF avg_opportunity_minutes
<1>2. DOMAIN ws = 1..Len(ws) /\ Len(ws) \in Nat /\ \A i \in DOMAIN ws : ws[i] \in Window
  OBVIOUS
<1>3. \A i \in counted : length[i] \in Int /\ i \in 1..Len(ws)  BY <1>2, WindowFields
<1>4. IsFiniteSet(counted) /\ Cardinality(counted) \in Nat
      /\ (counted # {} => Cardinality(counted) # 0)
  <2>1. IsFiniteSet(1..Len(ws)) /\ counted \subseteq 1..Len(ws)  BY <1>2, <1>3, FS_Interval
  <2> HIDE DEF counted
  <2>2. IsFiniteSet(counted)  BY <2>1, FS_Subset
  <2> QED  BY <2>2, FS_CardinalityType, FS_EmptySet
<1> HIDE DEF counted, length
<1>5. SumFunctionOnSet(length, counted) \in Int  BY <1>3, <1>4, SumIsInt
<1>6. counted # {} =>
         SumFunctionOnSet(length, counted) \div Cardinality(counted) \in Int
  BY <1>4, <1>5, DivType
<1> QED  BY <1>1, <1>6

LEMMA ElapsedHolds == ASSUME HistoryInv PROVE ElapsedIsUnbroken
<1> DEFINE w == WeekWindows
           s == StatsNow
           around == {i \in DOMAIN w : w[i].from <= now /\ now <= w[i].to}
           avg == avg_opportunity_minutes(w, G.island, now, s.currently)
<1> SUFFICES ASSUME s.currently, Known(s.elapsed)
             PROVE  /\ s.remaining <= Part(G.cont, G.safety)
                    /\ \A a, b \in (now - s.elapsed)..(now - 1) :
                          (a <= b /\ \A m \in a..b : ~WasPresent(m)) => b - a + 1 <= G.ignore
  BY DEF ElapsedIsUnbroken
<1>1. PICK sp : /\ Spells(sp, now - Week, now)
                /\ Merged(w, sp, Len(sp), now - Week, G.ignore)
  BY WeekSpells
<1>2. /\ s.elapsed = present_elapsed_minutes(w, now)
      /\ s.remaining = Most(0, trusted_window_minutes(avg, G) - Most(0, s.elapsed))
  BY DEF StatsNow, compute_stats, WeekWindows
<1>3. s.elapsed = now - w[Min(around)].from /\ around # {}
  BY <1>2 DEF present_elapsed_minutes, Known
<1> HIDE DEF s, w
<1>4. /\ w \in Seq(Window) /\ DOMAIN w = 1..Len(w)
      /\ \A i \in 1..Len(w) : /\ w[i].from \in Int /\ w[i].to \in Int
                              /\ now - Week <= w[i].from
      /\ \A m \in Int : InWindow(w, m)
            <=> InSpell(sp, Len(sp), m) \/ InGap(sp, Len(sp), m, G.ignore)
  <2>1. w \in Seq(Window)  BY <1>1 DEF Merged
  <2>2. \A i \in 1..Len(w) : w[i] \in Window  BY <2>1
  <2> QED  BY <1>1, <2>1, <2>2, WindowFields DEF Merged
<1>5. PICK i \in 1..Len(w) : /\ w[i].from <= now /\ now <= w[i].to
                             /\ s.elapsed = now - w[i].from
  <2>1. around \subseteq Nat  BY <1>4
  <2>2. Min(around) \in around
    <3> HIDE DEF around
    <3> QED  BY <1>3, <2>1, MinExists
  <2> QED  BY <1>3, <1>4, <2>2
<1> HIDE DEF around
<1>6. /\ G.ignore \in Nat /\ G.cont \in Nat /\ G.safety \in Nat /\ Week \in Nat
      /\ now \in Nat /\ now - Week \in Int
  <2>1. now \in Nat /\ Week \in Nat  BY HistoryFacts, OpportunityAssumption
  <2>2. G.ignore \in Nat /\ G.cont \in Nat /\ G.safety \in 0..Full  BY HistoryAssumption
  <2>3. G.safety \in Nat
    <3>1. Full \in Nat  BY DEF Full
    <3>2. 0..Full \subseteq Nat  BY <3>1
    <3> QED  BY <2>2, <3>2
  <2> QED  BY <2>1, <2>2, <2>3
<1>7. s.elapsed \in Int /\ now - s.elapsed = w[i].from  BY <1>4, <1>5, <1>6
<1>8. s.remaining <= Part(G.cont, G.safety)
  <2>1. avg \in Int  BY <1>4, AverageIsInt
  <2> HIDE DEF avg
  <2> DEFINE x == IF avg > 0 THEN Least(avg, G.cont) ELSE G.cont
  <2>2. x \in Nat /\ x <= G.cont  BY <1>6, <2>1 DEF Least
  <2>3. trusted_window_minutes(avg, G) = Part(x, G.safety)  BY DEF trusted_window_minutes
  <2> HIDE DEF x
  <2>4. Part(x, G.safety) \in Int /\ Part(G.cont, G.safety) \in Int
        /\ Part(G.cont, G.safety) >= 0
    <3>1. x \in Int /\ G.cont \in Int /\ G.safety \in Int /\ G.cont >= 0 /\ G.safety >= 0
      BY <1>6, <2>2
    <3> QED  BY <3>1, PartType
  <2>5. Part(x, G.safety) <= Part(G.cont, G.safety)  BY <1>6, <2>2, PartMonoLeft
  <2> QED  BY <1>2, <1>7, <2>3, <2>4, <2>5 DEF Most
<1>9. ASSUME NEW a \in (now - s.elapsed)..(now - 1), NEW b \in (now - s.elapsed)..(now - 1),
             a <= b, \A m \in a..b : ~WasPresent(m)
      PROVE  b - a + 1 <= G.ignore
  <2>1. /\ a \in Int /\ b \in Int /\ w[i].from <= a /\ b < now /\ a < now
        /\ now - Week <= a
    BY <1>4, <1>6, <1>7, <1>9
  <2>2. /\ Len(sp) \in Nat /\ DOMAIN sp = 1..Len(sp)
        /\ \A k \in 1..Len(sp) :
              /\ sp[k].from \in Int /\ sp[k].to \in Int /\ sp[k].from < sp[k].to
              /\ now - Week <= sp[k].from /\ sp[k].to <= now
    <3>1. now \in Int /\ now - Week \in Int  BY <1>6
    <3>2. \A k \in 1..Len(sp) :
             /\ sp[k].from \in Int /\ sp[k].to \in Int /\ sp[k].from < sp[k].to
             /\ now - Week <= sp[k].from /\ sp[k].to <= now
      BY <1>1, <3>1, SpellFields
    <3>3. Len(sp) \in Nat /\ DOMAIN sp = 1..Len(sp)  BY <1>1, <3>1, SpellFields
    <3> QED  BY <3>2, <3>3
  <2>3. \A m \in a..b : \A k \in 1..Len(sp) : ~(sp[k].from <= m /\ m < sp[k].to)
    <3> SUFFICES ASSUME NEW m \in a..b, NEW k \in 1..Len(sp), sp[k].from <= m, m < sp[k].to
                 PROVE  FALSE
      OBVIOUS
    <3>1. m \in LastMinutes(Week) /\ m \in now - Week .. now - 1
      BY <1>6, <2>1 DEF LastMinutes
    <3>2. Believed(now - Week, m)  BY <1>1, <2>2, <3>1 DEF Spells
    <3>3. WasPresent(m)  BY <1>6, <3>1, <3>2, StartOfWindow
    <3> QED  BY <1>9, <3>3
  <2>4. InWindow(w, a)  BY <1>4, <1>5, <1>6, <2>1 DEF InWindow
  <2>5. a \in a..b  BY <1>9, <2>1
  <2>6. InGap(sp, Len(sp), a, G.ignore)
    <3>1. ~InSpell(sp, Len(sp), a)  BY <2>3, <2>5 DEF InSpell
    <3> QED  BY <3>1, <2>1, <2>4, <1>4
  <2>7. PICK k \in 1..Len(sp) - 1 : /\ sp[k].to <= a /\ a < sp[k + 1].from
                                    /\ sp[k + 1].from - sp[k].to <= G.ignore
    BY <2>6 DEF InGap
  <2>8. k \in 1..Len(sp) /\ k + 1 \in 1..Len(sp)  BY <2>2
  <2>9. ~(sp[k + 1].from <= b)
    <3> SUFFICES ASSUME sp[k + 1].from <= b PROVE FALSE  OBVIOUS
    <3>1. sp[k + 1].from \in a..b  BY <2>1, <2>2, <2>7, <2>8
    <3> QED  BY <2>2, <2>3, <2>8, <3>1
  <2>10. sp[k].to \in Int /\ sp[k + 1].from \in Int  BY <2>2, <2>8
  <2>11. b < sp[k + 1].from  BY <2>1, <2>9, <2>10
  <2> QED  BY <1>6, <2>1, <2>7, <2>10, <2>11
<1> QED  BY <1>8, <1>9

(* What the dashboard, the ramp and the risk take from the log of the grid  *)
(* is what happened: the uptime, the windows and the time elapsed in one,   *)
(* for every history and every configuration (compute_stats).               *)
THEOREM StatisticsAreHistory == SpecHistory => []StatisticsMatchHistory
<1>1. HistoryInv => StatisticsMatchHistory
  BY UptimeHolds, WindowsHold, ElapsedHolds DEF StatisticsMatchHistory
<1> QED  BY <1>1, HistoryInit, HistoryStep, PTL DEF SpecHistory
=============================================================================
