------------------------- MODULE RouteScriptsProofs -------------------------
(***************************************************************************)
(* Theorems about the waypoint session and the run of a route, for routes  *)
(* of any length with gripper actions anywhere.                            *)
(***************************************************************************)
EXTENDS RouteScripts, FiniteSetTheorems, SequenceTheorems, TLAPS

Steps == [at : Nat, grip : Commands]

(***************************************************************************)
(* The store and its file.                                                 *)
(***************************************************************************)
StoreInv ==
  /\ IsStore(Contents) /\ dirty \in BOOLEAN
  /\ file = Torn \/ IsStore(file)
  /\ pc = "open" => IsStore(file)

(***************************************************************************)
(* The session, and the keys: the listener knows of none that is not down. *)
(***************************************************************************)
SessionInv ==
  /\ pc \in {"open", "skipped", "loop", "prompt", "step", "finally", "over"}
  /\ cmd \in {"none", "record", "goto", "route", "delete"}
  /\ cmd = "none" <=> pc # "prompt"
  /\ held \subseteq Keys /\ late \subseteq held /\ pressed_keys \subseteq held
  /\ last_gripper \in Commands /\ save_failed \in BOOLEAN
  /\ inputs \in 0 .. MaxInputs /\ faults \in 0 .. MaxFaults

(***************************************************************************)
(* The run.  It starts when the session is over, and carries out what it   *)
(* could plan.                                                             *)
(***************************************************************************)
Running == run \notin {"idle", "plan", "ended"}

RunTypes ==
  /\ run \in {"idle", "plan", "reset", "start", "pre", "drive", "act", "done",
              "ended"}
  /\ runs \in 0 .. MaxRuns
  /\ run \in {"idle", "plan", "reset"} => runs = 0
  /\ run = "start" => runs < MaxRuns
  /\ hand \in Commands /\ hand_busy \in BOOLEAN
  /\ gripper_value \in Commands /\ steps \in Seq(Steps)
  /\ run # "idle" => pc \in {"over", "skipped"}
  /\ Running => CanRun(TheRoute)

Here == Segments(TheRoute)[segment]

\* What was asked for last, and what the gripper's value is.
Arrived ==
  /\ steps # <<>> /\ Last(steps).at = at
  /\ Last(steps).grip = Wanted(at) /\ gripper_value = Wanted(at)

PlaceInv ==
  /\ run = "pre" => /\ steps = <<>> /\ segment = 1 /\ at = 1
                    /\ gripper_value = began
  /\ run \in {"drive", "act"} =>
       /\ segment \in DOMAIN Segments(TheRoute)
       /\ at \in Nat /\ Here.from <= at /\ at <= Here.to
  /\ run = "drive" =>
       IF at = Here.from
       THEN \/ Arrived
            \/ at = 1 /\ steps = <<>> /\ gripper_value = Wanted(1)
       ELSE /\ steps # <<>> /\ Last(steps).at = at - 1
            /\ Last(steps).grip = Wanted(at - 1)
            /\ gripper_value = Wanted(at - 1)
  /\ run = "act" =>
       /\ at = Here.to /\ steps # <<>> /\ Last(steps).at = at
       /\ Last(steps).grip = Wanted(at - 1)

RouteInv ==
  /\ StoreInv /\ SessionInv /\ NothingUnsaved /\ RunTypes /\ PlaceInv
  /\ FollowsRoute

-----------------------------------------------------------------------------
(* A finite set of naturals, in ascending order. *)

\* By well-founded induction over the finite subsets: a smallest set without
\* a least element would have one.
LEMMA LeastElement ==
  ASSUME NEW T \in SUBSET Nat, IsFiniteSet(T), T # {}
  PROVE  \E x \in T : \A y \in T : x <= y
PROOF
<1>. DEFINE Least(U) == \E x \in U : \A y \in U : x <= y
            Bad == {U \in SUBSET T : U # {} /\ ~ Least(U)}
<1>1. Bad \subseteq FiniteSubsetsOf(T)
  BY FS_FiniteSubsetsOfFinite
<1>2. IsWellFoundedOn(StrictSubsetOrdering(T), FiniteSubsetsOf(T))
  BY FS_StrictSubsetOrderingWellFounded
<1>3. SUFFICES Bad = {}
  <2>1. T \in SUBSET T
    OBVIOUS
  <2>. QED
    BY <2>1
<1>4. SUFFICES ASSUME Bad # {}
               PROVE  FALSE
  OBVIOUS
<1>. HIDE DEF Bad
<1>5. PICK U \in Bad :
        \A V \in Bad : ~ (<<V, U>> \in StrictSubsetOrdering(T))
  BY <1>1, <1>2, <1>4, WFMin
<1>6. U \in SUBSET T /\ U # {} /\ ~ Least(U)
  BY <1>5 DEF Bad
<1>7. PICK x \in U : TRUE
  BY <1>6
<1>. DEFINE V == U \ {x}
<1>8. V \in SUBSET T /\ <<V, U>> \in StrictSubsetOrdering(T)
  BY <1>6, <1>7 DEF StrictSubsetOrdering
<1>9. V = {} \/ Least(V)
  BY <1>5, <1>8 DEF Bad
<1>10. CASE V = {}
  <2>1. \A y \in U : y = x /\ x <= y
    BY <1>6, <1>7, <1>10
  <2>. QED
    BY <1>6, <1>7, <2>1
<1>11. CASE Least(V)
  <2>1. PICK m \in V : \A y \in V : m <= y
    BY <1>11
  <2>2. m \in Nat /\ x \in Nat /\ m \in U
    BY <1>6, <1>7, <2>1
  <2>3. CASE m <= x
    <3>1. \A y \in U : m <= y
      BY <2>1, <2>3
    <3>. QED
      BY <1>6, <2>2, <3>1
  <2>4. CASE x <= m
    <3>1. \A y \in U : y \in Nat /\ (y = x \/ m <= y)
      BY <1>6, <2>1
    <3>2. \A y \in U : x <= y
      BY <2>2, <2>4, <3>1
    <3>. QED
      BY <1>6, <1>7, <3>2
  <2>. QED
    BY <2>2, <2>3, <2>4
<1>. QED
  BY <1>9, <1>10, <1>11

Ascending(s, S) ==
  /\ s \in [1 .. Cardinality(S) -> S]
  /\ \A i, j \in 1 .. Cardinality(S) : i < j => s[i] < s[j]

\* In the same way: without its least element it can be sorted.
LEMMA SortedExists ==
  ASSUME NEW T \in SUBSET Nat, IsFiniteSet(T)
  PROVE  \E s : Ascending(s, T)
PROOF
<1>. DEFINE Bad == {U \in SUBSET T : ~ \E s : Ascending(s, U)}
<1>1. Bad \subseteq FiniteSubsetsOf(T)
  BY FS_FiniteSubsetsOfFinite
<1>2. IsWellFoundedOn(StrictSubsetOrdering(T), FiniteSubsetsOf(T))
  BY FS_StrictSubsetOrderingWellFounded
<1>3. SUFFICES Bad = {}
  <2>1. T \in SUBSET T
    OBVIOUS
  <2>. QED
    BY <2>1
<1>4. SUFFICES ASSUME Bad # {}
               PROVE  FALSE
  OBVIOUS
<1>. HIDE DEF Bad
<1>5. PICK U \in Bad :
        \A V \in Bad : ~ (<<V, U>> \in StrictSubsetOrdering(T))
  BY <1>1, <1>2, <1>4, WFMin
<1>6. U \in SUBSET T /\ ~ \E s : Ascending(s, U)
  BY <1>5 DEF Bad
<1>7. IsFiniteSet(U) /\ U \in SUBSET Nat
  BY <1>6, FS_Subset
<1>8. U # {}
  <2>. SUFFICES ASSUME U = {}
                PROVE  FALSE
    OBVIOUS
  <2>1. Cardinality(U) = 0
    BY FS_EmptySet
  <2>2. 1 .. Cardinality(U) = {}
    BY <2>1
  <2>3. [i \in {} |-> i] \in [{} -> U]
    OBVIOUS
  <2>4. Ascending([i \in {} |-> i], U)
    BY <2>2, <2>3, Zenon DEF Ascending
  <2>. QED
    BY <1>6, <2>4
<1>9. PICK x \in U : \A y \in U : x <= y
  BY <1>7, <1>8, LeastElement
<1>. DEFINE V == U \ {x}
            n == Cardinality(V)
<1>10. /\ V \in SUBSET T /\ <<V, U>> \in StrictSubsetOrdering(T)
       /\ n \in Nat /\ Cardinality(U) = n + 1
  <2>1. V \in SUBSET T /\ <<V, U>> \in StrictSubsetOrdering(T)
    BY <1>6, <1>9 DEF StrictSubsetOrdering
  <2>2. Cardinality(U) \in Nat /\ n \in Nat
    BY <1>7, FS_RemoveElement, FS_CardinalityType
  <2>3. n = Cardinality(U) - 1
    BY <1>7, <1>9, FS_RemoveElement
  <2>. QED
    BY <2>1, <2>2, <2>3
<1>11. PICK r : Ascending(r, V)
  BY <1>5, <1>10 DEF Bad
<1>12. /\ \A i \in 1 .. n : r[i] \in V /\ r[i] \in U /\ r[i] \in Int
       /\ \A i, j \in 1 .. n : i < j => r[i] < r[j]
  <2>1. \A i \in 1 .. n : r[i] \in V
    BY <1>11 DEF Ascending
  <2>2. \A y \in V : y \in U /\ y \in Int
    BY <1>7
  <2>. QED
    BY <1>11, <2>1, <2>2 DEF Ascending
<1>13. x \in Int /\ \A y \in V : x < y
  BY <1>7, <1>9
<1>. HIDE DEF V, n
<1>. DEFINE s == [i \in 1 .. n + 1 |-> IF i = 1 THEN x ELSE r[i - 1]]
<1>14. /\ s[1] = x
       /\ \A i \in 2 .. n + 1 : i - 1 \in 1 .. n /\ s[i] = r[i - 1]
  BY <1>10
<1>15. s \in [1 .. n + 1 -> U]
  BY <1>9, <1>10, <1>12
<1>16. ASSUME NEW i \in 1 .. n + 1, NEW j \in 1 .. n + 1, i < j
       PROVE  s[i] < s[j]
  <2>1. j \in 2 .. n + 1 /\ (i = 1 \/ i \in 2 .. n + 1)
    BY <1>10, <1>16
  <2>2. s[j] = r[j - 1] /\ j - 1 \in 1 .. n
    BY <1>14, <2>1
  <2>3. CASE i = 1
    BY <1>12, <1>13, <1>14, <2>2, <2>3
  <2>4. CASE i \in 2 .. n + 1
    BY <1>12, <1>14, <1>16, <2>2, <2>4
  <2>. QED
    BY <2>1, <2>3, <2>4
<1>. HIDE DEF s
<1>17. Ascending(s, U)
  BY <1>10, <1>15, <1>16 DEF Ascending
<1>. QED
  BY <1>6, <1>17

\* The ascending sequence of a set's members goes through all of them.
LEMMA SortedIs ==
  ASSUME NEW T \in SUBSET Nat, IsFiniteSet(T)
  PROVE  /\ Cardinality(T) \in Nat /\ Sorted(T) \in Seq(T)
         /\ Len(Sorted(T)) = Cardinality(T)
         /\ DOMAIN Sorted(T) = 1 .. Cardinality(T)
         /\ \A i, j \in 1 .. Cardinality(T) :
              i < j => Sorted(T)[i] < Sorted(T)[j]
         /\ \A x \in T : \E i \in 1 .. Cardinality(T) : Sorted(T)[i] = x
PROOF
<1>. DEFINE n == Cardinality(T)
            s == Sorted(T)
<1>1. n \in Nat
  BY FS_CardinalityType
<1>2. s \in [1 .. n -> T] /\ \A i, j \in DOMAIN s : i < j => s[i] < s[j]
  <2>1. PICK r : Ascending(r, T)
    BY SortedExists
  <2>2. r \in [1 .. n -> T] /\ \A i, j \in DOMAIN r : i < j => r[i] < r[j]
    BY <2>1 DEF Ascending
  <2>. QED
    BY <2>2 DEF Sorted
<1>. HIDE DEF s
<1>3. s \in Seq(T) /\ Len(s) = n
  BY <1>1, <1>2, SeqDef, LenProperties
<1>4. s \in Injection(1 .. n, T)
  <2>1. \A i, j \in 1 .. n : s[i] = s[j] => i = j
    <3>1. \A i \in 1 .. n : s[i] \in Int
      <4>1. \A i \in 1 .. n : s[i] \in T
        BY <1>2
      <4>2. \A x \in T : x \in Int
        OBVIOUS
      <4>. QED
        BY <4>1, <4>2
    <3>. QED
      BY <1>1, <1>2, <3>1
  <2>. QED
    BY <1>2, <2>1 DEF Injection, IsInjective
<1>5. IsFiniteSet(1 .. n) /\ Cardinality(1 .. n) = n
  BY <1>1, FS_Interval
<1>6. s \in Surjection(1 .. n, T)
  BY <1>4, <1>5, FS_Injection
<1>7. \A x \in T : \E i \in 1 .. n : s[i] = x
  BY <1>6 DEF Surjection
<1>. QED
  BY <1>1, <1>2, <1>3, <1>7 DEF s

-----------------------------------------------------------------------------
(* The segments of a route that can be planned. *)

\* They share their ends and go through the whole route, with the gripper's
\* actions at their ends and nowhere inside.
SplitWell(route, segs) ==
  /\ Len(segs) \in Nat \ {0} /\ DOMAIN segs = 1 .. Len(segs)
  /\ segs[1].from = 1 /\ segs[Len(segs)].to = Len(route.points)
  /\ \A i \in 1 .. Len(segs) - 1 : segs[i + 1].from = segs[i].to
  /\ \A i \in 1 .. Len(segs) :
       /\ segs[i].from \in Nat /\ segs[i].to \in Nat
       /\ 1 <= segs[i].from /\ segs[i].from < segs[i].to
       /\ \A k \in segs[i].from + 1 .. segs[i].to - 1 : ~ HasAction(route, k)
       /\ IF HasAction(route, segs[i].to)
          THEN segs[i].action = ActionAt(route, segs[i].to)
          ELSE segs[i].action = "none" /\ i = Len(segs)

LEMMA FunctionIsSeq ==
  ASSUME NEW X, NEW m \in Nat, NEW f \in [1 .. m -> X]
  PROVE  f \in Seq(X) /\ Len(f) = m
BY SeqDef, LenProperties

LEMMA SplitsWell ==
  ASSUME NEW route, Len(route.points) \in Nat,
         \A i \in DOMAIN SplitRoute(route) :
           SplitRoute(route)[i].from < SplitRoute(route)[i].to
  PROVE  SplitWell(route, SplitRoute(route))
PROOF
<1>. DEFINE n == Len(route.points)
            S == {k \in 2 .. n : HasAction(route, k)}
            p == Sorted(S)
            m == Len(p)
            F(i) == IF i = 1 THEN 1 ELSE p[i - 1]
            head == [i \in DOMAIN p |->
                       [from |-> F(i), to |-> p[i],
                        action |-> ActionAt(route, p[i])]]
            end == [from |-> F(m + 1), to |-> n, action |-> "none"]
            segs == SplitRoute(route)
<1>1. segs = IF F(m + 1) < n \/ p = <<>> THEN Append(head, end) ELSE head
  BY DEF SplitRoute
<1>2. S \in SUBSET Nat /\ IsFiniteSet(S)
  <2>1. IsFiniteSet(2 .. n) /\ S \subseteq 2 .. n
    BY FS_Interval
  <2>. QED
    BY <2>1, FS_Subset
<1>3. /\ m \in Nat /\ p \in Seq(S) /\ DOMAIN p = 1 .. m
      /\ \A i, j \in 1 .. m : i < j => p[i] < p[j]
      /\ \A x \in S : \E i \in 1 .. m : p[i] = x
  BY <1>2, SortedIs
<1>4. \A x \in S : x \in Int /\ 2 <= x /\ x <= n /\ HasAction(route, x)
  OBVIOUS
<1>5. \A k \in Int : 2 <= k /\ k <= n /\ HasAction(route, k) => k \in S
  OBVIOUS
<1>. HIDE DEF S, p
<1>6. \A i \in 1 .. m : p[i] \in S
  BY <1>3
<1>7. \A i \in 1 .. m : /\ p[i] \in Int /\ 2 <= p[i] /\ p[i] <= n
                        /\ HasAction(route, p[i])
  BY <1>4, <1>6
<1>8. ASSUME NEW i \in 1 .. m, NEW j \in 1 .. m, i <= j
      PROVE  p[i] <= p[j]
  <2>1. p[i] \in Int /\ p[j] \in Int
    BY <1>7
  <2>2. CASE i < j
    BY <1>3, <2>1, <2>2
  <2>3. CASE i = j
    BY <2>1, <2>3
  <2>. QED
    BY <1>3, <1>8, <2>2, <2>3
\* No action lies between an end and the next.
<1>9. ASSUME NEW i \in 1 .. m + 1, NEW k \in Int, F(i) < k,
             i <= m => k < p[i], 2 <= k, k <= n, HasAction(route, k)
      PROVE  FALSE
  <2>1. PICK j \in 1 .. m : p[j] = k
    BY <1>3, <1>5, <1>9
  <2>2. i # 1 => i - 1 < j
    <3>. SUFFICES ASSUME i # 1, j <= i - 1
                  PROVE  FALSE
      BY <1>3
    <3>1. i - 1 \in 1 .. m /\ p[j] <= p[i - 1]
      BY <1>3, <1>8
    <3>2. F(i) = p[i - 1]
      OBVIOUS
    <3>. QED
      BY <1>7, <1>9, <2>1, <3>1, <3>2
  <2>3. i <= m => j < i
    <3>. SUFFICES ASSUME i <= m, i <= j
                  PROVE  FALSE
      BY <1>3
    <3>1. i \in 1 .. m /\ p[i] <= p[j]
      BY <1>3, <1>8
    <3>. QED
      BY <1>7, <1>9, <2>1, <3>1
  <2>. QED
    BY <1>3, <2>2, <2>3
<1>10. \A i \in 1 .. m + 1 : /\ F(i) \in Int /\ 1 <= F(i)
                             /\ i <= m => F(i) < p[i]
  <2>. SUFFICES ASSUME NEW i \in 1 .. m + 1
                PROVE  /\ F(i) \in Int /\ 1 <= F(i)
                       /\ i <= m => F(i) < p[i]
    OBVIOUS
  <2>1. CASE i = 1
    BY <1>3, <1>7, <2>1
  <2>2. CASE i # 1
    <3>1. i - 1 \in 1 .. m /\ i - 1 < i /\ F(i) = p[i - 1]
      BY <1>3, <2>2
    <3>2. i <= m => p[i - 1] < p[i]
      BY <1>3, <3>1
    <3>3. p[i - 1] \in Int /\ 1 <= p[i - 1]
      BY <1>7, <3>1
    <3>. QED
      BY <3>1, <3>2, <3>3
  <2>. QED
    BY <2>1, <2>2
<1>11. \A i \in 1 .. m : F(i + 1) = p[i]
  BY <1>3
<1>12. \A i \in 1 .. m : head[i] = [from |-> F(i), to |-> p[i],
                                    action |-> ActionAt(route, p[i])]
  BY <1>3
<1>. DEFINE X == {head[i] : i \in 1 .. m} \union {end}
<1>13. head \in Seq(X) /\ Len(head) = m
  <2>1. head \in [1 .. m -> X]
    BY <1>3
  <2>2. m \in Nat
    BY <1>3
  <2>. HIDE DEF X, head, m
  <2>. QED
    BY <2>1, <2>2, FunctionIsSeq
<1>. HIDE DEF X, head, F
<1>14. CASE F(m + 1) < n \/ p = <<>>
  <2>1. segs = Append(head, end)
    BY <1>1, <1>14
  <2>2. end \in X
    BY DEF X
  <2>3. /\ Len(segs) = m + 1 /\ DOMAIN segs = 1 .. m + 1
        /\ \A i \in 1 .. m : segs[i] = head[i]
        /\ segs[m + 1] = end
    BY <1>3, <1>13, <2>1, <2>2
  <2>. HIDE DEF segs
  <2>4. \A i \in 1 .. m : /\ segs[i].from = F(i) /\ segs[i].to = p[i]
                          /\ segs[i].action = ActionAt(route, p[i])
    <3>. SUFFICES ASSUME NEW i \in 1 .. m
                  PROVE  /\ segs[i].from = F(i) /\ segs[i].to = p[i]
                         /\ segs[i].action = ActionAt(route, p[i])
      OBVIOUS
    <3>1. segs[i] = [from |-> F(i), to |-> p[i],
                     action |-> ActionAt(route, p[i])]
      BY <1>12, <2>3
    <3>. QED
      BY <3>1
  <2>5. /\ segs[m + 1].from = F(m + 1) /\ segs[m + 1].to = n
        /\ segs[m + 1].action = "none"
    BY <2>3
  <2>6. F(m + 1) < n
    BY <1>3, <2>3, <2>5 DEF segs
  <2>7. F(m + 1) \in Int /\ 1 <= F(m + 1)
    BY <1>3, <1>10
  <2>8. ASSUME NEW k \in F(m + 1) + 1 .. n
        PROVE  ~ HasAction(route, k)
    <3>1. k \in Int /\ F(m + 1) < k /\ 2 <= k /\ k <= n /\ ~ (m + 1 <= m)
          /\ m + 1 \in 1 .. m + 1
      BY <1>3, <2>7
    <3>. QED
      BY <1>9, <3>1
  <2>9. segs[1].from = 1
    BY <1>3, <2>4, <2>5 DEF F
  <2>10. \A i \in 1 .. m : segs[i + 1].from = segs[i].to
    <3>. SUFFICES ASSUME NEW i \in 1 .. m
                  PROVE  segs[i + 1].from = F(i + 1)
      BY <1>11, <2>4
    <3>1. i + 1 \in 1 .. m \/ i + 1 = m + 1
      BY <1>3
    <3>. QED
      BY <2>4, <2>5, <3>1
  <2>11. ASSUME NEW i \in 1 .. m + 1
         PROVE  /\ segs[i].from \in Nat /\ segs[i].to \in Nat
                /\ 1 <= segs[i].from /\ segs[i].from < segs[i].to
                /\ \A k \in segs[i].from + 1 .. segs[i].to - 1 :
                     ~ HasAction(route, k)
                /\ IF HasAction(route, segs[i].to)
                   THEN segs[i].action = ActionAt(route, segs[i].to)
                   ELSE segs[i].action = "none" /\ i = m + 1
    <3>1. CASE i = m + 1
      <4>1. \A k \in F(m + 1) + 1 .. n - 1 : ~ HasAction(route, k)
        BY <2>7, <2>8
      <4>2. ~ HasAction(route, n)
        BY <2>6, <2>7, <2>8
      <4>. QED
        BY <2>5, <2>6, <2>7, <3>1, <4>1, <4>2
    <3>2. CASE i \in 1 .. m
      <4>1. F(i) \in Int /\ 1 <= F(i) /\ F(i) < p[i]
        BY <1>3, <1>10, <3>2
      <4>2. \A k \in F(i) + 1 .. p[i] - 1 : ~ HasAction(route, k)
        <5>. SUFFICES ASSUME NEW k \in F(i) + 1 .. p[i] - 1
                      PROVE  ~ HasAction(route, k)
          OBVIOUS
        <5>1. k \in Int /\ F(i) < k /\ k < p[i] /\ 2 <= k /\ k <= n
          BY <1>7, <3>2, <4>1
        <5>. QED
          BY <1>9, <5>1
      <4>. QED
        BY <1>7, <2>4, <3>2, <4>1, <4>2
    <3>. QED
      BY <1>3, <3>1, <3>2
  <2>12. SplitWell(route, segs)
    BY <1>3, <2>3, <2>5, <2>9, <2>10, <2>11 DEF SplitWell
  <2>. QED
    BY <2>12 DEF segs
<1>15. CASE ~ (F(m + 1) < n \/ p = <<>>)
  <2>1. m \in Nat \ {0}
    BY <1>3, <1>15, EmptySeq
  <2>2. /\ Len(segs) = m /\ DOMAIN segs = 1 .. m
        /\ \A i \in 1 .. m : segs[i] = head[i]
    BY <1>1, <1>3, <1>13, <1>15
  <2>. HIDE DEF segs
  <2>3. \A i \in 1 .. m : /\ segs[i].from = F(i) /\ segs[i].to = p[i]
                          /\ segs[i].action = ActionAt(route, p[i])
    <3>. SUFFICES ASSUME NEW i \in 1 .. m
                  PROVE  /\ segs[i].from = F(i) /\ segs[i].to = p[i]
                         /\ segs[i].action = ActionAt(route, p[i])
      OBVIOUS
    <3>1. segs[i] = [from |-> F(i), to |-> p[i],
                     action |-> ActionAt(route, p[i])]
      BY <1>12, <2>2
    <3>. QED
      BY <3>1
  <2>4. p[m] = n
    BY <1>7, <1>11, <1>15, <2>1
  <2>5. segs[1].from = 1
    BY <2>1, <2>3 DEF F
  <2>6. \A i \in 1 .. m - 1 : segs[i + 1].from = segs[i].to
    <3>. SUFFICES ASSUME NEW i \in 1 .. m - 1
                  PROVE  segs[i + 1].from = segs[i].to
      OBVIOUS
    <3>1. i \in 1 .. m /\ i + 1 \in 1 .. m
      BY <2>1
    <3>. QED
      BY <1>11, <2>3, <3>1
  <2>7. ASSUME NEW i \in 1 .. m
        PROVE  /\ segs[i].from \in Nat /\ segs[i].to \in Nat
               /\ 1 <= segs[i].from /\ segs[i].from < segs[i].to
               /\ \A k \in segs[i].from + 1 .. segs[i].to - 1 :
                    ~ HasAction(route, k)
               /\ IF HasAction(route, segs[i].to)
                  THEN segs[i].action = ActionAt(route, segs[i].to)
                  ELSE segs[i].action = "none" /\ i = m
    <3>1. F(i) \in Int /\ 1 <= F(i) /\ F(i) < p[i]
      BY <1>3, <1>10
    <3>2. \A k \in F(i) + 1 .. p[i] - 1 : ~ HasAction(route, k)
      <4>. SUFFICES ASSUME NEW k \in F(i) + 1 .. p[i] - 1
                    PROVE  ~ HasAction(route, k)
        OBVIOUS
      <4>1. k \in Int /\ F(i) < k /\ k < p[i] /\ 2 <= k /\ k <= n
        BY <1>7, <3>1
      <4>. QED
        BY <1>3, <1>9, <4>1
    <3>. QED
      BY <1>7, <2>3, <3>1, <3>2
  <2>8. SplitWell(route, segs)
    <3>1. segs[m].to = n
      BY <2>1, <2>3, <2>4
    <3>. HIDE DEF m
    <3>. QED
      BY <2>1, <2>2, <2>5, <2>6, <2>7, <3>1 DEF SplitWell
  <2>. QED
    BY <2>8 DEF segs
<1>. QED
  BY <1>14, <1>15

-----------------------------------------------------------------------------
(* The store. *)

LEMMA ConstantTypes ==
  /\ MaxRuns \in Nat \ {0} /\ MaxInputs \in Nat /\ MaxFaults \in Nat
  /\ \A store \in Files \union Stores : IsStore(store)
  /\ \A route \in Typed : IsRoute(route)
BY RunAssumption, SessionAssumption, RouteAssumption

LEMMA ContentsAre ==
  /\ IsStore(Contents) <=>
       /\ IsPartial(waypoints, Names) /\ IsPartial(routes, RouteNames)
       /\ \A name \in DOMAIN routes : IsRoute(routes[name])
  /\ IsStore(Contents)' <=>
       /\ IsPartial(waypoints', Names) /\ IsPartial(routes', RouteNames)
       /\ \A name \in DOMAIN routes' : IsRoute(routes'[name])
PROOF
<1>1. /\ Contents.waypoints = waypoints /\ Contents.routes = routes
      /\ Contents = [waypoints |-> waypoints, routes |-> routes]
  BY DEF Contents
<1>2. /\ Contents'.waypoints = waypoints' /\ Contents'.routes = routes'
      /\ Contents' = [waypoints |-> waypoints', routes |-> routes']
  BY DEF Contents
<1>. QED
  BY <1>1, <1>2, Zenon DEF IsStore

LEMMA TornIsNoStore == ~ IsStore(Torn)
PROOF
<1>. SUFFICES ASSUME IsStore(Torn)
              PROVE  FALSE
  OBVIOUS
<1>1. DOMAIN Torn = {"waypoints", "routes"}
  BY DEF IsStore
<1>2. DOMAIN Torn = {"torn"}
  BY DEF Torn
<1>. QED
  BY <1>1, <1>2

LEMMA WithIs ==
  ASSUME NEW f, NEW S, NEW x \in S, NEW v, IsPartial(f, S)
  PROVE  /\ IsPartial(With(f, x, v), S)
         /\ DOMAIN With(f, x, v) = DOMAIN f \union {x}
         /\ \A y \in DOMAIN With(f, x, v) :
              With(f, x, v)[y] = IF y = x THEN v ELSE f[y]
BY DEF With, IsPartial

LEMMA WithoutIs ==
  ASSUME NEW f, NEW S, NEW x, IsPartial(f, S)
  PROVE  /\ IsPartial(Without(f, x), S)
         /\ DOMAIN Without(f, x) = DOMAIN f \ {x}
         /\ \A y \in DOMAIN Without(f, x) : Without(f, x)[y] = f[y]
         /\ x \notin DOMAIN f => Without(f, x) = f
PROOF
<1>1. ASSUME x \notin DOMAIN f
      PROVE  Without(f, x) = f
  <2>1. DOMAIN f \ {x} = DOMAIN f
    BY <1>1
  <2>. QED
    BY <2>1 DEF Without, IsPartial
<1>. QED
  BY <1>1 DEF Without, IsPartial

\* A store that is loaded is what the file holds.
LEMMA LoadIs ==
  ASSUME IsStore(file), Load
  PROVE  /\ IsStore(Contents)' /\ dirty' = FALSE /\ file' = file
         /\ (file = Contents)'
PROOF
<1>1. /\ waypoints' = file.waypoints /\ routes' = file.routes
      /\ dirty' = FALSE /\ file' = file
  BY DEF Load
<1>2. Contents' = file
  BY <1>1 DEF Contents, IsStore
<1>. QED
  BY <1>1, <1>2

LEMMA SaveIs ==
  ASSUME IsStore(Contents), Save
  PROVE  /\ IsStore(Contents)' /\ dirty' = FALSE /\ IsStore(file)'
         /\ (file = Contents)'
PROOF
<1>1. UNCHANGED <<waypoints, routes>> /\ dirty' = FALSE /\ file' = Contents
  BY DEF Save
<1>2. Contents' = Contents
  BY <1>1 DEF Contents
<1>. QED
  BY <1>1, <1>2

LEMMA SaveFailsIs ==
  ASSUME StoreInv, SaveFails
  PROVE  /\ IsStore(Contents)' /\ dirty' \in BOOLEAN
         /\ (file = Torn \/ IsStore(file))'
PROOF
<1>1. UNCHANGED <<waypoints, routes, dirty>> /\ file' \in {file, Torn}
  BY DEF SaveFails
<1>2. Contents' = Contents
  BY <1>1 DEF Contents
<1>. QED
  BY <1>1, <1>2 DEF StoreInv

\* What a command does keeps the store's types, and is noted.
LEMMA HandlesStore ==
  ASSUME StoreInv, Handles
  PROVE  /\ IsStore(Contents)' /\ dirty' \in BOOLEAN /\ file' = file
         /\ ~ dirty' => ~ dirty /\ Contents' = Contents
PROOF
<1>1. /\ IsPartial(waypoints, Names) /\ IsPartial(routes, RouteNames)
      /\ \A name \in DOMAIN routes : IsRoute(routes[name])
      /\ dirty \in BOOLEAN
  BY ContentsAre DEF StoreInv
<1>2. CASE \E name \in Names, pose \in Poses : AddWaypoint(name, pose)
  <2>1. PICK name \in Names, pose \in Poses : AddWaypoint(name, pose)
    BY <1>2
  <2>2. /\ waypoints' = With(waypoints, name, pose) /\ dirty' = TRUE
        /\ UNCHANGED <<routes, file>>
    BY <2>1 DEF AddWaypoint
  <2>3. IsPartial(waypoints', Names)
    BY <1>1, <2>2, WithIs
  <2>. QED
    BY <1>1, <2>2, <2>3, ContentsAre
<1>3. CASE \E name \in RouteNames, route \in Typed : AddRoute(name, route)
  <2>1. PICK name \in RouteNames, route \in Typed : AddRoute(name, route)
    BY <1>3
  <2>2. /\ routes' = With(routes, name, route) /\ dirty' = TRUE
        /\ UNCHANGED <<waypoints, file>>
    BY <2>1 DEF AddRoute
  <2>. DEFINE new == With(routes, name, route)
  <2>3. /\ IsPartial(new, RouteNames)
        /\ DOMAIN new = DOMAIN routes \union {name}
        /\ \A x \in DOMAIN new : new[x] = IF x = name THEN route ELSE routes[x]
    BY <1>1 DEF With, IsPartial
  <2>. HIDE DEF new
  <2>4. \A x \in DOMAIN new : IsRoute(new[x])
    BY <1>1, <2>3, ConstantTypes
  <2>5. /\ IsPartial(routes', RouteNames)
        /\ \A x \in DOMAIN routes' : IsRoute(routes'[x])
    <3>1. routes' = new
      BY <2>2 DEF new
    <3>. QED
      BY <2>3, <2>4, <3>1, Zenon
  <2>. QED
    BY <1>1, <2>2, <2>5, ContentsAre
<1>4. CASE \E name \in Names : RemoveWaypoint(name)
  <2>1. PICK name \in Names : RemoveWaypoint(name)
    BY <1>4
  <2>2. /\ waypoints' = Without(waypoints, name)
        /\ dirty' = (dirty \/ name \in DOMAIN waypoints)
        /\ UNCHANGED <<routes, file>>
    BY <2>1 DEF RemoveWaypoint
  <2>3. /\ IsPartial(waypoints', Names)
        /\ name \notin DOMAIN waypoints => waypoints' = waypoints
    BY <1>1, <2>2, WithoutIs
  <2>4. ~ dirty' => ~ dirty /\ Contents' = Contents
    BY <2>2, <2>3 DEF Contents
  <2>. QED
    BY <1>1, <2>2, <2>3, <2>4, ContentsAre
<1>5. CASE \E name \in RouteNames : RemoveRoute(name)
  <2>1. PICK name \in RouteNames : RemoveRoute(name)
    BY <1>5
  <2>2. /\ routes' = Without(routes, name)
        /\ dirty' = (dirty \/ name \in DOMAIN routes)
        /\ UNCHANGED <<waypoints, file>>
    BY <2>1 DEF RemoveRoute
  <2>3. /\ IsPartial(routes', RouteNames)
        /\ DOMAIN routes' = DOMAIN routes \ {name}
        /\ \A x \in DOMAIN routes' : routes'[x] = routes[x]
        /\ name \notin DOMAIN routes => routes' = routes
    BY <1>1, <2>2, WithoutIs
  <2>4. \A x \in DOMAIN routes' : IsRoute(routes'[x])
    BY <1>1, <2>3
  <2>5. ~ dirty' => ~ dirty /\ Contents' = Contents
    BY <2>2, <2>3 DEF Contents
  <2>. QED
    BY <1>1, <2>2, <2>3, <2>4, <2>5, ContentsAre
<1>6. CASE KeepStore
  BY <1>1, <1>6, ContentsAre DEF KeepStore, storeVars, Contents
<1>. QED
  BY <1>2, <1>3, <1>4, <1>5, <1>6 DEF Handles

-----------------------------------------------------------------------------
(* The session. *)

LEMMA StoreKept ==
  ASSUME StoreInv, NothingUnsaved, KeepStore, UNCHANGED save_failed,
         pc \notin {"open", "skipped"}, pc' # "open",
         pc' = "over" => pc = "over" \/ ~ dirty
  PROVE  StoreInv' /\ NothingUnsaved'
PROOF
<1>1. UNCHANGED <<waypoints, routes, dirty, file>>
  BY DEF KeepStore, storeVars
<1>2. Contents' = Contents
  BY <1>1 DEF Contents
<1>3. StoreInv'
  BY <1>1, <1>2 DEF StoreInv
<1>4. NothingUnsaved'
  BY <1>1, <1>2 DEF NothingUnsaved, StoreInv
<1>. QED
  BY <1>3, <1>4

LEMMA StoreSaved ==
  ASSUME StoreInv, Save, pc' # "open"
  PROVE  StoreInv' /\ NothingUnsaved'
PROOF
<1>1. /\ IsStore(Contents)' /\ dirty' = FALSE /\ IsStore(file)'
      /\ (file = Contents)'
  BY SaveIs DEF StoreInv
<1>. QED
  BY <1>1 DEF StoreInv, NothingUnsaved

LEMMA StoreNotSaved ==
  ASSUME StoreInv, SaveFails, save_failed' = TRUE, pc' # "open"
  PROVE  StoreInv' /\ NothingUnsaved'
PROOF
<1>1. /\ IsStore(Contents)' /\ dirty' \in BOOLEAN
      /\ (file = Torn \/ IsStore(file))'
  BY SaveFailsIs
<1>. QED
  BY <1>1 DEF StoreInv, NothingUnsaved

\* Each step of the session keeps the store in step with its file.
LEMMA StoreSteps ==
  ASSUME StoreInv, SessionInv, NothingUnsaved,
         SessionNext \/ Operates \/ LetsGo
  PROVE  StoreInv' /\ NothingUnsaved'
PROOF
<1>1. CASE Opens
  <2>1. pc = "open" /\ Load /\ pc' \in {"loop", "finally"}
    BY <1>1 DEF Opens, Goto
  <2>2. IsStore(file)
    BY <2>1 DEF StoreInv
  <2>3. /\ IsStore(Contents)' /\ dirty' = FALSE /\ file' = file
        /\ (file = Contents)'
    BY <2>1, <2>2, LoadIs
  <2>. QED
    BY <2>1, <2>2, <2>3 DEF StoreInv, NothingUnsaved
<1>2. CASE Command
  <2>1. /\ KeepStore /\ UNCHANGED save_failed
        /\ pc = "loop" /\ pc' = "prompt"
    BY <1>2 DEF Command, Goto
  <2>. QED
    BY <2>1, StoreKept
<1>3. CASE CommandSave
  <2>1. CASE Save /\ pc' = "step"
    BY <2>1, StoreSaved
  <2>2. CASE SaveFails /\ save_failed' = TRUE /\ pc' = "finally"
    BY <2>2, StoreNotSaved
  <2>. QED
    BY <1>3, <2>1, <2>2 DEF CommandSave, Goto
<1>4. CASE Answers
  <2>1. /\ pc = "prompt" /\ pc' = "step" /\ Handles
        /\ UNCHANGED save_failed
    BY <1>4 DEF Answers, Goto
  <2>2. /\ IsStore(Contents)' /\ dirty' \in BOOLEAN /\ file' = file
        /\ ~ dirty' => ~ dirty /\ Contents' = Contents
    BY <2>1, HandlesStore
  <2>3. StoreInv'
    BY <2>1, <2>2 DEF StoreInv
  <2>4. NothingUnsaved'
    BY <2>1, <2>2 DEF NothingUnsaved
  <2>. QED
    BY <2>3, <2>4
<1>5. CASE PromptBreaks
  <2>1. /\ KeepStore /\ UNCHANGED save_failed
        /\ pc = "prompt" /\ pc' = "finally"
    BY <1>5 DEF PromptBreaks, Goto
  <2>. QED
    BY <2>1, StoreKept
<1>6. CASE ExitKey
  <2>1. /\ KeepStore /\ UNCHANGED save_failed
        /\ pc = "loop" /\ pc' = "finally"
    BY <1>6 DEF ExitKey, Goto
  <2>. QED
    BY <2>1, StoreKept
<1>7. CASE Step
  <2>1. /\ KeepStore /\ UNCHANGED save_failed
        /\ pc \in {"loop", "step"} /\ pc' \in {"finally", "loop"}
    BY <1>7 DEF Step, Goto, sessionVars
  <2>. QED
    BY <2>1, StoreKept
<1>8. CASE StepFails
  <2>1. /\ KeepStore /\ UNCHANGED save_failed
        /\ pc \in {"loop", "step"} /\ pc' = "finally"
    BY <1>8 DEF StepFails, Goto, sessionVars
  <2>. QED
    BY <2>1, StoreKept
<1>9. CASE Leaves
  <2>1. pc = "finally" /\ pc' = "over"
    BY <1>9 DEF Leaves, Goto
  <2>2. CASE Save
    BY <2>1, <2>2, StoreSaved
  <2>3. CASE ~ dirty /\ KeepStore /\ UNCHANGED save_failed
    BY <2>1, <2>3, StoreKept
  <2>4. CASE SaveFails /\ save_failed' = TRUE
    BY <2>1, <2>4, StoreNotSaved
  <2>. QED
    BY <1>9, <2>2, <2>3, <2>4 DEF Leaves
<1>10. CASE Operates \/ LetsGo
  <2>1. /\ UNCHANGED <<storeVars, pc, save_failed>>
        /\ pc \in {"loop", "step", "prompt"}
    BY <1>10 DEF Operates, LetsGo
  <2>. QED
    BY <2>1, StoreKept DEF KeepStore
<1>11. CASE CommandList
  <2>1. KeepStore /\ UNCHANGED save_failed /\ pc = "loop" /\ pc' = "step"
    BY <1>11 DEF CommandList, Goto
  <2>. QED
    BY <2>1, StoreKept
<1>. QED
  BY <1>1, <1>2, <1>3, <1>4, <1>5, <1>6, <1>7, <1>8, <1>9, <1>10, <1>11
  DEF SessionNext

LEMMA InputIs ==
  ASSUME inputs \in 0 .. MaxInputs, Input \/ UNCHANGED inputs
  PROVE  inputs' \in 0 .. MaxInputs
BY ConstantTypes DEF Input

LEMMA FaultIs ==
  ASSUME faults \in 0 .. MaxFaults, Fault \/ UNCHANGED faults
  PROVE  faults' \in 0 .. MaxFaults
BY ConstantTypes DEF Fault

\* GetAction reads the keys, and keeps them.
LEMMA GetActionIs ==
  ASSUME last_gripper \in Commands, GetAction
  PROVE  last_gripper' \in Commands /\ UNCHANGED <<held, late, pressed_keys>>
BY DEF GetAction, Commands

\* Each step of the session keeps its types.
LEMMA SessionSteps ==
  ASSUME SessionInv, SessionNext \/ Operates \/ LetsGo
  PROVE  SessionInv'
PROOF
<1>1. CASE Opens
  <2>1. /\ pc = "open" /\ pc' \in {"loop", "finally"}
        /\ UNCHANGED <<keyVars, sessionVars>> /\ (Fault \/ UNCHANGED faults)
    BY <1>1 DEF Opens, Goto, KeepKeys
  <2>2. faults' \in 0 .. MaxFaults
    BY <2>1, FaultIs DEF SessionInv
  <2>. QED
    BY <2>1, <2>2 DEF SessionInv, keyVars, sessionVars
<1>2. CASE Command
  <2>1. /\ pc = "loop" /\ pc' = "prompt" /\ Input
        /\ cmd' \in {"record", "goto", "route", "delete"}
        /\ UNCHANGED <<keyVars, save_failed, faults>>
    BY <1>2 DEF Command, Goto, KeepKeys, Prompts
  <2>2. inputs' \in 0 .. MaxInputs
    BY <2>1, InputIs DEF SessionInv
  <2>. QED
    BY <2>1, <2>2 DEF SessionInv, keyVars
<1>3. CASE CommandSave
  <2>1. /\ pc = "loop" /\ pc' \in {"step", "finally"} /\ Input
        /\ pressed_keys' = {} /\ save_failed' \in BOOLEAN
        /\ UNCHANGED <<held, late, last_gripper, cmd>>
        /\ Fault \/ UNCHANGED faults
    BY <1>3 DEF CommandSave, Goto, ClearPressedKeys
  <2>2. inputs' \in 0 .. MaxInputs /\ faults' \in 0 .. MaxFaults
    BY <2>1, InputIs, FaultIs DEF SessionInv
  <2>. QED
    BY <2>1, <2>2 DEF SessionInv
<1>4. CASE Answers
  <2>1. /\ pc' = "step" /\ cmd' = "none" /\ pressed_keys' = {}
        /\ held' = held \union {"enter"}
        /\ late' \in {late, late \union {"enter"}}
        /\ UNCHANGED <<last_gripper, save_failed, inputs, faults>>
    BY <1>4 DEF Answers, Goto, ClearPressedKeys
  <2>2. held' \subseteq Keys /\ late' \subseteq held'
    BY <2>1 DEF SessionInv, Keys
  <2>. QED
    BY <2>1, <2>2 DEF SessionInv
<1>5. CASE PromptBreaks
  <2>1. /\ pc' = "finally" /\ cmd' = "none"
        /\ UNCHANGED <<keyVars, save_failed>>
        /\ (Input \/ UNCHANGED inputs) /\ (Fault \/ UNCHANGED faults)
    BY <1>5 DEF PromptBreaks, Goto, KeepKeys
  <2>2. inputs' \in 0 .. MaxInputs /\ faults' \in 0 .. MaxFaults
    BY <2>1, InputIs, FaultIs DEF SessionInv
  <2>. QED
    BY <2>1, <2>2 DEF SessionInv, keyVars
<1>6. CASE ExitKey
  <2>1. /\ pc = "loop" /\ pc' = "finally" /\ Input
        /\ UNCHANGED <<keyVars, cmd, save_failed, faults>>
    BY <1>6 DEF ExitKey, Goto, KeepKeys
  <2>2. inputs' \in 0 .. MaxInputs
    BY <2>1, InputIs DEF SessionInv
  <2>. QED
    BY <2>1, <2>2 DEF SessionInv, keyVars
<1>7. CASE Step \/ StepFails
  <2>1. /\ pc \in {"loop", "step"} /\ pc' \in {"loop", "finally"}
        /\ GetAction /\ UNCHANGED <<cmd, save_failed, inputs>>
        /\ Fault \/ UNCHANGED faults
    BY <1>7 DEF Step, StepFails, Goto, sessionVars
  <2>2. last_gripper' \in Commands /\ UNCHANGED <<held, late, pressed_keys>>
    BY <2>1, GetActionIs DEF SessionInv
  <2>3. faults' \in 0 .. MaxFaults
    BY <2>1, FaultIs DEF SessionInv
  <2>. QED
    BY <2>1, <2>2, <2>3 DEF SessionInv
<1>8. CASE Leaves
  <2>1. /\ pc = "finally" /\ pc' = "over" /\ save_failed' \in BOOLEAN
        /\ UNCHANGED <<keyVars, cmd, inputs>>
        /\ Fault \/ UNCHANGED faults
    BY <1>8 DEF Leaves, Goto, KeepKeys, SessionInv
  <2>2. faults' \in 0 .. MaxFaults
    BY <2>1, FaultIs DEF SessionInv
  <2>. QED
    BY <2>1, <2>2 DEF SessionInv, keyVars
<1>9. CASE Operates \/ LetsGo
  <2>1. /\ pc \in {"loop", "step", "prompt"}
        /\ UNCHANGED <<pc, cmd, save_failed, faults, last_gripper>>
        /\ Input \/ UNCHANGED inputs
        /\ (\E key \in Keys : PressKey(key)) \/ ReleaseKey \/ ListenerPresses
    BY <1>9 DEF Operates, LetsGo, PressKey, ReleaseKey, ListenerPresses,
       latchVars
  <2>2. inputs' \in 0 .. MaxInputs
    BY <2>1, InputIs DEF SessionInv
  <2>3. /\ held' \subseteq Keys /\ late' \subseteq held'
        /\ pressed_keys' \subseteq held'
    BY <2>1 DEF SessionInv, PressKey, ReleaseKey, ListenerPresses, OnPress
  <2>. QED
    BY <2>1, <2>2, <2>3 DEF SessionInv
<1>10. CASE CommandList
  <2>1. /\ pc = "loop" /\ pc' = "step" /\ Input /\ pressed_keys' = {}
        /\ UNCHANGED <<held, late, last_gripper, cmd, save_failed, faults>>
    BY <1>10 DEF CommandList, Goto, ClearPressedKeys
  <2>2. inputs' \in 0 .. MaxInputs
    BY <2>1, InputIs DEF SessionInv
  <2>. QED
    BY <2>1, <2>2 DEF SessionInv
<1>. QED
  BY <1>1, <1>2, <1>3, <1>4, <1>5, <1>6, <1>7, <1>8, <1>9, <1>10
     DEF SessionNext

-----------------------------------------------------------------------------
(* The gripper's value along the route. *)

LEMMA PlannedRoute ==
  ASSUME StoreInv, CanRun(TheRoute)
  PROVE  IsRoute(Route) /\ SplitWell(Route, Segments(TheRoute))
PROOF
<1>1. TheRoute \in DOMAIN routes
  BY DEF CanRun, Known
<1>2. IsRoute(Route)
  BY <1>1, ContentsAre DEF StoreInv, Route
<1>3. Len(Route.points) \in Nat
  BY <1>2, LenProperties DEF IsRoute
<1>4. Segments(TheRoute) = SplitRoute(Route)
  BY DEF Segments, Route
<1>5. \A i \in DOMAIN Segments(TheRoute) :
        Segments(TheRoute)[i].from < Segments(TheRoute)[i].to
  BY DEF CanRun, CanPlan
<1>6. SplitWell(Route, SplitRoute(Route))
  BY <1>3, <1>4, <1>5, SplitsWell
<1>. QED
  BY <1>2, <1>4, <1>6

LEMMA ActionIs ==
  ASSUME NEW route, IsRoute(route), NEW k, HasAction(route, k)
  PROVE  ActionAt(route, k) # "none"
BY DEF IsRoute, HasAction, ActionAt

LEMMA WantedBegins == Wanted(0) = began
PROOF
<1>1. {i \in 1 .. 0 : HasAction(Route, i)} = {}
  OBVIOUS
<1>. QED
  BY <1>1 DEF Wanted

\* It changes where there is an action, and only there.
LEMMA WantedNext ==
  ASSUME NEW k \in Nat \ {0}
  PROVE  Wanted(k) = IF HasAction(Route, k) THEN ActionAt(Route, k)
                     ELSE Wanted(k - 1)
PROOF
<1>. DEFINE Before(j) == {i \in 1 .. j : HasAction(Route, i)}
<1>1. CASE HasAction(Route, k)
  <2>1. k \in Before(k) /\ \A y \in Before(k) : y \in Int /\ k >= y
    BY <1>1
  <2>. HIDE DEF Before
  <2>2. \A x \in Before(k) : (\A y \in Before(k) : x >= y) => x = k
    BY <2>1
  <2>3. Max(Before(k)) = k
    BY <2>1, <2>2 DEF Max
  <2>. QED
    BY <1>1, <2>1, <2>3 DEF Wanted, Before
<1>2. CASE ~ HasAction(Route, k)
  <2>1. Before(k) = Before(k - 1)
    BY <1>2
  <2>. QED
    BY <1>2, <2>1, Zenon DEF Wanted
<1>. QED
  BY <1>1, <1>2

LEMMA WantedKept ==
  ASSUME UNCHANGED <<routes, began>>
  PROVE  \A k : Wanted(k)' = Wanted(k)
BY DEF Wanted, Route, HasAction, ActionAt

LEMMA PlanKept ==
  ASSUME UNCHANGED <<waypoints, routes>>
  PROVE  /\ CanRun(TheRoute)' <=> CanRun(TheRoute)
         /\ Segments(TheRoute)' = Segments(TheRoute) /\ Route' = Route
BY DEF CanRun, Known, Resolves, Segments, CanPlan, Route

-----------------------------------------------------------------------------
(* A step of the environment. *)

\* The steps so far go along the route.
Follows ==
  /\ \A i \in DOMAIN steps :
       steps[i].grip \in {Wanted(steps[i].at), Wanted(steps[i].at - 1)}
  /\ steps # <<>> => steps[1].at = 1
  /\ \A i \in 1 .. Len(steps) - 1 :
       \/ steps[i + 1].at = steps[i].at
       \/ /\ steps[i + 1].at = steps[i].at + 1
          /\ steps[i].grip = Wanted(steps[i].at)
          /\ steps[i + 1].grip = Wanted(steps[i].at)

\* What makes the next one go along it.
Continues(k, value) ==
  /\ k \in Nat /\ value \in Commands
  /\ value \in {Wanted(k), Wanted(k - 1)}
  /\ IF steps = <<>> THEN k = 1
     ELSE \/ k = Last(steps).at
          \/ /\ k = Last(steps).at + 1
             /\ Last(steps).grip = Wanted(Last(steps).at)
             /\ value = Wanted(Last(steps).at)

LEMMA EnvStepIs ==
  ASSUME NEW k \in Nat, NEW value \in Commands, EnvStep(k, value),
         steps \in Seq(Steps), hand \in Commands, hand_busy \in BOOLEAN
  PROVE  /\ steps' \in Seq(Steps) /\ steps' # <<>>
         /\ Len(steps) \in Nat /\ Len(steps') = Len(steps) + 1
         /\ \A i \in 1 .. Len(steps) : steps'[i] = steps[i]
         /\ steps'[Len(steps) + 1] = [at |-> k, grip |-> value]
         /\ Last(steps') = [at |-> k, grip |-> value]
         /\ hand' \in Commands /\ hand_busy' \in BOOLEAN
PROOF
<1>. DEFINE e == [at |-> k, grip |-> value]
<1>1. e \in Steps
  BY DEF Steps
<1>2. steps' = Append(steps, e)
  BY DEF EnvStep
<1>3. hand' \in Commands /\ hand_busy' \in BOOLEAN
  BY DEF EnvStep
<1>. HIDE DEF e
<1>4. /\ steps' \in Seq(Steps) /\ Len(steps) \in Nat
      /\ Len(steps') = Len(steps) + 1
      /\ \A i \in 1 .. Len(steps) : steps'[i] = steps[i]
      /\ steps'[Len(steps) + 1] = e
  BY <1>1, <1>2, AppendProperties, LenProperties
<1>5. steps' # <<>> /\ Last(steps') = e
  BY <1>4, EmptySeq DEF Last
<1>. QED
  BY <1>3, <1>4, <1>5 DEF e

LEMMA StepFollows ==
  ASSUME NEW k, NEW value, Continues(k, value), EnvStep(k, value), Follows,
         steps \in Seq(Steps), hand \in Commands, hand_busy \in BOOLEAN,
         UNCHANGED <<routes, began>>
  PROVE  Follows'
PROOF
<1>. DEFINE n == Len(steps)
<1>1. /\ k \in Nat /\ value \in Commands
      /\ value \in {Wanted(k), Wanted(k - 1)}
  BY DEF Continues
<1>2. /\ steps' \in Seq(Steps) /\ steps' # <<>>
      /\ n \in Nat /\ Len(steps') = n + 1
      /\ \A i \in 1 .. n : steps'[i] = steps[i]
      /\ steps'[n + 1] = [at |-> k, grip |-> value]
  BY <1>1, EnvStepIs
<1>3. DOMAIN steps' = 1 .. n + 1 /\ DOMAIN steps = 1 .. n
  BY <1>2, LenProperties
<1>4. steps'[n + 1].at = k /\ steps'[n + 1].grip = value
  BY <1>2
<1>5. steps = <<>> <=> n = 0
  BY EmptySeq
<1>6. \A j : Wanted(j)' = Wanted(j)
  BY WantedKept
<1>. HIDE DEF n
<1>7. \A i \in 1 .. n + 1 :
        steps'[i].grip \in {Wanted(steps'[i].at), Wanted(steps'[i].at - 1)}
  <2>. SUFFICES ASSUME NEW i \in 1 .. n + 1
                PROVE  steps'[i].grip \in {Wanted(steps'[i].at),
                                           Wanted(steps'[i].at - 1)}
    OBVIOUS
  <2>1. CASE i = n + 1
    BY <1>1, <1>4, <2>1, Zenon
  <2>2. CASE i \in 1 .. n
    <3>1. steps'[i] = steps[i]
      BY <1>2, <2>2
    <3>2. steps[i].grip \in {Wanted(steps[i].at), Wanted(steps[i].at - 1)}
      BY <1>3, <2>2 DEF Follows
    <3>. QED
      BY <3>1, <3>2, Zenon
  <2>. QED
    BY <1>2, <2>1, <2>2
<1>8. steps'[1].at = 1
  <2>1. CASE n = 0
    BY <1>4, <1>5, <2>1 DEF Continues
  <2>2. CASE n # 0
    <3>1. 1 \in 1 .. n
      BY <1>2, <2>2
    <3>. QED
      BY <1>2, <1>5, <2>2, <3>1 DEF Follows
  <2>. QED
    BY <2>1, <2>2
<1>9. \A i \in 1 .. n :
        \/ steps'[i + 1].at = steps'[i].at
        \/ /\ steps'[i + 1].at = steps'[i].at + 1
           /\ steps'[i].grip = Wanted(steps'[i].at)
           /\ steps'[i + 1].grip = Wanted(steps'[i].at)
  <2>. SUFFICES ASSUME NEW i \in 1 .. n
                PROVE  \/ steps'[i + 1].at = steps'[i].at
                       \/ /\ steps'[i + 1].at = steps'[i].at + 1
                          /\ steps'[i].grip = Wanted(steps'[i].at)
                          /\ steps'[i + 1].grip = Wanted(steps'[i].at)
    OBVIOUS
  <2>1. steps'[i] = steps[i]
    BY <1>2
  <2>2. CASE i = n
    <3>1. Last(steps) = steps[n] /\ steps # <<>>
      BY <1>2, <1>5, <2>2 DEF Last, n
    <3>2. \/ k = steps[n].at
          \/ /\ k = steps[n].at + 1
             /\ steps[n].grip = Wanted(steps[n].at)
             /\ value = Wanted(steps[n].at)
      BY <3>1, Zenon DEF Continues
    <3>. QED
      BY <1>4, <2>1, <2>2, <3>2, Zenon
  <2>3. CASE i # n
    <3>1. i \in 1 .. n - 1 /\ i + 1 \in 1 .. n
      BY <1>2, <2>3
    <3>2. steps'[i + 1] = steps[i + 1]
      BY <1>2, <3>1
    <3>3. \/ steps[i + 1].at = steps[i].at
          \/ /\ steps[i + 1].at = steps[i].at + 1
             /\ steps[i].grip = Wanted(steps[i].at)
             /\ steps[i + 1].grip = Wanted(steps[i].at)
      BY <3>1 DEF Follows, n
    <3>. QED
      BY <2>1, <3>2, <3>3, Zenon
  <2>. QED
    BY <2>2, <2>3
<1>10. (n + 1) - 1 = n
  BY <1>2
<1>. QED
  BY <1>2, <1>3, <1>6, <1>7, <1>8, <1>9, <1>10 DEF Follows

-----------------------------------------------------------------------------
(* The run. *)

Ends == Last(steps) = [at |-> Len(Route.points),
                       grip |-> Wanted(Len(Route.points))]

LEMMA FollowsRouteIs ==
  /\ FollowsRoute <=>
       (run \in {"drive", "act", "done"} =>
          Follows /\ (run = "done" => Ends))
  /\ FollowsRoute' <=>
       (run' \in {"drive", "act", "done"} =>
          Follows' /\ (run' = "done" => Ends'))
BY DEF FollowsRoute, Follows, Ends

RunInv == RunTypes /\ PlaceInv /\ FollowsRoute

LEMMA RunIsKept ==
  ASSUME RunInv, UNCHANGED <<waypoints, routes, pc, runVars>>
  PROVE  RunInv'
PROOF
<1>1. /\ CanRun(TheRoute)' <=> CanRun(TheRoute)
      /\ Segments(TheRoute)' = Segments(TheRoute) /\ Route' = Route
  BY PlanKept
<1>2. /\ UNCHANGED <<run, runs, segment, at, gripper_value, hand, hand_busy,
                     began, steps>>
  BY DEF runVars
<1>3. RunTypes'
  BY <1>1, <1>2 DEF RunInv, RunTypes, Running
<1>4. \A k : Wanted(k)' = Wanted(k)
  BY <1>2, WantedKept
<1>5. PlaceInv'
  BY <1>1, <1>2, <1>4 DEF RunInv, PlaceInv, Arrived, Here
<1>6. FollowsRoute'
  BY <1>1, <1>2, <1>4 DEF RunInv, FollowsRoute
<1>. QED
  BY <1>3, <1>5, <1>6 DEF RunInv

\* Where the run has no place in the route.
LEMMA RunElsewhere ==
  ASSUME run' \notin {"pre", "drive", "act", "done"}
  PROVE  PlaceInv' /\ FollowsRoute'
BY DEF PlaceInv, FollowsRoute

LEMMA HandEndsIs ==
  ASSUME RunInv, HandEnds, UNCHANGED <<waypoints, routes, pc>>
  PROVE  RunInv'
PROOF
<1>1. /\ CanRun(TheRoute)' <=> CanRun(TheRoute)
      /\ Segments(TheRoute)' = Segments(TheRoute) /\ Route' = Route
  BY PlanKept
<1>2. /\ UNCHANGED <<run, runs, segment, at, gripper_value, hand, began, steps>>
      /\ hand_busy' = FALSE
  BY DEF HandEnds
<1>3. RunTypes'
  BY <1>1, <1>2 DEF RunInv, RunTypes, Running
<1>4. \A k : Wanted(k)' = Wanted(k)
  BY <1>2, WantedKept
<1>5. PlaceInv'
  BY <1>1, <1>2, <1>4 DEF RunInv, PlaceInv, Arrived, Here
<1>6. FollowsRoute'
  BY <1>1, <1>2, <1>4 DEF RunInv, FollowsRoute
<1>. QED
  BY <1>3, <1>5, <1>6 DEF RunInv

\* Before a round, and after it.
LEMMA BetweenRounds ==
  ASSUME RunInv, UNCHANGED <<waypoints, routes, pc>>,
         Plans(TheRoute) \/ Resets \/ Repeats \/ RunBreaks
  PROVE  RunInv'
PROOF
<1>1. CanRun(TheRoute)' <=> CanRun(TheRoute)
  BY PlanKept
<1>2. CASE Plans(TheRoute)
  <2>1. /\ run = "plan" /\ run' = IF CanRun(TheRoute) THEN "reset" ELSE "ended"
        /\ UNCHANGED <<runs, gripper_value, hand, hand_busy, steps>>
    BY <1>2 DEF Plans, At
  <2>2. RunTypes'
    BY <1>1, <2>1 DEF RunInv, RunTypes, Running
  <2>. QED
    BY <2>1, <2>2, RunElsewhere DEF RunInv
<1>3. CASE Resets
  <2>1. /\ run = "reset" /\ run' = "start" /\ hand' = "open"
        /\ hand_busy' = FALSE /\ UNCHANGED <<runs, gripper_value, steps>>
    BY <1>3 DEF Resets, At
  <2>2. runs = 0 /\ runs' = 0 /\ runs < MaxRuns
    BY <2>1, ConstantTypes DEF RunInv, RunTypes
  <2>3. hand' \in Commands
    BY <2>1 DEF Commands
  <2>4. RunTypes'
    BY <1>1, <2>1, <2>2, <2>3 DEF RunInv, RunTypes, Running
  <2>. QED
    BY <2>1, <2>4, RunElsewhere DEF RunInv
<1>4. CASE Repeats
  <2>1. /\ run = "done"
        /\ run' = "ended" \/ (run' = "start" /\ runs < MaxRuns)
        /\ UNCHANGED <<runs, gripper_value, hand, hand_busy, steps>>
    BY <1>4 DEF Repeats, At
  <2>2. RunTypes'
    BY <1>1, <2>1 DEF RunInv, RunTypes, Running
  <2>. QED
    BY <2>1, <2>2, RunElsewhere DEF RunInv
<1>5. CASE RunBreaks
  <2>1. /\ run \in {"reset", "start", "pre", "drive", "act", "done"}
        /\ run' = "ended"
        /\ UNCHANGED <<runs, gripper_value, hand, hand_busy, steps>>
    BY <1>5 DEF RunBreaks, At
  <2>2. RunTypes'
    BY <1>1, <2>1 DEF RunInv, RunTypes, Running
  <2>. QED
    BY <2>1, <2>2, RunElsewhere DEF RunInv
<1>. QED
  BY <1>2, <1>3, <1>4, <1>5

LEMMA StartsIs ==
  ASSUME RunInv, UNCHANGED <<waypoints, routes, pc>>, Starts
  PROVE  RunInv'
PROOF
<1>1. /\ run = "start" /\ run' = "pre" /\ runs' = runs + 1 /\ steps' = <<>>
      /\ segment' = 1 /\ at' = 1 /\ gripper_value' = hand /\ began' = hand
      /\ UNCHANGED <<hand, hand_busy>>
  BY DEF Starts, At
<1>2. CanRun(TheRoute)' <=> CanRun(TheRoute)
  BY PlanKept
<1>3. runs' \in 0 .. MaxRuns
  BY <1>1, ConstantTypes DEF RunInv, RunTypes
<1>4. <<>> \in Seq(Steps)
  BY EmptySeq
<1>5. RunTypes'
  BY <1>1, <1>2, <1>3, <1>4 DEF RunInv, RunTypes, Running
<1>6. PlaceInv' /\ FollowsRoute'
  BY <1>1 DEF PlaceInv, FollowsRoute
<1>. QED
  BY <1>5, <1>6 DEF RunInv

\* What a step leaves alone, in the middle of a round.
LEMMA RoundKept ==
  ASSUME StoreInv, RunInv, UNCHANGED <<waypoints, routes, pc, runs, began>>,
         run \in {"pre", "drive", "act"}, run' \in {"drive", "act", "done"},
         gripper_value' \in Commands, steps' \in Seq(Steps),
         hand' \in Commands, hand_busy' \in BOOLEAN
  PROVE  /\ RunTypes' /\ IsRoute(Route)
         /\ SplitWell(Route, Segments(TheRoute))
         /\ Route' = Route /\ Segments(TheRoute)' = Segments(TheRoute)
         /\ \A k : Wanted(k)' = Wanted(k)
PROOF
<1>1. /\ CanRun(TheRoute)' <=> CanRun(TheRoute)
      /\ Segments(TheRoute)' = Segments(TheRoute) /\ Route' = Route
  BY PlanKept
<1>2. CanRun(TheRoute)
  BY DEF RunInv, RunTypes, Running
<1>3. IsRoute(Route) /\ SplitWell(Route, Segments(TheRoute))
  BY <1>2, PlannedRoute
<1>4. RunTypes'
  BY <1>1, <1>2 DEF RunInv, RunTypes, Running
<1>5. \A k : Wanted(k)' = Wanted(k)
  BY WantedKept
<1>. QED
  BY <1>1, <1>3, <1>4, <1>5

LEMMA FirstSegment ==
  ASSUME NEW route, NEW segs, SplitWell(route, segs)
  PROVE  1 \in DOMAIN segs /\ segs[1].from = 1 /\ 1 <= segs[1].to
PROOF
<1>1. /\ Len(segs) \in Nat \ {0} /\ DOMAIN segs = 1 .. Len(segs)
      /\ segs[1].from = 1
  BY DEF SplitWell
<1>2. 1 \in 1 .. Len(segs)
  BY <1>1
<1>3. /\ segs[1].from \in Nat /\ segs[1].to \in Nat
      /\ segs[1].from < segs[1].to
  BY <1>2 DEF SplitWell
<1>. QED
  BY <1>1, <1>2, <1>3

LEMMA ActsFirstIs ==
  ASSUME StoreInv, RunInv, UNCHANGED <<waypoints, routes, pc>>,
         ActsFirst(TheRoute)
  PROVE  RunInv'
PROOF
<1>. DEFINE action == PreAction(Route)
<1>1. /\ run = "pre" /\ run' = "drive"
      /\ UNCHANGED <<runs, segment, at, began>>
      /\ IF action = "none"
         THEN UNCHANGED <<gripper_value, hand, hand_busy, steps>>
         ELSE gripper_value' = action /\ EnvStep(1, action)
  BY DEF ActsFirst, At, Route
<1>2. /\ steps = <<>> /\ segment = 1 /\ at = 1 /\ gripper_value = began
      /\ steps \in Seq(Steps) /\ hand \in Commands /\ hand_busy \in BOOLEAN
      /\ gripper_value \in Commands /\ CanRun(TheRoute)
  BY <1>1 DEF RunInv, PlaceInv, RunTypes, Running
<1>3. IsRoute(Route)
  BY <1>2, PlannedRoute
<1>4. Wanted(1) = IF action = "none" THEN gripper_value ELSE action
  <2>1. Wanted(1) = IF HasAction(Route, 1) THEN ActionAt(Route, 1)
                    ELSE Wanted(1 - 1)
    BY WantedNext
  <2>2. Wanted(1 - 1) = gripper_value
    BY <1>2, WantedBegins
  <2>3. HasAction(Route, 1) => ActionAt(Route, 1) # "none"
    BY <1>3, ActionIs
  <2>. QED
    BY <2>1, <2>2, <2>3 DEF PreAction
<1>5. action # "none" => action \in Commands
  BY DEF ActsFirst, Route
<1>. HIDE DEF action
<1>6. CASE action = "none"
  <2>1. /\ UNCHANGED <<gripper_value, hand, hand_busy, steps>>
        /\ gripper_value = Wanted(1)
    BY <1>1, <1>4, <1>6
  <2>2. /\ RunTypes' /\ SplitWell(Route, Segments(TheRoute))
        /\ Segments(TheRoute)' = Segments(TheRoute)
        /\ \A k : Wanted(k)' = Wanted(k)
    BY <1>1, <1>2, <2>1, RoundKept
  <2>3. /\ 1 \in DOMAIN Segments(TheRoute) /\ Segments(TheRoute)[1].from = 1
        /\ 1 <= Segments(TheRoute)[1].to
    BY <2>2, FirstSegment
  <2>4. PlaceInv'
    BY <1>1, <1>2, <2>1, <2>2, <2>3 DEF PlaceInv, Here
  <2>5. Follows'
    BY <1>2, <2>1, EmptySeq DEF Follows
  <2>. QED
    BY <1>1, <2>2, <2>4, <2>5, FollowsRouteIs DEF RunInv
<1>7. CASE action # "none"
  <2>1. /\ gripper_value' = action /\ EnvStep(1, action)
        /\ action \in Commands /\ action = Wanted(1)
    BY <1>1, <1>4, <1>5, <1>7
  <2>2. /\ steps' \in Seq(Steps) /\ steps' # <<>>
        /\ Last(steps') = [at |-> 1, grip |-> action]
        /\ hand' \in Commands /\ hand_busy' \in BOOLEAN
    BY <1>2, <2>1, EnvStepIs
  <2>3. /\ RunTypes' /\ SplitWell(Route, Segments(TheRoute))
        /\ Segments(TheRoute)' = Segments(TheRoute)
        /\ \A k : Wanted(k)' = Wanted(k)
    BY <1>1, <1>2, <2>1, <2>2, RoundKept
  <2>4. /\ 1 \in DOMAIN Segments(TheRoute) /\ Segments(TheRoute)[1].from = 1
        /\ 1 <= Segments(TheRoute)[1].to
    BY <2>3, FirstSegment
  <2>5. Arrived'
    BY <1>1, <1>2, <2>1, <2>2, <2>3 DEF Arrived
  <2>6. PlaceInv'
    BY <1>1, <1>2, <2>3, <2>4, <2>5 DEF PlaceInv, Here
  <2>7. Continues(1, action)
    BY <1>2, <2>1 DEF Continues
  <2>8. Follows
    BY <1>2, EmptySeq DEF Follows
  <2>9. Follows'
    BY <1>1, <1>2, <2>1, <2>7, <2>8, StepFollows
  <2>. QED
    BY <1>1, <2>3, <2>6, <2>9, FollowsRouteIs DEF RunInv
<1>. QED
  BY <1>6, <1>7

\* The segment that the run is in.
LEMMA HereIs ==
  ASSUME SplitWell(Route, Segments(TheRoute)),
         segment \in DOMAIN Segments(TheRoute)
  PROVE  /\ Here.from \in Nat /\ Here.to \in Nat
         /\ 1 <= Here.from /\ Here.from < Here.to
         /\ \A k \in Here.from + 1 .. Here.to - 1 : ~ HasAction(Route, k)
         /\ IF HasAction(Route, Here.to)
            THEN Here.action = ActionAt(Route, Here.to)
            ELSE Here.action = "none" /\ segment = Len(Segments(TheRoute))
BY DEF SplitWell, Here

LEMMA DrivesIs ==
  ASSUME StoreInv, RunInv, UNCHANGED <<waypoints, routes, pc>>,
         Drives(TheRoute)
  PROVE  RunInv'
PROOF
<1>1. /\ run = "drive" /\ EnvStep(at, gripper_value)
      /\ UNCHANGED <<runs, segment, gripper_value, began>>
      /\ IF at < Here.to THEN at' = at + 1 /\ run' = "drive"
                         ELSE at' = at /\ run' = "act"
  BY DEF Drives, At, Here
<1>2. /\ segment \in DOMAIN Segments(TheRoute)
      /\ at \in Nat /\ Here.from <= at /\ at <= Here.to
      /\ gripper_value \in Commands /\ steps \in Seq(Steps)
      /\ hand \in Commands /\ hand_busy \in BOOLEAN
  BY <1>1 DEF RunInv, PlaceInv, RunTypes
<1>3. /\ steps' \in Seq(Steps) /\ steps' # <<>>
      /\ Last(steps') = [at |-> at, grip |-> gripper_value]
      /\ hand' \in Commands /\ hand_busy' \in BOOLEAN
  BY <1>1, <1>2, EnvStepIs
<1>4. /\ RunTypes' /\ SplitWell(Route, Segments(TheRoute))
      /\ Route' = Route /\ Segments(TheRoute)' = Segments(TheRoute)
      /\ \A k : Wanted(k)' = Wanted(k)
  BY <1>1, <1>2, <1>3, RoundKept
<1>5. /\ Here.from \in Nat /\ Here.to \in Nat
      /\ 1 <= Here.from /\ Here.from < Here.to
      /\ \A k \in Here.from + 1 .. Here.to - 1 : ~ HasAction(Route, k)
  BY <1>2, <1>4, HereIs
<1>6. Here' = Here
  BY <1>1, <1>4 DEF Here
<1>7. Follows
  BY <1>1, FollowsRouteIs DEF RunInv
<1>8. CASE at = Here.from
  <2>1. gripper_value = Wanted(at)
    BY <1>1, <1>8 DEF RunInv, PlaceInv, Arrived
  <2>2. IF steps = <<>> THEN at = 1 ELSE at = Last(steps).at
    BY <1>1, <1>8 DEF RunInv, PlaceInv, Arrived
  <2>3. Continues(at, gripper_value)
    BY <1>2, <2>1, <2>2 DEF Continues
  <2>4. Follows'
    BY <1>1, <1>2, <1>7, <2>3, StepFollows
  <2>5. at' = at + 1 /\ run' = "drive"
    BY <1>1, <1>5, <1>8
  <2>6. /\ at' \in Nat /\ Here.from <= at' /\ at' <= Here.to
        /\ at' # Here.from /\ at' - 1 = at
    BY <1>2, <1>5, <1>8, <2>5
  <2>7. Last(steps').at = at /\ Last(steps').grip = Wanted(at)
    BY <1>3, <2>1
  <2>8. Wanted(at - 1)' = Wanted(at)
    BY <1>4, <2>6
  <2>9. PlaceInv'
    BY <1>1, <1>2, <1>3, <1>4, <1>6, <2>1, <2>5, <2>6, <2>7, <2>8 DEF PlaceInv
  <2>. QED
    BY <1>4, <2>4, <2>5, <2>9, FollowsRouteIs DEF RunInv
<1>9. CASE at # Here.from
  <2>1. /\ steps # <<>> /\ Last(steps).at = at - 1
        /\ Last(steps).grip = Wanted(at - 1)
        /\ gripper_value = Wanted(at - 1)
    BY <1>1, <1>9 DEF RunInv, PlaceInv
  <2>2. at = Last(steps).at + 1
    BY <1>2, <2>1
  <2>3. Continues(at, gripper_value)
    BY <1>2, <2>1, <2>2 DEF Continues
  <2>4. Follows'
    BY <1>1, <1>2, <1>7, <2>3, StepFollows
  <2>5. Last(steps').at = at /\ Last(steps').grip = Wanted(at - 1)
    BY <1>3, <2>1
  <2>6. CASE at < Here.to
    <3>1. at' = at + 1 /\ run' = "drive"
      BY <1>1, <2>6
    <3>2. /\ at' \in Nat /\ Here.from <= at' /\ at' <= Here.to
          /\ at' # Here.from /\ at' - 1 = at
      BY <1>2, <1>5, <2>6, <3>1
    <3>3. at \in Here.from + 1 .. Here.to - 1 /\ at \in Nat \ {0}
      BY <1>2, <1>5, <1>9, <2>6
    <3>4. ~ HasAction(Route, at)
      BY <1>5, <3>3
    <3>5. Wanted(at) = Wanted(at - 1)
      BY <3>3, <3>4, WantedNext
    <3>6. Wanted(at - 1)' = Wanted(at)
      BY <1>4, <3>2
    <3>7. PlaceInv'
      BY <1>1, <1>2, <1>3, <1>4, <1>6, <2>1, <2>5, <3>1, <3>2, <3>5, <3>6
      DEF PlaceInv
    <3>. QED
      BY <1>4, <2>4, <3>1, <3>7, FollowsRouteIs DEF RunInv
  <2>7. CASE ~ (at < Here.to)
    <3>1. at' = at /\ run' = "act" /\ at = Here.to
      BY <1>1, <1>2, <1>5, <2>7
    <3>2. Wanted(at - 1)' = Wanted(at - 1)
      BY <1>4, <3>1
    <3>3. PlaceInv'
      BY <1>1, <1>2, <1>3, <1>4, <1>6, <2>5, <3>1, <3>2 DEF PlaceInv
    <3>. QED
      BY <1>4, <2>4, <3>1, <3>3, FollowsRouteIs DEF RunInv
  <2>. QED
    BY <2>6, <2>7
<1>. QED
  BY <1>8, <1>9

\* The segment after it, and the end of the route.
LEMMA NextSegment ==
  ASSUME SplitWell(Route, Segments(TheRoute)),
         segment \in DOMAIN Segments(TheRoute)
  PROVE  IF segment = Len(Segments(TheRoute))
         THEN Here.to = Len(Route.points)
         ELSE /\ segment + 1 \in DOMAIN Segments(TheRoute)
              /\ Segments(TheRoute)[segment + 1].from = Here.to
              /\ Here.to <= Segments(TheRoute)[segment + 1].to
PROOF
<1>1. /\ Len(Segments(TheRoute)) \in Nat
      /\ DOMAIN Segments(TheRoute) = 1 .. Len(Segments(TheRoute))
  BY DEF SplitWell
<1>2. CASE segment = Len(Segments(TheRoute))
  BY <1>2 DEF SplitWell, Here
<1>3. CASE segment # Len(Segments(TheRoute))
  <2>1. /\ segment \in 1 .. Len(Segments(TheRoute)) - 1
        /\ segment + 1 \in 1 .. Len(Segments(TheRoute))
    BY <1>1, <1>3
  <2>2. Segments(TheRoute)[segment + 1].from = Here.to
    BY <2>1 DEF SplitWell, Here
  <2>3. /\ Segments(TheRoute)[segment + 1].from \in Nat
        /\ Segments(TheRoute)[segment + 1].to \in Nat
        /\ Segments(TheRoute)[segment + 1].from <
             Segments(TheRoute)[segment + 1].to
    BY <2>1 DEF SplitWell
  <2>. QED
    BY <1>1, <1>3, <2>1, <2>2, <2>3
<1>. QED
  BY <1>2, <1>3

LEMMA LastIsIn ==
  ASSUME NEW S, NEW s \in Seq(S), s # <<>>
  PROVE  Last(s) \in S
PROOF
<1>1. Len(s) \in Nat /\ Len(s) # 0
  BY LenProperties, EmptySeq
<1>2. Len(s) \in 1 .. Len(s)
  BY <1>1
<1>. QED
  BY <1>2, ElementOfSeq DEF Last

LEMMA ActsIs ==
  ASSUME StoreInv, RunInv, UNCHANGED <<waypoints, routes, pc>>,
         Acts(TheRoute)
  PROVE  RunInv'
PROOF
<1>. DEFINE last == segment = Len(Segments(TheRoute))
<1>1. /\ run = "act" /\ UNCHANGED <<runs, began>>
      /\ IF Here.action = "none"
         THEN UNCHANGED <<gripper_value, hand, hand_busy, steps>>
         ELSE gripper_value' = Here.action /\ EnvStep(at, Here.action)
      /\ segment' = IF last THEN segment ELSE segment + 1
      /\ at' = IF last THEN at ELSE Segments(TheRoute)[segment + 1].from
      /\ run' = IF last THEN "done" ELSE "drive"
  BY DEF Acts, At, Here
<1>2. /\ segment \in DOMAIN Segments(TheRoute)
      /\ at \in Nat /\ at = Here.to /\ steps # <<>> /\ Last(steps).at = at
      /\ Last(steps).grip = Wanted(at - 1)
      /\ gripper_value \in Commands /\ steps \in Seq(Steps)
      /\ hand \in Commands /\ hand_busy \in BOOLEAN /\ CanRun(TheRoute)
  BY <1>1 DEF RunInv, PlaceInv, RunTypes, Running
<1>3. IsRoute(Route) /\ SplitWell(Route, Segments(TheRoute))
  BY <1>2, PlannedRoute
<1>4. /\ Here.from \in Nat /\ Here.to \in Nat
      /\ 1 <= Here.from /\ Here.from < Here.to
      /\ IF HasAction(Route, Here.to)
         THEN Here.action = ActionAt(Route, Here.to)
         ELSE Here.action = "none" /\ last
  BY <1>2, <1>3, HereIs
<1>5. HasAction(Route, at) =>
        Here.action \in Commands /\ Here.action # "none"
  <2>1. HasAction(Route, at) => Here.action # "none"
    BY <1>2, <1>3, <1>4, ActionIs
  <2>2. Here.action \in Commands \union {"none"}
    BY DEF Acts, Here
  <2>. QED
    BY <2>1, <2>2
<1>6. at \in Nat \ {0}
  BY <1>2, <1>4
<1>7. Wanted(at) = IF HasAction(Route, at) THEN Here.action
                   ELSE Wanted(at - 1)
  BY <1>2, <1>4, <1>6, WantedNext
<1>8. Follows
  BY <1>1, FollowsRouteIs DEF RunInv
\* Either way the last step is to here, with the value that is wanted here.
<1>9. /\ gripper_value' \in Commands /\ steps' \in Seq(Steps)
      /\ hand' \in Commands /\ hand_busy' \in BOOLEAN
      /\ Follows' /\ steps' # <<>>
      /\ Last(steps').at = at /\ Last(steps').grip = Wanted(at)
      /\ last \/ gripper_value' = Wanted(at)
  <2>1. CASE HasAction(Route, at)
    <3>1. /\ gripper_value' = Here.action /\ EnvStep(at, Here.action)
          /\ Here.action \in Commands /\ Here.action = Wanted(at)
      BY <1>1, <1>5, <1>7, <2>1
    <3>2. /\ steps' \in Seq(Steps) /\ steps' # <<>>
          /\ Last(steps') = [at |-> at, grip |-> Here.action]
          /\ hand' \in Commands /\ hand_busy' \in BOOLEAN
      BY <1>2, <3>1, EnvStepIs
    <3>3. Continues(at, Here.action)
      BY <1>2, <3>1 DEF Continues
    <3>4. Follows'
      BY <1>1, <1>2, <1>8, <3>1, <3>3, StepFollows
    <3>. QED
      BY <3>1, <3>2, <3>4
  <2>2. CASE ~ HasAction(Route, at)
    <3>1. /\ UNCHANGED <<gripper_value, hand, hand_busy, steps>> /\ last
          /\ Wanted(at) = Wanted(at - 1)
      BY <1>1, <1>2, <1>4, <1>7, <2>2
    <3>2. \A k : Wanted(k)' = Wanted(k)
      BY <1>1, WantedKept
    <3>3. Follows'
      BY <1>8, <3>1, <3>2 DEF Follows
    <3>. QED
      BY <1>2, <3>1, <3>3
  <2>. QED
    BY <2>1, <2>2
<1>10. /\ RunTypes' /\ Route' = Route
       /\ Segments(TheRoute)' = Segments(TheRoute)
       /\ \A k : Wanted(k)' = Wanted(k)
  <2>1. run' \in {"drive", "act", "done"}
    BY <1>1
  <2>. QED
    BY <1>1, <1>9, <2>1, RoundKept
<1>. HIDE DEF last
<1>11. CASE last
  <2>1. run' = "done" /\ at = Len(Route.points)
    BY <1>1, <1>2, <1>3, <1>11, NextSegment DEF last
  <2>2. Last(steps') = [at |-> Last(steps').at, grip |-> Last(steps').grip]
    BY <1>9, LastIsIn DEF Steps
  <2>3. Wanted(Len(Route.points))' = Wanted(at)
    BY <1>10, <2>1
  <2>4. Ends'
    BY <1>9, <1>10, <2>1, <2>2, <2>3 DEF Ends
  <2>5. PlaceInv'
    BY <2>1 DEF PlaceInv
  <2>. QED
    BY <1>9, <1>10, <2>4, <2>5, FollowsRouteIs DEF RunInv
<1>12. CASE ~ last
  <2>1. /\ segment' = segment + 1 /\ run' = "drive"
        /\ segment + 1 \in DOMAIN Segments(TheRoute)
        /\ Segments(TheRoute)[segment + 1].from = at
        /\ at <= Segments(TheRoute)[segment + 1].to
        /\ at' = at
    BY <1>1, <1>2, <1>3, <1>12, NextSegment DEF last
  <2>2. Here' = Segments(TheRoute)[segment + 1]
    BY <1>10, <2>1 DEF Here
  <2>3. Wanted(at)' = Wanted(at)
    BY <1>10, <2>1
  <2>4. Arrived'
    BY <1>9, <1>12, <2>1, <2>3 DEF Arrived
  <2>5. PlaceInv'
    BY <1>2, <1>10, <2>1, <2>2, <2>4 DEF PlaceInv
  <2>. QED
    BY <1>9, <1>10, <2>1, <2>5, FollowsRouteIs DEF RunInv
<1>. QED
  BY <1>11, <1>12

-----------------------------------------------------------------------------
(* All steps. *)

LEMMA InitIs == Init => RouteInv
PROOF
<1>. SUFFICES ASSUME Init
              PROVE  RouteInv
  OBVIOUS
<1>1. /\ pc \in {"open", "skipped"} /\ file \in Files \union Stores
      /\ waypoints = Empty /\ routes = Empty /\ dirty = FALSE
      /\ SessionInit /\ RunInit
  BY DEF Init
<1>2. IsPartial(Empty, Names) /\ IsPartial(Empty, RouteNames)
  BY DEF IsPartial, Empty
<1>3. DOMAIN Empty = {}
  BY DEF Empty
<1>4. IsStore(Contents)
  BY <1>1, <1>2, <1>3, ContentsAre
<1>5. StoreInv
  BY <1>1, <1>4, ConstantTypes DEF StoreInv
<1>6. SessionInv
  <2>1. /\ held = {} /\ late = {} /\ pressed_keys = {} /\ last_gripper = "open"
        /\ cmd = "none" /\ save_failed = FALSE
        /\ inputs = 0 /\ faults = 0
    BY <1>1 DEF SessionInit, KeyboardInit
  <2>2. 0 \in 0 .. MaxInputs /\ 0 \in 0 .. MaxFaults
    BY ConstantTypes
  <2>. QED
    BY <1>1, <2>1, <2>2 DEF SessionInv, Commands
<1>7. NothingUnsaved
  BY <1>1 DEF NothingUnsaved
<1>8. <<>> \in Seq(Steps)
  BY EmptySeq
<1>9. RunTypes
  <2>1. 0 \in 0 .. MaxRuns
    BY ConstantTypes
  <2>. QED
    BY <1>1, <1>8, <2>1 DEF RunTypes, RunInit, Running, Commands
<1>10. PlaceInv /\ FollowsRoute
  BY <1>1 DEF PlaceInv, FollowsRoute, RunInit
<1>. QED
  BY <1>5, <1>6, <1>7, <1>9, <1>10 DEF RouteInv

\* While there is a session nothing is run.
LEMMA SessionIs ==
  ASSUME RouteInv, Session
  PROVE  RouteInv'
PROOF
<1>1. (SessionNext \/ Operates \/ LetsGo) /\ UNCHANGED runVars
  BY DEF Session
<1>2. pc \notin {"over", "skipped"}
  BY <1>1 DEF SessionNext, Operates, LetsGo, Opens, Command, CommandList,
     CommandSave, Answers, PromptBreaks, ExitKey, Step, StepFails, Leaves
<1>3. run = "idle"
  BY <1>2 DEF RouteInv, RunTypes
<1>4. run' = "idle" /\ UNCHANGED <<runs, gripper_value, hand, hand_busy, steps>>
  BY <1>1, <1>3 DEF runVars
<1>5. StoreInv' /\ NothingUnsaved'
  BY <1>1, StoreSteps DEF RouteInv
<1>6. SessionInv'
  BY <1>1, SessionSteps DEF RouteInv
<1>7. RunTypes'
  BY <1>3, <1>4 DEF RouteInv, RunTypes, Running
<1>8. PlaceInv' /\ FollowsRoute'
  BY <1>4, RunElsewhere
<1>. QED
  BY <1>5, <1>6, <1>7, <1>8 DEF RouteInv

\* The run loads what the session left in the file.
LEMMA LoadsRoutesIs ==
  ASSUME RouteInv, LoadsRoutes
  PROVE  RouteInv'
PROOF
<1>1. /\ pc \in {"over", "skipped"} /\ run = "idle"
      /\ run' \in {"plan", "ended"}
      /\ UNCHANGED <<keyVars, pc, sessionVars, faults, runs, gripper_value,
                     hand, hand_busy, steps>>
  BY DEF LoadsRoutes, At
<1>2. StoreInv' /\ NothingUnsaved'
  <2>1. CASE file = Torn
    <3>1. UNCHANGED <<storeVars, pc, save_failed>>
      BY <1>1, <2>1 DEF LoadsRoutes, sessionVars
    <3>2. Contents' = Contents /\ UNCHANGED <<dirty, file>>
      BY <3>1 DEF Contents, storeVars
    <3>3. StoreInv'
      BY <3>1, <3>2 DEF RouteInv, StoreInv
    <3>4. NothingUnsaved'
      BY <3>1, <3>2 DEF RouteInv, NothingUnsaved
    <3>. QED
      BY <3>3, <3>4
  <2>2. CASE file # Torn
    <3>1. Load /\ IsStore(file)
      BY <2>2 DEF LoadsRoutes, RouteInv, StoreInv
    <3>2. /\ IsStore(Contents)' /\ dirty' = FALSE /\ file' = file
          /\ (file = Contents)'
      BY <3>1, LoadIs
    <3>. QED
      BY <1>1, <3>1, <3>2 DEF StoreInv, NothingUnsaved
  <2>. QED
    BY <2>1, <2>2
<1>3. SessionInv'
  BY <1>1 DEF RouteInv, SessionInv, keyVars, sessionVars
<1>4. RunTypes'
  BY <1>1 DEF RouteInv, RunTypes, Running
<1>5. PlaceInv' /\ FollowsRoute'
  BY <1>1, RunElsewhere
<1>. QED
  BY <1>2, <1>3, <1>4, <1>5 DEF RouteInv

\* A step that leaves the store, the keys and the session alone.
LEMMA SessionIsKept ==
  ASSUME StoreInv, SessionInv, NothingUnsaved,
         UNCHANGED <<storeVars, keyVars, pc, sessionVars, faults>>
  PROVE  StoreInv' /\ SessionInv' /\ NothingUnsaved'
PROOF
<1>1. /\ UNCHANGED <<waypoints, routes, dirty, file, pc, save_failed>>
      /\ Contents' = Contents
  BY DEF storeVars, sessionVars, Contents
<1>2. StoreInv'
  BY <1>1 DEF StoreInv
<1>3. NothingUnsaved'
  BY <1>1 DEF NothingUnsaved
<1>4. SessionInv'
  BY DEF SessionInv, keyVars, sessionVars
<1>. QED
  BY <1>2, <1>3, <1>4

LEMMA RunIs ==
  ASSUME RouteInv, Run
  PROVE  RouteInv'
PROOF
<1>1. /\ RunNext(TheRoute) /\ UNCHANGED <<waypoints, routes, pc>>
      /\ UNCHANGED <<storeVars, keyVars, pc, sessionVars, faults>>
  BY DEF Run, storeVars
<1>2. StoreInv' /\ SessionInv' /\ NothingUnsaved'
  BY <1>1, SessionIsKept DEF RouteInv
<1>3. StoreInv /\ RunInv
  BY DEF RouteInv, RunInv
<1>4. RunInv'
  <2>1. CASE Plans(TheRoute) \/ Resets \/ Repeats \/ RunBreaks
    BY <1>1, <1>3, <2>1, BetweenRounds
  <2>2. CASE Starts
    BY <1>1, <1>3, <2>2, StartsIs
  <2>3. CASE ActsFirst(TheRoute)
    BY <1>1, <1>3, <2>3, ActsFirstIs
  <2>4. CASE Drives(TheRoute)
    BY <1>1, <1>3, <2>4, DrivesIs
  <2>5. CASE Acts(TheRoute)
    BY <1>1, <1>3, <2>5, ActsIs
  <2>6. CASE HandEnds
    BY <1>1, <1>3, <2>6, HandEndsIs
  <2>. QED
    BY <1>1, <2>1, <2>2, <2>3, <2>4, <2>5, <2>6 DEF RunNext
<1>. QED
  BY <1>2, <1>4 DEF RouteInv, RunInv

LEMMA StutterIs ==
  ASSUME RouteInv, UNCHANGED vars
  PROVE  RouteInv'
PROOF
<1>1. /\ UNCHANGED <<storeVars, keyVars, pc, sessionVars, faults>>
      /\ UNCHANGED <<waypoints, routes, pc, runVars>>
  BY DEF vars, storeVars
<1>2. StoreInv' /\ SessionInv' /\ NothingUnsaved'
  BY <1>1, SessionIsKept DEF RouteInv
<1>3. RunInv'
  BY <1>1, RunIsKept DEF RouteInv, RunInv
<1>. QED
  BY <1>2, <1>3 DEF RouteInv, RunInv

-----------------------------------------------------------------------------
(* The theorems. *)

\* The inductive invariant: every step of the session and of the run keeps
\* the store, the session and the run's place in its route.
THEOREM RouteInvariant == Spec => []RouteInv
PROOF
<1>1. RouteInv /\ [Next]_vars => RouteInv'
  BY SessionIs, LoadsRoutesIs, RunIs, StutterIs DEF Next
<1>. QED
  BY <1>1, InitIs, PTL DEF Spec

\* The types.  While a segment ends, the run is at the segment's end.
THEOREM RoutesTypeCorrect == Spec => []TypeOK
PROOF
<1>1. RouteInv => TypeOK
  <2>. SUFFICES ASSUME RouteInv
                PROVE  TypeOK
    OBVIOUS
  <2>1. DOMAIN waypoints \subseteq Names /\ DOMAIN routes \subseteq RouteNames
    BY ContentsAre DEF RouteInv, StoreInv, IsPartial
  <2>2. /\ dirty \in BOOLEAN /\ save_failed \in BOOLEAN
        /\ held \subseteq Keys /\ late \subseteq held
        /\ pressed_keys \subseteq held /\ last_gripper \in {"open", "close"}
        /\ cmd = "none" <=> pc # "prompt"
        /\ inputs \in 0 .. MaxInputs /\ faults \in 0 .. MaxFaults
    BY DEF RouteInv, StoreInv, SessionInv, Commands
  <2>3. /\ runs \in 0 .. MaxRuns
        /\ run # "idle" => pc \in {"over", "skipped"}
        /\ hand \in {"open", "close"} /\ hand_busy \in BOOLEAN
    BY DEF RouteInv, RunTypes, Commands
  <2>4. run = "act" => /\ segment \in DOMAIN Segments(TheRoute)
                       /\ at = Segments(TheRoute)[segment].to
    BY DEF RouteInv, PlaceInv, Here
  <2>. QED
    BY <2>1, <2>2, <2>3, <2>4 DEF TypeOK
<1>. QED
  BY <1>1, RouteInvariant, PTL

\* A store that is not dirty is what the file holds, and so is any store when
\* the session is over, unless the last save failed: for any routes and
\* waypoints, and however often the calls raise.
THEOREM NothingIsUnsaved == Spec => []NothingUnsaved
PROOF
<1>1. RouteInv => NothingUnsaved
  BY DEF RouteInv
<1>. QED
  BY <1>1, RouteInvariant, PTL

\* The arm goes through the positions of the route in order and the gripper is
\* asked for each action where it is due, for routes of any length with
\* actions anywhere.
THEOREM RouteIsFollowed == Spec => []FollowsRoute
PROOF
<1>1. RouteInv => FollowsRoute
  BY DEF RouteInv
<1>. QED
  BY <1>1, RouteInvariant, PTL
=============================================================================
