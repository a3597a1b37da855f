--------------------------- MODULE ScheduleProofs ---------------------------
(***************************************************************************)
(* Theorems about Schedule, for any calendar, steps, dependencies, orders  *)
(* of rows, template, situations and requests.                             *)
(***************************************************************************)
EXTENDS Schedule, FiniteSetTheorems, WellFoundedInduction, TLAPS

-----------------------------------------------------------------------------
(* Sets of numbers, iteration and folds.  The library states induction     *)
(* with an operator as a parameter; here it is stated with a set.          *)

LEMMA LessRelation ==
  \E R : IsWellFoundedOn(R, Nat) /\ \A x, y \in Nat : x < y => <<x, y>> \in R
<1>1. \A x, y \in Nat : x < y => <<x, y>> \in OpToRel(<, Nat)
  BY DEF OpToRel
<1> QED BY <1>1, NatLessThanWellFounded

LEMMA MinimalElement ==
  ASSUME NEW R, IsWellFoundedOn(R, Nat), NEW U, U \subseteq Nat, U # {}
  PROVE  \E x \in U : \A y \in U : ~(<<y, x>> \in R)
BY WFMin

(* A set of naturals that is not empty has a least element ...             *)
LEMMA LeastNatural ==
  ASSUME NEW U \in SUBSET Nat, U # {}
  PROVE  \E x \in U : \A y \in U : x <= y
<1>1. PICK R : IsWellFoundedOn(R, Nat) /\ \A x, y \in Nat : x < y => <<x, y>> \in R
  BY LessRelation
<1>2. PICK x \in U : \A y \in U : ~(<<y, x>> \in R)
  BY <1>1, MinimalElement
<1>3. \A y \in U : ~(y < x)
  BY <1>1, <1>2
<1> QED BY <1>3

(* ... so that induction can be stated about sets.                         *)
LEMMA SetInduction ==
  ASSUME NEW S, 0 \in S, \A n \in Nat : n \in S => n + 1 \in S
  PROVE  Nat \subseteq S
<1> SUFFICES ASSUME Nat \ S # {} PROVE FALSE
  OBVIOUS
<1>1. PICK n \in Nat \ S : \A m \in Nat \ S : n <= m
  BY LeastNatural
<1>2. n # 0 /\ n - 1 \in Nat
  BY <1>1
<1>3. n - 1 \in S
  BY <1>1, <1>2
<1> QED BY <1>1, <1>2, <1>3

LEMMA GreatestInteger ==
  ASSUME NEW U \in SUBSET Int, IsFiniteSet(U), U # {}
  PROVE  \E x \in U : \A y \in U : x >= y
<1> DEFINE S == {n \in Nat : \A V \in SUBSET Int :
                   IsFiniteSet(V) /\ Cardinality(V) = n + 1 => \E x \in V : \A y \in V : x >= y}
<1>1. 0 \in S
  <2> SUFFICES ASSUME NEW V \in SUBSET Int, IsFiniteSet(V), Cardinality(V) = 1
               PROVE  \E x \in V : \A y \in V : x >= y
    OBVIOUS
  <2>1. PICK x : V = {x}
    BY FS_Singleton
  <2> QED BY <2>1
<1>2. ASSUME NEW n \in Nat, n \in S PROVE n + 1 \in S
  <2> SUFFICES ASSUME NEW V \in SUBSET Int, IsFiniteSet(V), Cardinality(V) = n + 2
               PROVE  \E x \in V : \A y \in V : x >= y
    OBVIOUS
  <2>1. V # {}
    BY FS_EmptySet
  <2>2. PICK v \in V : TRUE
    BY <2>1
  <2>3. IsFiniteSet(V \ {v}) /\ Cardinality(V \ {v}) = n + 1
    BY FS_RemoveElement
  <2>4. PICK x \in V \ {v} : \A y \in V \ {v} : x >= y
    BY <1>2, <2>3
  <2> QED BY <2>4
<1> HIDE DEF S
<1>3. Nat \subseteq S
  BY <1>1, <1>2, SetInduction
<1>4. Cardinality(U) \in Nat /\ Cardinality(U) # 0
  BY FS_CardinalityType, FS_EmptySet
<1>5. Cardinality(U) - 1 \in S
  BY <1>3, <1>4
<1> QED BY <1>4, <1>5 DEF S

LEMMA MaxOfFinite ==
  ASSUME NEW U \in SUBSET Int, IsFiniteSet(U), U # {}
  PROVE  Max(U) \in U /\ \A y \in U : Max(U) >= y
<1>1. \E x \in U : \A y \in U : x >= y
  BY GreatestInteger
<1> QED BY <1>1, Zenon DEF Max

LEMMA MinOfNaturals ==
  ASSUME NEW U \in SUBSET Nat, U # {}
  PROVE  Min(U) \in U /\ \A y \in U : Min(U) <= y
<1>1. \E x \in U : \A y \in U : x <= y
  BY LeastNatural
<1> QED BY <1>1, Zenon DEF Min

LEMMA MaxOfTwo ==
  ASSUME NEW a \in Int, NEW b \in Int
  PROVE  Max({a, b}) = IF a >= b THEN a ELSE b
<1>1. \E x \in {a, b} : \A y \in {a, b} : x >= y
  OBVIOUS
<1>2. Max({a, b}) \in {a, b} /\ \A y \in {a, b} : Max({a, b}) >= y
  BY <1>1, Zenon DEF Max
<1> QED BY <1>2

LEMMA FiniteImage ==
  ASSUME NEW D, IsFiniteSet(D), NEW f, DOMAIN f = D, f = [x \in D |-> f[x]]
  PROVE  IsFiniteSet({f[x] : x \in D})
<1>1. f \in Surjection(D, {f[x] : x \in D})
  BY DEF Surjection
<1> QED BY <1>1, FS_Surjection, Zenon

(* What is computed from its last value, time and again.                   *)
Iterates(f, base, g, n) == f[0] = base /\ \A i \in 1..n : f[i] = g[f[i - 1]]

LEMMA Iteration ==
  ASSUME NEW T, NEW b \in T, NEW g \in [T -> T], NEW N \in Nat
  PROVE  \E f \in [0..N -> T] : Iterates(f, b, g, N)
<1> DEFINE P(k) == \E f \in [0..k -> T] : Iterates(f, b, g, k)
<1>1. P(0)
  <2> DEFINE f == [n \in 0..0 |-> b]
  <2>1. f \in [0..0 -> T] /\ Iterates(f, b, g, 0)
    BY DEF Iterates
  <2> HIDE DEF f
  <2> QED BY <2>1
<1>2. ASSUME NEW k \in Nat, P(k) PROVE P(k + 1)
  <2>1. PICK f \in [0..k -> T] : Iterates(f, b, g, k)
    BY <1>2
  <2> DEFINE h == [n \in 0..(k + 1) |-> IF n = k + 1 THEN g[f[k]] ELSE f[n]]
  <2>2. h \in [0..(k + 1) -> T]
    BY <2>1
  <2>3. Iterates(h, b, g, k + 1)
    BY <2>1 DEF Iterates
  <2> HIDE DEF h
  <2> QED BY <2>2, <2>3
<1> HIDE DEF P
<1> DEFINE S == {k \in Nat : P(k)}
<1>3. 0 \in S /\ \A k \in Nat : k \in S => k + 1 \in S
  BY <1>1, <1>2
<1> HIDE DEF S
<1>4. N \in S
  BY <1>3, SetInduction
<1> QED BY <1>4 DEF P, S

(* FoldLeft is defined over the subsets of the indices: what it is a       *)
(* solution of has one, for a function that stays within a set.            *)
Folds(iter, base, g, n) ==
  \A s \in SUBSET (1..n) : iter[s] = IF s = {} THEN base ELSE g[Max(s)][iter[s \ {Max(s)}]]

LEMMA FoldExists ==
  ASSUME NEW T, NEW b \in T, NEW N \in Nat, NEW g \in [1..N -> [T -> T]]
  PROVE  \E iter \in [SUBSET (1..N) -> T] : Folds(iter, b, g, N)
<1> DEFINE P(k) == k <= N => \E iter \in [SUBSET (1..k) -> T] : Folds(iter, b, g, k)
<1>1. P(0)
  <2> DEFINE iter == [s \in SUBSET (1..0) |-> b]
  <2>1. iter \in [SUBSET (1..0) -> T] /\ Folds(iter, b, g, 0)
    BY DEF Folds
  <2> HIDE DEF iter
  <2> QED BY <2>1
<1>2. ASSUME NEW k \in Nat, P(k), k + 1 <= N
      PROVE  \E iter \in [SUBSET (1..(k + 1)) -> T] : Folds(iter, b, g, k + 1)
  <2>1. PICK old \in [SUBSET (1..k) -> T] : Folds(old, b, g, k)
    <3>1. k <= N
      BY <1>2
    <3> QED BY <1>2, <3>1
  <2> DEFINE iter == [s \in SUBSET (1..(k + 1)) |->
                        IF k + 1 \in s THEN g[k + 1][old[s \ {k + 1}]] ELSE old[s]]
  <2>2. ASSUME NEW s \in SUBSET (1..(k + 1)) PROVE s \ {k + 1} \in SUBSET (1..k)
    OBVIOUS
  <2>3. iter \in [SUBSET (1..(k + 1)) -> T]
    <3>1. ASSUME NEW s \in SUBSET (1..(k + 1)), k + 1 \in s
          PROVE  g[k + 1][old[s \ {k + 1}]] \in T
      <4>1. g[k + 1] \in [T -> T]
        BY <1>2
      <4> QED BY <2>1, <4>1, <2>2
    <3>2. ASSUME NEW s \in SUBSET (1..(k + 1)), k + 1 \notin s PROVE old[s] \in T
      BY <2>1, <3>2, <2>2
    <3> QED BY <3>1, <3>2
  <2>4. ASSUME NEW s \in SUBSET (1..(k + 1))
        PROVE  iter[s] = IF s = {} THEN b ELSE g[Max(s)][iter[s \ {Max(s)}]]
    <3>1. CASE k + 1 \in s
      <4>0. s \in SUBSET Int /\ IsFiniteSet(s)
        <5>1. IsFiniteSet(1..(k + 1))
          BY FS_Interval
        <5>2. IsFiniteSet(s)
          BY <5>1, FS_Subset, Zenon
        <5> QED BY <5>2
      <4>1. Max(s) = k + 1
        <5>1. Max(s) \in s /\ \A y \in s : Max(s) >= y
          BY <3>1, <4>0, MaxOfFinite
        <5>2. PICK x \in s : x = Max(s) /\ \A y \in s : x >= y
          BY <5>1
        <5>3. x \in 1..(k + 1) /\ x >= k + 1
          BY <3>1, <5>2
        <5> QED BY <5>2, <5>3
      <4>2. iter[s \ {k + 1}] = old[s \ {k + 1}]
        BY <2>2
      <4> QED BY <1>2, <3>1, <4>1, <4>2
    <3>2. CASE k + 1 \notin s
      <4>1. s \in SUBSET (1..k)
        BY <3>2
      <4>2. ASSUME NEW r \in SUBSET s PROVE iter[r] = old[r]
        BY <3>2
      <4> QED BY <2>1, <4>1, <4>2 DEF Folds
    <3> QED BY <3>1, <3>2
  <2>5. Folds(iter, b, g, k + 1)
    BY <2>4 DEF Folds
  <2> HIDE DEF iter
  <2> QED BY <2>3, <2>5
<1>3. ASSUME NEW k \in Nat, P(k) PROVE P(k + 1)
  BY <1>2, <1>3
<1> HIDE DEF P
<1> DEFINE S == {k \in Nat : P(k)}
<1>4. 0 \in S /\ \A k \in Nat : k \in S => k + 1 \in S
  BY <1>1, <1>3
<1> HIDE DEF S
<1>5. N \in S
  BY <1>4, SetInduction
<1>6. P(N)
  BY <1>5 DEF S
<1>7. N <= N
  OBVIOUS
<1> QED BY <1>6, <1>7, Zenon DEF P

(* Any solution of it runs through the indices in their order.             *)
FoldsWithin(iter, T, base, g, n) ==
  /\ iter[{}] = base
  /\ \A s \in SUBSET (1..n) : s # {} /\ iter[s \ {Max(s)}] \in T =>
        iter[s] = g[Max(s)][iter[s \ {Max(s)}]]

Runs(f, base, g, n) == f[0] = base /\ \A i \in 1..n : f[i] = g[i][f[i - 1]]

LEMMA FoldRuns ==
  ASSUME NEW T, NEW b \in T, NEW N \in Nat, NEW g \in [1..N -> [T -> T]], NEW iter,
         FoldsWithin(iter, T, b, g, N)
  PROVE  \E f \in [0..N -> T] : f[N] = iter[1..N] /\ Runs(f, b, g, N)
<1> DEFINE f == [i \in 0..N |-> iter[1..i]]
<1>1. iter[1..0] = b
  <2>1. 1..0 = {}
    OBVIOUS
  <2> QED BY <2>1 DEF FoldsWithin
<1>2. ASSUME NEW i \in 1..N, iter[1..(i - 1)] \in T
      PROVE  iter[1..i] = g[i][iter[1..(i - 1)]]
  <2>1. i \in 1..i /\ 1..i \subseteq 1..N
    OBVIOUS
  <2>2. 1..i \in SUBSET Int /\ IsFiniteSet(1..i)
    BY FS_Interval
  <2>3. Max(1..i) \in 1..i /\ \A y \in 1..i : Max(1..i) >= y
    BY <2>1, <2>2, MaxOfFinite
  <2>4. PICK x \in 1..i : x = Max(1..i) /\ \A y \in 1..i : x >= y
    BY <2>3
  <2>5. x >= i
    BY <2>1, <2>4
  <2>6. Max(1..i) = i
    BY <2>4, <2>5
  <2>7. (1..i) \ {i} = 1..(i - 1)
    OBVIOUS
  <2> QED BY <1>2, <2>1, <2>6, <2>7 DEF FoldsWithin
<1> DEFINE S == {i \in Nat : i <= N => iter[1..i] \in T}
<1>3. 0 \in S
  BY <1>1
<1>4. ASSUME NEW n \in Nat, n \in S PROVE n + 1 \in S
  <2> SUFFICES ASSUME n + 1 <= N PROVE iter[1..(n + 1)] \in T
    OBVIOUS
  <2>1. n + 1 \in 1..N /\ (n + 1) - 1 = n /\ iter[1..n] \in T
    BY <1>4
  <2>2. iter[1..(n + 1)] = g[n + 1][iter[1..n]]
    BY <1>2, <2>1
  <2>3. g[n + 1] \in [T -> T]
    BY <2>1
  <2> QED BY <2>1, <2>2, <2>3
<1> HIDE DEF S
<1>5. Nat \subseteq S
  BY <1>3, <1>4, SetInduction
<1>6. \A i \in 0..N : iter[1..i] \in T
  BY <1>5 DEF S
<1>7. f \in [0..N -> T] /\ f[0] = b /\ f[N] = iter[1..N]
  BY <1>1, <1>6
<1>8. Runs(f, b, g, N)
  BY <1>2, <1>6, <1>7 DEF Runs
<1> HIDE DEF f
<1> QED BY <1>7, <1>8

(* Part of the indices has a greatest one.                                 *)
LEMMA MaxOfIndices ==
  ASSUME NEW N \in Nat, NEW s \in SUBSET (1..N), s # {}
  PROVE  Max(s) \in 1..N /\ s \ {Max(s)} \in SUBSET (1..N)
<1>1. IsFiniteSet(1..N)
  BY FS_Interval
<1>2. IsFiniteSet(s)
  BY <1>1, FS_Subset, Zenon
<1>3. Max(s) \in s
  BY <1>2, MaxOfFinite
<1> QED BY <1>3

-----------------------------------------------------------------------------
(* The calendar.                                                           *)

LEMMA WorkingAhead ==
  ASSUME NEW b \in Nat, NEW w \in 0..6
  PROVE  \E e \in b..(b + 6) : e % 7 = w
<1> DEFINE e == b + ((w - (b % 7)) % 7)
<1>1. e \in b..(b + 6) /\ e % 7 = w
  OBVIOUS
<1> QED BY <1>1

(* The next working day is one, is no earlier, and is the day itself when  *)
(* that is worked.                                                         *)
LEMMA NextWorking ==
  ASSUME NEW d \in Int
  PROVE  /\ NextWorkingDay(d) \in Working /\ NextWorkingDay(d) \in Nat
         /\ NextWorkingDay(d) >= d
         /\ d \in Working => NextWorkingDay(d) = d
<1> DEFINE from == Max({d, 0})
           days == {e \in from..(from + LastHoliday + 7) : IsWorkingDay(e)}
<1>1. from \in Nat /\ from >= d /\ (d \in Nat => from = d)
  <2>1. from = IF d >= 0 THEN d ELSE 0
    BY MaxOfTwo
  <2> QED BY <2>1
<1>2. LastHoliday \in Nat /\ \A h \in Holidays : h <= LastHoliday
  <2>1. IsFiniteSet(Holidays \union {0})
    BY CalendarAssumption, FS_Singleton, FS_Union, Zenon
  <2>2. Holidays \union {0} \in SUBSET Int /\ Holidays \union {0} # {}
    BY CalendarAssumption
  <2>3. /\ LastHoliday \in Holidays \union {0}
        /\ \A h \in Holidays \union {0} : LastHoliday >= h
    BY <2>1, <2>2, MaxOfFinite DEF LastHoliday
  <2> QED BY <2>3, CalendarAssumption
<1> HIDE DEF from
<1>3. days # {}
  <2>1. PICK w \in WorkingWeek : w \in 0..6
    BY CalendarAssumption
  <2> DEFINE b == from + LastHoliday + 1
  <2>2. b \in Nat
    BY <1>1, <1>2
  <2>3. PICK e \in b..(b + 6) : e % 7 = w
    BY <2>1, <2>2, WorkingAhead
  <2>4. e \notin Holidays
    BY <1>1, <1>2, <2>3
  <2>5. e \in from..(from + LastHoliday + 7)
    BY <1>1, <1>2, <2>3
  <2> QED BY <2>1, <2>3, <2>4, <2>5 DEF IsWorkingDay
<1>4. days \in SUBSET Nat
  BY <1>1, <1>2
<1>5. Min(days) \in days /\ \A e \in days : Min(days) <= e
  BY <1>3, <1>4, MinOfNaturals
<1>6. NextWorkingDay(d) = Min(days)
  BY DEF NextWorkingDay, from
<1> HIDE DEF days
<1>7. NextWorkingDay(d) \in days /\ \A e \in days : NextWorkingDay(d) <= e
  BY <1>5, <1>6
<1>8. NextWorkingDay(d) \in Nat /\ NextWorkingDay(d) >= from /\ IsWorkingDay(NextWorkingDay(d))
  BY <1>1, <1>2, <1>7 DEF days
<1>9. d \in Working => NextWorkingDay(d) = d
  <2> SUFFICES ASSUME d \in Working PROVE NextWorkingDay(d) = d
    OBVIOUS
  <2>1. d \in Nat /\ IsWorkingDay(d)
    BY DEF Working
  <2>2. d \in days
    BY <1>1, <1>2, <2>1 DEF days
  <2> QED BY <1>1, <1>7, <1>8, <2>1, <2>2
<1> QED BY <1>1, <1>8, <1>9 DEF Working

LEMMA WorkingDaysInteger ==
  ASSUME NEW a \in Int, NEW b \in Int
  PROVE  WorkingDaysBetween(a, b) \in Int
<1>1. ASSUME NEW c \in Int, NEW e \in Int
      PROVE  Cardinality({d \in (c + 1)..e : IsWorkingDay(d)}) \in Nat
  <2>1. IsFiniteSet((c + 1)..e)
    BY FS_Interval
  <2>2. IsFiniteSet({d \in (c + 1)..e : IsWorkingDay(d)})
    BY <2>1, FS_Subset, Zenon
  <2> QED BY <2>2, FS_CardinalityType
<1> QED BY <1>1 DEF WorkingDaysBetween

(* Waiting a day leaves no more working days until a date to come.         *)
LEMMA WaitingLeavesLess ==
  ASSUME NEW a \in Int, NEW b \in Int, a + 1 <= b
  PROVE  WorkingDaysBetween(a + 1, b) <= WorkingDaysBetween(a, b)
<1> DEFINE later == {d \in ((a + 1) + 1)..b : IsWorkingDay(d)}
           now == {d \in (a + 1)..b : IsWorkingDay(d)}
<1>1. IsFiniteSet(now)
  <2>1. IsFiniteSet((a + 1)..b)
    BY FS_Interval
  <2> QED BY <2>1, FS_Subset, Zenon
<1>2. later \in SUBSET now
  OBVIOUS
<1>3. WorkingDaysBetween(a + 1, b) = Cardinality(later) /\ WorkingDaysBetween(a, b) = Cardinality(now)
  BY DEF WorkingDaysBetween
<1> HIDE DEF later, now
<1> QED BY <1>1, <1>2, <1>3, FS_Subset

(* A day some working days on is a day, and a working day unless it is the *)
(* one counted from.                                                       *)
LEMMA AddedDays ==
  ASSUME NEW from \in Int, NEW days \in Nat
  PROVE  /\ AddWorkingDays(from, days) \in Int
         /\ days > 0 => AddWorkingDays(from, days) \in Working
<1> DEFINE g == [d \in Int |-> NextWorkingDay(d + 1)]
           Solves(f) == f = [n \in 0..days |-> IF n = 0 THEN from ELSE NextWorkingDay(f[n - 1] + 1)]
           after == CHOOSE f : Solves(f)
<1>1. g \in [Int -> Int]
  BY NextWorking
<1>2. \E f : Solves(f)
  <2> HIDE DEF g
  <2>1. PICK f \in [0..days -> Int] : Iterates(f, from, g, days)
    BY <1>1, Iteration, Zenon
  <2>2. \A n \in 0..days : n # 0 => f[n] = NextWorkingDay(f[n - 1] + 1)
    <3> TAKE n \in 0..days
    <3> HAVE n # 0
    <3>1. n \in 1..days /\ f[n - 1] \in Int
      OBVIOUS
    <3> QED BY <2>1, <3>1 DEF g, Iterates
  <2>3. Solves(f)
    BY <2>1, <2>2 DEF Iterates
  <2> QED BY <2>3
<1>3. Solves(after)
  <2> HIDE DEF Solves
  <2> QED BY <1>2
<1>4. AddWorkingDays(from, days) = after[days]
  BY Zenon DEF AddWorkingDays
<1> HIDE DEF after
<1> DEFINE S == {n \in Nat : n <= days => after[n] \in Int /\ (n > 0 => after[n] \in Working)}
<1>5. 0 \in S
  BY <1>3
<1>6. ASSUME NEW n \in Nat, n \in S PROVE n + 1 \in S
  <2> SUFFICES ASSUME n + 1 <= days PROVE after[n + 1] \in Int /\ after[n + 1] \in Working
    OBVIOUS
  <2>1. after[n] \in Int
    BY <1>6
  <2>2. after[n + 1] = NextWorkingDay(after[n] + 1)
    BY <1>3
  <2> QED BY <2>1, <2>2, NextWorking
<1> HIDE DEF S
<1>7. days \in S
  BY <1>5, <1>6, SetInduction
<1> QED BY <1>4, <1>7 DEF S

-----------------------------------------------------------------------------
(* The steps after a step.                                                 *)

LEMMA DurationPositive ==
  ASSUME NEW row \in StepRow
  PROVE  Duration(row) \in Nat /\ Duration(row) > 0
<1>1. row.baseStart \in Int /\ row.baseDue \in Int
  BY DEF StepRow, AnyDay, NoDay
<1>2. WorkingDaysBetween(row.baseStart, row.baseDue) \in Int
  BY <1>1, WorkingDaysInteger
<1> QED BY <1>2, MaxOfTwo DEF Duration

LEMMA WithDueRow ==
  ASSUME NEW row \in StepRow
  PROVE  /\ WithDue(row) \in StepRow
         /\ WithDue(row).due # NoDay
         /\ row.due # NoDay => WithDue(row).due = row.due
         /\ WithDue(row).start = row.start /\ WithDue(row).done = row.done
         /\ WithDue(row).status = row.status /\ WithDue(row).earliest = row.earliest
         /\ WithDue(row).baseStart = row.baseStart /\ WithDue(row).baseDue = row.baseDue
<1> DEFINE due == NextWorkingDay(AddWorkingDays(row.start, Duration(row)))
<1>1. row.start \in Int
  BY DEF StepRow, AnyDay, NoDay
<1>2. due \in Working
  BY <1>1, DurationPositive, AddedDays, NextWorking
<1>3. due \in AnyDay /\ due # NoDay
  BY <1>2 DEF AnyDay, Working, NoDay
<1>4. WithDue(row) = IF row.due # NoDay THEN row ELSE [row EXCEPT !.due = due]
  BY DEF WithDue
<1> HIDE DEF due
<1> QED BY <1>3, <1>4 DEF StepRow

(* The days the steps before t end on.                                     *)
LEMMA EndsOf ==
  ASSUME NEW rows \in [Steps -> StepRow], NEW some \in SUBSET Steps
  PROVE  LET ends == {Finish(rows[p]) : p \in some}
         IN  ends \in SUBSET AnyDay /\ IsFiniteSet(ends)
<1> DEFINE f == [p \in some |-> Finish(rows[p])]
<1>1. IsFiniteSet(some)
  BY WorkAssumption, FS_Subset
<1>2. IsFiniteSet({f[p] : p \in some})
  <2>1. DOMAIN f = some /\ f = [p \in some |-> f[p]]
    OBVIOUS
  <2> HIDE DEF f
  <2> QED BY <1>1, <2>1, FiniteImage
<1>3. {f[p] : p \in some} = {Finish(rows[p]) : p \in some}
  OBVIOUS
<1>4. \A p \in some : Finish(rows[p]) \in AnyDay
  BY DEF Finish, OrElse, StepRow, AnyDay
<1> QED BY <1>2, <1>3, <1>4

(* One visit leaves t planned, due, no earlier than it was, and no earlier *)
(* than the end of any step before it.                                     *)
LEMMA RescheduledRow ==
  ASSUME NEW rows \in [Steps -> StepRow], NEW t \in Steps,
         NEW day \in Nat
  PROVE  LET row == Rescheduled(day, rows, t)
         IN  /\ row \in StepRow
             /\ row.due # NoDay /\ (rows[t].due # NoDay => row.due = rows[t].due)
             /\ row.start >= rows[t].start
             /\ \A p \in Preds[t] : row.start >= Finish(rows[p])
             /\ row.done = rows[t].done /\ row.status = rows[t].status
             /\ row.baseStart = rows[t].baseStart /\ row.baseDue = rows[t].baseDue
<1> DEFINE all == {Finish(rows[p]) : p \in Preds[t]}
           ends == all \ {NoDay}
           from == IF ends # {} THEN Max(ends) ELSE OrElse(rows[t].start, day)
           first == NextWorkingDay(from)
           row == [rows[t] EXCEPT !.earliest = first, !.start = IF @ < first THEN first ELSE @]
<1>1. rows[t] \in StepRow
  OBVIOUS
<1>2. all \in SUBSET AnyDay /\ IsFiniteSet(all)
  BY <1>1, EndsOf, StepsAssumption
<1>3. ends \in SUBSET Int /\ IsFiniteSet(ends)
  <2>1. IsFiniteSet(ends)
    BY <1>2, FS_RemoveElement, Zenon
  <2> QED BY <1>2, <2>1 DEF AnyDay, NoDay
<1>4. rows[t].start \in Int
  BY <1>1 DEF StepRow, AnyDay, NoDay
<1>5. from \in Int /\ \A p \in Preds[t] : Finish(rows[p]) # NoDay => from >= Finish(rows[p])
  <2> HIDE DEF all
  <2>1. CASE ends = {}
    BY <1>4, <2>1 DEF all, OrElse
  <2>2. CASE ends # {}
    <3>1. Max(ends) \in ends /\ \A e \in ends : Max(ends) >= e
      BY <1>3, <2>2, MaxOfFinite
    <3>2. from = Max(ends)
      BY <2>2
    <3> HIDE DEF from, ends
    <3>3. from \in Int /\ \A e \in ends : from >= e
      BY <1>3, <3>1, <3>2
    <3> QED BY <3>3 DEF ends, all
  <2> QED BY <2>1, <2>2
<1> HIDE DEF from
<1>6. first \in Working /\ first \in Nat /\ first >= from
  BY <1>5, NextWorking
<1>7. first \in AnyDay
  BY <1>6 DEF AnyDay
<1> HIDE DEF first
<1>8. /\ row \in StepRow /\ row.due = rows[t].due /\ row.done = rows[t].done
      /\ row.status = rows[t].status
      /\ row.baseStart = rows[t].baseStart /\ row.baseDue = rows[t].baseDue
      /\ row.start = IF rows[t].start < first THEN first ELSE rows[t].start
  BY <1>1, <1>7 DEF StepRow
<1>9. Rescheduled(day, rows, t) = WithDue(row)
  BY DEF Rescheduled, first, from
<1> HIDE DEF row
<1>10. row.start >= rows[t].start /\ row.start >= first
  BY <1>4, <1>6, <1>8
<1>11. \A p \in Preds[t] : row.start >= Finish(rows[p])
  <2> TAKE p \in Preds[t]
  <2>1. Finish(rows[p]) \in AnyDay
    BY <1>2
  <2>2. Finish(rows[p]) = NoDay \/ from >= Finish(rows[p])
    BY <1>5
  <2> QED BY <1>4, <1>5, <1>6, <1>8, <1>10, <2>1, <2>2 DEF AnyDay, NoDay
<1> QED BY <1>8, <1>9, <1>10, <1>11, WithDueRow

LEMMA PushedChain ==
  ASSUME NEW chain \in Chain, NEW t \in Steps, NEW day \in Nat
  PROVE  /\ Pushed(day, chain, t) \in Chain
         /\ Pushed(day, chain, t).step = [chain.step EXCEPT ![t] = Rescheduled(day, chain.step, t)]
         /\ Pushed(day, chain, t).visited = chain.visited
<1>1. chain.step \in [Steps -> StepRow] /\ chain.visited \in SUBSET Steps
      /\ DOMAIN chain = {"step", "visited"}
  BY DEF Chain
<1>2. Rescheduled(day, chain.step, t) \in StepRow
  BY <1>1, RescheduledRow
<1> DEFINE row == Rescheduled(day, chain.step, t)
<1> HIDE DEF row
<1>3. Pushed(day, chain, t) = [step |-> [chain.step EXCEPT ![t] = row], visited |-> chain.visited]
  BY <1>1 DEF Pushed, Chain, row
<1>4. [chain.step EXCEPT ![t] = row] \in [Steps -> StepRow]
  BY <1>1, <1>2 DEF row
<1> QED BY <1>1, <1>3, <1>4 DEF Chain, row

LEMMA MarkedChain ==
  ASSUME NEW chain \in Chain, NEW s \in Steps
  PROVE  /\ Marked(chain, s) \in Chain
         /\ Marked(chain, s).step = chain.step
         /\ Marked(chain, s).visited = chain.visited \union {s}
BY DEF Marked, Chain

(* A visit one call deep or deeper, from the visits below it.              *)
Below == [Chain -> [Steps -> Chain]]

VisitOne(day, below, acc, s, t) ==
  IF ~Follows(acc.step, s, t) THEN acc ELSE below[Pushed(day, acc, t)][t]

VisitAll(day, below, chain, s, order) ==
  FoldLeft(LAMBDA acc, t : VisitOne(day, below, acc, s, t), Marked(chain, s), order)

LEMMA VisitOneType ==
  ASSUME NEW day \in Nat, NEW below \in Below, NEW chain \in Chain, NEW s \in Steps, NEW t \in Steps
  PROVE  VisitOne(day, below, chain, s, t) \in Chain
<1>1. Pushed(day, chain, t) \in Chain
  BY PushedChain
<1>2. below[Pushed(day, chain, t)] \in [Steps -> Chain]
  BY <1>1 DEF Below
<1>3. below[Pushed(day, chain, t)][t] \in Chain
  BY <1>2
<1> QED BY <1>3 DEF VisitOne

(* The fold over the rows, as the sequence of what it has reached.         *)
LEMMA VisitAllRuns ==
  ASSUME NEW day \in Nat, NEW below \in Below, NEW chain \in Chain, NEW s \in Steps,
         NEW order \in Seq(Steps)
  PROVE  \E f \in [0..Len(order) -> Chain] :
           /\ f[0] = Marked(chain, s)
           /\ \A i \in 1..Len(order) : f[i] = VisitOne(day, below, f[i - 1], s, order[i])
           /\ VisitAll(day, below, chain, s, order) = f[Len(order)]
<1> DEFINE D == DOMAIN order
           base == Marked(chain, s)
           Solves(iter) == iter = [d \in SUBSET D |-> IF d = {} THEN base ELSE
                             VisitOne(day, below, iter[d \ {Max(d)}], s, order[Max(d)])]
           iter == CHOOSE it : Solves(it)
<1>1. VisitAll(day, below, chain, s, order) = iter[D]
  BY Zenon DEF VisitAll, FoldLeft, MapThenFoldSet
<1>2. D = 1..Len(order) /\ Len(order) \in Nat /\ \A i \in D : order[i] \in Steps
  OBVIOUS
<1>3. base \in Chain
  BY MarkedChain
<1> DEFINE g == [i \in D |-> [c \in Chain |-> VisitOne(day, below, c, s, order[i])]]
<1>4. g \in [D -> [Chain -> Chain]]
  BY <1>2, VisitOneType
<1>5. \E it : Solves(it)
  <2> HIDE DEF base
  <2>1. PICK it \in [SUBSET D -> Chain] : Folds(it, base, g, Len(order))
    BY <1>2, <1>3, <1>4, FoldExists
  <2>2. ASSUME NEW d \in SUBSET D
        PROVE  it[d] = IF d = {} THEN base ELSE VisitOne(day, below, it[d \ {Max(d)}], s, order[Max(d)])
    <3>1. it[d] = IF d = {} THEN base ELSE g[Max(d)][it[d \ {Max(d)}]]
      BY <1>2, <2>1 DEF Folds
    <3>2. d # {} => Max(d) \in D /\ it[d \ {Max(d)}] \in Chain
      BY <1>2, <2>1, MaxOfIndices
    <3> QED BY <3>1, <3>2
  <2>3. Solves(it)
    BY <2>1, <2>2
  <2> HIDE DEF Solves
  <2> QED BY <2>3
<1>6. Solves(iter)
  <2> HIDE DEF Solves
  <2> QED BY <1>5
<1> HIDE DEF iter, base
<1>7. FoldsWithin(iter, Chain, base, g, Len(order))
  <2>1. ASSUME NEW d \in SUBSET D, d # {}, iter[d \ {Max(d)}] \in Chain
        PROVE  iter[d] = g[Max(d)][iter[d \ {Max(d)}]]
    <3>1. Max(d) \in D
      BY <1>2, <2>1, MaxOfIndices
    <3>2. iter[d] = VisitOne(day, below, iter[d \ {Max(d)}], s, order[Max(d)])
      BY <1>6, <2>1
    <3> QED BY <2>1, <3>1, <3>2
  <2> QED BY <1>2, <1>6, <2>1 DEF FoldsWithin
<1> HIDE DEF Solves
<1>8. PICK f \in [0..Len(order) -> Chain] :
        f[Len(order)] = iter[1..Len(order)] /\ Runs(f, base, g, Len(order))
  <2> HIDE DEF g, D
  <2>1. g \in [1..Len(order) -> [Chain -> Chain]]
    BY <1>2, <1>4
  <2> QED BY <1>2, <1>3, <1>7, <2>1, FoldRuns
<1>9. ASSUME NEW i \in 1..Len(order)
      PROVE  f[i] = VisitOne(day, below, f[i - 1], s, order[i])
  <2>1. i \in D /\ f[i - 1] \in Chain
    BY <1>2
  <2> QED BY <1>8, <2>1 DEF Runs
<1> QED BY <1>1, <1>2, <1>8, <1>9 DEF base, Runs

(* What the visits of Visit do is what one visit does with those below.    *)
LEMMA VisitRecursion ==
  ASSUME NEW day \in Nat, NEW order \in Seq(Steps)
  PROVE  \E v \in [0..Cardinality(Steps) -> Below] :
           /\ Visit(day, order) = v[Cardinality(Steps)]
           /\ \A n \in 0..Cardinality(Steps), chain \in Chain, s \in Steps :
                v[n][chain][s] = IF n = 0 \/ s \in chain.visited THEN chain
                                 ELSE VisitAll(day, v[n - 1], chain, s, order)
<1> DEFINE N == Cardinality(Steps)
           Level(v, n) == [chain \in Chain |-> [s \in Steps |->
                            IF n = 0 \/ s \in chain.visited THEN chain
                            ELSE VisitAll(day, v[n - 1], chain, s, order)]]
           Solves(v) == v = [n \in 0..N |-> Level(v, n)]
           visit == CHOOSE v : Solves(v)
           base == [chain \in Chain |-> [s \in Steps |-> chain]]
           g == [below \in Below |-> [chain \in Chain |-> [s \in Steps |->
                   IF s \in chain.visited THEN chain ELSE VisitAll(day, below, chain, s, order)]]]
<1>1. N \in Nat
  BY WorkAssumption, FS_CardinalityType
<1>2. Visit(day, order) = visit[N]
  BY Zenon DEF Visit, VisitAll, VisitOne
<1>3. base \in Below
  BY DEF Below
<1>4. ASSUME NEW below \in Below, NEW chain \in Chain, NEW s \in Steps
      PROVE  VisitAll(day, below, chain, s, order) \in Chain
  <2>1. Len(order) \in 0..Len(order)
    OBVIOUS
  <2> QED BY <2>1, VisitAllRuns
<1>5. g \in [Below -> Below]
  BY <1>4 DEF Below
<1>6. PICK f \in [0..N -> Below] : Iterates(f, base, g, N)
  <2> HIDE DEF g, base, N
  <2> QED BY <1>1, <1>3, <1>5, Iteration
<1>7. ASSUME NEW n \in 0..N, n # 0
      PROVE  f[n] = [chain \in Chain |-> [s \in Steps |-> IF s \in chain.visited THEN chain
                       ELSE VisitAll(day, f[n - 1], chain, s, order)]]
  <2>1. n \in 1..N /\ f[n - 1] \in Below
    BY <1>1, <1>7
  <2> QED BY <1>6, <2>1 DEF Iterates
<1>8. Solves(f)
  <2>1. f[0] = base
    BY <1>6 DEF Iterates
  <2>2. \A n \in 0..N : f[n] = Level(f, n)
    BY <1>1, <1>7, <2>1
  <2> HIDE DEF Level
  <2> QED BY <2>2
<1>9. Solves(visit)
  <2> HIDE DEF Solves
  <2> QED BY <1>8
<1> HIDE DEF visit
<1>10. \A n \in 0..N : visit[n] = Level(visit, n)
  <2> HIDE DEF Level
  <2> QED BY <1>9
<1>11. visit = [n \in 0..N |-> visit[n]]
  <2> HIDE DEF Level
  <2> QED BY <1>9
<1> HIDE DEF Solves
<1> DEFINE S == {n \in Nat : n <= N => visit[n] \in Below}
<1>12. 0 \in S
  <2>1. visit[0] = base
    BY <1>1, <1>10
  <2> QED BY <1>3, <2>1
<1>13. ASSUME NEW n \in Nat, n \in S PROVE n + 1 \in S
  <2> SUFFICES ASSUME n + 1 <= N PROVE visit[n + 1] \in Below
    OBVIOUS
  <2>1. visit[n] \in Below
    BY <1>1, <1>13
  <2>2. n + 1 \in 0..N /\ (n + 1) - 1 = n
    BY <1>1
  <2>3. visit[n + 1] = Level(visit, n + 1)
    BY <1>10, <2>2
  <2>4. Level(visit, n + 1) \in Below
    BY <1>4, <2>1, <2>2 DEF Below
  <2> QED BY <2>3, <2>4
<1> HIDE DEF S
<1>14. Nat \subseteq S
  BY <1>12, <1>13, SetInduction
<1>15. visit \in [0..N -> Below]
  <2>1. \A n \in 0..N : visit[n] \in Below
    BY <1>1, <1>14 DEF S
  <2> QED BY <1>11, <2>1
<1>16. \A n \in 0..N, chain \in Chain, s \in Steps :
         visit[n][chain][s] = IF n = 0 \/ s \in chain.visited THEN chain
                              ELSE VisitAll(day, visit[n - 1], chain, s, order)
  <2> TAKE n \in 0..N, chain \in Chain, s \in Steps
  <2>1. visit[n] = Level(visit, n)
    BY <1>10
  <2>2. Level(visit, n)[chain][s] = IF n = 0 \/ s \in chain.visited THEN chain
                                    ELSE VisitAll(day, visit[n - 1], chain, s, order)
    OBVIOUS
  <2> HIDE DEF Level
  <2> QED BY <2>1, <2>2
<1> HIDE DEF N
<1> QED BY <1>2, <1>15, <1>16 DEF N

(* What a recalculation has done from one chain to a later one: it has not *)
(* taken back, moved forward or ended any step, a step that got a due date *)
(* was visited, and every open step after one that was visited was too and *)
(* begins after all that it waits for.                                     *)
Kept(was, now) ==
  \A x \in Steps : /\ now[x].done = was[x].done /\ now[x].start >= was[x].start
                   /\ was[x].due # NoDay => now[x].due = was[x].due

Advanced(was, now) ==
  /\ was.visited \subseteq now.visited
  /\ Kept(was.step, now.step)
  /\ \A x \in Steps : Finish(now.step[x]) # Finish(was.step[x]) => x \in now.visited \ was.visited
  /\ \A x \in now.visited \ was.visited :
       /\ Finish(now.step[x]) # NoDay
       /\ \A t \in Steps : Follows(now.step, x, t) => t \in now.visited /\ Settled(now.step, t)

Dated(chain) == \A x \in chain.visited : Finish(chain.step[x]) # NoDay

LEMMA ChainRows ==
  ASSUME NEW chain \in Chain, NEW x \in Steps
  PROVE  /\ chain.step \in [Steps -> StepRow] /\ chain.visited \in SUBSET Steps
         /\ chain.step[x].start \in Int /\ chain.step[x].due \in Int /\ chain.step[x].done \in Int
         /\ chain.step[x].start >= NoDay /\ Finish(chain.step[x]) \in Int
BY DEF Chain, StepRow, AnyDay, NoDay, Finish, OrElse

LEMMA KeptFinish ==
  ASSUME NEW was, NEW now, Kept(was, now), NEW x \in Steps, Finish(was[x]) # NoDay
  PROVE  Finish(now[x]) = Finish(was[x])
BY DEF Kept, Finish, OrElse

LEMMA KeptFollows ==
  ASSUME NEW was, NEW now, Kept(was, now), NEW x \in Steps, NEW t \in Steps
  PROVE  Follows(now, x, t) <=> Follows(was, x, t)
BY DEF Kept, Follows

LEMMA KeptOn ==
  ASSUME NEW was \in Chain, NEW mid \in Chain, NEW now \in Chain,
         Kept(was.step, mid.step), Kept(mid.step, now.step)
  PROVE  Kept(was.step, now.step)
<1> SUFFICES ASSUME NEW x \in Steps
             PROVE  /\ now.step[x].done = was.step[x].done
                    /\ now.step[x].start >= was.step[x].start
                    /\ was.step[x].due # NoDay => now.step[x].due = was.step[x].due
  BY DEF Kept
<1>1. /\ was.step[x].start \in Int /\ mid.step[x].start \in Int /\ now.step[x].start \in Int
  BY ChainRows
<1> QED BY <1>1 DEF Kept

LEMMA AdvancedSelf ==
  ASSUME NEW chain \in Chain PROVE Advanced(chain, chain)
<1>1. \A x \in Steps : chain.step[x].start \in Int
  BY ChainRows
<1> QED BY <1>1 DEF Advanced, Kept

(* A step that began after all it waits for still does: what it waits for  *)
(* got another end only where it was pushed again.                         *)
LEMMA SettledOn ==
  ASSUME NEW was \in Chain, NEW now \in Chain, NEW t \in Steps,
         Kept(was.step, now.step), was.step[t].done = NoDay, Settled(was.step, t),
         \A x \in Preds[t] : Finish(now.step[x]) # Finish(was.step[x]) => x \in now.visited \ was.visited,
         \A x \in now.visited \ was.visited : Follows(now.step, x, t) => Settled(now.step, t)
  PROVE  Settled(now.step, t)
<1>1. CASE \E x \in Preds[t] : Finish(now.step[x]) # Finish(was.step[x])
  <2>1. PICK x \in Preds[t] : x \in now.visited \ was.visited
    BY <1>1
  <2>2. x \in Steps
    BY StepsAssumption
  <2>3. Follows(now.step, x, t)
    BY <2>1, <2>2 DEF Follows, Kept
  <2> QED BY <2>1, <2>3
<1>2. CASE \A x \in Preds[t] : Finish(now.step[x]) = Finish(was.step[x])
  <2> SUFFICES ASSUME NEW p \in Preds[t] PROVE now.step[t].start >= Finish(now.step[p])
    BY DEF Settled
  <2>1. p \in Steps
    BY StepsAssumption
  <2>2. Finish(was.step[p]) \in Int /\ was.step[t].start \in Int /\ now.step[t].start \in Int
    BY <2>1, ChainRows
  <2>3. was.step[t].start >= Finish(was.step[p]) /\ now.step[t].start >= was.step[t].start
    BY DEF Settled, Kept
  <2>4. Finish(now.step[p]) = Finish(was.step[p])
    BY <1>2
  <2> QED BY <2>2, <2>3, <2>4
<1> QED BY <1>1, <1>2

LEMMA AdvancedOn ==
  ASSUME NEW was \in Chain, NEW mid \in Chain, NEW now \in Chain,
         Advanced(was, mid), Advanced(mid, now)
  PROVE  Advanced(was, now)
<1>1. Kept(was.step, mid.step) /\ Kept(mid.step, now.step) /\ Kept(was.step, now.step)
  BY KeptOn DEF Advanced
<1>2. was.visited \subseteq mid.visited /\ mid.visited \subseteq now.visited
      /\ now.visited \in SUBSET Steps
  BY ChainRows DEF Advanced, Chain
<1>3. ASSUME NEW x \in Steps, Finish(now.step[x]) # Finish(was.step[x])
      PROVE  x \in now.visited \ was.visited
  BY <1>2, <1>3 DEF Advanced
<1>4. ASSUME NEW x \in now.visited \ was.visited
      PROVE  /\ Finish(now.step[x]) # NoDay
             /\ \A t \in Steps : Follows(now.step, x, t) => t \in now.visited /\ Settled(now.step, t)
  <2>1. CASE x \notin mid.visited
    BY <2>1 DEF Advanced
  <2>2. CASE x \in mid.visited
    <3>1. x \in Steps /\ Finish(mid.step[x]) # NoDay
      BY <1>2, <2>2 DEF Advanced
    <3>2. Finish(now.step[x]) # NoDay
      BY <1>1, <3>1, KeptFinish
    <3>3. ASSUME NEW t \in Steps, Follows(now.step, x, t)
          PROVE  t \in now.visited /\ Settled(now.step, t)
      <4>1. Follows(mid.step, x, t)
        BY <1>1, <3>1, <3>3, KeptFollows
      <4>2. t \in mid.visited /\ Settled(mid.step, t) /\ mid.step[t].done = NoDay
        BY <2>2, <4>1 DEF Advanced, Follows
      <4>3. \A y \in Preds[t] : y \in Steps
        BY StepsAssumption
      <4>4. Settled(now.step, t)
        BY <1>1, <4>2, <4>3, SettledOn DEF Advanced
      <4> QED BY <1>2, <4>2, <4>4
    <3> QED BY <3>2, <3>3
  <2> QED BY <2>1, <2>2
<1>5. was.visited \subseteq now.visited
  BY <1>2
<1> QED BY <1>1, <1>3, <1>4, <1>5 DEF Advanced

(* Pushing t and visiting it is an advance, after which t begins after all *)
(* it waits for.                                                           *)
LEMMA PushedOn ==
  ASSUME NEW was \in Chain, Dated(was), NEW t \in Steps, was.step[t].done = NoDay,
         NEW day \in Nat
  PROVE  LET mid == Pushed(day, was, t)
         IN  /\ Dated(mid) /\ Finish(mid.step[t]) # NoDay /\ mid.visited = was.visited
             /\ \A now \in Chain : Advanced(mid, now) /\ t \in now.visited =>
                  Advanced(was, now) /\ Settled(now.step, t)
<1> DEFINE mid == Pushed(day, was, t)
           row == Rescheduled(day, was.step, t)
<1>1. mid \in Chain /\ mid.step = [was.step EXCEPT ![t] = row] /\ mid.visited = was.visited
  BY PushedChain
<1>2. was.step \in [Steps -> StepRow] /\ was.visited \in SUBSET Steps
  BY ChainRows
<1>3. /\ row.due # NoDay /\ (was.step[t].due # NoDay => row.due = was.step[t].due)
      /\ row.start >= was.step[t].start
      /\ \A p \in Preds[t] : row.start >= Finish(was.step[p])
      /\ row.done = was.step[t].done
  BY <1>2, RescheduledRow
<1> HIDE DEF mid, row
<1>4. mid.step[t] = row /\ \A x \in Steps \ {t} : mid.step[x] = was.step[x]
  BY <1>1, <1>2
<1>5. Kept(was.step, mid.step)
  <2>1. \A x \in Steps : was.step[x].start \in Int
    BY ChainRows
  <2> QED BY <1>3, <1>4, <2>1 DEF Kept
<1>6. Finish(mid.step[t]) # NoDay
  BY <1>3, <1>4 DEF Finish, OrElse
<1>7. Dated(mid)
  BY <1>1, <1>2, <1>5, KeptFinish DEF Dated
<1>8. Settled(mid.step, t)
  <2>1. t \notin Preds[t] /\ Preds[t] \in SUBSET Steps
    BY StepsAssumption
  <2> QED BY <1>3, <1>4, <2>1 DEF Settled
<1>9. ASSUME NEW now \in Chain, Advanced(mid, now), t \in now.visited
      PROVE  Advanced(was, now) /\ Settled(now.step, t)
  <2>1. Kept(mid.step, now.step) /\ Kept(was.step, now.step)
    BY <1>1, <1>5, <1>9, KeptOn DEF Advanced
  <2>2. was.visited \subseteq now.visited
    BY <1>1, <1>9 DEF Advanced
  <2>3. ASSUME NEW x \in Steps, Finish(now.step[x]) # Finish(was.step[x])
        PROVE  x \in now.visited \ was.visited
    <3>1. CASE x = t
      <4>1. Finish(was.step[t]) = NoDay
        BY <2>1, <2>3, <3>1, KeptFinish
      <4> QED BY <1>9, <3>1, <4>1 DEF Dated
    <3>2. CASE x # t
      BY <1>1, <1>4, <1>9, <2>3, <3>2 DEF Advanced
    <3> QED BY <3>1, <3>2
  <2>4. Advanced(was, now)
    BY <1>1, <1>9, <2>1, <2>2, <2>3 DEF Advanced
  <2>5. Settled(now.step, t)
    <3>1. \A y \in Preds[t] : y \in Steps
      BY StepsAssumption
    <3>2. mid.step[t].done = NoDay
      BY <1>3, <1>4
    <3> QED BY <1>1, <1>8, <1>9, <2>1, <3>1, <3>2, SettledOn DEF Advanced
  <2> QED BY <2>4, <2>5
<1> QED BY <1>1, <1>6, <1>7, <1>9 DEF mid

(* The fold of one visit, if the visits below it advance.                  *)
Advances(below, n) ==
  \A chain \in Chain, s \in Steps :
    /\ Dated(chain) /\ Finish(chain.step[s]) # NoDay
    /\ Cardinality(Steps \ chain.visited) <= n
    => Advanced(chain, below[chain][s]) /\ s \in below[chain][s].visited

LEMMA VisitOneAdvances ==
  ASSUME NEW day \in Nat, NEW below \in Below, NEW n \in Nat, Advances(below, n),
         NEW chain \in Chain, Dated(chain), Cardinality(Steps \ chain.visited) <= n,
         NEW s \in Steps, NEW t \in Steps
  PROVE  LET now == VisitOne(day, below, chain, s, t)
         IN  /\ Advanced(chain, now)
             /\ Follows(chain.step, s, t) => t \in now.visited /\ Settled(now.step, t)
<1> DEFINE now == VisitOne(day, below, chain, s, t)
           mid == Pushed(day, chain, t)
<1>1. CASE ~Follows(chain.step, s, t)
  BY <1>1, AdvancedSelf DEF VisitOne
<1>2. CASE Follows(chain.step, s, t)
  <2>1. mid \in Chain /\ Dated(mid) /\ Finish(mid.step[t]) # NoDay /\ mid.visited = chain.visited
    BY <1>2, PushedChain, PushedOn DEF Follows
  <2>2. now = below[mid][t]
    BY <1>2 DEF VisitOne
  <2>3. now \in Chain
    BY VisitOneType
  <2> HIDE DEF mid, now
  <2>4. Advanced(mid, now) /\ t \in now.visited
    BY <2>1, <2>2 DEF Advances
  <2>5. Advanced(chain, now) /\ Settled(now.step, t)
    BY <1>2, <2>3, <2>4, PushedOn DEF Follows, mid
  <2> QED BY <2>4, <2>5 DEF now
<1> QED BY <1>1, <1>2

LEMMA DatedOn ==
  ASSUME NEW was \in Chain, NEW now \in Chain, Dated(was), Advanced(was, now)
  PROVE  Dated(now)
<1> SUFFICES ASSUME NEW x \in now.visited PROVE Finish(now.step[x]) # NoDay
  BY DEF Dated
<1>1. x \in Steps
  BY ChainRows DEF Chain
<1>2. CASE x \in was.visited
  BY <1>1, <1>2, KeptFinish DEF Advanced, Dated
<1>3. CASE x \notin was.visited
  BY <1>3 DEF Advanced
<1> QED BY <1>2, <1>3

(* What was visited, and settled by it, stays so.                          *)
LEMMA StaysSettled ==
  ASSUME NEW was \in Chain, NEW now \in Chain, Advanced(was, now), NEW s \in Steps, NEW t \in Steps,
         Follows(was.step, s, t) => t \in was.visited /\ Settled(was.step, t),
         Follows(now.step, s, t)
  PROVE  t \in now.visited /\ Settled(now.step, t)
<1>1. Follows(was.step, s, t)
  BY KeptFollows DEF Advanced
<1>2. \A y \in Preds[t] : y \in Steps
  BY StepsAssumption
<1>3. Settled(now.step, t)
  BY <1>1, <1>2, SettledOn DEF Advanced, Follows
<1> QED BY <1>1, <1>3 DEF Advanced

LEMMA VisitAllAdvances ==
  ASSUME NEW day \in Nat, NEW below \in Below, NEW n \in Nat, Advances(below, n),
         NEW chain \in Chain, Dated(chain), Cardinality(Steps \ chain.visited) <= n + 1,
         NEW s \in Steps, s \notin chain.visited, Finish(chain.step[s]) # NoDay,
         NEW order \in Seq(Steps), ToSet(order) = Steps
  PROVE  LET now == VisitAll(day, below, chain, s, order)
         IN  now \in Chain /\ Advanced(chain, now) /\ s \in now.visited
<1> DEFINE base == Marked(chain, s)
           N == Len(order)
<1>1. base \in Chain /\ base.step = chain.step /\ base.visited = chain.visited \union {s}
  BY MarkedChain
<1>2. PICK f \in [0..N -> Chain] :
        /\ f[0] = base
        /\ \A i \in 1..N : f[i] = VisitOne(day, below, f[i - 1], s, order[i])
        /\ VisitAll(day, below, chain, s, order) = f[N]
  BY VisitAllRuns
<1> HIDE DEF base
<1>3. N \in Nat /\ \A i \in 1..N : order[i] \in Steps
  OBVIOUS
<1>4. Dated(base)
  BY <1>1 DEF Dated
<1>5. ASSUME NEW now \in Chain, Advanced(base, now) PROVE Cardinality(Steps \ now.visited) <= n
  <2>1. IsFiniteSet(Steps \ chain.visited) /\ s \in Steps \ chain.visited
    BY WorkAssumption, FS_Difference
  <2>2. /\ IsFiniteSet((Steps \ chain.visited) \ {s})
        /\ Cardinality((Steps \ chain.visited) \ {s}) = Cardinality(Steps \ chain.visited) - 1
    BY <2>1, FS_RemoveElement, Zenon
  <2>3. Steps \ now.visited \in SUBSET ((Steps \ chain.visited) \ {s})
    BY <1>1, <1>5 DEF Advanced
  <2>4. Cardinality(Steps \ now.visited) <= Cardinality((Steps \ chain.visited) \ {s})
    BY <2>2, <2>3, FS_Subset
  <2>5. Cardinality(Steps \ now.visited) \in Nat /\ Cardinality(Steps \ chain.visited) \in Nat
    <3>1. IsFiniteSet(Steps \ now.visited)
      BY <2>2, <2>3, FS_Subset
    <3> QED BY <2>1, <3>1, FS_CardinalityType
  <2> QED BY <2>2, <2>4, <2>5
<1> DEFINE Reached(i) == \A j \in 1..i : Follows(f[i].step, s, order[j]) =>
                           order[j] \in f[i].visited /\ Settled(f[i].step, order[j])
           S == {i \in Nat : i <= N => Advanced(base, f[i]) /\ Reached(i)}
<1>6. 0 \in S
  BY <1>1, <1>2, AdvancedSelf
<1>7. ASSUME NEW i \in Nat, i \in S PROVE i + 1 \in S
  <2> SUFFICES ASSUME i + 1 <= N PROVE Advanced(base, f[i + 1]) /\ Reached(i + 1)
    OBVIOUS
  <2> DEFINE t == order[i + 1]
  <2>1. f[i] \in Chain /\ f[i + 1] \in Chain /\ t \in Steps /\ Advanced(base, f[i]) /\ Reached(i)
    <3>1. i \in 0..N /\ i + 1 \in 0..N /\ i + 1 \in 1..N /\ i <= N
      BY <1>3
    <3> QED BY <1>3, <1>7, <3>1
  <2>2. f[i + 1] = VisitOne(day, below, f[i], s, t)
    <3>1. i + 1 \in 1..N /\ (i + 1) - 1 = i
      BY <1>3
    <3> QED BY <1>2, <3>1
  <2>3. Dated(f[i]) /\ Cardinality(Steps \ f[i].visited) <= n
    BY <1>1, <1>4, <1>5, <2>1, DatedOn
  <2>4. /\ Advanced(f[i], f[i + 1])
        /\ Follows(f[i].step, s, t) => t \in f[i + 1].visited /\ Settled(f[i + 1].step, t)
    BY <2>1, <2>2, <2>3, VisitOneAdvances
  <2>5. Advanced(base, f[i + 1])
    BY <1>1, <2>1, <2>4, AdvancedOn
  <2>6. ASSUME NEW j \in 1..(i + 1), Follows(f[i + 1].step, s, order[j])
        PROVE  order[j] \in f[i + 1].visited /\ Settled(f[i + 1].step, order[j])
    <3>1. CASE j = i + 1
      <4>1. Follows(f[i].step, s, t)
        BY <2>1, <2>4, <2>6, <3>1, KeptFollows DEF Advanced
      <4> QED BY <2>4, <3>1, <4>1
    <3>2. CASE j # i + 1
      <4>1. j \in 1..i /\ order[j] \in Steps
        BY <1>3, <3>2
      <4>2. Follows(f[i].step, s, order[j]) =>
              order[j] \in f[i].visited /\ Settled(f[i].step, order[j])
        BY <2>1, <4>1
      <4> QED BY <2>1, <2>4, <2>6, <4>1, <4>2, StaysSettled
    <3> QED BY <3>1, <3>2
  <2> QED BY <2>5, <2>6
<1> HIDE DEF S
<1>8. N \in S
  BY <1>3, <1>6, <1>7, SetInduction
<1>9. f[N] \in Chain /\ Advanced(base, f[N]) /\ Reached(N)
  BY <1>3, <1>8 DEF S
<1>10. s \in f[N].visited
  BY <1>1, <1>9 DEF Advanced
<1>11. Kept(chain.step, f[N].step) /\ chain.visited \subseteq f[N].visited
  BY <1>1, <1>9 DEF Advanced
<1>12. \A x \in Steps : Finish(f[N].step[x]) # Finish(chain.step[x]) => x \in f[N].visited \ chain.visited
  BY <1>1, <1>9 DEF Advanced
<1>13. ASSUME NEW x \in f[N].visited \ chain.visited
       PROVE  /\ Finish(f[N].step[x]) # NoDay
              /\ \A t \in Steps : Follows(f[N].step, x, t) => t \in f[N].visited /\ Settled(f[N].step, t)
  <2>1. CASE x = s
    <3>1. Finish(f[N].step[s]) # NoDay
      BY <1>11, KeptFinish
    <3>2. ASSUME NEW t \in Steps, Follows(f[N].step, s, t)
          PROVE  t \in f[N].visited /\ Settled(f[N].step, t)
      <4>1. PICK j \in 1..N : order[j] = t
        BY DEF ToSet
      <4> QED BY <1>9, <3>2, <4>1
    <3> QED BY <2>1, <3>1, <3>2
  <2>2. CASE x # s
    BY <1>1, <1>9, <2>2 DEF Advanced
  <2> QED BY <2>1, <2>2
<1> HIDE DEF N
<1> QED BY <1>2, <1>9, <1>10, <1>11, <1>12, <1>13 DEF Advanced

Fresh(rows) == [step |-> rows, visited |-> {}]

LEMMA VisitAdvances ==
  ASSUME NEW day \in Nat, NEW order \in Seq(Steps), ToSet(order) = Steps,
         NEW chain \in Chain, Dated(chain), NEW s \in Steps, Finish(chain.step[s]) # NoDay
  PROVE  LET now == Visit(day, order)[chain][s]
         IN  now \in Chain /\ Advanced(chain, now) /\ s \in now.visited
<1> DEFINE N == Cardinality(Steps)
<1>1. PICK v \in [0..N -> Below] :
        /\ Visit(day, order) = v[N]
        /\ \A n \in 0..N, c \in Chain, x \in Steps :
             v[n][c][x] = IF n = 0 \/ x \in c.visited THEN c ELSE VisitAll(day, v[n - 1], c, x, order)
  BY VisitRecursion
<1>2. N \in Nat
  BY WorkAssumption, FS_CardinalityType
<1> DEFINE S == {n \in Nat : n <= N => Advances(v[n], n)}
<1>3. 0 \in S
  <2> SUFFICES ASSUME NEW c \in Chain, NEW x \in Steps, Cardinality(Steps \ c.visited) <= 0
               PROVE  Advanced(c, v[0][c][x]) /\ x \in v[0][c][x].visited
    BY DEF Advances
  <2>1. IsFiniteSet(Steps \ c.visited)
    BY WorkAssumption, FS_Difference
  <2>2. Cardinality(Steps \ c.visited) = 0
    BY <2>1, FS_CardinalityType
  <2>3. Steps \ c.visited = {}
    BY <2>1, <2>2, FS_EmptySet
  <2>4. v[0][c][x] = c
    BY <1>1, <1>2
  <2> QED BY <2>3, <2>4, AdvancedSelf
<1>4. ASSUME NEW n \in Nat, n \in S PROVE n + 1 \in S
  <2> SUFFICES ASSUME n + 1 <= N, NEW c \in Chain, NEW x \in Steps, Dated(c),
                      Finish(c.step[x]) # NoDay, Cardinality(Steps \ c.visited) <= n + 1
               PROVE  Advanced(c, v[n + 1][c][x]) /\ x \in v[n + 1][c][x].visited
    BY DEF Advances
  <2>1. n \in 0..N /\ n + 1 \in 0..N /\ (n + 1) - 1 = n /\ Advances(v[n], n) /\ v[n] \in Below
    BY <1>2, <1>4
  <2>2. v[n + 1][c][x] = IF x \in c.visited THEN c ELSE VisitAll(day, v[n], c, x, order)
    BY <1>1, <2>1
  <2>3. CASE x \in c.visited
    BY <2>2, <2>3, AdvancedSelf
  <2>4. CASE x \notin c.visited
    BY <2>1, <2>2, <2>4, VisitAllAdvances
  <2> QED BY <2>3, <2>4
<1> HIDE DEF S
<1>5. Advances(v[N], N)
  <2>1. N \in S
    BY <1>2, <1>3, <1>4, SetInduction
  <2> QED BY <1>2, <2>1 DEF S
<1>6. Cardinality(Steps \ chain.visited) <= N
  BY WorkAssumption, FS_Subset
<1>7. v[N][chain][s] \in Chain
  <2>1. v[N] \in Below
    BY <1>2
  <2>2. v[N][chain] \in [Steps -> Chain]
    BY <2>1 DEF Below
  <2> QED BY <2>2
<1> HIDE DEF N
<1> QED BY <1>1, <1>5, <1>6, <1>7 DEF Advances

(* A recalculation from a step that has an end advances from rows none of  *)
(* which is visited.                                                       *)
LEMMA RecalculatedAdvances ==
  ASSUME NEW day \in Nat, NEW order \in RowOrders, NEW rows \in [Steps -> StepRow],
         NEW s \in Steps, Finish(rows[s]) # NoDay
  PROVE  \E now \in Chain : /\ Recalculated(day, rows, s, order) = now.step
                            /\ Fresh(rows) \in Chain /\ Advanced(Fresh(rows), now)
                            /\ s \in now.visited
<1>1. order \in Seq(Steps) /\ ToSet(order) = Steps
  BY StepsAssumption
<1>2. Fresh(rows) \in Chain /\ Fresh(rows).step = rows /\ Fresh(rows).visited = {}
  BY DEF Fresh, Chain
<1>3. Dated(Fresh(rows))
  BY <1>2 DEF Dated
<1> DEFINE now == Visit(day, order)[Fresh(rows)][s]
<1>4. now \in Chain /\ Advanced(Fresh(rows), now) /\ s \in now.visited
  BY <1>1, <1>2, <1>3, VisitAdvances
<1>5. Recalculated(day, rows, s, order) = now.step
  BY DEF Recalculated, Fresh
<1> QED BY <1>2, <1>4, <1>5

-----------------------------------------------------------------------------
(* Rows outside of a recalculation.                                        *)

LEMMA PlannedNext ==
  ASSUME NEW d \in Int
  PROVE  NextWorkingDay(d) \in PlannedDay /\ NextWorkingDay(d) \in AnyDay /\ NextWorkingDay(d) # NoDay
BY NextWorking DEF PlannedDay, AnyDay, NoDay

LEMMA PlannedIsDay == PlannedDay \subseteq AnyDay /\ AnyDay \subseteq Int /\ PlannedDay \subseteq Int
BY DEF PlannedDay, AnyDay, Working, NoDay

StepRows == [Steps -> StepRow]

LEMMA FreshRows ==
  ASSUME NEW rows \in StepRows
  PROVE  Fresh(rows) \in Chain /\ Fresh(rows).step = rows /\ Fresh(rows).visited = {}
BY DEF Fresh, Chain, StepRows

-----------------------------------------------------------------------------
(* What a recalculation does, whatever the order of the rows.              *)

(* The open steps after s are those that follow s, or one of them.         *)
LEMMA OpenAfterClosed ==
  ASSUME NEW rows, NEW s \in Steps
  PROVE  /\ OpenAfter(rows, {s}) \in SUBSET Steps
         /\ \A t \in Steps, x \in {s} \union OpenAfter(rows, {s}) :
              Follows(rows, x, t) => t \in OpenAfter(rows, {s})
         /\ \A t \in OpenAfter(rows, {s}) :
              rows[t].done = NoDay /\ \E x \in {s} \union OpenAfter(rows, {s}) : x \in Preds[t]
<1> DEFINE after == OpenAfter(rows, {s})
           holds(some) == \A t \in Steps : rows[t].done = NoDay /\ Preds[t] \intersect ({s} \union some) # {}
                                           => t \in some
<1>1. after = {t \in Steps : \A some \in SUBSET Steps : holds(some) => t \in some}
  BY DEF OpenAfter
<1>2. ASSUME NEW t \in Steps, NEW x \in {s} \union after, Follows(rows, x, t)
      PROVE  t \in after
  <2> SUFFICES ASSUME NEW some \in SUBSET Steps, holds(some) PROVE t \in some
    BY <1>1
  <2>1. x \in {s} \union some
    BY <1>1, <1>2
  <2> QED BY <1>2, <2>1 DEF Follows
<1> DEFINE some == {t \in after : rows[t].done = NoDay /\ \E x \in {s} \union after : x \in Preds[t]}
<1>3. some \in SUBSET Steps /\ some \subseteq after
  BY <1>1
<1>4. holds(some)
  BY <1>2, <1>3 DEF Follows
<1>5. \A t \in after : t \in some
  <2> HIDE DEF some, holds
  <2> QED BY <1>1, <1>3, <1>4
<1> HIDE DEF after
<1> QED BY <1>1, <1>2, <1>5 DEF after

(* The first day on which t may begin, after all it waits for; and a row   *)
(* that is not to begin before a day.                                      *)
FirstDay(rows, t) == NextWorkingDay(Max({Finish(rows[p]) : p \in Preds[t]} \ {NoDay}))
Later(row, first) == [row EXCEPT !.earliest = first, !.start = IF @ < first THEN first ELSE @]

(* A row, but for the earliest day on which its step may begin.            *)
Dates(row) == [row EXCEPT !.earliest = NoDay]

LEMMA RescheduledLater ==
  ASSUME NEW rows \in StepRows, NEW t \in Steps, NEW day, rows[t].due # NoDay,
         \E p \in Preds[t] : Finish(rows[p]) # NoDay
  PROVE  FirstDay(rows, t) \in Nat /\ Rescheduled(day, rows, t) = Later(rows[t], FirstDay(rows, t))
<1> DEFINE all == {Finish(rows[p]) : p \in Preds[t]}
           ends == all \ {NoDay}
<1>1. all \in SUBSET AnyDay /\ IsFiniteSet(all)
  BY EndsOf, StepsAssumption DEF StepRows
<1>2. IsFiniteSet(ends) /\ ends # {}
  BY <1>1, FS_RemoveElement, Zenon
<1>3. ends \in SUBSET Int
  BY <1>1, PlannedIsDay
<1> HIDE DEF all
<1>4. Max(ends) \in Int
  BY <1>2, <1>3, MaxOfFinite
<1>5. FirstDay(rows, t) = NextWorkingDay(Max(ends))
  BY DEF FirstDay, all
<1>6. Rescheduled(day, rows, t) = WithDue(Later(rows[t], FirstDay(rows, t)))
  BY <1>2, <1>5 DEF Rescheduled, Later, all
<1>7. FirstDay(rows, t) \in Nat
  BY <1>4, <1>5, NextWorking
<1>8. WithDue(Later(rows[t], FirstDay(rows, t))) = Later(rows[t], FirstDay(rows, t))
  <2>1. Later(rows[t], FirstDay(rows, t)).due = rows[t].due
    BY DEF Later, StepRows, StepRow
  <2> QED BY <2>1 DEF WithDue
<1> QED BY <1>6, <1>7, <1>8

LEMMA SameRow ==
  ASSUME NEW row \in StepRow, NEW other \in StepRow,
         other.start = row.start, other.due = row.due, other.baseStart = row.baseStart,
         other.baseDue = row.baseDue, other.earliest = row.earliest,
         other.done = row.done, other.status = row.status
  PROVE  other = row
BY DEF StepRow

LEMMA LaterAgain ==
  ASSUME NEW row \in StepRow, NEW first \in Nat
  PROVE  /\ Later(Later(row, first), first) = Later(row, first)
         /\ \A other \in StepRow : Dates(other) = Dates(row) => Later(other, first) = Later(row, first)
<1>1. row.start \in Int
  BY PlannedIsDay DEF StepRow
<1>2. Later(Later(row, first), first) = Later(row, first)
  BY <1>1 DEF Later, StepRow
<1>3. ASSUME NEW other \in StepRow, Dates(other) = Dates(row) PROVE Later(other, first) = Later(row, first)
  <2>1. /\ other.start = row.start /\ other.due = row.due /\ other.baseStart = row.baseStart
        /\ other.baseDue = row.baseDue /\ other.done = row.done /\ other.status = row.status
    <3>1. /\ Dates(row).start = row.start /\ Dates(row).due = row.due /\ Dates(row).baseStart = row.baseStart
          /\ Dates(row).baseDue = row.baseDue /\ Dates(row).done = row.done /\ Dates(row).status = row.status
      BY DEF Dates, StepRow
    <3>2. /\ Dates(other).start = other.start /\ Dates(other).due = other.due
          /\ Dates(other).baseStart = other.baseStart
          /\ Dates(other).baseDue = other.baseDue /\ Dates(other).done = other.done
          /\ Dates(other).status = other.status
      BY DEF Dates, StepRow
    <3> QED BY <1>3, <3>1, <3>2
  <2>2. first \in AnyDay
    BY DEF AnyDay
  <2>3. Later(row, first) \in StepRow /\ Later(other, first) \in StepRow
    BY <2>2 DEF Later, StepRow
  <2>4. /\ Later(row, first).start = (IF row.start < first THEN first ELSE row.start)
        /\ Later(row, first).due = row.due /\ Later(row, first).baseStart = row.baseStart
        /\ Later(row, first).baseDue = row.baseDue /\ Later(row, first).earliest = first
        /\ Later(row, first).done = row.done /\ Later(row, first).status = row.status
    BY DEF Later, StepRow
  <2>5. /\ Later(other, first).start = (IF row.start < first THEN first ELSE row.start)
        /\ Later(other, first).due = row.due /\ Later(other, first).baseStart = row.baseStart
        /\ Later(other, first).baseDue = row.baseDue /\ Later(other, first).earliest = first
        /\ Later(other, first).done = row.done /\ Later(other, first).status = row.status
    BY <2>1 DEF Later, StepRow
  <2> HIDE DEF Later
  <2> QED BY <2>3, <2>4, <2>5, SameRow
<1> QED BY <1>2, <1>3

(* What a visit does to t is settled by the ends of those before it, and   *)
(* the row of t but for its earliest start; a second visit does nothing.   *)
LEMMA RescheduledReads ==
  ASSUME NEW rows \in StepRows, NEW other \in StepRows, NEW t \in Steps, NEW day,
         rows[t].due # NoDay, \E p \in Preds[t] : Finish(rows[p]) # NoDay,
         \A p \in Preds[t] : Finish(other[p]) = Finish(rows[p]),
         Dates(other[t]) = Dates(rows[t]) \/ other[t] = Rescheduled(day, rows, t)
  PROVE  Rescheduled(day, other, t) = Rescheduled(day, rows, t)
<1> DEFINE first == FirstDay(rows, t)
<1>1. first \in Nat /\ Rescheduled(day, rows, t) = Later(rows[t], first)
  BY RescheduledLater
<1>2. {Finish(other[p]) : p \in Preds[t]} = {Finish(rows[p]) : p \in Preds[t]}
  OBVIOUS
<1>3. FirstDay(other, t) = first
  BY <1>2 DEF FirstDay
<1> HIDE DEF first
<1>4. rows[t] \in StepRow /\ other[t] \in StepRow
  BY DEF StepRows
<1>5. Later(rows[t], first).due = rows[t].due /\ Dates(rows[t]).due = rows[t].due
      /\ Dates(other[t]).due = other[t].due
  BY <1>4 DEF Later, Dates, StepRow
<1>6. other[t].due # NoDay
  BY <1>1, <1>5
<1>7. Rescheduled(day, other, t) = Later(other[t], first)
  <2>1. \E p \in Preds[t] : Finish(other[p]) # NoDay
    OBVIOUS
  <2> QED BY <1>3, <1>6, <2>1, RescheduledLater
<1>8. CASE Dates(other[t]) = Dates(rows[t])
  BY <1>1, <1>4, <1>7, <1>8, LaterAgain
<1>9. CASE other[t] = Rescheduled(day, rows, t)
  BY <1>1, <1>4, <1>7, <1>9, LaterAgain
<1> QED BY <1>8, <1>9

(* The rows once every open step after s has been visited once, from the   *)
(* rows as they were; and what it takes for one visit to be enough: s has  *)
(* an end, and those after it have due dates.                              *)
Pulled(day, rows, s) ==
  [x \in Steps |-> IF x \in OpenAfter(rows, {s}) THEN Rescheduled(day, rows, x) ELSE rows[x]]
Datable(rows, s) == Finish(rows[s]) # NoDay /\ \A x \in OpenAfter(rows, {s}) : rows[x].due # NoDay

(* Some rows are still as they were, the others as they will be.           *)
Toward(rows, goal, now) == now \in StepRows /\ \A x \in Steps : now[x] = rows[x] \/ now[x] = goal[x]

LEMMA PulledRow ==
  ASSUME NEW rows \in StepRows, NEW s \in Steps, NEW day \in Nat, Datable(rows, s), NEW x \in Steps
  PROVE  /\ Pulled(day, rows, s) \in StepRows
         /\ Pulled(day, rows, s)[x].done = rows[x].done
         /\ Finish(Pulled(day, rows, s)[x]) = Finish(rows[x])
<1>1. ASSUME NEW y \in Steps
      PROVE  /\ Rescheduled(day, rows, y) \in StepRow
             /\ Rescheduled(day, rows, y).done = rows[y].done
             /\ rows[y].due # NoDay => Finish(Rescheduled(day, rows, y)) = Finish(rows[y])
  BY RescheduledRow DEF StepRows, Finish, OrElse
<1> QED BY <1>1 DEF Pulled, Datable, StepRows

LEMMA TowardReads ==
  ASSUME NEW rows \in StepRows, NEW s \in Steps, NEW day \in Nat, Datable(rows, s),
         NEW now, Toward(rows, Pulled(day, rows, s), now)
  PROVE  /\ \A x, t \in Steps : Follows(now, x, t) <=> Follows(rows, x, t)
         /\ \A t \in OpenAfter(rows, {s}) : Rescheduled(day, now, t) = Pulled(day, rows, s)[t]
<1> DEFINE goal == Pulled(day, rows, s)
<1>1. \A x \in Steps : goal[x].done = rows[x].done /\ Finish(goal[x]) = Finish(rows[x])
  BY PulledRow
<1>2. \A x \in Steps : now[x].done = rows[x].done /\ Finish(now[x]) = Finish(rows[x])
  BY <1>1 DEF Toward
<1>3. ASSUME NEW t \in OpenAfter(rows, {s}) PROVE Rescheduled(day, now, t) = goal[t]
  <2>1. t \in Steps /\ goal[t] = Rescheduled(day, rows, t)
    BY OpenAfterClosed DEF Pulled
  <2>2. PICK x \in {s} \union OpenAfter(rows, {s}) : x \in Preds[t]
    BY OpenAfterClosed
  <2>3. Finish(rows[x]) # NoDay
    <3>1. rows[x].due # NoDay => Finish(rows[x]) # NoDay
      BY DEF Finish, OrElse
    <3> QED BY <2>2, <3>1 DEF Datable
  <2>4. \A p \in Preds[t] : Finish(now[p]) = Finish(rows[p])
    BY <1>2, <2>1, StepsAssumption
  <2>5. Dates(now[t]) = Dates(rows[t]) \/ now[t] = Rescheduled(day, rows, t)
    BY <2>1 DEF Toward
  <2>6. now \in StepRows /\ rows[t].due # NoDay
    BY DEF Toward, Datable
  <2> HIDE DEF goal
  <2> QED BY <2>1, <2>2, <2>3, <2>4, <2>5, <2>6, RescheduledReads
<1> QED BY <1>2, <1>3 DEF Follows

(* What a part of a recalculation does on the way from rows to goal: what  *)
(* it visits has all that follows it where it will be.                     *)
Brought(rows, goal, was, now) ==
  /\ Toward(rows, goal, now.step)
  /\ \A x \in Steps : was.step[x] = goal[x] => now.step[x] = goal[x]
  /\ \A x \in now.visited \ was.visited, t \in Steps : Follows(rows, x, t) => now.step[t] = goal[t]

LEMMA BroughtOn ==
  ASSUME NEW rows, NEW goal, NEW was, NEW mid, NEW now,
         Brought(rows, goal, was, mid), Brought(rows, goal, mid, now)
  PROVE  Brought(rows, goal, was, now)
BY DEF Brought

Brings(below, day, rows, s) ==
  \A chain \in Chain, x \in {s} \union OpenAfter(rows, {s}) :
    Toward(rows, Pulled(day, rows, s), chain.step)
      => Brought(rows, Pulled(day, rows, s), chain, below[chain][x])

LEMMA VisitOneBrings ==
  ASSUME NEW rows \in StepRows, NEW s \in Steps, NEW day \in Nat, Datable(rows, s),
         NEW below \in Below, Brings(below, day, rows, s), NEW chain \in Chain,
         Toward(rows, Pulled(day, rows, s), chain.step),
         NEW x \in {s} \union OpenAfter(rows, {s}), NEW t \in Steps
  PROVE  LET now == VisitOne(day, below, chain, x, t)
         IN  /\ Brought(rows, Pulled(day, rows, s), chain, now)
             /\ Follows(rows, x, t) => now.step[t] = Pulled(day, rows, s)[t]
<1> DEFINE goal == Pulled(day, rows, s)
           now == VisitOne(day, below, chain, x, t)
           mid == Pushed(day, chain, t)
<1>0. x \in Steps
  BY OpenAfterClosed
<1>1. Follows(chain.step, x, t) <=> Follows(rows, x, t)
  BY <1>0, TowardReads
<1>2. CASE ~Follows(rows, x, t)
  <2>1. now = chain
    BY <1>1, <1>2 DEF VisitOne
  <2>2. Brought(rows, goal, chain, chain)
    BY DEF Brought
  <2> QED BY <1>2, <2>1, <2>2
<1>3. CASE Follows(rows, x, t)
  <2>1. t \in OpenAfter(rows, {s})
    BY <1>3, OpenAfterClosed
  <2>2. mid \in Chain /\ mid.step = [chain.step EXCEPT ![t] = goal[t]] /\ mid.visited = chain.visited
    BY <2>1, PushedChain, TowardReads
  <2>3. now = below[mid][t]
    BY <1>1, <1>3 DEF VisitOne
  <2> HIDE DEF mid, now, goal
  <2>4. chain.step \in StepRows /\ mid.step \in StepRows
    BY <2>2 DEF Chain, StepRows
  <2>5. mid.step[t] = goal[t] /\ \A y \in Steps \ {t} : mid.step[y] = chain.step[y]
    BY <2>2, <2>4 DEF StepRows
  <2>6. Toward(rows, goal, mid.step)
    BY <2>4, <2>5 DEF Toward, goal
  <2>7. Brought(rows, goal, chain, mid)
    BY <2>2, <2>5, <2>6 DEF Brought
  <2>8. Brought(rows, goal, mid, now)
    BY <2>1, <2>2, <2>3, <2>6 DEF Brings, goal
  <2>9. now.step[t] = goal[t]
    BY <2>5, <2>8 DEF Brought
  <2>10. Brought(rows, goal, chain, now)
    BY <2>7, <2>8, BroughtOn
  <2> QED BY <2>9, <2>10 DEF now, goal
<1> QED BY <1>2, <1>3

LEMMA VisitAllBrings ==
  ASSUME NEW rows \in StepRows, NEW s \in Steps, NEW day \in Nat, Datable(rows, s),
         NEW below \in Below, Brings(below, day, rows, s), NEW chain \in Chain,
         Toward(rows, Pulled(day, rows, s), chain.step),
         NEW x \in {s} \union OpenAfter(rows, {s}), NEW order \in Seq(Steps), ToSet(order) = Steps
  PROVE  Brought(rows, Pulled(day, rows, s), chain, VisitAll(day, below, chain, x, order))
<1> DEFINE goal == Pulled(day, rows, s)
           base == Marked(chain, x)
           N == Len(order)
<1>0. x \in Steps
  BY OpenAfterClosed
<1>1. base \in Chain /\ base.step = chain.step /\ base.visited = chain.visited \union {x}
  BY <1>0, MarkedChain
<1>2. PICK f \in [0..N -> Chain] :
        /\ f[0] = base
        /\ \A i \in 1..N : f[i] = VisitOne(day, below, f[i - 1], x, order[i])
        /\ VisitAll(day, below, chain, x, order) = f[N]
  BY <1>0, VisitAllRuns
<1> HIDE DEF base
<1>3. N \in Nat /\ \A i \in 1..N : order[i] \in Steps
  OBVIOUS
<1>4. ASSUME NEW c \in Chain, Toward(rows, goal, c.step), NEW t \in Steps
      PROVE  /\ Brought(rows, goal, c, VisitOne(day, below, c, x, t))
             /\ Follows(rows, x, t) => VisitOne(day, below, c, x, t).step[t] = goal[t]
  BY <1>4, VisitOneBrings
<1> DEFINE Reached(i) == \A j \in 1..i : Follows(rows, x, order[j]) => f[i].step[order[j]] = goal[order[j]]
           S == {i \in Nat : i <= N => Brought(rows, goal, base, f[i]) /\ Reached(i)}
<1> HIDE DEF goal
<1>5. 0 \in S
  BY <1>1, <1>2 DEF Brought, goal
<1>6. ASSUME NEW i \in Nat, i \in S PROVE i + 1 \in S
  <2> SUFFICES ASSUME i + 1 <= N PROVE Brought(rows, goal, base, f[i + 1]) /\ Reached(i + 1)
    OBVIOUS
  <2> DEFINE t == order[i + 1]
  <2>1. i \in 0..N /\ i + 1 \in 0..N /\ i + 1 \in 1..N /\ i <= N /\ (i + 1) - 1 = i
    BY <1>3
  <2>2. f[i] \in Chain /\ f[i + 1] \in Chain /\ t \in Steps
    BY <1>3, <2>1
  <2>3. Brought(rows, goal, base, f[i]) /\ Reached(i)
    BY <1>6, <2>1
  <2>4. f[i + 1] = VisitOne(day, below, f[i], x, t)
    BY <1>2, <2>1
  <2>5. Toward(rows, goal, f[i].step)
    BY <2>3 DEF Brought
  <2>6. Brought(rows, goal, f[i], f[i + 1]) /\ (Follows(rows, x, t) => f[i + 1].step[t] = goal[t])
    BY <1>4, <2>2, <2>4, <2>5
  <2>7. Brought(rows, goal, base, f[i + 1])
    BY <2>3, <2>6, BroughtOn
  <2>8. ASSUME NEW j \in 1..(i + 1), Follows(rows, x, order[j])
        PROVE  f[i + 1].step[order[j]] = goal[order[j]]
    <3>1. CASE j = i + 1
      BY <2>6, <2>8, <3>1
    <3>2. CASE j # i + 1
      <4>1. j \in 1..i /\ order[j] \in Steps
        BY <1>3, <2>1, <3>2
      <4>2. f[i].step[order[j]] = goal[order[j]]
        BY <2>3, <2>8, <4>1
      <4> QED BY <2>6, <4>1, <4>2 DEF Brought
    <3> QED BY <3>1, <3>2
  <2> QED BY <2>7, <2>8
<1> HIDE DEF S
<1>7. N \in S
  BY <1>3, <1>5, <1>6, SetInduction
<1>8. Brought(rows, goal, base, f[N]) /\ Reached(N)
  BY <1>3, <1>7 DEF S
<1>9. ASSUME NEW y \in f[N].visited \ chain.visited, NEW t \in Steps, Follows(rows, y, t)
      PROVE  f[N].step[t] = goal[t]
  <2>1. CASE y = x
    <3>1. PICK j \in 1..N : order[j] = t
      BY DEF ToSet
    <3> QED BY <1>8, <1>9, <2>1, <3>1
  <2>2. CASE y # x
    BY <1>1, <1>8, <1>9, <2>2 DEF Brought
  <2> QED BY <2>1, <2>2
<1>10. Brought(rows, goal, chain, f[N])
  BY <1>1, <1>8, <1>9 DEF Brought
<1> QED BY <1>2, <1>10 DEF goal

LEMMA VisitBrings ==
  ASSUME NEW rows \in StepRows, NEW s \in Steps, NEW day \in Nat, Datable(rows, s),
         NEW order \in Seq(Steps), ToSet(order) = Steps
  PROVE  Brings(Visit(day, order), day, rows, s)
<1> DEFINE N == Cardinality(Steps)
<1>1. PICK v \in [0..N -> Below] :
        /\ Visit(day, order) = v[N]
        /\ \A n \in 0..N, c \in Chain, x \in Steps :
             v[n][c][x] = IF n = 0 \/ x \in c.visited THEN c ELSE VisitAll(day, v[n - 1], c, x, order)
  BY VisitRecursion
<1>2. N \in Nat
  BY WorkAssumption, FS_CardinalityType
<1>3. ASSUME NEW chain, Toward(rows, Pulled(day, rows, s), chain.step)
      PROVE  Brought(rows, Pulled(day, rows, s), chain, chain)
  BY <1>3 DEF Brought
<1>4. {s} \union OpenAfter(rows, {s}) \subseteq Steps
  BY OpenAfterClosed
<1> DEFINE S == {n \in Nat : n <= N => Brings(v[n], day, rows, s)}
<1>5. 0 \in S
  <2>1. 0 \in 0..N
    BY <1>2
  <2>2. \A c \in Chain, x \in Steps : v[0][c][x] = c
    BY <1>1, <2>1
  <2>3. Brings(v[0], day, rows, s)
    <3> SUFFICES ASSUME NEW c \in Chain, NEW x \in {s} \union OpenAfter(rows, {s}),
                        Toward(rows, Pulled(day, rows, s), c.step)
                 PROVE  Brought(rows, Pulled(day, rows, s), c, v[0][c][x])
      BY DEF Brings
    <3>1. v[0][c][x] = c
      BY <1>4, <2>2
    <3> QED BY <1>3, <3>1
  <2> QED BY <2>3
<1>6. ASSUME NEW n \in Nat, n \in S PROVE n + 1 \in S
  <2> SUFFICES ASSUME n + 1 <= N PROVE Brings(v[n + 1], day, rows, s)
    OBVIOUS
  <2> SUFFICES ASSUME NEW c \in Chain, NEW x \in {s} \union OpenAfter(rows, {s}),
                      Toward(rows, Pulled(day, rows, s), c.step)
               PROVE  Brought(rows, Pulled(day, rows, s), c, v[n + 1][c][x])
    BY DEF Brings
  <2>1. n \in 0..N /\ n + 1 \in 0..N /\ (n + 1) - 1 = n /\ Brings(v[n], day, rows, s)
    BY <1>2, <1>6
  <2>2. v[n] \in Below /\ x \in Steps
    BY <1>4, <2>1
  <2>3. v[n + 1][c][x] = IF x \in c.visited THEN c ELSE VisitAll(day, v[n], c, x, order)
    BY <1>1, <2>1, <2>2
  <2>4. Brought(rows, Pulled(day, rows, s), c, VisitAll(day, v[n], c, x, order))
    BY <2>1, <2>2, VisitAllBrings
  <2> QED BY <1>3, <2>3, <2>4
<1> HIDE DEF S
<1>7. N \in S
  BY <1>2, <1>5, <1>6, SetInduction
<1> QED BY <1>1, <1>2, <1>7 DEF S

(* Where the steps after s have due dates, moving s takes each of them as  *)
(* far as the rows as they were ask for, whatever the order of the rows    *)
(* (_recalculate_successor_chain).                                         *)
LEMMA RecalculatedIsPulled ==
  ASSUME NEW rows \in StepRows, NEW s \in Steps, NEW day \in Nat, NEW order \in RowOrders,
         Datable(rows, s)
  PROVE  Recalculated(day, rows, s, order) = Pulled(day, rows, s)
<1> DEFINE goal == Pulled(day, rows, s)
           now == Visit(day, order)[Fresh(rows)][s]
           after == OpenAfter(rows, {s})
<1>1. order \in Seq(Steps) /\ ToSet(order) = Steps
  BY StepsAssumption
<1>2. Fresh(rows) \in Chain /\ Fresh(rows).step = rows /\ Fresh(rows).visited = {}
  BY FreshRows
<1>3. Dated(Fresh(rows)) /\ Finish(Fresh(rows).step[s]) # NoDay
  BY <1>2 DEF Dated, Datable
<1>4. now \in Chain /\ Advanced(Fresh(rows), now) /\ s \in now.visited
  BY <1>1, <1>2, <1>3, VisitAdvances
<1>5. Recalculated(day, rows, s, order) = now.step
  BY DEF Recalculated, Fresh
<1>6. Brought(rows, goal, Fresh(rows), now)
  <2>1. Toward(rows, goal, Fresh(rows).step)
    BY <1>2 DEF Toward
  <2> HIDE DEF goal
  <2> QED BY <1>1, <1>2, <2>1, VisitBrings DEF Brings, goal
<1>7. goal \in StepRows
  BY PulledRow
<1> HIDE DEF now, goal
<1> DEFINE some == {t \in Steps : t \in now.visited /\ now.step[t] = goal[t]}
<1>8. ASSUME NEW t \in Steps, rows[t].done = NoDay, Preds[t] \intersect ({s} \union some) # {}
      PROVE  t \in some
  <2>1. PICK x \in {s} \union some : x \in Preds[t]
    BY <1>8
  <2>2. x \in now.visited /\ x \in Steps /\ Follows(rows, x, t)
    BY <1>4, <1>8, <2>1 DEF Follows
  <2>3. Follows(now.step, x, t)
    BY <1>2, <1>4, <2>2, KeptFollows DEF Advanced
  <2>4. t \in now.visited
    BY <1>2, <1>4, <2>2, <2>3 DEF Advanced
  <2>5. now.step[t] = goal[t]
    BY <1>2, <1>6, <2>2 DEF Brought
  <2> QED BY <2>4, <2>5
<1>9. \A t \in after : t \in some
  <2>1. some \in SUBSET Steps
    OBVIOUS
  <2> HIDE DEF some
  <2> QED BY <1>8, <2>1 DEF OpenAfter
<1>10. ASSUME NEW x \in Steps PROVE now.step[x] = goal[x]
  <2>1. CASE x \in after
    BY <1>9, <2>1
  <2>2. CASE x \notin after
    <3>1. goal[x] = rows[x]
      BY <2>2 DEF goal, Pulled
    <3> QED BY <1>6, <3>1 DEF Brought, Toward
  <2> QED BY <2>1, <2>2
<1>11. now.step \in StepRows
  BY <1>6 DEF Brought, Toward
<1> QED BY <1>5, <1>7, <1>10, <1>11 DEF StepRows, goal

(* The order in which the rows come does not matter to a recalculation     *)
(* whose step has an end and whose open successors have due dates: each of *)
(* them ends up as far as those before it ask (_recalculate_successor_chain*)
(* of workflow_engine_service.py, whose query has no ORDER BY).            *)
THEOREM RowOrderDoesNotMatter ==
  ASSUME NEW rows \in StepRows, NEW s \in Steps, NEW day \in Nat,
         NEW order \in RowOrders, NEW again \in RowOrders, Datable(rows, s)
  PROVE  Recalculated(day, rows, s, order) = Recalculated(day, rows, s, again)
<1>1. Recalculated(day, rows, s, order) = Pulled(day, rows, s)
  BY RecalculatedIsPulled
<1>2. Recalculated(day, rows, s, again) = Pulled(day, rows, s)
  BY RecalculatedIsPulled
<1> QED BY <1>1, <1>2

-----------------------------------------------------------------------------
(* The steps a completion activates.                                       *)

(* Every step of a set has an end, and every open step after one of them   *)
(* is one of them and begins after all it waits for.                       *)
Covered(rows, some) ==
  \A x \in some : /\ Finish(rows[x]) # NoDay
                  /\ \A t \in Steps : Follows(rows, x, t) => t \in some /\ Settled(rows, t)

LEMMA CoveredOpenAfter ==
  ASSUME NEW rows, NEW some \in SUBSET Steps, Covered(rows, some), NEW from \in SUBSET some
  PROVE  \A t \in OpenAfter(rows, from) : Settled(rows, t)
<1> DEFINE done == {t \in some : Settled(rows, t)}
<1>1. done \in SUBSET Steps
  OBVIOUS
<1>2. \A t \in Steps : rows[t].done = NoDay /\ Preds[t] \intersect (from \union done) # {} => t \in done
  BY DEF Covered, Follows
<1> HIDE DEF done
<1>3. \A t \in OpenAfter(rows, from) : t \in done
  BY <1>1, <1>2 DEF OpenAfter
<1> QED BY <1>3 DEF done

(* The row a step that is activated gets before those after it move.       *)
Begun(rows, s, t) ==
  LET begin == NextWorkingDay(Max({rows[t].start, rows[s].done}))
  IN  WithDue([rows[t] EXCEPT !.start = begin, !.earliest = begin, !.status = "open"])

LEMMA BegunRow ==
  ASSUME NEW rows \in [Steps -> StepRow],
         NEW s \in Steps, NEW t \in Steps
  PROVE  /\ Begun(rows, s, t) \in StepRow
         /\ Begun(rows, s, t).due # NoDay
         /\ rows[t].due # NoDay => Begun(rows, s, t).due = rows[t].due
         /\ Begun(rows, s, t).start >= rows[t].start
         /\ Begun(rows, s, t).done = rows[t].done
<1> DEFINE last == Max({rows[t].start, rows[s].done})
           begin == NextWorkingDay(last)
           row == [rows[t] EXCEPT !.start = begin, !.earliest = begin, !.status = "open"]
<1>1. rows[t] \in StepRow /\ rows[t].start \in Int /\ rows[s].done \in Int
  <2>1. rows[t] \in StepRow /\ rows[s] \in StepRow
    OBVIOUS
  <2>2. rows[t].start \in AnyDay /\ rows[s].done \in AnyDay
    BY <2>1 DEF StepRow
  <2> QED BY <2>1, <2>2 DEF AnyDay, NoDay
<1>2. last \in Int /\ last >= rows[t].start
  BY <1>1, MaxOfTwo
<1> HIDE DEF last
<1>3. begin \in Working /\ begin \in Nat /\ begin >= last
  BY <1>2, NextWorking
<1>4. begin \in AnyDay
  BY <1>3 DEF AnyDay
<1>5. begin >= rows[t].start
  BY <1>1, <1>2, <1>3
<1>6. Begun(rows, s, t) = WithDue(row)
  BY DEF Begun, last
<1> HIDE DEF begin
<1>7. /\ row \in StepRow /\ row.start = begin /\ row.due = rows[t].due /\ row.done = rows[t].done
  BY <1>1, <1>4 DEF StepRow, Closing
<1> HIDE DEF row
<1> QED BY <1>5, <1>6, <1>7, WithDueRow

LEMMA ActivateCovers ==
  ASSUME NEW day \in Nat, NEW order \in RowOrders, NEW rows \in StepRows,
         NEW s \in Steps, NEW t \in Steps, NEW some \in SUBSET Steps, Covered(rows, some)
  PROVE  LET now == Activate(day, rows, s, t, order)
         IN  /\ now \in StepRows /\ Kept(rows, now)
             /\ \E more \in SUBSET Steps : /\ some \subseteq more /\ Covered(now, more)
                                           /\ Follows(rows, s, t) /\ Ready(rows, t) => t \in more
<1> DEFINE now == Activate(day, rows, s, t, order)
<1>0. \A x \in Steps : rows[x].start \in Int /\ rows[x] \in StepRow
  BY DEF StepRows, StepRow, AnyDay, NoDay
<1>1. CASE ~Follows(rows, s, t)
  <2>1. now = rows
    BY <1>1 DEF Activate
  <2> QED BY <1>0, <1>1, <2>1 DEF Kept
<1>2. CASE Follows(rows, s, t) /\ ~Ready(rows, t)
  <2> DEFINE row == [rows[t] EXCEPT !.status = "open"]
  <2>1. now = [rows EXCEPT ![t] = row]
    BY <1>2 DEF Activate, StepRows
  <2>2. /\ row.done = rows[t].done /\ row.start = rows[t].start /\ row.due = rows[t].due
        /\ row \in StepRow
    BY <1>0 DEF StepRow, Closing
  <2> HIDE DEF row, now
  <2>3. now \in StepRows
    BY <2>1, <2>2 DEF StepRows
  <2>4. \A x \in Steps : /\ now[x].done = rows[x].done /\ now[x].start = rows[x].start
                         /\ now[x].due = rows[x].due
    BY <2>1, <2>2 DEF StepRows
  <2>5. Kept(rows, now)
    BY <1>0, <2>4 DEF Kept
  <2>6. \A x \in Steps : Finish(now[x]) = Finish(rows[x])
    BY <2>4 DEF Finish
  <2>7. \A x \in Steps : Settled(rows, x) => Settled(now, x)
    BY <2>4, <2>6, StepsAssumption DEF Settled
  <2>8. Covered(now, some)
    BY <2>4, <2>6, <2>7 DEF Covered, Follows
  <2> QED BY <1>2, <2>3, <2>5, <2>8 DEF now
<1>3. CASE Follows(rows, s, t) /\ Ready(rows, t)
  <2> DEFINE row == Begun(rows, s, t)
             mid == [rows EXCEPT ![t] = row]
  <2>1. now = Recalculated(day, mid, t, order)
    BY <1>3 DEF Activate, Begun, StepRows
  <2>2. /\ row \in StepRow /\ row.due # NoDay /\ (rows[t].due # NoDay => row.due = rows[t].due)
        /\ row.start >= rows[t].start /\ row.done = rows[t].done
    BY BegunRow DEF StepRows
  <2> HIDE DEF row
  <2>3. mid \in StepRows /\ mid[t] = row /\ (\A x \in Steps \ {t} : mid[x] = rows[x])
    BY <2>2 DEF StepRows
  <2> HIDE DEF mid, now
  <2>4. Finish(mid[t]) # NoDay
    BY <2>2, <2>3 DEF Finish, OrElse
  <2>5. PICK r \in Chain : now = r.step /\ Advanced(Fresh(mid), r) /\ t \in r.visited
    BY <2>1, <2>3, <2>4, RecalculatedAdvances DEF StepRows
  <2>6. Fresh(mid).step = mid /\ Fresh(mid).visited = {} /\ Fresh(mid) \in Chain
        /\ Fresh(rows).step = rows /\ Fresh(rows).visited = {} /\ Fresh(rows) \in Chain
    BY <2>3, FreshRows
  <2>7. now \in StepRows /\ r.visited \in SUBSET Steps
    BY <2>5, ChainRows DEF StepRows, Chain
  <2>8. Kept(rows, now)
    <3>1. Kept(rows, mid)
      BY <1>0, <2>2, <2>3 DEF Kept
    <3>2. Kept(mid, now)
      BY <2>5, <2>6 DEF Advanced
    <3> QED BY <2>5, <2>6, <3>1, <3>2, KeptOn
  <2>9. \A x \in Steps : Finish(now[x]) # Finish(rows[x]) => x \in r.visited
    BY <2>3, <2>5, <2>6 DEF Advanced
  <2>10. \A x \in r.visited : /\ Finish(now[x]) # NoDay
                              /\ \A u \in Steps : Follows(now, x, u) => u \in r.visited /\ Settled(now, u)
    BY <2>5, <2>6 DEF Advanced
  <2>11. ASSUME NEW x \in some
         PROVE  /\ Finish(now[x]) # NoDay
                /\ \A u \in Steps : Follows(now, x, u) => u \in some /\ Settled(now, u)
    <3>1. Finish(now[x]) # NoDay
      BY <2>8, KeptFinish DEF Covered
    <3>2. ASSUME NEW u \in Steps, Follows(now, x, u) PROVE u \in some /\ Settled(now, u)
      <4>1. Follows(rows, x, u)
        BY <2>8, <3>2, KeptFollows
      <4>2. u \in some /\ Settled(rows, u) /\ rows[u].done = NoDay
        BY <4>1 DEF Covered, Follows
      <4>3. \A y \in Preds[u] : y \in Steps
        BY StepsAssumption
      <4>4. \A y \in Preds[u] : Finish(r.step[y]) # Finish(Fresh(rows).step[y]) =>
              y \in r.visited \ Fresh(rows).visited
        BY <2>5, <2>6, <2>9, <4>3
      <4>5. \A y \in r.visited \ Fresh(rows).visited : Follows(r.step, y, u) => Settled(r.step, u)
        BY <2>5, <2>10
      <4>6. Settled(r.step, u)
        BY <2>5, <2>6, <2>8, <4>2, <4>4, <4>5, SettledOn
      <4> QED BY <2>5, <4>2, <4>6
    <3> QED BY <3>1, <3>2
  <2>12. Covered(now, some \union r.visited)
    BY <2>10, <2>11 DEF Covered
  <2> QED BY <2>5, <2>7, <2>8, <2>12 DEF now
<1> QED BY <1>1, <1>2, <1>3

(* The fold over the rows, as the sequence of what it has reached.         *)
LEMMA ActivatedRuns ==
  ASSUME NEW day \in Nat, NEW order \in RowOrders, NEW rows \in StepRows, NEW s \in Steps
  PROVE  \E f \in [0..Len(order) -> StepRows] :
           /\ f[0] = rows
           /\ \A i \in 1..Len(order) : f[i] = Activate(day, f[i - 1], s, order[i], order)
           /\ Activated(day, rows, s, order) = f[Len(order)]
<1> DEFINE D == DOMAIN order
           Solves(iter) == iter = [d \in SUBSET D |-> IF d = {} THEN rows ELSE
                             Activate(day, iter[d \ {Max(d)}], s, order[Max(d)], order)]
           iter == CHOOSE it : Solves(it)
<1>1. Activated(day, rows, s, order) = iter[D]
  BY Zenon DEF Activated, FoldLeft, MapThenFoldSet
<1>2. D = 1..Len(order) /\ Len(order) \in Nat /\ \A i \in D : order[i] \in Steps
  <2>1. order \in Seq(Steps)
    BY StepsAssumption
  <2> QED BY <2>1
<1> DEFINE g == [i \in D |-> [r \in StepRows |-> Activate(day, r, s, order[i], order)]]
<1>3. ASSUME NEW i \in D, NEW r \in StepRows PROVE Activate(day, r, s, order[i], order) \in StepRows
  <2>1. Covered(r, {})
    BY DEF Covered
  <2> QED BY <1>2, <2>1, ActivateCovers
<1>4. g \in [D -> [StepRows -> StepRows]]
  BY <1>3
<1>5. \E it : Solves(it)
  <2>1. PICK it \in [SUBSET D -> StepRows] : Folds(it, rows, g, Len(order))
    BY <1>2, <1>4, FoldExists
  <2>2. ASSUME NEW d \in SUBSET D
        PROVE  it[d] = IF d = {} THEN rows ELSE
                         Activate(day, it[d \ {Max(d)}], s, order[Max(d)], order)
    <3>1. it[d] = IF d = {} THEN rows ELSE g[Max(d)][it[d \ {Max(d)}]]
      BY <1>2, <2>1 DEF Folds
    <3>2. d # {} => Max(d) \in D /\ it[d \ {Max(d)}] \in StepRows
      BY <1>2, <2>1, MaxOfIndices
    <3> QED BY <3>1, <3>2
  <2>3. Solves(it)
    BY <2>1, <2>2
  <2> HIDE DEF Solves
  <2> QED BY <2>3
<1>6. Solves(iter)
  <2> HIDE DEF Solves
  <2> QED BY <1>5
<1> HIDE DEF iter
<1>7. FoldsWithin(iter, StepRows, rows, g, Len(order))
  <2>1. ASSUME NEW d \in SUBSET D, d # {}, iter[d \ {Max(d)}] \in StepRows
        PROVE  iter[d] = g[Max(d)][iter[d \ {Max(d)}]]
    <3>1. Max(d) \in D
      BY <1>2, <2>1, MaxOfIndices
    <3>2. iter[d] = Activate(day, iter[d \ {Max(d)}], s, order[Max(d)], order)
      BY <1>6, <2>1
    <3> QED BY <2>1, <3>1, <3>2
  <2> QED BY <1>2, <1>6, <2>1 DEF FoldsWithin
<1> HIDE DEF Solves
<1>8. PICK f \in [0..Len(order) -> StepRows] :
        f[Len(order)] = iter[1..Len(order)] /\ Runs(f, rows, g, Len(order))
  <2> HIDE DEF g, D
  <2>1. g \in [1..Len(order) -> [StepRows -> StepRows]]
    BY <1>2, <1>4
  <2> QED BY <1>2, <1>7, <2>1, FoldRuns
<1>9. ASSUME NEW i \in 1..Len(order)
      PROVE  f[i] = Activate(day, f[i - 1], s, order[i], order)
  <2>1. i \in D /\ f[i - 1] \in StepRows
    BY <1>2
  <2> QED BY <1>8, <2>1 DEF Runs
<1> QED BY <1>1, <1>2, <1>8, <1>9 DEF Runs

LEMMA ReadyKept ==
  ASSUME NEW was, NEW now, Kept(was, now), NEW t \in Steps
  PROVE  Ready(now, t) <=> Ready(was, t)
BY StepsAssumption DEF Ready, Kept

(* Activation covers the steps it activates.                               *)
LEMMA ActivatedCovers ==
  ASSUME NEW day \in Nat, NEW order \in RowOrders, NEW rows \in StepRows, NEW s \in Steps
  PROVE  LET now == Activated(day, rows, s, order)
         IN  /\ now \in StepRows /\ Kept(rows, now)
             /\ \E some \in SUBSET Steps : /\ Covered(now, some)
                                           /\ \A t \in Steps : Follows(now, s, t) /\ Ready(now, t) => t \in some
<1> DEFINE N == Len(order)
<1>1. PICK f \in [0..N -> StepRows] :
        /\ f[0] = rows
        /\ \A i \in 1..N : f[i] = Activate(day, f[i - 1], s, order[i], order)
        /\ Activated(day, rows, s, order) = f[N]
  BY ActivatedRuns
<1>2. N \in Nat /\ (\A i \in 1..N : order[i] \in Steps) /\ \A t \in Steps : \E i \in 1..N : order[i] = t
  <2>1. order \in Seq(Steps) /\ ToSet(order) = Steps
    BY StepsAssumption
  <2> QED BY <2>1 DEF ToSet
<1> DEFINE Reached(i, some) == /\ Covered(f[i], some)
                               /\ \A j \in 1..i : Follows(rows, s, order[j]) /\ Ready(rows, order[j])
                                                    => order[j] \in some
           P(i) == /\ Kept(rows, f[i])
                   /\ \E some \in SUBSET Steps : Reached(i, some)
           S == {i \in Nat : i <= N => P(i)}
<1>3. P(0)
  <2>1. \A x \in Steps : rows[x].start \in Int
    BY DEF StepRows, StepRow, AnyDay, NoDay
  <2>2. Reached(0, {})
    BY DEF Covered
  <2> QED BY <1>1, <2>1, <2>2 DEF Kept
<1>4. ASSUME NEW i \in Nat, i + 1 <= N, P(i) PROVE P(i + 1)
  <2> DEFINE t == order[i + 1]
  <2>1. f[i] \in StepRows /\ f[i + 1] \in StepRows /\ t \in Steps
    <3>1. i \in 0..N /\ i + 1 \in 0..N /\ i + 1 \in 1..N
      BY <1>2, <1>4
    <3> QED BY <1>2, <3>1
  <2>2. f[i + 1] = Activate(day, f[i], s, t, order)
    <3>1. i + 1 \in 1..N /\ (i + 1) - 1 = i
      BY <1>2, <1>4
    <3> QED BY <1>1, <3>1
  <2>3. PICK some \in SUBSET Steps : Reached(i, some)
    BY <1>4
  <2>4. Kept(f[i], f[i + 1])
    BY <2>1, <2>2, <2>3, ActivateCovers
  <2>5. PICK more \in SUBSET Steps : /\ some \subseteq more /\ Covered(f[i + 1], more)
                                     /\ Follows(f[i], s, t) /\ Ready(f[i], t) => t \in more
    BY <2>1, <2>2, <2>3, ActivateCovers
  <2>6. Kept(rows, f[i + 1])
    BY <1>4, <2>1, <2>4, FreshRows, KeptOn
  <2>7. Follows(rows, s, t) /\ Ready(rows, t) => t \in more
    BY <1>4, <2>1, <2>5, KeptFollows, ReadyKept
  <2>8. Reached(i + 1, more)
    <3>1. ASSUME NEW j \in 1..(i + 1), Follows(rows, s, order[j]), Ready(rows, order[j])
          PROVE  order[j] \in more
      <4>1. CASE j = i + 1
        BY <2>7, <3>1, <4>1
      <4>2. CASE j # i + 1
        <5>1. j \in 1..i
          BY <4>2
        <5> QED BY <2>3, <2>5, <3>1, <5>1
      <4> QED BY <4>1, <4>2
    <3> QED BY <2>5, <3>1
  <2> HIDE DEF Reached
  <2> QED BY <2>6, <2>8
<1> HIDE DEF P
<1>5. 0 \in S /\ \A i \in Nat : i \in S => i + 1 \in S
  BY <1>2, <1>3, <1>4
<1> HIDE DEF S
<1>6. N \in S
  BY <1>2, <1>5, SetInduction
<1>7. P(N)
  BY <1>2, <1>6 DEF S
<1>8. PICK some \in SUBSET Steps : Reached(N, some)
  BY <1>7 DEF P
<1>9. Kept(rows, f[N])
  BY <1>7 DEF P
<1>10. ASSUME NEW t \in Steps, Follows(f[N], s, t), Ready(f[N], t) PROVE t \in some
  <2>1. Follows(rows, s, t) /\ Ready(rows, t)
    BY <1>9, <1>10, KeptFollows, ReadyKept
  <2> QED BY <1>2, <1>8, <2>1
<1>11. f[N] \in StepRows
  BY <1>2
<1> HIDE DEF N
<1> QED BY <1>1, <1>8, <1>9, <1>10, <1>11

-----------------------------------------------------------------------------
(* The dates a request sets.                                               *)

LEMMA MovedRow ==
  ASSUME NEW day \in Nat, NEW row \in StepRow, NEW due \in Nat
  PROVE  Moved(day, row, due) \in StepRow /\ Finish(Moved(day, row, due)) # NoDay
<1> DEFINE begin == OrElse(row.start, NextWorkingDay(day))
           new == NextWorkingDay(due)
<1>1. begin \in AnyDay /\ new \in AnyDay /\ new # NoDay
  BY PlannedNext DEF StepRow, OrElse
<1>2. Moved(day, row, due) = [row EXCEPT !.start = begin, !.due = new, !.earliest = OrElse(@, begin)]
  BY DEF Moved
<1> HIDE DEF begin, new
<1>3. OrElse(row.earliest, begin) \in AnyDay
  BY <1>1 DEF OrElse, StepRow
<1>4. Moved(day, row, due) \in StepRow
  BY <1>1, <1>2, <1>3 DEF StepRow
<1>5. Moved(day, row, due).due = new
  BY <1>2 DEF StepRow
<1> QED BY <1>1, <1>4, <1>5 DEF Finish, OrElse

(* Recalculation leaves no open step after s to begin before one it waits  *)
(* for ends.                                                               *)
LEMMA RecalculatedSettles ==
  ASSUME NEW day \in Nat, NEW order \in RowOrders, NEW rows \in StepRows,
         NEW s \in Steps, Finish(rows[s]) # NoDay
  PROVE  LET after == Recalculated(day, rows, s, order)
         IN  after \in StepRows /\ \A t \in OpenAfter(after, {s}) : Settled(after, t)
<1> DEFINE after == Recalculated(day, rows, s, order)
<1>1. PICK now \in Chain : /\ after = now.step /\ Fresh(rows) \in Chain
                           /\ Advanced(Fresh(rows), now) /\ s \in now.visited
  BY RecalculatedAdvances DEF StepRows
<1> HIDE DEF after
<1>2. Fresh(rows).step = rows /\ Fresh(rows).visited = {}
  BY FreshRows
<1>3. after \in StepRows
  BY <1>1 DEF Chain, StepRows
<1>4. Covered(after, now.visited)
  BY <1>1, <1>2 DEF Advanced, Covered
<1>5. now.visited \in SUBSET Steps /\ {s} \in SUBSET now.visited
  BY <1>1, ChainRows DEF Chain
<1> QED BY <1>3, <1>4, <1>5, CoveredOpenAfter DEF after

LEMMA CompletedRow ==
  ASSUME NEW day \in Nat, NEW row \in StepRow
  PROVE  [row EXCEPT !.done = day, !.status = "done"] \in StepRow
BY DEF StepRow, AnyDay, Closing

(* A completion leaves no open step that it activates, nor one after       *)
(* those, to begin before one it waits for ends.                           *)
LEMMA CompletedSettles ==
  ASSUME today \in Nat, step \in StepRows, NEW order \in RowOrders,
         NEW s \in Steps, NEW row \in StepRow
  PROVE  LET after == CompletedFrom(row, s, order)
             activated == {t \in Steps : s \in Preds[t] /\ after[t].done = NoDay /\ Ready(after, t)}
         IN  after \in StepRows /\ \A t \in OpenAfter(after, activated) : Settled(after, t)
<1> DEFINE mid == [step EXCEPT ![s] = [row EXCEPT !.done = today, !.status = "done"]]
           after == CompletedFrom(row, s, order)
           activated == {t \in Steps : s \in Preds[t] /\ after[t].done = NoDay /\ Ready(after, t)}
<1>1. mid \in StepRows
  BY CompletedRow DEF StepRows
<1>2. after = Activated(today, mid, s, order)
  BY DEF CompletedFrom
<1> HIDE DEF mid, after
<1>3. after \in StepRows
  BY <1>1, <1>2, ActivatedCovers
<1>4. PICK some \in SUBSET Steps : /\ Covered(after, some)
                                   /\ \A t \in Steps : Follows(after, s, t) /\ Ready(after, t) => t \in some
  BY <1>1, <1>2, ActivatedCovers
<1>5. activated \in SUBSET some
  BY <1>4 DEF Follows
<1> HIDE DEF activated
<1>6. \A t \in OpenAfter(after, activated) : Settled(after, t)
  BY <1>4, <1>5, CoveredOpenAfter
<1> QED BY <1>3, <1>6 DEF after, activated

LEMMA SettledChain ==
  ASSUME TypeOK PROVE ChainIsSettled
<1>1. today \in Nat /\ step \in StepRows
  BY BoundAssumption DEF TypeOK, Days, StepRows
<1> SUFFICES ASSUME NEW s \in Steps, NEW order \in RowOrders
             PROVE  /\ \A day \in RequestDays :
                         LET after == Recalculated(today, [step EXCEPT ![s] = Moved(today, @, day)], s, order)
                         IN  \A t \in OpenAfter(after, {s}) : Settled(after, t)
                    /\ LET after == CompletedFrom(step[s], s, order)
                           activated == {t \in Steps : s \in Preds[t] /\ after[t].done = NoDay /\ Ready(after, t)}
                       IN  \A t \in OpenAfter(after, activated) : Settled(after, t)
  BY DEF ChainIsSettled
<1>2. ASSUME NEW day \in RequestDays
      PROVE  LET after == Recalculated(today, [step EXCEPT ![s] = Moved(today, @, day)], s, order)
             IN  \A t \in OpenAfter(after, {s}) : Settled(after, t)
  <2> DEFINE mid == [step EXCEPT ![s] = Moved(today, step[s], day)]
  <2>1. day \in Nat
    BY RequestAssumption
  <2>2. Moved(today, step[s], day) \in StepRow /\ Finish(Moved(today, step[s], day)) # NoDay
    BY <1>1, <2>1, MovedRow DEF StepRows
  <2>3. mid \in StepRows /\ Finish(mid[s]) # NoDay
    BY <1>1, <2>2 DEF StepRows
  <2> HIDE DEF mid
  <2>4. \A t \in OpenAfter(Recalculated(today, mid, s, order), {s}) : Settled(Recalculated(today, mid, s, order), t)
    BY <1>1, <2>3, RecalculatedSettles
  <2> QED BY <2>4 DEF mid
<1>3. step[s] \in StepRow
  BY <1>1 DEF StepRows
<1> QED BY <1>1, <1>2, <1>3, CompletedSettles

LEMMA EarliestPlanned ==
  ASSUME NEW days \in SUBSET AnyDay
  PROVE  Earliest(days) \in AnyDay
<1>1. CASE days \subseteq {NoDay}
  BY <1>1 DEF Earliest, AnyDay
<1>2. CASE ~(days \subseteq {NoDay})
  <2>1. days \ {NoDay} \in SUBSET Nat /\ days \ {NoDay} # {}
    BY <1>2 DEF AnyDay
  <2>2. Min(days \ {NoDay}) \in days \ {NoDay}
    BY <2>1, MinOfNaturals
  <2> QED BY <1>2, <2>2 DEF Earliest
<1> QED BY <1>1, <1>2

LEMMA LatestPlanned ==
  ASSUME NEW days \in SUBSET AnyDay, IsFiniteSet(days)
  PROVE  Latest(days) \in AnyDay
<1>1. CASE days \subseteq {NoDay}
  BY <1>1 DEF Latest, AnyDay
<1>2. CASE ~(days \subseteq {NoDay})
  <2>1. days \in SUBSET Int /\ days # {}
    BY <1>2 DEF AnyDay, NoDay
  <2>2. Max(days) \in days
    BY <2>1, MaxOfFinite
  <2> QED BY <1>2, <2>2 DEF Latest
<1> QED BY <1>1, <1>2

LEMMA SomeSteps == ASSUME NEW some \in SUBSET Steps PROVE IsFiniteSet(some)
BY WorkAssumption, FS_Subset

-----------------------------------------------------------------------------
(* The repair leaves rows that plan days.                                  *)

LEMMA AnchorPlanned ==
  ASSUME NEW row \in CampaignRow, NEW stones \in [Milestones -> MilestoneRow], NEW s \in Steps
  PROVE  Anchor(row, stones, s) \in AnyDay
<1> DEFINE known == {i \in 1..Len(AnchorsOf[s]) : stones[AnchorsOf[s][i]].due # NoDay}
           first == SelectInSeq(AnchorsOf[s], LAMBDA m : stones[m].due # NoDay)
<1>1. first = IF known # {} THEN Min(known) ELSE 0
  BY Zenon DEF SelectInSeq
<1>2. AnchorsOf[s] \in Seq(Milestones)
  BY TemplateAssumption
<1>3. first # 0 => first \in 1..Len(AnchorsOf[s])
  <2> SUFFICES ASSUME first # 0 PROVE first \in 1..Len(AnchorsOf[s])
    OBVIOUS
  <2>1. known # {} /\ first = Min(known)
    BY <1>1
  <2>2. known \in SUBSET Nat
    OBVIOUS
  <2>3. Min(known) \in known
    BY <2>1, <2>2, MinOfNaturals
  <2> QED BY <2>1, <2>3
<1> HIDE DEF first
<1>4. first # 0 => stones[AnchorsOf[s][first]].due \in AnyDay
  <2> SUFFICES ASSUME first # 0 PROVE stones[AnchorsOf[s][first]].due \in AnyDay
    OBVIOUS
  <2>1. AnchorsOf[s][first] \in Milestones
    BY <1>2, <1>3
  <2> QED BY <2>1, PlannedIsDay DEF MilestoneRow
<1>5. row.end \in AnyDay /\ row.start \in AnyDay /\ CreatedOn \in AnyDay /\ NoDay \in AnyDay
  BY TemplateAssumption DEF CampaignRow, AnyDay
<1> QED BY <1>4, <1>5 DEF Anchor, OrElse, first

LEMMA WindowRow ==
  ASSUME NEW row \in StepRow, NEW begin \in AnyDay, NEW due \in AnyDay
  PROVE  Window(row, begin, due) \in StepRow /\ Window(row, begin, due).due = due
BY DEF Window, StepRow

LEMMA DuesFinite ==
  ASSUME NEW rows \in StepRows, NEW some \in SUBSET Steps
  PROVE  LET dues == {rows[p].due : p \in some}
         IN  dues \in SUBSET AnyDay /\ IsFiniteSet(dues)
<1> DEFINE f == [p \in some |-> rows[p].due]
<1>1. IsFiniteSet({f[p] : p \in some})
  <2>1. DOMAIN f = some /\ f = [p \in some |-> f[p]]
    OBVIOUS
  <2> HIDE DEF f
  <2> QED BY <2>1, SomeSteps, FiniteImage
<1>2. {f[p] : p \in some} = {rows[p].due : p \in some}
  OBVIOUS
<1>3. \A p \in some : rows[p].due \in AnyDay
  BY DEF StepRows, StepRow
<1> QED BY <1>1, <1>2, <1>3

LEMMA RetimedStepPlanned ==
  ASSUME NEW row \in CampaignRow, NEW stones \in [Milestones -> MilestoneRow],
         NEW rows \in StepRows, NEW s \in Steps
  PROVE  RetimedStep(row, stones, rows, s) \in StepRows
<1> DEFINE last == Latest({rows[p].due : p \in Needs[s]})
           begin == OrElse(last, Anchor(row, stones, s))
           due == AddWorkingDays(begin, Lasting[s])
<1>1. Needs[s] \in SUBSET Steps /\ Lasting[s] \in Nat /\ Lasting[s] > 0
  BY TemplateAssumption, StepsAssumption
<1>2. last \in AnyDay
  <2> DEFINE dues == {rows[p].due : p \in Needs[s]}
  <2>1. dues \in SUBSET AnyDay /\ IsFiniteSet(dues)
    BY <1>1, DuesFinite
  <2> HIDE DEF dues
  <2>2. Latest(dues) \in AnyDay
    BY <2>1, LatestPlanned
  <2> QED BY <2>2 DEF dues
<1>3. begin \in AnyDay
  BY <1>2, AnchorPlanned DEF OrElse
<1> HIDE DEF begin
<1>4. due \in AnyDay
  <2>1. due \in Working
    BY <1>1, <1>3, PlannedIsDay, AddedDays
  <2> QED BY <2>1 DEF AnyDay, Working
<1>5. RetimedStep(row, stones, rows, s) = [rows EXCEPT ![s] = Window(rows[s], begin, due)]
  BY DEF RetimedStep, begin, StepRows
<1> HIDE DEF due
<1>6. Window(rows[s], begin, due) \in StepRow
  BY <1>3, <1>4, WindowRow DEF StepRows
<1> QED BY <1>5, <1>6 DEF StepRows

(* The fold over the template, as the sequence of what it has reached.     *)
LEMMA RetimedRuns ==
  ASSUME NEW row \in CampaignRow, NEW stones \in [Milestones -> MilestoneRow], NEW rows \in StepRows
  PROVE  \E f \in [0..Len(Templated) -> StepRows] :
           /\ f[0] = rows
           /\ \A i \in 1..Len(Templated) : f[i] = RetimedStep(row, stones, f[i - 1], Templated[i])
           /\ Retimed(row, stones, rows) = f[Len(Templated)]
<1>0. rows \in StepRows
  OBVIOUS
<1> DEFINE D == DOMAIN Templated
           Solves(iter) == iter = [d \in SUBSET D |-> IF d = {} THEN rows ELSE
                             RetimedStep(row, stones, iter[d \ {Max(d)}], Templated[Max(d)])]
           iter == CHOOSE it : Solves(it)
<1>1. Retimed(row, stones, rows) = iter[D]
  BY Zenon DEF Retimed, FoldLeft, MapThenFoldSet
<1>2. D = 1..Len(Templated) /\ Len(Templated) \in Nat
  BY TemplateAssumption
<1>3. ASSUME NEW i \in D, NEW r \in StepRows PROVE RetimedStep(row, stones, r, Templated[i]) \in StepRows
  <2>1. Templated[i] \in Steps
    BY TemplateAssumption
  <2> QED BY <2>1, RetimedStepPlanned
<1> DEFINE g == [i \in D |-> [r \in StepRows |-> RetimedStep(row, stones, r, Templated[i])]]
<1>4. g \in [D -> [StepRows -> StepRows]]
  BY <1>3
<1>5. \E it : Solves(it)
  <2>1. PICK it \in [SUBSET D -> StepRows] : Folds(it, rows, g, Len(Templated))
    <3> HIDE DEF D, g
    <3> QED BY <1>0, <1>2, <1>4, FoldExists
  <2>2. ASSUME NEW d \in SUBSET D
        PROVE  it[d] = IF d = {} THEN rows ELSE RetimedStep(row, stones, it[d \ {Max(d)}], Templated[Max(d)])
    <3>1. it[d] = IF d = {} THEN rows ELSE g[Max(d)][it[d \ {Max(d)}]]
      BY <1>2, <2>1 DEF Folds
    <3>2. d # {} => Max(d) \in D /\ it[d \ {Max(d)}] \in StepRows
      BY <1>2, <2>1, MaxOfIndices
    <3> QED BY <3>1, <3>2
  <2>3. Solves(it)
    BY <2>1, <2>2
  <2> HIDE DEF Solves
  <2> QED BY <2>3
<1>6. Solves(iter)
  <2> HIDE DEF Solves
  <2> QED BY <1>5
<1> HIDE DEF iter
<1>7. FoldsWithin(iter, StepRows, rows, g, Len(Templated))
  <2>1. ASSUME NEW d \in SUBSET D, d # {}, iter[d \ {Max(d)}] \in StepRows
        PROVE  iter[d] = g[Max(d)][iter[d \ {Max(d)}]]
    <3>1. Max(d) \in D
      BY <1>2, <2>1, MaxOfIndices
    <3>2. iter[d] = RetimedStep(row, stones, iter[d \ {Max(d)}], Templated[Max(d)])
      BY <1>6, <2>1
    <3> QED BY <2>1, <3>1, <3>2
  <2> QED BY <1>2, <1>6, <2>1 DEF FoldsWithin
<1> HIDE DEF Solves
<1>8. PICK f \in [0..Len(Templated) -> StepRows] :
        f[Len(Templated)] = iter[1..Len(Templated)] /\ Runs(f, rows, g, Len(Templated))
  <2> HIDE DEF g, D
  <2>1. g \in [1..Len(Templated) -> [StepRows -> StepRows]]
    BY <1>2, <1>4
  <2> QED BY <1>0, <1>2, <1>7, <2>1, FoldRuns
<1>9. ASSUME NEW i \in 1..Len(Templated)
      PROVE  f[i] = RetimedStep(row, stones, f[i - 1], Templated[i])
  <2>1. i \in D /\ f[i - 1] \in StepRows
    BY <1>2
  <2> QED BY <1>8, <2>1 DEF Runs
<1> QED BY <1>1, <1>2, <1>8, <1>9 DEF Runs

LEMMA RetimedPlanned ==
  ASSUME NEW row \in CampaignRow, NEW stones \in [Milestones -> MilestoneRow], NEW rows \in StepRows
  PROVE  Retimed(row, stones, rows) \in StepRows
<1>1. PICK f \in [0..Len(Templated) -> StepRows] : Retimed(row, stones, rows) = f[Len(Templated)]
  BY RetimedRuns
<1>2. Len(Templated) \in 0..Len(Templated)
  BY TemplateAssumption
<1> QED BY <1>1, <1>2

(* A step times itself, by the due dates of those it needs and nothing     *)
(* else.                                                                   *)
LEMMA RetimedStepLeaves ==
  ASSUME NEW row, NEW stones, NEW rows \in StepRows, NEW s \in Steps, NEW x \in Steps \ {s}
  PROVE  RetimedStep(row, stones, rows, s)[x] = rows[x]
BY DEF RetimedStep, StepRows

LEMMA RetimedStepReads ==
  ASSUME NEW row, NEW stones, NEW rows \in StepRows, NEW other \in StepRows, NEW s \in Steps,
         \A p \in Needs[s] : other[p].due = rows[p].due
  PROVE  other[s] = RetimedStep(row, stones, rows, s)[s] => RetimedStep(row, stones, other, s) = other
<1> DEFINE begin == OrElse(Latest({rows[p].due : p \in Needs[s]}), Anchor(row, stones, s))
           due == AddWorkingDays(begin, Lasting[s])
<1>1. {other[p].due : p \in Needs[s]} = {rows[p].due : p \in Needs[s]}
  OBVIOUS
<1>2. RetimedStep(row, stones, rows, s) = [rows EXCEPT ![s] = Window(rows[s], begin, due)]
  BY DEF RetimedStep, StepRows
<1>3. RetimedStep(row, stones, other, s) = [other EXCEPT ![s] = Window(other[s], begin, due)]
  BY <1>1 DEF RetimedStep, StepRows
<1> HIDE DEF begin, due
<1>4. rows[s] \in StepRow /\ other[s] \in StepRow
  BY DEF StepRows
<1>5. Window(Window(rows[s], begin, due), begin, due) = Window(rows[s], begin, due)
  BY <1>4 DEF Window, StepRow
<1> HIDE DEF Window
<1>6. other[s] = Window(rows[s], begin, due) => [other EXCEPT ![s] = Window(other[s], begin, due)] = other
  BY <1>5 DEF StepRows
<1> QED BY <1>2, <1>3, <1>6 DEF StepRows

(* A template in order is timed once: each step of it is where timing it  *)
(* again would put it.                                                     *)
LEMMA RetimedFixed ==
  ASSUME TemplateInOrder, NEW row \in CampaignRow, NEW stones \in [Milestones -> MilestoneRow],
         NEW rows \in StepRows
  PROVE  \A i \in 1..Len(Templated) :
           RetimedStep(row, stones, Retimed(row, stones, rows), Templated[i]) = Retimed(row, stones, rows)
<1> DEFINE N == Len(Templated)
<1>1. N \in Nat /\ \A i \in 1..N : Templated[i] \in Steps
  BY TemplateAssumption
<1>2. PICK f \in [0..N -> StepRows] :
        /\ \A i \in 1..N : f[i] = RetimedStep(row, stones, f[i - 1], Templated[i])
        /\ Retimed(row, stones, rows) = f[N]
  BY RetimedRuns
<1>3. f[N] \in StepRows
  BY <1>1
(* What is not timed after i is as i left it.                              *)
<1> DEFINE Left(i, k) == \A x \in Steps : (\A j \in (i + 1)..k : x # Templated[j]) => f[k][x] = f[i][x]
<1>4. ASSUME NEW i \in 0..N PROVE Left(i, N)
  <2> DEFINE S == {k \in Nat : i <= k /\ k <= N => Left(i, k)}
  <2>1. 0 \in S
    BY <1>4
  <2>2. ASSUME NEW k \in Nat, k \in S PROVE k + 1 \in S
    <3> SUFFICES ASSUME i <= k + 1, k + 1 <= N PROVE Left(i, k + 1)
      OBVIOUS
    <3>1. CASE i = k + 1
      BY <3>1
    <3>2. CASE i # k + 1
      <4>1. i <= k /\ k \in 0..N /\ k + 1 \in 1..N /\ (k + 1) - 1 = k
        BY <1>1, <1>4, <3>2
      <4> SUFFICES ASSUME NEW x \in Steps, \A j \in (i + 1)..(k + 1) : x # Templated[j]
                   PROVE  f[k + 1][x] = f[i][x]
        OBVIOUS
      <4>2. k + 1 \in (i + 1)..(k + 1) /\ (i + 1)..k \subseteq (i + 1)..(k + 1)
        BY <1>4, <4>1
      <4>3. f[k][x] = f[i][x]
        BY <2>2, <4>1, <4>2
      <4>4. f[k + 1] = RetimedStep(row, stones, f[k], Templated[k + 1]) /\ f[k] \in StepRows
        BY <1>2, <4>1
      <4>5. x # Templated[k + 1] /\ Templated[k + 1] \in Steps
        BY <1>1, <4>1, <4>2
      <4>6. f[k + 1][x] = f[k][x]
        BY <4>4, <4>5, RetimedStepLeaves
      <4> QED BY <4>3, <4>6
    <3> QED BY <3>1, <3>2
  <2> HIDE DEF S
  <2>3. N \in S
    BY <1>1, <2>1, <2>2, SetInduction
  <2> QED BY <1>1, <1>4, <2>3 DEF S
<1>5. ASSUME NEW i \in 1..N PROVE RetimedStep(row, stones, f[N], Templated[i]) = f[N]
  <2> DEFINE s == Templated[i]
  <2>1. i - 1 \in 0..N /\ i \in 0..N /\ s \in Steps /\ f[i - 1] \in StepRows
    BY <1>1
  <2>2. f[i] = RetimedStep(row, stones, f[i - 1], s)
    BY <1>2
  <2>3. f[N][s] = f[i][s]
    <3>1. \A j \in (i + 1)..N : j \in 1..N /\ i <= j /\ i # j
      BY <1>1
    <3>2. \A j \in (i + 1)..N : s # Templated[j]
      BY <3>1 DEF TemplateInOrder
    <3> QED BY <1>4, <2>1, <3>2
  <2>4. ASSUME NEW p \in Needs[s] PROVE f[N][p] = f[i - 1][p]
    <3>1. \A j \in ((i - 1) + 1)..N : j \in 1..N /\ i <= j
      BY <1>1
    <3>2. \A j \in ((i - 1) + 1)..N : p # Templated[j]
      BY <2>4, <3>1 DEF TemplateInOrder
    <3>3. p \in Steps
      BY <2>1, TemplateAssumption, StepsAssumption
    <3> QED BY <1>4, <2>1, <3>2, <3>3
  <2> HIDE DEF s
  <2> QED BY <1>3, <2>1, <2>2, <2>3, <2>4, RetimedStepReads DEF s
<1> QED BY <1>2, <1>5


LEMMA PlacedPlanned ==
  ASSUME NEW day \in Nat, NEW rows \in StepRows, NEW s \in Steps, NEW begin \in AnyDay,
         NEW order \in RowOrders
  PROVE  Placed(day, rows, s, begin, order) \in StepRows
<1> DEFINE due == NextWorkingDay(AddWorkingDays(begin, 1))
           row == Window(rows[s], begin, due)
           mid == [rows EXCEPT ![s] = row]
<1>1. due \in AnyDay /\ due # NoDay
  <2>1. begin \in Int
    BY PlannedIsDay
  <2> QED BY <2>1, AddedDays, PlannedNext
<1> HIDE DEF due
<1>2. row \in StepRow /\ row.due = due
  BY <1>1, WindowRow DEF StepRows
<1>3. Placed(day, rows, s, begin, order) = IF row = rows[s] THEN rows ELSE Recalculated(day, mid, s, order)
  BY DEF Placed, OnDay, due
<1> HIDE DEF row
<1>4. mid \in StepRows /\ mid[s] = row
  BY <1>2 DEF StepRows
<1>5. Finish(mid[s]) # NoDay
  BY <1>1, <1>2, <1>4 DEF Finish, OrElse
<1> HIDE DEF mid
<1>6. Recalculated(day, mid, s, order) \in StepRows
  BY <1>4, <1>5, RecalculatedSettles
<1> QED BY <1>3, <1>6 DEF StepRows

PromotedOne(day, was, rows, t, s, order) ==
  IF was[t].done # NoDay THEN rows ELSE Placed(day, rows, t, NextWorkingDay(was[s].due), order)

(* The fold over the promotions of s, as the sequence of what it reached.  *)
Promotes(f, day, rows, s, order) ==
  /\ f \in [0..Len(Socials[s]) -> StepRows]
  /\ f[0] = rows
  /\ \A i \in 1..Len(Socials[s]) : f[i] = PromotedOne(day, rows, f[i - 1], Socials[s][i], s, order)
  /\ Promoted(day, rows, s, order) = f[Len(Socials[s])]

LEMMA PromotedRuns ==
  ASSUME NEW day \in Nat, NEW rows \in StepRows, NEW s \in Steps, NEW order \in RowOrders
  PROVE  \E f : Promotes(f, day, rows, s, order)
<1>0. rows \in StepRows
  OBVIOUS
<1> DEFINE D == DOMAIN Socials[s]
           Solves(iter) == iter = [d \in SUBSET D |-> IF d = {} THEN rows ELSE
                             PromotedOne(day, rows, iter[d \ {Max(d)}], Socials[s][Max(d)], s, order)]
           iter == CHOOSE it : Solves(it)
<1>1. Promoted(day, rows, s, order) = iter[D]
  BY Zenon DEF Promoted, PromotedOne, FoldLeft, MapThenFoldSet
<1>2. D = 1..Len(Socials[s]) /\ Len(Socials[s]) \in Nat
  BY TemplateAssumption
<1>3. ASSUME NEW i \in D, NEW r \in StepRows PROVE PromotedOne(day, rows, r, Socials[s][i], s, order) \in StepRows
  <2>1. Socials[s][i] \in Steps
    BY TemplateAssumption
  <2>2. rows[s].due \in Int
    BY PlannedIsDay DEF StepRows, StepRow
  <2> QED BY <2>1, <2>2, PlannedNext, PlacedPlanned DEF PromotedOne
<1> DEFINE g == [i \in D |-> [r \in StepRows |-> PromotedOne(day, rows, r, Socials[s][i], s, order)]]
<1>4. g \in [D -> [StepRows -> StepRows]]
  BY <1>3
<1>5. \E it : Solves(it)
  <2>1. PICK it \in [SUBSET D -> StepRows] : Folds(it, rows, g, Len(Socials[s]))
    <3> HIDE DEF D, g
    <3> QED BY <1>0, <1>2, <1>4, FoldExists
  <2>2. ASSUME NEW d \in SUBSET D
        PROVE  it[d] = IF d = {} THEN rows ELSE PromotedOne(day, rows, it[d \ {Max(d)}], Socials[s][Max(d)], s, order)
    <3>1. it[d] = IF d = {} THEN rows ELSE g[Max(d)][it[d \ {Max(d)}]]
      BY <1>2, <2>1 DEF Folds
    <3>2. d # {} => Max(d) \in D /\ it[d \ {Max(d)}] \in StepRows
      BY <1>2, <2>1, MaxOfIndices
    <3> QED BY <3>1, <3>2
  <2>3. Solves(it)
    BY <2>1, <2>2
  <2> HIDE DEF Solves
  <2> QED BY <2>3
<1>6. Solves(iter)
  <2> HIDE DEF Solves
  <2> QED BY <1>5
<1> HIDE DEF iter
<1>7. FoldsWithin(iter, StepRows, rows, g, Len(Socials[s]))
  <2>1. ASSUME NEW d \in SUBSET D, d # {}, iter[d \ {Max(d)}] \in StepRows
        PROVE  iter[d] = g[Max(d)][iter[d \ {Max(d)}]]
    <3>1. Max(d) \in D
      BY <1>2, <2>1, MaxOfIndices
    <3>2. iter[d] = PromotedOne(day, rows, iter[d \ {Max(d)}], Socials[s][Max(d)], s, order)
      BY <1>6, <2>1
    <3> QED BY <2>1, <3>1, <3>2
  <2> QED BY <1>2, <1>6, <2>1 DEF FoldsWithin
<1> HIDE DEF Solves
<1>8. PICK f \in [0..Len(Socials[s]) -> StepRows] :
        f[Len(Socials[s])] = iter[1..Len(Socials[s])] /\ Runs(f, rows, g, Len(Socials[s]))
  <2> HIDE DEF g, D
  <2>1. g \in [1..Len(Socials[s]) -> [StepRows -> StepRows]]
    BY <1>2, <1>4
  <2> QED BY <1>0, <1>2, <1>7, <2>1, FoldRuns
<1>9. ASSUME NEW i \in 1..Len(Socials[s])
      PROVE  f[i] = PromotedOne(day, rows, f[i - 1], Socials[s][i], s, order)
  <2>1. i \in D /\ f[i - 1] \in StepRows
    BY <1>2
  <2> QED BY <1>8, <2>1 DEF Runs
<1> QED BY <1>1, <1>2, <1>8, <1>9 DEF Runs, Promotes

LEMMA PromotedPlanned ==
  ASSUME NEW day \in Nat, NEW rows \in StepRows, NEW s \in Steps, NEW order \in RowOrders
  PROVE  Promoted(day, rows, s, order) \in StepRows
<1>1. PICK f : Promotes(f, day, rows, s, order)
  BY PromotedRuns
<1>2. Len(Socials[s]) \in 0..Len(Socials[s])
  BY TemplateAssumption
<1> QED BY <1>1, <1>2 DEF Promotes

LEMMA RowEnds ==
  ASSUME NEW row \in StepRow PROVE StartOf(row) \in AnyDay /\ EndOf(row) \in AnyDay
BY DEF StartOf, EndOf, OrElse, StepRow

LEMMA PlaceOf ==
  ASSUME NEW s \in Publications
  PROVE  PlaceIn(Publishing, s) \in DOMAIN Publishing /\ Publishing[PlaceIn(Publishing, s)] = s
<1> DEFINE places == {i \in 1..Len(Publishing) : Publishing[i] = s}
<1>1. PlaceIn(Publishing, s) = IF places # {} THEN Min(places) ELSE 0
  BY Zenon DEF PlaceIn, SelectInSeq
<1>2. Publishing \in Seq(Steps)
  BY TemplateAssumption
<1>3. places # {} /\ places \in SUBSET Nat
  BY <1>2 DEF Publications, ToSet
<1>4. Min(places) \in places
  BY <1>3, MinOfNaturals
<1> QED BY <1>1, <1>2, <1>3, <1>4

(* One of the publications that are left is the first of them.             *)
LEMMA FirstExists ==
  ASSUME NEW rows \in StepRows, NEW anchor \in AnyDay, NEW left \in SUBSET Publications, left # {}
  PROVE  \E s \in left : \A t \in left \ {s} : Sooner(rows, anchor, s, t)
<1> DEFINE key(x) == OrElse(StartOf(rows[x]), anchor)
           place(x) == PlaceIn(Publishing, x)
           keys == {key(x) + 1 : x \in left}
<1>1. Publications \in SUBSET Steps
  BY TemplateAssumption DEF Publications, ToSet
<1>2. \A x \in left : key(x) \in AnyDay
  BY <1>1, RowEnds, PlannedIsDay DEF OrElse, StepRows
<1> HIDE DEF key
<1>3. keys \in SUBSET Nat /\ keys # {}
  BY <1>2 DEF AnyDay, NoDay
<1>4. PICK k \in keys : \A m \in keys : k <= m
  BY <1>3, LeastNatural
<1> DEFINE early == {x \in left : key(x) + 1 = k}
           places == {place(x) : x \in early}
<1>5. early # {}
  BY <1>4
<1>6. \A x \in left : place(x) \in Nat /\ Publishing[place(x)] = x
  <2>1. DOMAIN Publishing \subseteq Nat
    BY TemplateAssumption
  <2> QED BY <2>1, PlaceOf
<1> HIDE DEF place
<1>7. places \in SUBSET Nat /\ places # {}
  BY <1>5, <1>6
<1>8. PICK i \in places : \A m \in places : i <= m
  BY <1>7, LeastNatural
<1>9. PICK s \in early : place(s) = i
  BY <1>8
<1>10. ASSUME NEW t \in left \ {s} PROVE Sooner(rows, anchor, s, t)
  <2>1. key(s) \in Int /\ key(t) \in Int /\ key(s) + 1 <= key(t) + 1
    BY <1>2, <1>4, <1>9 DEF AnyDay, NoDay
  <2>2. CASE key(s) < key(t)
    BY <2>2 DEF Sooner, key
  <2>3. CASE key(s) = key(t)
    <3>1. t \in early
      BY <1>9, <2>3
    <3>2. place(s) <= place(t)
      BY <1>8, <1>9, <3>1
    <3>3. place(s) # place(t)
      BY <1>6, <1>9
    <3>4. place(s) < place(t)
      BY <1>6, <1>9, <3>2, <3>3
    <3> QED BY <2>3, <3>4 DEF Sooner, key, place
  <2> QED BY <2>1, <2>2, <2>3
<1> QED BY <1>9, <1>10

LEMMA FirstIsLeft ==
  ASSUME NEW rows \in StepRows, NEW anchor \in AnyDay, NEW left \in SUBSET Publications, left # {}
  PROVE  First(rows, anchor, left) \in left
<1>1. \E s \in left : \A t \in left \ {s} : Sooner(rows, anchor, s, t)
  BY FirstExists
<1> QED BY <1>1, Zenon DEF First

LEMMA FirstIsFirst ==
  ASSUME NEW rows \in StepRows, NEW anchor \in AnyDay, NEW left \in SUBSET Publications, left # {}
  PROVE  \A t \in left \ {First(rows, anchor, left)} : Sooner(rows, anchor, First(rows, anchor, left), t)
<1>1. \E s \in left : \A t \in left \ {s} : Sooner(rows, anchor, s, t)
  BY FirstExists
<1> QED BY <1>1, Zenon DEF First

LEMMA EndsFinite ==
  ASSUME NEW rows \in StepRows, NEW some \in SUBSET Steps
  PROVE  LET ends == {EndOf(rows[p]) : p \in some}
         IN  ends \in SUBSET AnyDay /\ IsFiniteSet(ends)
<1> DEFINE f == [p \in some |-> EndOf(rows[p])]
<1>1. IsFiniteSet({f[p] : p \in some})
  <2>1. DOMAIN f = some /\ f = [p \in some |-> f[p]]
    OBVIOUS
  <2> HIDE DEF f
  <2> QED BY <2>1, SomeSteps, FiniteImage
<1>2. {f[p] : p \in some} = {EndOf(rows[p]) : p \in some}
  OBVIOUS
<1>3. \A p \in some : EndOf(rows[p]) \in AnyDay
  BY RowEnds DEF StepRows
<1> QED BY <1>1, <1>2, <1>3

Spreading == [step : StepRows, left : SUBSET Publications]

LEMMA SpreadPlanned ==
  ASSUME NEW day \in Nat, NEW was \in StepRows, NEW anchor \in AnyDay, NEW acc \in Spreading,
         NEW weeks \in Nat, NEW order \in RowOrders
  PROVE  Spread(day, was, anchor, acc, weeks, order) \in Spreading
<1>1. CASE acc.left = {}
  BY <1>1 DEF Spread
<1>2. CASE acc.left # {}
  <2> DEFINE s == First(was, anchor, acc.left)
             ends == {EndOf(acc.step[p]) : p \in Preds[s]}
             due == NextWorkingDay(anchor + 7 * weeks)
             begin == NextWorkingDay(Max(ends \union {due}))
             placed == Placed(day, acc.step, s, begin, order)
  <2>1. acc.step \in StepRows /\ acc.left \in SUBSET Publications
    BY DEF Spreading
  <2>2. s \in acc.left
    BY <1>2, <2>1, FirstIsLeft
  <2>3. s \in Steps
    BY <2>1, <2>2, TemplateAssumption DEF Publications, ToSet
  <2> HIDE DEF s
  <2>4. ends \in SUBSET AnyDay /\ IsFiniteSet(ends)
    BY <2>1, <2>3, StepsAssumption, EndsFinite
  <2>5. due \in Int
    <3>1. anchor + 7 * weeks \in Int
      BY PlannedIsDay
    <3> QED BY <3>1, NextWorking
  <2> HIDE DEF ends, due
  <2>6. Max(ends \union {due}) \in Int
    <3>1. IsFiniteSet(ends \union {due})
      BY <2>4, FS_AddElement
    <3>2. ends \union {due} \in SUBSET Int /\ ends \union {due} # {}
      BY <2>4, <2>5, PlannedIsDay
    <3>3. Max(ends \union {due}) \in ends \union {due}
      BY <3>1, <3>2, MaxOfFinite
    <3> QED BY <3>2, <3>3
  <2>7. begin \in AnyDay
    BY <2>6, PlannedNext
  <2> HIDE DEF begin
  <2>8. placed \in StepRows
    BY <2>1, <2>3, <2>7, PlacedPlanned
  <2>9. Spread(day, was, anchor, acc, weeks, order) =
          [step |-> IF OnDay(acc.step[s], begin) = acc.step[s] THEN acc.step
                    ELSE Promoted(day, placed, s, order),
           left |-> acc.left \ {s}]
    BY <1>2 DEF Spread, s, ends, due, begin
  <2> HIDE DEF placed
  <2>10. Promoted(day, placed, s, order) \in StepRows
    BY <2>3, <2>8, PromotedPlanned
  <2> QED BY <2>1, <2>9, <2>10 DEF Spreading
<1> QED BY <1>1, <1>2

LEMMA SpreadFromDay ==
  ASSUME NEW day \in Nat, NEW row \in CampaignRow, NEW rows \in StepRows
  PROVE  SpreadFrom(day, row, rows) \in AnyDay
<1> DEFINE ends == {EndOf(rows[r]) : r \in ContentReviews}
           starts == {StartOf(rows[s]) : s \in ToPublish(rows)}
<1>1. ends \in SUBSET AnyDay /\ IsFiniteSet(ends)
  BY TemplateAssumption, EndsFinite
<1>2. starts \in SUBSET AnyDay
  <2>1. ToPublish(rows) \subseteq Steps
    BY TemplateAssumption DEF ToPublish, ToSet
  <2> QED BY <2>1, RowEnds DEF StepRows
<1> HIDE DEF ends, starts
<1>3. Latest(ends) \in AnyDay /\ Earliest(starts) \in AnyDay
  BY <1>1, <1>2, LatestPlanned, EarliestPlanned
<1>4. row.start \in AnyDay /\ day \in AnyDay
  BY PlannedIsDay DEF CampaignRow, AnyDay
<1>5. Latest(ends) \in AnyDay /\ Earliest(starts) \in AnyDay
  BY <1>3, PlannedIsDay
<1> QED BY <1>4, <1>5 DEF SpreadFrom, OrElse, ends, starts

Numbered == [i \in DOMAIN Publishing |-> i]
StaggeredFold(day, rows, anchor, order) ==
  FoldLeft(LAMBDA acc, i : Spread(day, rows, anchor, acc, i - 1, order),
           [step |-> rows, left |-> ToPublish(rows)], Numbered)

LEMMA StaggeredFoldRuns ==
  ASSUME NEW day \in Nat, NEW rows \in StepRows, NEW anchor \in AnyDay, NEW order \in RowOrders
  PROVE  \E f \in [0..Len(Publishing) -> Spreading] :
           /\ f[0] = [step |-> rows, left |-> ToPublish(rows)]
           /\ \A i \in 1..Len(Publishing) : f[i] = Spread(day, rows, anchor, f[i - 1], i - 1, order)
           /\ StaggeredFold(day, rows, anchor, order) = f[Len(Publishing)]
<1> DEFINE base == [step |-> rows, left |-> ToPublish(rows)]
<1>0. base \in Spreading
  BY DEF Spreading, ToPublish, Publications
<1> DEFINE D == DOMAIN Numbered
           Solves(iter) == iter = [d \in SUBSET D |-> IF d = {} THEN base ELSE
                             Spread(day, rows, anchor, iter[d \ {Max(d)}], Numbered[Max(d)] - 1, order)]
           iter == CHOOSE it : Solves(it)
<1>1. StaggeredFold(day, rows, anchor, order) = iter[D]
  BY Zenon DEF StaggeredFold, FoldLeft, MapThenFoldSet
<1>2. D = 1..Len(Publishing) /\ Len(Publishing) \in Nat
  BY TemplateAssumption DEF Numbered
<1>3. ASSUME NEW i \in D, NEW r \in Spreading PROVE Spread(day, rows, anchor, r, Numbered[i] - 1, order) \in Spreading
  <2>1. i \in Nat /\ i >= 1 /\ Numbered[i] = i
    BY <1>2 DEF Numbered
  <2>2. Numbered[i] - 1 \in Nat
    BY <2>1
  <2> QED BY <2>2, SpreadPlanned
<1> DEFINE g == [i \in D |-> [r \in Spreading |-> Spread(day, rows, anchor, r, Numbered[i] - 1, order)]]
<1>4. g \in [D -> [Spreading -> Spreading]]
  BY <1>3
<1>5. \E it : Solves(it)
  <2>1. PICK it \in [SUBSET D -> Spreading] : Folds(it, base, g, Len(Publishing))
    <3> HIDE DEF D, g
    <3> QED BY <1>0, <1>2, <1>4, FoldExists
  <2>2. ASSUME NEW d \in SUBSET D
        PROVE  it[d] = IF d = {} THEN base ELSE Spread(day, rows, anchor, it[d \ {Max(d)}], Numbered[Max(d)] - 1, order)
    <3>1. it[d] = IF d = {} THEN base ELSE g[Max(d)][it[d \ {Max(d)}]]
      BY <1>2, <2>1 DEF Folds
    <3>2. d # {} => Max(d) \in D /\ it[d \ {Max(d)}] \in Spreading
      BY <1>2, <2>1, MaxOfIndices
    <3> QED BY <3>1, <3>2
  <2>3. Solves(it)
    BY <2>1, <2>2
  <2> HIDE DEF Solves
  <2> QED BY <2>3
<1>6. Solves(iter)
  <2> HIDE DEF Solves
  <2> QED BY <1>5
<1> HIDE DEF iter
<1>7. FoldsWithin(iter, Spreading, base, g, Len(Publishing))
  <2>1. ASSUME NEW d \in SUBSET D, d # {}, iter[d \ {Max(d)}] \in Spreading
        PROVE  iter[d] = g[Max(d)][iter[d \ {Max(d)}]]
    <3>1. Max(d) \in D
      BY <1>2, <2>1, MaxOfIndices
    <3>2. iter[d] = Spread(day, rows, anchor, iter[d \ {Max(d)}], Numbered[Max(d)] - 1, order)
      BY <1>6, <2>1
    <3> QED BY <2>1, <3>1, <3>2
  <2> QED BY <1>2, <1>6, <2>1 DEF FoldsWithin
<1> HIDE DEF Solves
<1>8. PICK f \in [0..Len(Publishing) -> Spreading] :
        f[Len(Publishing)] = iter[1..Len(Publishing)] /\ Runs(f, base, g, Len(Publishing))
  <2> HIDE DEF g, D, base
  <2>1. g \in [1..Len(Publishing) -> [Spreading -> Spreading]]
    BY <1>2, <1>4
  <2> QED BY <1>0, <1>2, <1>7, <2>1, FoldRuns
<1>9. ASSUME NEW i \in 1..Len(Publishing)
      PROVE  f[i] = Spread(day, rows, anchor, f[i - 1], i - 1, order)
  <2>1. i \in D /\ f[i - 1] \in Spreading /\ Numbered[i] = i
    BY <1>2 DEF Numbered
  <2>2. f[i] = g[i][f[i - 1]]
    BY <1>8 DEF Runs
  <2> QED BY <2>1, <2>2
<1> QED BY <1>1, <1>2, <1>8, <1>9 DEF Runs

LEMMA StaggeredFoldPlanned ==
  ASSUME NEW day \in Nat, NEW rows \in StepRows, NEW anchor \in AnyDay, NEW order \in RowOrders
  PROVE  StaggeredFold(day, rows, anchor, order) \in Spreading
<1>1. PICK f \in [0..Len(Publishing) -> Spreading] : StaggeredFold(day, rows, anchor, order) = f[Len(Publishing)]
  BY StaggeredFoldRuns
<1>2. Len(Publishing) \in 0..Len(Publishing)
  BY TemplateAssumption
<1> QED BY <1>1, <1>2

LEMMA ReconciledPlanned ==
  ASSUME NEW day \in Nat, NEW row \in CampaignRow, NEW stones \in [Milestones -> MilestoneRow],
         NEW rows \in StepRows, NEW order \in RowOrders
  PROVE  Reconciled(day, row, stones, rows, order) \in StepRows
<1> DEFINE retimed == Retimed(row, stones, rows)
           anchor == SpreadFrom(day, row, retimed)
           fold == StaggeredFold(day, retimed, anchor, order)
<1>1. retimed \in StepRows
  BY RetimedPlanned
<1> HIDE DEF retimed
<1>2. anchor \in AnyDay
  BY <1>1, SpreadFromDay
<1>3. Staggered(day, row, retimed, order) =
        IF Cardinality(ToPublish(retimed)) <= 1 THEN retimed ELSE fold.step
  BY Zenon DEF Staggered, StaggeredFold, Numbered
<1> HIDE DEF anchor
<1>4. fold \in Spreading
  BY <1>1, <1>2, StaggeredFoldPlanned
<1> HIDE DEF fold
<1>5. Staggered(day, row, retimed, order) \in StepRows
  BY <1>1, <1>3, <1>4 DEF Spreading
<1> QED BY <1>5 DEF Reconciled, retimed

-----------------------------------------------------------------------------
(* Two runs of the repair side by side.                                    *)

LEMMA TemplateSteps == Template \subseteq Steps /\ Publications \subseteq Steps
BY TemplateAssumption DEF Template, Publications, ToSet

LEMMA AfterTemplate ==
  ASSUME TemplateIsClosed, NEW rows, NEW s \in Template
  PROVE  OpenAfter(rows, {s}) \subseteq Template
<1>1. Template \in SUBSET Steps
  BY TemplateSteps
<1>2. \A t \in Steps : rows[t].done = NoDay /\ Preds[t] \intersect ({s} \union Template) # {} => t \in Template
  BY DEF TemplateIsClosed
<1> QED BY <1>1, <1>2 DEF OpenAfter

LEMMA DatesFields ==
  ASSUME NEW row \in StepRow, NEW other \in StepRow
  PROVE  Dates(other) = Dates(row) <=>
           /\ other.start = row.start /\ other.due = row.due /\ other.baseStart = row.baseStart
           /\ other.baseDue = row.baseDue /\ other.done = row.done /\ other.status = row.status
<1>1. /\ Dates(row).start = row.start /\ Dates(row).due = row.due /\ Dates(row).baseStart = row.baseStart
      /\ Dates(row).baseDue = row.baseDue /\ Dates(row).done = row.done /\ Dates(row).status = row.status
      /\ Dates(row).earliest = NoDay /\ Dates(row) \in StepRow
  BY PlannedIsDay DEF Dates, StepRow, AnyDay
<1>2. /\ Dates(other).start = other.start /\ Dates(other).due = other.due
      /\ Dates(other).baseStart = other.baseStart
      /\ Dates(other).baseDue = other.baseDue /\ Dates(other).done = other.done
      /\ Dates(other).status = other.status
      /\ Dates(other).earliest = NoDay /\ Dates(other) \in StepRow
  BY PlannedIsDay DEF Dates, StepRow, AnyDay
<1> HIDE DEF Dates
<1> QED BY <1>1, <1>2, SameRow

(* Since base only steps of the template have moved, none has ended, and   *)
(* each step of the template has a due date.                               *)
Within(base, now) ==
  /\ now \in StepRows
  /\ \A x \in Steps : /\ now[x].done = base[x].done /\ now[x].status = base[x].status
                      /\ x \notin Template => now[x] = base[x]
                      /\ x \in Template => now[x].due # NoDay

(* The rows of two runs: alike but for the earliest starts, which the      *)
(* second has from the first, or from the rows last of before.             *)
Twins(base, last, now, other) ==
  /\ Within(base, now) /\ other \in StepRows
  /\ \A x \in Steps : /\ Dates(other[x]) = Dates(now[x])
                      /\ other[x].earliest \in {now[x].earliest, last[x].earliest}

LEMMA TwinFields ==
  ASSUME NEW base, NEW last, NEW now, NEW other, Twins(base, last, now, other), NEW x \in Steps
  PROVE  /\ now[x] \in StepRow /\ other[x] \in StepRow
         /\ other[x].start = now[x].start /\ other[x].due = now[x].due
         /\ other[x].baseStart = now[x].baseStart /\ other[x].baseDue = now[x].baseDue
         /\ other[x].done = now[x].done /\ other[x].status = now[x].status
         /\ Finish(other[x]) = Finish(now[x])
<1>1. now[x] \in StepRow /\ other[x] \in StepRow
  BY DEF Twins, Within, StepRows
<1>2. Dates(other[x]) = Dates(now[x])
  BY DEF Twins
<1> QED BY <1>1, <1>2, DatesFields DEF Finish, OrElse

LEMMA TwinsRecalculated ==
  ASSUME TemplateIsClosed, NEW base, NEW last, NEW now, NEW other, Twins(base, last, now, other),
         NEW s \in Template, NEW day \in Nat, NEW order \in RowOrders, NEW again \in RowOrders
  PROVE  Twins(base, last, Recalculated(day, now, s, order), Recalculated(day, other, s, again))
<1> DEFINE goal == Pulled(day, now, s)
           aim == Pulled(day, other, s)
           after == OpenAfter(now, {s})
<1>0. now \in StepRows /\ other \in StepRows /\ s \in Steps
  BY TemplateSteps DEF Twins, Within
<1>1. OpenAfter(other, {s}) = after
  <2>1. \A t \in Steps : other[t].done = now[t].done
    BY TwinFields
  <2> QED BY <2>1 DEF OpenAfter
<1>2. after \subseteq Template /\ after \subseteq Steps
  BY <1>0, AfterTemplate, OpenAfterClosed
<1>3. \A x \in Template : /\ now[x].due # NoDay /\ other[x].due # NoDay
                          /\ Finish(now[x]) # NoDay /\ Finish(other[x]) # NoDay
  <2> TAKE x \in Template
  <2>1. x \in Steps /\ now[x].due # NoDay
    BY TemplateSteps DEF Twins, Within
  <2> QED BY <2>1, TwinFields DEF Finish, OrElse
<1>4. Datable(now, s) /\ Datable(other, s)
  BY <1>1, <1>2, <1>3 DEF Datable
<1>5. Recalculated(day, now, s, order) = goal /\ Recalculated(day, other, s, again) = aim
  BY <1>0, <1>4, RecalculatedIsPulled
<1>6. goal \in StepRows /\ aim \in StepRows
  BY <1>0, <1>4, PulledRow
<1>7. ASSUME NEW x \in Steps
      PROVE  /\ goal[x].done = base[x].done /\ goal[x].status = base[x].status
             /\ x \notin Template => goal[x] = base[x]
             /\ x \in Template => goal[x].due # NoDay
             /\ Dates(aim[x]) = Dates(goal[x])
             /\ aim[x].earliest \in {goal[x].earliest, last[x].earliest}
  <2>1. CASE x \in after
    <3>1. goal[x] = Rescheduled(day, now, x) /\ aim[x] = Rescheduled(day, other, x)
      BY <1>1, <2>1 DEF Pulled
    <3>2. x \in Template /\ now[x].done = base[x].done /\ now[x].status = base[x].status
      BY <1>2, <2>1 DEF Twins, Within
    <3>3. /\ goal[x].done = now[x].done /\ goal[x].status = now[x].status
          /\ goal[x].due # NoDay
      BY <1>0, <3>1, RescheduledRow DEF StepRows
    <3>4. \E p \in Preds[x] : Finish(now[p]) # NoDay
      <4>1. PICK y \in {s} \union after : y \in Preds[x]
        BY <1>0, <2>1, OpenAfterClosed
      <4>2. y \in Template
        BY <1>2
      <4> QED BY <1>3, <4>1, <4>2
    <3>5. \A p \in Preds[x] : Finish(other[p]) = Finish(now[p])
      BY TwinFields, StepsAssumption
    <3>6. Dates(other[x]) = Dates(now[x]) /\ now[x].due # NoDay
      BY <1>3, <3>2 DEF Twins
    <3>7. aim[x] = goal[x]
      BY <1>0, <3>1, <3>4, <3>5, <3>6, RescheduledReads
    <3> HIDE DEF goal, aim
    <3> QED BY <3>2, <3>3, <3>7
  <2>2. CASE x \notin after
    <3>1. goal[x] = now[x] /\ aim[x] = other[x]
      BY <1>1, <2>2 DEF Pulled
    <3> HIDE DEF goal, aim
    <3> QED BY <3>1 DEF Twins, Within
  <2> QED BY <2>1, <2>2
<1> HIDE DEF goal, aim
<1> QED BY <1>5, <1>6, <1>7 DEF Twins, Within

LEMMA OnDayFields ==
  ASSUME NEW row \in StepRow, NEW begin \in AnyDay
  PROVE  LET due == NextWorkingDay(AddWorkingDays(begin, 1))
         IN  /\ OnDay(row, begin) \in StepRow /\ due # NoDay
             /\ OnDay(row, begin).start = begin /\ OnDay(row, begin).due = due
             /\ OnDay(row, begin).baseStart = begin /\ OnDay(row, begin).baseDue = due
             /\ OnDay(row, begin).done = row.done /\ OnDay(row, begin).status = row.status
             /\ OnDay(row, begin).earliest = row.earliest
             /\ OnDay(row, begin) = row <=> /\ row.start = begin /\ row.due = due
                                            /\ row.baseStart = begin /\ row.baseDue = due
<1> DEFINE due == NextWorkingDay(AddWorkingDays(begin, 1))
<1>1. due \in AnyDay /\ due # NoDay
  <2>1. begin \in Int
    BY PlannedIsDay
  <2> QED BY <2>1, AddedDays, PlannedNext
<1>2. OnDay(row, begin) = Window(row, begin, due)
  BY DEF OnDay
<1> HIDE DEF due
<1>3. /\ Window(row, begin, due) \in StepRow
      /\ Window(row, begin, due).start = begin /\ Window(row, begin, due).due = due
      /\ Window(row, begin, due).baseStart = begin /\ Window(row, begin, due).baseDue = due
      /\ Window(row, begin, due).done = row.done /\ Window(row, begin, due).status = row.status
      /\ Window(row, begin, due).earliest = row.earliest
  BY <1>1 DEF Window, StepRow
<1>4. Window(row, begin, due) = row <=> /\ row.start = begin /\ row.due = due
                                        /\ row.baseStart = begin /\ row.baseDue = due
  BY <1>3, SameRow
<1> QED BY <1>1, <1>2, <1>3, <1>4 DEF due

LEMMA TwinsPlaced ==
  ASSUME TemplateIsClosed, NEW base, NEW last, NEW now, NEW other, Twins(base, last, now, other),
         NEW s \in Template, NEW begin \in AnyDay,
         NEW day \in Nat, NEW order \in RowOrders, NEW again \in RowOrders
  PROVE  /\ Twins(base, last, Placed(day, now, s, begin, order), Placed(day, other, s, begin, again))
         /\ OnDay(other[s], begin) = other[s] <=> OnDay(now[s], begin) = now[s]
<1> DEFINE row == OnDay(now[s], begin)
           twin == OnDay(other[s], begin)
           mid == [now EXCEPT ![s] = row]
           mate == [other EXCEPT ![s] = twin]
<1>1. s \in Steps /\ now \in StepRows /\ other \in StepRows
  BY TemplateSteps DEF Twins, Within
<1>2. now[s] \in StepRow /\ other[s] \in StepRow
  BY <1>1, TwinFields
<1>3. twin = other[s] <=> row = now[s]
  BY <1>1, <1>2, TwinFields, OnDayFields
<1>4. /\ row \in StepRow /\ twin \in StepRow /\ row.due # NoDay
      /\ row.done = now[s].done /\ row.status = now[s].status
      /\ twin.earliest = other[s].earliest /\ row.earliest = now[s].earliest
  BY <1>2, OnDayFields
<1>5. Dates(twin) = Dates(row)
  <2>1. /\ twin.start = row.start /\ twin.due = row.due /\ twin.baseStart = row.baseStart
        /\ twin.baseDue = row.baseDue /\ twin.done = row.done /\ twin.status = row.status
    BY <1>1, <1>2, TwinFields, OnDayFields
  <2> HIDE DEF twin, row
  <2> QED BY <1>4, <2>1, DatesFields
<1>6. /\ Placed(day, now, s, begin, order) = IF row = now[s] THEN now ELSE Recalculated(day, mid, s, order)
      /\ Placed(day, other, s, begin, again)
           = IF twin = other[s] THEN other ELSE Recalculated(day, mate, s, again)
  BY DEF Placed
<1> HIDE DEF row, twin
<1>7. mid \in StepRows /\ mate \in StepRows
  BY <1>1, <1>4 DEF StepRows
<1>8. /\ mid[s] = row /\ mate[s] = twin
      /\ \A x \in Steps \ {s} : mid[x] = now[x] /\ mate[x] = other[x]
  BY <1>1 DEF StepRows
<1> HIDE DEF mid, mate
<1>9. Twins(base, last, mid, mate)
  <2> SUFFICES ASSUME NEW x \in Steps
               PROVE  /\ mid[x].done = base[x].done /\ mid[x].status = base[x].status
                      /\ x \notin Template => mid[x] = base[x]
                      /\ x \in Template => mid[x].due # NoDay
                      /\ Dates(mate[x]) = Dates(mid[x])
                      /\ mate[x].earliest \in {mid[x].earliest, last[x].earliest}
    BY <1>7 DEF Twins, Within
  <2>1. CASE x = s
    BY <1>4, <1>5, <1>8, <2>1 DEF Twins, Within
  <2>2. CASE x # s
    BY <1>8, <2>2 DEF Twins, Within
  <2> QED BY <2>1, <2>2
<1>10. Twins(base, last, Recalculated(day, mid, s, order), Recalculated(day, mate, s, again))
  BY <1>9, TwinsRecalculated
<1>11. Twins(base, last, Placed(day, now, s, begin, order), Placed(day, other, s, begin, again))
  BY <1>3, <1>6, <1>10
<1> QED BY <1>3, <1>11 DEF row, twin

LEMMA TwinsPromoted ==
  ASSUME TemplateIsClosed, NEW base, NEW last, NEW now, NEW other, Twins(base, last, now, other),
         NEW s \in Publications, NEW day \in Nat, NEW order \in RowOrders, NEW again \in RowOrders
  PROVE  Twins(base, last, Promoted(day, now, s, order), Promoted(day, other, s, again))
<1> DEFINE N == Len(Socials[s])
<1>1. s \in Steps /\ now \in StepRows /\ other \in StepRows
  BY TemplateSteps DEF Twins, Within
<1>2. N \in Nat /\ \A i \in 1..N : Socials[s][i] \in Template
  <2>1. Socials[s] \in Seq(Steps) /\ ToSet(Socials[s]) \subseteq Template
    BY <1>1, TemplateAssumption DEF TemplateIsClosed
  <2> QED BY <2>1 DEF ToSet
<1>3. PICK f : Promotes(f, day, now, s, order)
  BY <1>1, PromotedRuns
<1>4. PICK h : Promotes(h, day, other, s, again)
  BY <1>1, PromotedRuns
<1>5. ASSUME NEW t \in Template, NEW mid, NEW mate, Twins(base, last, mid, mate)
      PROVE  Twins(base, last, PromotedOne(day, now, mid, t, s, order), PromotedOne(day, other, mate, t, s, again))
  <2>1. t \in Steps
    BY TemplateSteps
  <2>2. other[t].done = now[t].done /\ other[s].due = now[s].due /\ now[s] \in StepRow
    BY <1>1, <2>1, TwinFields
  <2>3. NextWorkingDay(now[s].due) \in AnyDay
    <3>1. now[s].due \in Int
      BY <2>2, PlannedIsDay DEF StepRow
    <3> QED BY <3>1, PlannedNext
  <2>4. Twins(base, last, Placed(day, mid, t, NextWorkingDay(now[s].due), order),
                          Placed(day, mate, t, NextWorkingDay(now[s].due), again))
    BY <1>5, <2>3, TwinsPlaced
  <2> QED BY <1>5, <2>2, <2>4 DEF PromotedOne
<1> DEFINE S == {i \in Nat : i <= N => Twins(base, last, f[i], h[i])}
<1>6. 0 \in S
  BY <1>3, <1>4 DEF Promotes
<1>7. ASSUME NEW i \in Nat, i \in S PROVE i + 1 \in S
  <2> SUFFICES ASSUME i + 1 <= N PROVE Twins(base, last, f[i + 1], h[i + 1])
    OBVIOUS
  <2>1. i + 1 \in 1..N /\ (i + 1) - 1 = i /\ Twins(base, last, f[i], h[i])
    BY <1>2, <1>7
  <2>2. /\ f[i + 1] = PromotedOne(day, now, f[i], Socials[s][i + 1], s, order)
        /\ h[i + 1] = PromotedOne(day, other, h[i], Socials[s][i + 1], s, again)
    BY <1>3, <1>4, <2>1 DEF Promotes
  <2> QED BY <1>2, <1>5, <2>1, <2>2
<1> HIDE DEF S
<1>8. N \in S
  BY <1>2, <1>6, <1>7, SetInduction
<1> QED BY <1>2, <1>3, <1>4, <1>8 DEF S, Promotes

LEMMA TwinEnds ==
  ASSUME NEW base, NEW last, NEW now, NEW other, Twins(base, last, now, other)
  PROVE  \A x \in Steps : StartOf(other[x]) = StartOf(now[x]) /\ EndOf(other[x]) = EndOf(now[x])
BY TwinFields DEF StartOf, EndOf, OrElse

(* No two publications that are left are both the first of them.           *)
LEMMA FirstIsOne ==
  ASSUME NEW rows \in StepRows, NEW anchor \in AnyDay, NEW s \in Publications, NEW t \in Publications,
         Sooner(rows, anchor, s, t), Sooner(rows, anchor, t, s)
  PROVE  FALSE
<1>1. s \in Steps /\ t \in Steps
  BY TemplateSteps
<1>2. StartOf(rows[s]) \in AnyDay /\ StartOf(rows[t]) \in AnyDay
  BY <1>1, RowEnds DEF StepRows
<1>3. OrElse(StartOf(rows[s]), anchor) \in Int /\ OrElse(StartOf(rows[t]), anchor) \in Int
  BY <1>2, PlannedIsDay DEF OrElse
<1>4. PlaceIn(Publishing, s) \in Int /\ PlaceIn(Publishing, t) \in Int
  <2>1. DOMAIN Publishing \subseteq Int
    BY TemplateAssumption
  <2> QED BY <2>1, PlaceOf
<1> QED BY <1>3, <1>4 DEF Sooner

LEMMA TwinsFirst ==
  ASSUME NEW base, NEW last, NEW now, NEW other, Twins(base, last, now, other),
         NEW anchor \in AnyDay, NEW left \in SUBSET Publications, left # {}
  PROVE  First(other, anchor, left) = First(now, anchor, left)
<1> DEFINE s == First(now, anchor, left)
           t == First(other, anchor, left)
<1>1. now \in StepRows /\ other \in StepRows
  BY DEF Twins, Within
<1>2. s \in left /\ t \in left
  BY <1>1, FirstIsLeft
<1>3. \A x \in left \ {s} : Sooner(now, anchor, s, x)
  BY <1>1, FirstIsFirst
<1>4. \A x \in left \ {t} : Sooner(other, anchor, t, x)
  BY <1>1, FirstIsFirst
<1> HIDE DEF s, t
<1>5. \A x \in left : StartOf(other[x]) = StartOf(now[x])
  BY TwinEnds, TemplateSteps
<1>6. \A x \in left \ {t} : Sooner(now, anchor, t, x)
  BY <1>2, <1>4, <1>5 DEF Sooner
<1>7. s = t
  <2> SUFFICES ASSUME s # t PROVE FALSE
    OBVIOUS
  <2>1. Sooner(now, anchor, s, t) /\ Sooner(now, anchor, t, s)
    BY <1>2, <1>3, <1>6
  <2> QED BY <1>1, <1>2, <2>1, FirstIsOne
<1> QED BY <1>7 DEF s, t

(* The day the publication s is to begin on, some weeks after the anchor.  *)
Turn(rows, anchor, weeks, s) ==
  NextWorkingDay(Max({EndOf(rows[p]) : p \in Preds[s]} \union {NextWorkingDay(anchor + 7 * weeks)}))

LEMMA TurnDay ==
  ASSUME NEW rows \in StepRows, NEW anchor \in AnyDay, NEW weeks \in Nat, NEW s \in Steps
  PROVE  Turn(rows, anchor, weeks, s) \in AnyDay
<1> DEFINE ends == {EndOf(rows[p]) : p \in Preds[s]}
           due == NextWorkingDay(anchor + 7 * weeks)
<1>1. ends \in SUBSET AnyDay /\ IsFiniteSet(ends)
  BY StepsAssumption, EndsFinite
<1>2. due \in Int
  <2>1. anchor + 7 * weeks \in Int
    BY PlannedIsDay
  <2> QED BY <2>1, NextWorking
<1> HIDE DEF ends, due
<1>3. IsFiniteSet(ends \union {due})
  BY <1>1, FS_AddElement
<1>4. ends \union {due} \in SUBSET Int /\ ends \union {due} # {}
  BY <1>1, <1>2, PlannedIsDay
<1>5. Max(ends \union {due}) \in Int
  BY <1>3, <1>4, MaxOfFinite
<1>6. NextWorkingDay(Max(ends \union {due})) \in AnyDay
  BY <1>5, PlannedNext
<1> QED BY <1>6 DEF Turn, ends, due

LEMMA TwinsSpread ==
  ASSUME TemplateIsClosed, NEW base, NEW last, NEW was, NEW wasOther, Twins(base, last, was, wasOther),
         NEW acc \in Spreading, NEW twin \in Spreading, twin.left = acc.left,
         Twins(base, last, acc.step, twin.step), NEW anchor \in AnyDay, NEW weeks \in Nat,
         NEW day \in Nat, NEW order \in RowOrders, NEW again \in RowOrders
  PROVE  LET after == Spread(day, was, anchor, acc, weeks, order)
             mate == Spread(day, wasOther, anchor, twin, weeks, again)
         IN  mate.left = after.left /\ Twins(base, last, after.step, mate.step)
<1>1. CASE acc.left = {}
  BY <1>1 DEF Spread
<1>2. CASE acc.left # {}
  <2> DEFINE s == First(was, anchor, acc.left)
             begin == Turn(acc.step, anchor, weeks, s)
             placed == Placed(day, acc.step, s, begin, order)
             placedTwin == Placed(day, twin.step, s, begin, again)
  <2>1. acc.step \in StepRows /\ acc.left \in SUBSET Publications /\ twin.step \in StepRows
        /\ was \in StepRows
    BY DEF Spreading, Twins, Within
  <2>2. s \in acc.left /\ First(wasOther, anchor, twin.left) = s
    BY <1>2, <2>1, FirstIsLeft, TwinsFirst
  <2>3. s \in Steps /\ s \in Publications /\ s \in Template
    BY <2>1, <2>2, TemplateSteps DEF TemplateIsClosed
  <2> HIDE DEF s
  <2>4. begin \in AnyDay
    BY <2>1, <2>3, TurnDay
  <2>5. Turn(twin.step, anchor, weeks, s) = begin
    <3>1. Preds[s] \subseteq Steps
      BY <2>3, StepsAssumption
    <3>2. \A x \in Steps : EndOf(twin.step[x]) = EndOf(acc.step[x])
      BY TwinEnds
    <3>3. {EndOf(twin.step[p]) : p \in Preds[s]} = {EndOf(acc.step[p]) : p \in Preds[s]}
      BY <3>1, <3>2
    <3> QED BY <3>3 DEF Turn
  <2>6. Spread(day, was, anchor, acc, weeks, order) =
          [step |-> IF OnDay(acc.step[s], begin) = acc.step[s] THEN acc.step
                    ELSE Promoted(day, placed, s, order),
           left |-> acc.left \ {s}]
    BY <1>2 DEF Spread, s, Turn
  <2>7. Spread(day, wasOther, anchor, twin, weeks, again) =
          [step |-> IF OnDay(twin.step[s], begin) = twin.step[s] THEN twin.step
                    ELSE Promoted(day, placedTwin, s, again),
           left |-> acc.left \ {s}]
    <3> HIDE DEF begin
    <3>1. twin.left # {}
      BY <1>2
    <3> QED BY <2>2, <2>5, <3>1 DEF Spread, Turn
  <2> HIDE DEF begin
  <2>8. /\ Twins(base, last, placed, placedTwin)
        /\ OnDay(twin.step[s], begin) = twin.step[s] <=> OnDay(acc.step[s], begin) = acc.step[s]
    BY <2>3, <2>4, TwinsPlaced
  <2> HIDE DEF placed, placedTwin
  <2>9. Twins(base, last, Promoted(day, placed, s, order), Promoted(day, placedTwin, s, again))
    BY <2>3, <2>8, TwinsPromoted
  <2> QED BY <2>6, <2>7, <2>8, <2>9
<1> QED BY <1>1, <1>2

LEMMA TwinsStaggered ==
  ASSUME TemplateIsClosed, NEW base, NEW last, NEW now, NEW other, Twins(base, last, now, other),
         NEW row \in CampaignRow, NEW day \in Nat, NEW order \in RowOrders, NEW again \in RowOrders
  PROVE  Twins(base, last, Staggered(day, row, now, order), Staggered(day, row, other, again))
<1> DEFINE anchor == SpreadFrom(day, row, now)
           N == Len(Publishing)
<1>1. now \in StepRows /\ other \in StepRows
  BY DEF Twins, Within
<1>2. ToPublish(other) = ToPublish(now)
  <2>1. \A x \in Publications : other[x].done = now[x].done
    BY TwinFields, TemplateSteps
  <2> QED BY <2>1 DEF ToPublish, Publications
<1>3. SpreadFrom(day, row, other) = anchor
  <2>1. \A x \in Steps : StartOf(other[x]) = StartOf(now[x]) /\ EndOf(other[x]) = EndOf(now[x])
    BY TwinEnds
  <2>2. ContentReviews \subseteq Steps /\ ToPublish(now) \subseteq Steps
    BY TemplateAssumption, TemplateSteps DEF ToPublish, Publications
  <2>3. /\ {EndOf(other[r]) : r \in ContentReviews} = {EndOf(now[r]) : r \in ContentReviews}
        /\ {StartOf(other[s]) : s \in ToPublish(now)} = {StartOf(now[s]) : s \in ToPublish(now)}
    BY <2>1, <2>2
  <2> QED BY <1>2, <2>3 DEF SpreadFrom
<1>4. anchor \in AnyDay
  BY <1>1, SpreadFromDay
<1> HIDE DEF anchor
<1>5. PICK f \in [0..N -> Spreading] :
        /\ f[0] = [step |-> now, left |-> ToPublish(now)]
        /\ \A i \in 1..N : f[i] = Spread(day, now, anchor, f[i - 1], i - 1, order)
        /\ StaggeredFold(day, now, anchor, order) = f[N]
  BY <1>1, <1>4, StaggeredFoldRuns
<1>6. PICK h \in [0..N -> Spreading] :
        /\ h[0] = [step |-> other, left |-> ToPublish(other)]
        /\ \A i \in 1..N : h[i] = Spread(day, other, anchor, h[i - 1], i - 1, again)
        /\ StaggeredFold(day, other, anchor, again) = h[N]
  BY <1>1, <1>4, StaggeredFoldRuns
<1>7. N \in Nat
  BY TemplateAssumption
<1> DEFINE Paired(i) == h[i].left = f[i].left /\ Twins(base, last, f[i].step, h[i].step)
           S == {i \in Nat : i <= N => Paired(i)}
<1>8. 0 \in S
  BY <1>2, <1>5, <1>6
<1>9. ASSUME NEW i \in Nat, i \in S PROVE i + 1 \in S
  <2> SUFFICES ASSUME i + 1 <= N PROVE Paired(i + 1)
    OBVIOUS
  <2>1. i + 1 \in 1..N /\ (i + 1) - 1 = i /\ i \in 0..N /\ Paired(i)
    BY <1>7, <1>9
  <2>2. /\ f[i + 1] = Spread(day, now, anchor, f[i], i, order)
        /\ h[i + 1] = Spread(day, other, anchor, h[i], i, again)
    BY <1>5, <1>6, <2>1
  <2>3. f[i] \in Spreading /\ h[i] \in Spreading
    BY <2>1
  <2> QED BY <1>4, <2>1, <2>2, <2>3, TwinsSpread
<1> HIDE DEF S
<1>10. Paired(N)
  <2>1. N \in S
    BY <1>7, <1>8, <1>9, SetInduction
  <2> QED BY <1>7, <2>1 DEF S
<1>11. Staggered(day, row, now, order) =
         IF Cardinality(ToPublish(now)) <= 1 THEN now ELSE StaggeredFold(day, now, anchor, order).step
  BY Zenon DEF Staggered, StaggeredFold, Numbered, anchor
<1>12. Staggered(day, row, other, again) =
         IF Cardinality(ToPublish(other)) <= 1 THEN other ELSE StaggeredFold(day, other, anchor, again).step
  <2>1. Staggered(day, row, other, again) =
          IF Cardinality(ToPublish(other)) <= 1 THEN other
          ELSE StaggeredFold(day, other, SpreadFrom(day, row, other), again).step
    BY Zenon DEF Staggered, StaggeredFold, Numbered
  <2> QED BY <1>3, <2>1
<1> QED BY <1>2, <1>5, <1>6, <1>10, <1>11, <1>12

LEMMA RetimedDates ==
  ASSUME NEW row \in CampaignRow, NEW stones \in [Milestones -> MilestoneRow], NEW rows \in StepRows,
         NEW s \in Steps, RetimedStep(row, stones, rows, s) = rows
  PROVE  /\ rows[s].due # NoDay
         /\ \A other \in StepRows :
              /\ \A p \in Needs[s] : other[p].due = rows[p].due
              /\ other[s].done = rows[s].done /\ other[s].status = rows[s].status
              => /\ Dates(RetimedStep(row, stones, other, s)[s]) = Dates(rows[s])
                 /\ RetimedStep(row, stones, other, s)[s].earliest = other[s].earliest
<1> DEFINE dues(now) == {now[p].due : p \in Needs[s]}
           begin == OrElse(Latest(dues(rows)), Anchor(row, stones, s))
           due == AddWorkingDays(begin, Lasting[s])
<1>1. Needs[s] \in SUBSET Steps /\ Lasting[s] \in Nat /\ Lasting[s] > 0
  BY TemplateAssumption, StepsAssumption
<1>2. begin \in AnyDay
  <2>1. dues(rows) \in SUBSET AnyDay /\ IsFiniteSet(dues(rows))
    BY <1>1, DuesFinite
  <2> HIDE DEF dues
  <2>2. Latest(dues(rows)) \in AnyDay
    BY <2>1, LatestPlanned
  <2> QED BY <2>2, AnchorPlanned DEF OrElse
<1>3. RetimedStep(row, stones, rows, s) = [rows EXCEPT ![s] = Window(rows[s], begin, due)]
  BY DEF RetimedStep, StepRows
<1>4. ASSUME NEW other \in StepRows, \A p \in Needs[s] : other[p].due = rows[p].due
      PROVE  RetimedStep(row, stones, other, s) = [other EXCEPT ![s] = Window(other[s], begin, due)]
  <2>1. dues(other) = dues(rows)
    BY <1>4
  <2> QED BY <2>1 DEF RetimedStep, StepRows
<1> HIDE DEF begin
<1>5. due \in AnyDay /\ due # NoDay
  <2>1. due \in Working
    BY <1>1, <1>2, PlannedIsDay, AddedDays
  <2> QED BY <2>1 DEF AnyDay, Working, NoDay
<1> HIDE DEF due
<1>6. rows[s] = Window(rows[s], begin, due) /\ rows[s] \in StepRow
  BY <1>3 DEF StepRows
<1>7. rows[s].start = begin /\ rows[s].due = due /\ rows[s].baseStart = begin /\ rows[s].baseDue = due
  <2>1. /\ Window(rows[s], begin, due).start = begin /\ Window(rows[s], begin, due).due = due
        /\ Window(rows[s], begin, due).baseStart = begin /\ Window(rows[s], begin, due).baseDue = due
    BY <1>6 DEF Window, StepRow
  <2> QED BY <1>6, <2>1
<1>8. ASSUME NEW other \in StepRows, \A p \in Needs[s] : other[p].due = rows[p].due,
             other[s].done = rows[s].done, other[s].status = rows[s].status
      PROVE  /\ Dates(RetimedStep(row, stones, other, s)[s]) = Dates(rows[s])
             /\ RetimedStep(row, stones, other, s)[s].earliest = other[s].earliest
  <2> DEFINE new == Window(other[s], begin, due)
  <2>1. other[s] \in StepRow
    BY DEF StepRows
  <2>2. /\ new \in StepRow /\ new.start = begin /\ new.due = due /\ new.baseStart = begin
        /\ new.baseDue = due /\ new.done = other[s].done /\ new.status = other[s].status
        /\ new.earliest = other[s].earliest
    BY <1>2, <1>5, <2>1 DEF Window, StepRow
  <2>3. RetimedStep(row, stones, other, s)[s] = new
    BY <1>4, <1>8 DEF StepRows
  <2> HIDE DEF new
  <2>4. Dates(new) = Dates(rows[s])
    BY <1>6, <1>7, <1>8, <2>2, DatesFields
  <2> QED BY <2>2, <2>3, <2>4
<1> QED BY <1>5, <1>7, <1>8

LEMMA RetimedWithin ==
  ASSUME TemplateInOrder, NEW row \in CampaignRow, NEW stones \in [Milestones -> MilestoneRow],
         NEW rows \in StepRows
  PROVE  LET timed == Retimed(row, stones, rows) IN Within(timed, timed)
<1> DEFINE timed == Retimed(row, stones, rows)
<1>1. timed \in StepRows
  BY RetimedPlanned
<1>2. \A i \in 1..Len(Templated) : RetimedStep(row, stones, timed, Templated[i]) = timed
  BY RetimedFixed
<1> HIDE DEF timed
<1>3. ASSUME NEW s \in Template PROVE timed[s].due # NoDay
  <2>1. PICK i \in 1..Len(Templated) : Templated[i] = s
    BY TemplateAssumption DEF Template, ToSet
  <2>2. RetimedStep(row, stones, timed, s) = timed /\ s \in Steps
    BY <1>2, <2>1, TemplateSteps
  <2> QED BY <1>1, <2>2, RetimedDates
<1>4. Within(timed, timed)
  BY <1>1, <1>3 DEF Within
<1> QED BY <1>4 DEF timed

(* Timing the template again, after only steps of it have moved, puts all  *)
(* of it back where it was, but for the earliest starts.                   *)
LEMMA RetimedTwin ==
  ASSUME TemplateInOrder, NEW row \in CampaignRow, NEW stones \in [Milestones -> MilestoneRow],
         NEW rows \in StepRows, NEW moved, Within(Retimed(row, stones, rows), moved)
  PROVE  Twins(Retimed(row, stones, rows), moved, Retimed(row, stones, rows), Retimed(row, stones, moved))
<1> DEFINE timed == Retimed(row, stones, rows)
           N == Len(Templated)
<1>1. N \in Nat /\ \A i \in 1..N : Templated[i] \in Steps
  BY TemplateAssumption
<1>2. timed \in StepRows /\ moved \in StepRows /\ Within(timed, timed)
  BY RetimedPlanned, RetimedWithin DEF Within
<1>3. \A i \in 1..N : RetimedStep(row, stones, timed, Templated[i]) = timed
  BY RetimedFixed
<1>4. PICK h \in [0..N -> StepRows] :
        /\ h[0] = moved
        /\ \A i \in 1..N : h[i] = RetimedStep(row, stones, h[i - 1], Templated[i])
        /\ Retimed(row, stones, moved) = h[N]
  BY <1>2, RetimedRuns
<1> HIDE DEF timed
<1> DEFINE Back(i) ==
             /\ \A x \in Steps : /\ h[i][x].done = timed[x].done /\ h[i][x].status = timed[x].status
                                 /\ h[i][x].earliest = moved[x].earliest
                                 /\ x \notin Template => h[i][x] = timed[x]
             /\ \A j \in 1..i : Dates(h[i][Templated[j]]) = Dates(timed[Templated[j]])
           S == {i \in Nat : i <= N => Back(i)}
<1>5. 0 \in S
  BY <1>4 DEF Within, timed
<1>6. ASSUME NEW i \in Nat, i \in S PROVE i + 1 \in S
  <2> SUFFICES ASSUME i + 1 <= N PROVE Back(i + 1)
    OBVIOUS
  <2> DEFINE s == Templated[i + 1]
  <2>1. i + 1 \in 1..N /\ (i + 1) - 1 = i /\ i \in 0..N /\ i + 1 \in 0..N /\ Back(i)
    BY <1>1, <1>6
  <2>2. h[i] \in StepRows /\ h[i + 1] = RetimedStep(row, stones, h[i], s) /\ s \in Steps
        /\ RetimedStep(row, stones, timed, s) = timed
    BY <1>1, <1>3, <1>4, <2>1
  <2>3. ASSUME NEW p \in Needs[s] PROVE h[i][p].due = timed[p].due
    <3>1. p \in Steps
      BY <2>2, TemplateAssumption, StepsAssumption
    <3>2. CASE p \notin Template
      BY <2>1, <3>1, <3>2
    <3>3. CASE p \in Template
      <4>1. PICK j \in 1..N : Templated[j] = p
        BY <3>3, TemplateAssumption DEF Template, ToSet
      <4>2. ~(i + 1 <= j)
        BY <2>1, <2>3, <4>1 DEF TemplateInOrder
      <4>3. j \in 1..i
        BY <1>1, <2>1, <4>2
      <4>4. Dates(h[i][p]) = Dates(timed[p])
        BY <2>1, <4>1, <4>3
      <4> QED BY <1>2, <2>2, <3>1, <4>4, DatesFields DEF StepRows
    <3> QED BY <3>2, <3>3
  <2>4. h[i][s].done = timed[s].done /\ h[i][s].status = timed[s].status
        /\ h[i][s].earliest = moved[s].earliest
    BY <2>1, <2>2
  <2>5. /\ Dates(h[i + 1][s]) = Dates(timed[s])
        /\ h[i + 1][s].earliest = moved[s].earliest
    BY <1>2, <2>2, <2>3, <2>4, RetimedDates
  <2>6. \A x \in Steps \ {s} : h[i + 1][x] = h[i][x]
    BY <2>2, RetimedStepLeaves
  <2>7. s \in Template
    BY <2>1, TemplateAssumption DEF Template, ToSet
  <2>8. h[i + 1][s].done = timed[s].done /\ h[i + 1][s].status = timed[s].status
    <3>1. h[i + 1][s] \in StepRow /\ timed[s] \in StepRow
      BY <1>2, <2>1, <2>2 DEF StepRows
    <3> QED BY <2>5, <3>1, DatesFields
  <2> HIDE DEF s
  <2>9. ASSUME NEW x \in Steps
        PROVE  /\ h[i + 1][x].done = timed[x].done /\ h[i + 1][x].status = timed[x].status
               /\ h[i + 1][x].earliest = moved[x].earliest
               /\ x \notin Template => h[i + 1][x] = timed[x]
    <3>1. CASE x = s
      BY <2>5, <2>7, <2>8, <3>1
    <3>2. CASE x # s
      BY <2>1, <2>6, <3>2
    <3> QED BY <3>1, <3>2
  <2>10. ASSUME NEW j \in 1..(i + 1)
         PROVE  Dates(h[i + 1][Templated[j]]) = Dates(timed[Templated[j]])
    <3>1. CASE Templated[j] = s
      BY <2>5, <3>1
    <3>2. CASE Templated[j] # s
      <4>1. j \in 1..i /\ Templated[j] \in Steps
        BY <1>1, <2>1, <3>2 DEF s
      <4> QED BY <2>1, <2>6, <3>2, <4>1
    <3> QED BY <3>1, <3>2
  <2> QED BY <2>9, <2>10
<1> HIDE DEF S
<1>7. Back(N) /\ h[N] \in StepRows
  <2>1. N \in S
    BY <1>1, <1>5, <1>6, SetInduction
  <2> QED BY <1>1, <2>1 DEF S
<1>8. ASSUME NEW x \in Steps PROVE Dates(h[N][x]) = Dates(timed[x])
  <2>1. CASE x \in Template
    <3>1. PICK j \in 1..N : Templated[j] = x
      BY <2>1, TemplateAssumption DEF Template, ToSet
    <3> QED BY <1>7, <3>1
  <2>2. CASE x \notin Template
    BY <1>7, <2>2
  <2> QED BY <2>1, <2>2
<1>9. Twins(timed, moved, timed, h[N])
  BY <1>2, <1>7, <1>8 DEF Twins
<1> QED BY <1>4, <1>9 DEF timed

LEMMA ReconciledTwice ==
  ASSUME TemplateInOrder, TemplateIsClosed,
         NEW row \in CampaignRow, NEW stones \in [Milestones -> MilestoneRow], NEW rows \in StepRows,
         NEW day \in Nat, NEW order \in RowOrders, NEW again \in RowOrders
  PROVE  LET after == Reconciled(day, row, stones, rows, order)
         IN  Reconciled(day, row, stones, after, again) = after
<1> DEFINE timed == Retimed(row, stones, rows)
           after == Staggered(day, row, timed, order)
           timedAgain == Retimed(row, stones, after)
           afterAgain == Staggered(day, row, timedAgain, again)
<1>1. Within(timed, timed)
  BY RetimedWithin
<1> HIDE DEF timed
<1>2. Twins(timed, timed, timed, timed)
  BY <1>1 DEF Twins, Within
<1>3. Within(timed, after)
  <2>1. Twins(timed, timed, after, Staggered(day, row, timed, again))
    BY <1>2, TwinsStaggered
  <2> QED BY <2>1 DEF Twins
<1> HIDE DEF after
<1>4. Twins(timed, after, timed, timedAgain)
  BY <1>3, RetimedTwin DEF timed
<1> HIDE DEF timedAgain
<1>5. Twins(timed, after, after, afterAgain)
  BY <1>4, TwinsStaggered DEF after
<1> HIDE DEF afterAgain
<1>6. ASSUME NEW x \in Steps PROVE afterAgain[x] = after[x]
  <2>1. afterAgain[x].earliest = after[x].earliest
    BY <1>5 DEF Twins
  <2> QED BY <1>5, <2>1, TwinFields, SameRow
<1>7. afterAgain = after
  <2>1. after \in StepRows /\ afterAgain \in StepRows
    BY <1>5 DEF Twins, Within
  <2> QED BY <1>6, <2>1 DEF StepRows
<1>8. Reconciled(day, row, stones, rows, order) = after
  BY DEF Reconciled, after, timed
<1>9. Reconciled(day, row, stones, after, again) = afterAgain
  BY DEF Reconciled, afterAgain, timedAgain
<1> QED BY <1>7, <1>8, <1>9

-----------------------------------------------------------------------------
(* The rows above steps, and those beside them.                            *)

Health == {"not_started", "on_track", "at_risk", "off_track"}

LEMMA WindowHealth ==
  ASSUME NEW day, NEW w PROVE EvaluateWindow(day, w) \in Health
<1>1. \A worst : Guarded(worst) \in Health
  BY DEF Guarded, Health
<1> QED BY <1>1, Zenon DEF EvaluateWindow, Health

LEMMA CampaignHealthType ==
  ASSUME NEW day, NEW row, NEW rows, NEW stages, NEW deliverables
  PROVE  CampaignHealth(day, row, rows, stages, deliverables) \in Health
<1>1. {"off_track", "at_risk"} \subseteq Health
  BY DEF Health
<1> QED BY <1>1, WindowHealth, Zenon DEF CampaignHealth

LEMMA StageStatusType == ASSUME NEW seen PROVE StageStatus(seen) \in Closing
BY DEF StageStatus, Closing

(* The days the steps of a set show.                                       *)
LEMMA ShownDays ==
  ASSUME NEW f, NEW some \in SUBSET Steps, DOMAIN f = some, f = [s \in some |-> f[s]],
         \A s \in some : f[s] \in AnyDay
  PROVE  /\ Earliest({f[s] : s \in some}) \in AnyDay
         /\ Latest({f[s] : s \in some}) \in AnyDay
<1> DEFINE days == {f[s] : s \in some}
<1>1. IsFiniteSet(days)
  BY SomeSteps, FiniteImage
<1>2. days \in SUBSET AnyDay
  OBVIOUS
<1> HIDE DEF days
<1>3. Earliest(days) \in AnyDay /\ Latest(days) \in AnyDay
  BY <1>1, <1>2, EarliestPlanned, LatestPlanned
<1> QED BY <1>3 DEF days

LEMMA RefreshedRow ==
  ASSUME NEW rows \in StepRows, NEW g
  PROVE  Refreshed(rows, g) \in StageRow
<1> DEFINE mine == Inside(g)
           a == [s \in mine |-> OrElse(rows[s].start, rows[s].due)]
           b == [s \in mine |-> OrElse(rows[s].due, rows[s].start)]
           c == [s \in mine |-> OrElse(rows[s].baseStart, rows[s].baseDue)]
           d == [s \in mine |-> OrElse(rows[s].baseDue, rows[s].baseStart)]
<1>1. mine \in SUBSET Steps
  BY DEF Inside
<1>2. \A s \in mine : /\ a[s] \in AnyDay /\ b[s] \in AnyDay
                      /\ c[s] \in AnyDay /\ d[s] \in AnyDay
  BY <1>1 DEF StepRows, StepRow, OrElse
<1>3. /\ Earliest({a[s] : s \in mine}) \in AnyDay /\ Latest({b[s] : s \in mine}) \in AnyDay
      /\ Earliest({c[s] : s \in mine}) \in AnyDay /\ Latest({d[s] : s \in mine}) \in AnyDay
  <2>1. /\ DOMAIN a = mine /\ a = [s \in mine |-> a[s]] /\ DOMAIN b = mine /\ b = [s \in mine |-> b[s]]
        /\ DOMAIN c = mine /\ c = [s \in mine |-> c[s]] /\ DOMAIN d = mine /\ d = [s \in mine |-> d[s]]
    OBVIOUS
  <2> HIDE DEF mine, a, b, c, d
  <2> QED BY <1>1, <1>2, <2>1, ShownDays
<1>4. /\ {a[s] : s \in mine} = {OrElse(rows[s].start, rows[s].due) : s \in mine}
      /\ {b[s] : s \in mine} = {OrElse(rows[s].due, rows[s].start) : s \in mine}
      /\ {c[s] : s \in mine} = {OrElse(rows[s].baseStart, rows[s].baseDue) : s \in mine}
      /\ {d[s] : s \in mine} = {OrElse(rows[s].baseDue, rows[s].baseStart) : s \in mine}
  OBVIOUS
<1> HIDE DEF a, b, c, d
<1> QED BY <1>3, <1>4, StageStatusType DEF Refreshed, StageRow

LEMMA RestartedRow ==
  ASSUME NEW rows \in StepRows, NEW g
  PROVE  RestartedStage(rows, g) \in StageRow
<1> DEFINE mine == Inside(g)
           a == [s \in mine |-> rows[s].start]
           b == [s \in mine |-> rows[s].due]
           c == [s \in mine |-> rows[s].baseStart]
           d == [s \in mine |-> rows[s].baseDue]
<1>1. mine \in SUBSET Steps
  BY DEF Inside
<1>2. \A s \in mine : /\ a[s] \in AnyDay /\ b[s] \in AnyDay
                      /\ c[s] \in AnyDay /\ d[s] \in AnyDay
  BY <1>1 DEF StepRows, StepRow
<1>3. /\ Earliest({a[s] : s \in mine}) \in AnyDay /\ Latest({b[s] : s \in mine}) \in AnyDay
      /\ Earliest({c[s] : s \in mine}) \in AnyDay /\ Latest({d[s] : s \in mine}) \in AnyDay
  <2>1. /\ DOMAIN a = mine /\ a = [s \in mine |-> a[s]] /\ DOMAIN b = mine /\ b = [s \in mine |-> b[s]]
        /\ DOMAIN c = mine /\ c = [s \in mine |-> c[s]] /\ DOMAIN d = mine /\ d = [s \in mine |-> d[s]]
    OBVIOUS
  <2> HIDE DEF mine, a, b, c, d
  <2> QED BY <1>1, <1>2, <2>1, ShownDays
<1>4. /\ {a[s] : s \in mine} = {rows[s].start : s \in mine}
      /\ {b[s] : s \in mine} = {rows[s].due : s \in mine}
      /\ {c[s] : s \in mine} = {rows[s].baseStart : s \in mine}
      /\ {d[s] : s \in mine} = {rows[s].baseDue : s \in mine}
  OBVIOUS
<1> HIDE DEF a, b, c, d
<1> QED BY <1>3, <1>4, StageStatusType DEF RestartedStage, StageRow

LEMMA HealthOfType ==
  ASSUME NEW row \in CampaignRow, NEW rows, NEW stages, NEW deliverables
  PROVE  /\ HealthOf(row, rows, stages, deliverables) \in CampaignRow
         /\ HealthOf(row, rows, stages, deliverables).start = row.start
         /\ HealthOf(row, rows, stages, deliverables).end = row.end
         /\ HealthOf(row, rows, stages, deliverables).status = row.status
         /\ HealthOf(row, rows, stages, deliverables).health =
              CampaignHealth(today, row, rows, stages, deliverables)
<1>1. CampaignHealth(today, row, rows, stages, deliverables) \in Health
  BY CampaignHealthType
<1> QED BY <1>1 DEF HealthOf, CampaignRow, Health

LEMMA SlaType ==
  ASSUME NEW row \in MilestoneRow
  PROVE  /\ WithSla(row) \in MilestoneRow /\ WithSla(row).due = row.due
         /\ WithSla(row).offset = row.offset /\ WithSla(row).hasOffset = row.hasOffset
<1>1. EvaluateSla(row) \in Sla
  <2>1. CASE row.due = NoDay
    BY <2>1 DEF EvaluateSla, Sla
  <2>2. CASE row.due # NoDay /\ row.completed # NoDay
    BY <2>2 DEF EvaluateSla, Sla
  <2>3. CASE row.due # NoDay /\ row.completed = NoDay
    BY <2>3 DEF EvaluateSla, Sla
  <2> QED BY <2>1, <2>2, <2>3
<1> QED BY <1>1 DEF WithSla, MilestoneRow

LEMMA OffsetType ==
  ASSUME NEW row \in MilestoneRow, NEW start \in AnyDay
  PROVE  /\ WithOffset(row, start) \in MilestoneRow /\ WithOffset(row, start).due = row.due
         /\ row.hasOffset => WithOffset(row, start) = row
         /\ ~row.hasOffset /\ WithOffset(row, start).hasOffset =>
              row.due # NoDay /\ WithOffset(row, start).offset = row.due - start
<1>1. row.due - start \in Int /\ row.due \in PlannedDay /\ row.hasOffset \in BOOLEAN
  <2>1. row.due \in PlannedDay /\ row.hasOffset \in BOOLEAN
    BY DEF MilestoneRow
  <2>2. row.due \in Int /\ start \in Int
    BY <2>1, PlannedIsDay
  <2> QED BY <2>1, <2>2
<1>2. CASE row.hasOffset \/ row.due = NoDay
  BY <1>1, <1>2 DEF WithOffset
<1>3. CASE ~(row.hasOffset \/ row.due = NoDay)
  <2> DEFINE offset == row.due - start
  <2>1. WithOffset(row, start) = [row EXCEPT !.offset = offset, !.hasOffset = TRUE]
    BY <1>3 DEF WithOffset
  <2> HIDE DEF offset
  <2>2. offset \in Int
    BY <1>1 DEF offset
  <2>3. [row EXCEPT !.offset = offset, !.hasOffset = TRUE] \in MilestoneRow
    BY <2>2 DEF MilestoneRow
  <2>4. /\ [row EXCEPT !.offset = offset, !.hasOffset = TRUE].due = row.due
        /\ [row EXCEPT !.offset = offset, !.hasOffset = TRUE].offset = offset
    BY DEF MilestoneRow
  <2> QED BY <1>3, <2>1, <2>3, <2>4 DEF offset
<1> QED BY <1>2, <1>3

(* A milestone with an offset is as far from the start as its offset says, *)
(* and the campaign has a start.                                           *)
Anchored(row, start) ==
  row.hasOffset => start # NoDay /\ row.due = NextWorkingDay(start + row.offset)

LEMMA SlaAnchored ==
  ASSUME NEW row \in MilestoneRow, NEW start, Anchored(row, start)
  PROVE  WithSla(row) \in MilestoneRow /\ Anchored(WithSla(row), start)
BY SlaType DEF Anchored

LEMMA ReanchoredRow ==
  ASSUME NEW row \in MilestoneRow, NEW start \in AnyDay, start # NoDay
  PROVE  Reanchored(row, start) \in MilestoneRow /\ Anchored(Reanchored(row, start), start)
<1> DEFINE known == WithOffset(row, start)
           due == NextWorkingDay(start + known.offset)
           moved == [known EXCEPT !.due = due]
<1>1. known \in MilestoneRow /\ (row.hasOffset => known = row)
  BY OffsetType
<1>2. Reanchored(row, start) = IF ~known.hasOffset THEN row ELSE WithSla(moved)
  BY DEF Reanchored
<1>3. due \in PlannedDay
  <2>1. known.offset \in Int /\ start \in Int
    BY <1>1, PlannedIsDay DEF MilestoneRow
  <2> QED BY <2>1, PlannedNext
<1>4. moved \in MilestoneRow /\ Anchored(moved, start)
  <2> HIDE DEF known
  <2>1. moved \in MilestoneRow /\ moved.due = due /\ moved.offset = known.offset
    <3> HIDE DEF due
    <3> QED BY <1>1, <1>3 DEF MilestoneRow
  <2> QED BY <2>1 DEF Anchored
<1>5. WithSla(moved) \in MilestoneRow /\ Anchored(WithSla(moved), start)
  <2> HIDE DEF moved
  <2> QED BY <1>4, SlaAnchored
<1>6. CASE known.hasOffset
  BY <1>2, <1>5, <1>6
<1>7. CASE ~known.hasOffset
  BY <1>1, <1>2, <1>7 DEF Anchored
<1> QED BY <1>6, <1>7

LEMMA FilledRow ==
  ASSUME NEW row \in MilestoneRow, NEW start \in AnyDay, NEW begin \in AnyDay,
         Anchored(row, start), start # NoDay => begin = start
  PROVE  OffsetFilled(row, begin) \in MilestoneRow /\ Anchored(OffsetFilled(row, begin), begin)
<1> DEFINE known == WithOffset(row, begin)
<1>1. CASE row.hasOffset
  <2>1. start # NoDay /\ begin = start /\ known = row
    BY <1>1, OffsetType DEF Anchored
  <2> QED BY <2>1, SlaAnchored DEF OffsetFilled
<1>2. CASE ~row.hasOffset /\ begin = NoDay
  BY <1>2, SlaAnchored DEF OffsetFilled, Anchored
<1>3. CASE ~row.hasOffset /\ begin # NoDay
  <2>1. /\ known \in MilestoneRow /\ known.due = row.due
        /\ known.hasOffset => row.due # NoDay /\ known.offset = row.due - begin
    BY <1>3, OffsetType
  <2> HIDE DEF known
  <2>2. ASSUME known.hasOffset PROVE known.due = NextWorkingDay(begin + known.offset)
    <3>1. row.due \in PlannedDay /\ row.due # NoDay
      BY <2>1, <2>2 DEF MilestoneRow
    <3>2. row.due \in Int /\ begin \in Int
      BY <3>1, PlannedIsDay
    <3>3. begin + known.offset = row.due
      BY <2>1, <2>2, <3>2
    <3>4. NextWorkingDay(row.due) = row.due
      BY <3>1, <3>2, NextWorking DEF PlannedDay
    <3> QED BY <2>1, <3>3, <3>4
  <2>3. Anchored(known, begin)
    BY <1>3, <2>2 DEF Anchored
  <2>4. WithSla(known) \in MilestoneRow /\ Anchored(WithSla(known), begin)
    BY <2>1, <2>3, SlaAnchored
  <2> QED BY <1>3, <2>4 DEF OffsetFilled, known
<1> QED BY <1>1, <1>2, <1>3

LEMMA DatesRow ==
  ASSUME NEW day \in Nat, NEW row \in StepRow, NEW edit \in Edit
  PROVE  WithDates(day, row, edit) \in StepRow
<1> DEFINE begun == IF edit.start = NoDay THEN row
                    ELSE [row EXCEPT !.start = NextWorkingDay(edit.start), !.earliest = NextWorkingDay(edit.start)]
           ended == IF edit.due = NoDay THEN begun ELSE Moved(day, begun, edit.due)
           ordered == IF ended.start # NoDay /\ ended.due # NoDay /\ ended.due < ended.start
                        THEN [ended EXCEPT !.due = ended.start] ELSE ended
<1>1. /\ edit.start \in AnyDay /\ edit.due \in AnyDay
      /\ edit.completion \in AnyDay \/ edit.completion = Blank
  BY DEF Edit
<1>2. begun \in StepRow
  <2>1. CASE edit.start = NoDay
    BY <2>1
  <2>2. CASE edit.start # NoDay
    <3> DEFINE new == NextWorkingDay(edit.start)
    <3>1. new \in AnyDay
      BY <1>1, PlannedIsDay, PlannedNext
    <3>2. begun = [row EXCEPT !.start = new, !.earliest = new]
      BY <2>2
    <3> HIDE DEF new, begun
    <3> QED BY <3>1, <3>2 DEF StepRow
  <2> QED BY <2>1, <2>2
<1> HIDE DEF begun
<1>3. ended \in StepRow
  <2>1. edit.due # NoDay => edit.due \in Nat
    BY <1>1 DEF AnyDay
  <2> QED BY <1>2, <2>1, MovedRow
<1> HIDE DEF ended
<1>4. ordered \in StepRow
  BY <1>3 DEF StepRow
<1>5. WithDates(day, row, edit) =
        IF edit.completion = NoDay THEN ordered
        ELSE IF edit.completion = Blank THEN [ordered EXCEPT !.done = NoDay]
        ELSE [ordered EXCEPT !.done = NextWorkingDay(edit.completion), !.status = "done"]
  BY Zenon DEF WithDates, ordered, ended, begun
<1> HIDE DEF ordered
<1>6. [ordered EXCEPT !.done = NoDay] \in StepRow
  BY <1>4 DEF StepRow, AnyDay
<1>7. ASSUME edit.completion # NoDay, edit.completion # Blank
      PROVE  [ordered EXCEPT !.done = NextWorkingDay(edit.completion), !.status = "done"] \in StepRow
  <2> DEFINE new == NextWorkingDay(edit.completion)
  <2>1. new \in AnyDay
    BY <1>1, <1>7, PlannedIsDay, PlannedNext
  <2> HIDE DEF new
  <2>2. [ordered EXCEPT !.done = new, !.status = "done"] \in StepRow
    BY <1>4, <2>1 DEF StepRow, Closing
  <2> QED BY <2>2 DEF new
<1> QED BY <1>4, <1>5, <1>6, <1>7

LEMMA StatusRow ==
  ASSUME NEW day \in Nat, NEW row \in StepRow,
         NEW status \in {"none", "cancelled", "waiting", "unblocked", "begun"}
  PROVE  WithStatus(day, row, status) \in StepRow
<1>1. CASE status # "begun"
  BY <1>1 DEF WithStatus, StepRow, AnyDay, Closing
<1>2. CASE status = "begun"
  <2> DEFINE begin == OrElse(row.start, NextWorkingDay(day))
  <2>1. begin \in AnyDay
    BY PlannedNext DEF OrElse, StepRow
  <2>2. WithStatus(day, row, status) = [row EXCEPT !.done = NoDay, !.status = "open", !.start = begin]
    BY <1>2 DEF WithStatus
  <2> HIDE DEF begin
  <2> QED BY <2>1, <2>2 DEF StepRow, AnyDay, Closing
<1> QED BY <1>1, <1>2

-----------------------------------------------------------------------------
(* What holds at every moment: the types, and with them that a milestone   *)
(* with an offset belongs to a campaign with a start.                      *)
IInv == TypeOK /\ \A m \in Milestones : Anchored(milestone[m], campaign.start)

LEMMA TodayIsDay == TypeOK => today \in Nat
BY DEF TypeOK, Days

LEMMA StepRequestKeeps ==
  ASSUME IInv, NEW rows \in StepRows, NEW some, StepRequest(rows, some), Request
  PROVE  IInv'
<1>1. step' \in StepRows /\ changes' \in 0..MaxChanges
  BY BoundAssumption DEF StepRequest, Request, IInv, TypeOK
<1>2. stage' \in [Stages -> StageRow]
  <2>1. \A g \in Stages : Refreshed(rows, g) \in StageRow
    BY RefreshedRow DEF StepRows
  <2>2. stage' = [g \in Stages |-> IF g \in some THEN Refreshed(rows, g) ELSE stage[g]]
    BY DEF StepRequest
  <2> QED BY <2>1, <2>2 DEF IInv, TypeOK
<1>3. PICK status \in RolledUp(stage') :
        campaign' = HealthOf([campaign EXCEPT !.status = status], step', stage', deliverable)
  BY Zenon DEF StepRequest
<1>4. campaign' \in CampaignRow /\ campaign'.start = campaign.start
  <2> DEFINE row == [campaign EXCEPT !.status = status]
  <2>1. status \in Closing
    BY <1>3 DEF RolledUp, Closing
  <2>2. row \in CampaignRow /\ row.start = campaign.start
    BY <2>1 DEF IInv, TypeOK, CampaignRow
  <2> HIDE DEF row
  <2>3. campaign' = HealthOf(row, step', stage', deliverable)
    BY <1>3 DEF row
  <2> QED BY <2>2, <2>3, HealthOfType
<1> QED BY <1>1, <1>2, <1>4 DEF StepRequest, IInv, TypeOK, StepRows

LEMMA CompletionKeeps ==
  ASSUME IInv, NEW s \in Steps, NEW row \in StepRow, NEW order \in RowOrders, NEW some,
         StepRequest(CompletedFrom(row, s, order), some), Request
  PROVE  IInv'
<1> DEFINE rows == CompletedFrom(row, s, order)
<1>1. rows \in StepRows
  BY TodayIsDay, CompletedSettles DEF IInv, TypeOK, StepRows
<1> HIDE DEF rows
<1> QED BY <1>1, StepRequestKeeps DEF rows

LEMMA OverrideDueKeeps ==
  ASSUME IInv, NEW s \in Steps, NEW day \in RequestDays, OverrideDue(s, day) PROVE IInv'
<1>1. PICK order \in RowOrders :
        StepRequest(Recalculated(today, [step EXCEPT ![s] = Moved(today, @, day)], s, order), {})
  BY Zenon DEF OverrideDue
<1> DEFINE mid == [step EXCEPT ![s] = Moved(today, @, day)]
           rows == Recalculated(today, mid, s, order)
<1>2. Moved(today, step[s], day) \in StepRow /\ Finish(Moved(today, step[s], day)) # NoDay
  BY TodayIsDay, RequestAssumption, MovedRow DEF IInv, TypeOK
<1>3. mid \in StepRows /\ Finish(mid[s]) # NoDay
  BY <1>2 DEF IInv, TypeOK, StepRows
<1> HIDE DEF mid
<1>4. rows \in StepRows
  BY <1>3, TodayIsDay, RecalculatedSettles DEF IInv
<1>5. StepRequest(rows, {}) /\ Request
  BY <1>1 DEF rows, mid, OverrideDue
<1> HIDE DEF rows
<1> QED BY <1>4, <1>5, StepRequestKeeps

LEMMA ManageKeeps ==
  ASSUME IInv, NEW s \in Steps, NEW edit \in Edits, Manage(s, edit) PROVE IInv'
<1> DEFINE row == WithDates(today, step[s], edit)
<1>1. edit \in Edit /\ row \in StepRow
  BY TodayIsDay, RequestAssumption, DatesRow DEF IInv, TypeOK
<1>2. /\ Request
      /\ IF edit.status = "done"
           THEN \E order \in RowOrders : StepRequest(CompletedFrom(row, s, order), {StageOf[s]})
           ELSE StepRequest([step EXCEPT ![s] = WithStatus(today, row, edit.status)], {StageOf[s]})
  BY DEF Manage
<1> HIDE DEF row
<1>3. CASE edit.status = "done"
  BY <1>1, <1>2, <1>3, CompletionKeeps
<1>4. CASE edit.status # "done"
  <2> DEFINE rows == [step EXCEPT ![s] = WithStatus(today, row, edit.status)]
  <2>1. edit.status \in {"none", "cancelled", "waiting", "unblocked", "begun"}
    BY <1>1, <1>4 DEF Edit
  <2>2. WithStatus(today, row, edit.status) \in StepRow
    BY <1>1, <2>1, TodayIsDay, StatusRow DEF IInv
  <2>3. rows \in StepRows
    BY <2>2 DEF IInv, TypeOK, StepRows
  <2>4. StepRequest(rows, {StageOf[s]})
    BY <1>2, <1>4
  <2> HIDE DEF rows
  <2> QED BY <1>2, <2>3, <2>4, StepRequestKeeps
<1> QED BY <1>3, <1>4

LEMMA SetPlanned ==
  ASSUME NEW old \in AnyDay, NEW day \in AnyDay
  PROVE  Set(old, day) \in AnyDay
BY PlannedIsDay, PlannedNext DEF Set

LEMMA DeliverableRequestKeeps ==
  ASSUME IInv, NEW d \in Deliverables, NEW row \in DeliverableRow, DeliverableRequest(d, row)
  PROVE  IInv'
<1>1. deliverable' \in [Deliverables -> DeliverableRow]
  BY DEF DeliverableRequest, IInv, TypeOK
<1>2. campaign' \in CampaignRow /\ campaign'.start = campaign.start
  BY HealthOfType DEF DeliverableRequest, IInv, TypeOK
<1>3. changes' \in 0..MaxChanges
  BY BoundAssumption DEF DeliverableRequest, Request, IInv, TypeOK
<1> QED BY <1>1, <1>2, <1>3 DEF DeliverableRequest, IInv, TypeOK

LEMMA DeliverablesKeep ==
  ASSUME IInv, NEW d \in Deliverables,
         \/ Publish(d)
         \/ \E day \in RequestDays : OverrideDeliverableDue(d, day)
         \/ \E start, due \in RequestDays \union {NoDay} : DeliverableDates(d, start, due)
  PROVE  IInv'
<1>1. deliverable[d] \in DeliverableRow
  BY DEF IInv, TypeOK
<1>2. CASE Publish(d)
  <2>1. [deliverable[d] EXCEPT !.published = TRUE] \in DeliverableRow
    BY <1>1, Zenon DEF DeliverableRow
  <2> QED BY <1>2, <2>1, DeliverableRequestKeeps, Zenon DEF Publish
<1>3. ASSUME NEW day \in RequestDays, OverrideDeliverableDue(d, day) PROVE IInv'
  <2> DEFINE new == NextWorkingDay(day)
             row == [deliverable[d] EXCEPT !.due = new]
  <2>1. new \in AnyDay
    BY RequestAssumption, PlannedNext
  <2>2. DeliverableRequest(d, row)
    BY <1>3 DEF OverrideDeliverableDue
  <2> HIDE DEF new
  <2>3. row \in DeliverableRow
    BY <1>1, <2>1 DEF DeliverableRow
  <2> HIDE DEF row
  <2> QED BY <2>2, <2>3, DeliverableRequestKeeps
<1>4. ASSUME NEW start \in RequestDays \union {NoDay}, NEW due \in RequestDays \union {NoDay},
             DeliverableDates(d, start, due)
      PROVE  IInv'
  <2> DEFINE begin == Set(deliverable[d].start, start)
             set == Set(deliverable[d].due, due)
             end == NotBefore(set, begin)
             row == [deliverable[d] EXCEPT !.start = begin, !.due = end]
  <2>1. begin \in AnyDay /\ set \in AnyDay
    BY <1>1, RequestAssumption, SetPlanned DEF DeliverableRow, AnyDay
  <2>2. DeliverableRequest(d, row)
    BY <1>4, Zenon DEF DeliverableDates
  <2> HIDE DEF begin, set
  <2>3. end \in AnyDay
    BY <2>1 DEF NotBefore
  <2> HIDE DEF end
  <2>4. row \in DeliverableRow
    BY <1>1, <2>1, <2>3 DEF DeliverableRow
  <2> HIDE DEF row
  <2> QED BY <2>2, <2>4, DeliverableRequestKeeps
<1> QED BY <1>2, <1>3, <1>4

LEMMA SetCampaignDatesKeeps ==
  ASSUME IInv, NEW start \in RequestDays \union {NoDay}, NEW end \in RequestDays \union {NoDay},
         SetCampaignDates(start, end)
  PROVE  IInv'
<1> DEFINE begin == Set(campaign.start, start)
           set == Set(campaign.end, end)
           close == NotBefore(set, begin)
           row == [campaign EXCEPT !.start = begin, !.end = close]
<1>1. begin \in AnyDay /\ set \in AnyDay /\ (begin = NoDay => campaign.start = NoDay)
  <2>1. campaign.start \in AnyDay /\ campaign.end \in AnyDay
    BY DEF IInv, TypeOK, CampaignRow
  <2>2. start \in AnyDay /\ end \in AnyDay
    BY RequestAssumption DEF AnyDay
  <2>3. start \in Int /\ (start # NoDay => NextWorkingDay(start) # NoDay)
    BY <2>2, PlannedIsDay, PlannedNext
  <2>4. begin = NoDay => campaign.start = NoDay
    BY <2>3 DEF Set
  <2> QED BY <2>1, <2>2, <2>4, SetPlanned
<1>2. /\ milestone' = [m \in Milestones |-> IF begin = NoDay THEN milestone[m]
                                            ELSE Reanchored(milestone[m], begin)]
      /\ campaign' = HealthOf(row, step, stage, deliverable)
  BY Zenon DEF SetCampaignDates
<1> HIDE DEF begin, set
<1>3. close \in AnyDay
  BY <1>1 DEF NotBefore
<1> HIDE DEF close
<1>4. row \in CampaignRow /\ row.start = begin
  BY <1>1, <1>3 DEF IInv, TypeOK, CampaignRow
<1> HIDE DEF row
<1>5. campaign' \in CampaignRow /\ campaign'.start = begin
  BY <1>2, <1>4, HealthOfType
<1>6. \A m \in Milestones : milestone'[m] \in MilestoneRow /\ Anchored(milestone'[m], begin)
  <2> TAKE m \in Milestones
  <2>1. milestone[m] \in MilestoneRow /\ Anchored(milestone[m], campaign.start)
    BY DEF IInv, TypeOK
  <2>2. CASE begin = NoDay
    BY <1>1, <1>2, <2>1, <2>2
  <2>3. CASE begin # NoDay
    BY <1>1, <1>2, <2>1, <2>3, ReanchoredRow
  <2> QED BY <2>2, <2>3
<1>7. milestone' \in [Milestones -> MilestoneRow]
  BY <1>2, <1>6
<1>8. changes' \in 0..MaxChanges
  BY BoundAssumption DEF SetCampaignDates, Request, IInv, TypeOK
<1> QED BY <1>5, <1>6, <1>7, <1>8 DEF SetCampaignDates, IInv, TypeOK

LEMMA MilestoneRequestKeeps ==
  ASSUME IInv, NEW m \in Milestones, NEW row \in MilestoneRow, Anchored(row, campaign.start),
         MilestoneRequest(m, row)
  PROVE  IInv'
<1>1. milestone' \in [Milestones -> MilestoneRow] /\ milestone' = [milestone EXCEPT ![m] = row]
  BY DEF MilestoneRequest, IInv, TypeOK
<1>2. campaign' \in CampaignRow /\ campaign'.start = campaign.start
  BY HealthOfType DEF MilestoneRequest, IInv, TypeOK
<1>3. \A n \in Milestones : Anchored(milestone'[n], campaign.start)
  BY <1>1 DEF IInv, TypeOK
<1>4. changes' \in 0..MaxChanges
  BY BoundAssumption DEF MilestoneRequest, Request, IInv, TypeOK
<1> QED BY <1>1, <1>2, <1>3, <1>4 DEF MilestoneRequest, IInv, TypeOK

LEMMA MilestonesKeep ==
  ASSUME IInv, NEW m \in Milestones,
         \/ \E day \in RequestDays : UpdateMilestone(m, day)
         \/ \E day \in RequestDays \union {NoDay} : CompleteMilestone(m, day)
         \/ \E sla \in Sla : OverrideSla(m, sla)
         \/ ClearSla(m)
  PROVE  IInv'
<1>1. milestone[m] \in MilestoneRow /\ Anchored(milestone[m], campaign.start)
  BY DEF IInv, TypeOK
<1>2. ASSUME NEW day \in RequestDays, UpdateMilestone(m, day) PROVE IInv'
  <2> DEFINE due == NextWorkingDay(day)
             moved == [milestone[m] EXCEPT !.due = due]
             row == IF campaign.start = NoDay THEN moved
                    ELSE [moved EXCEPT !.offset = due - campaign.start, !.hasOffset = TRUE]
  <2>1. due \in PlannedDay /\ due \in Int /\ NextWorkingDay(due) = due
    <3>1. day \in Int
      BY RequestAssumption
    <3>2. due \in Working /\ due \in Int
      BY <3>1, NextWorking
    <3> HIDE DEF due
    <3> QED BY <3>2, NextWorking DEF PlannedDay
  <2>2. MilestoneRequest(m, WithSla(row))
    BY <1>2, Zenon DEF UpdateMilestone
  <2> HIDE DEF due
  <2>3. moved \in MilestoneRow /\ moved.due = due /\ moved.hasOffset = milestone[m].hasOffset
    BY <1>1, <2>1 DEF MilestoneRow
  <2> HIDE DEF moved
  <2>4. row \in MilestoneRow /\ Anchored(row, campaign.start)
    <3>1. CASE campaign.start = NoDay
      BY <1>1, <2>3, <3>1 DEF Anchored
    <3>2. CASE campaign.start # NoDay
      <4> DEFINE offset == due - campaign.start
      <4>1. campaign.start \in Int
        BY PlannedIsDay DEF IInv, TypeOK, CampaignRow
      <4>2. offset \in Int /\ campaign.start + offset = due
        BY <2>1, <4>1
      <4>3. row = [moved EXCEPT !.offset = offset, !.hasOffset = TRUE]
        BY <3>2
      <4> HIDE DEF offset, row
      <4>4. row \in MilestoneRow /\ row.due = due /\ row.offset = offset
        BY <2>3, <4>2, <4>3 DEF MilestoneRow
      <4> QED BY <2>1, <3>2, <4>2, <4>4 DEF Anchored
    <3> QED BY <3>1, <3>2
  <2> HIDE DEF row
  <2>5. WithSla(row) \in MilestoneRow /\ Anchored(WithSla(row), campaign.start)
    BY <2>4, SlaAnchored
  <2> QED BY <2>2, <2>5, MilestoneRequestKeeps
<1>3. ASSUME NEW day \in RequestDays \union {NoDay}, CompleteMilestone(m, day) PROVE IInv'
  <2> DEFINE row == [milestone[m] EXCEPT !.completed = day]
  <2>1. day \in AnyDay
    BY RequestAssumption DEF AnyDay
  <2>2. row \in MilestoneRow /\ Anchored(row, campaign.start)
    BY <1>1, <2>1 DEF MilestoneRow, Anchored
  <2>3. MilestoneRequest(m, WithSla(row))
    BY <1>3 DEF CompleteMilestone
  <2> HIDE DEF row
  <2> QED BY <2>2, <2>3, SlaAnchored, MilestoneRequestKeeps
<1>4. ASSUME NEW sla \in Sla, OverrideSla(m, sla) PROVE IInv'
  <2> DEFINE row == [milestone[m] EXCEPT !.sla = sla, !.manual = TRUE]
  <2>1. row \in MilestoneRow /\ Anchored(row, campaign.start)
    BY <1>1 DEF MilestoneRow, Anchored
  <2>2. MilestoneRequest(m, row)
    BY <1>4 DEF OverrideSla
  <2> HIDE DEF row
  <2> QED BY <2>1, <2>2, MilestoneRequestKeeps
<1>5. CASE ClearSla(m)
  <2> DEFINE row == [milestone[m] EXCEPT !.manual = FALSE]
  <2>1. row \in MilestoneRow /\ Anchored(row, campaign.start)
    BY <1>1 DEF MilestoneRow, Anchored
  <2>2. MilestoneRequest(m, WithSla(row))
    BY <1>5 DEF ClearSla
  <2> HIDE DEF row
  <2> QED BY <2>1, <2>2, SlaAnchored, MilestoneRequestKeeps
<1> QED BY <1>2, <1>3, <1>4, <1>5

LEMMA DefaultDueRow ==
  ASSUME TypeOK, NEW d \in Deliverables, OrElse(campaign.start, ScopeStart) # NoDay
  PROVE  WithDefaultDue(d, deliverable[d]) \in DeliverableRow
<1> DEFINE from == OrElse(campaign.start, ScopeStart)
           due == NextWorkingDay(AddWorkingDays(from, DueOffset[d]))
<1>1. from \in Int
  BY PlannedIsDay, RequestAssumption DEF OrElse, TypeOK, CampaignRow
<1>2. due \in AnyDay
  <2> HIDE DEF from
  <2>1. AddWorkingDays(from, DueOffset[d]) \in Int
    BY <1>1, DueAssumption, AddedDays
  <2> QED BY <2>1, PlannedNext
<1>3. WithDefaultDue(d, deliverable[d]) =
        [deliverable[d] EXCEPT !.due = OrElse(@, due), !.baseDue = OrElse(@, due)]
  BY DEF WithDefaultDue
<1> HIDE DEF due
<1>4. /\ deliverable[d] \in DeliverableRow
      /\ OrElse(deliverable[d].due, due) \in AnyDay
      /\ OrElse(deliverable[d].baseDue, due) \in AnyDay
  BY <1>2 DEF OrElse, TypeOK, DeliverableRow
<1> QED BY <1>3, <1>4 DEF DeliverableRow

LEMMA RunOpsJobKeeps == ASSUME IInv, RunOpsJob PROVE IInv'
<1>1. step' \in StepRows
  <2>1. PICK order \in RowOrders : step' = Reconciled(today, campaign, milestone, step, order)
    BY Zenon DEF RunOpsJob
  <2> QED BY <2>1, TodayIsDay, ReconciledPlanned DEF StepRows, IInv, TypeOK
<1>2. stage' \in [Stages -> StageRow]
  <2>1. stage' = [g \in Stages |-> Refreshed(step', g)]
    BY Zenon DEF RunOpsJob
  <2>2. \A g \in Stages : Refreshed(step', g) \in StageRow
    BY <1>1, RefreshedRow DEF StepRows
  <2> QED BY <2>1, <2>2
<1>3. deliverable' \in [Deliverables -> DeliverableRow]
  <2>1. /\ deliverable' = [d \in Deliverables |->
             IF NoDay \in {deliverable[d].due, deliverable[d].baseDue} THEN WithDefaultDue(d, deliverable[d])
             ELSE deliverable[d]]
        /\ \/ OrElse(campaign.start, ScopeStart) # NoDay
           \/ \A d \in Deliverables : NoDay \notin {deliverable[d].due, deliverable[d].baseDue}
    BY Zenon DEF RunOpsJob
  <2>2. ASSUME NEW d \in Deliverables PROVE deliverable'[d] \in DeliverableRow
    <3>1. CASE OrElse(campaign.start, ScopeStart) # NoDay
      BY <2>1, <3>1, DefaultDueRow DEF IInv, TypeOK
    <3>2. CASE NoDay \notin {deliverable[d].due, deliverable[d].baseDue}
      BY <2>1, <3>2 DEF IInv, TypeOK
    <3> QED BY <2>1, <3>1, <3>2
  <2> QED BY <2>1, <2>2
<1>4. changes' \in 0..MaxChanges
  BY BoundAssumption DEF RunOpsJob, Request, IInv, TypeOK
<1> QED BY <1>1, <1>2, <1>3, <1>4 DEF RunOpsJob, IInv, TypeOK, StepRows

LEMMA RestartKeeps == ASSUME IInv, Restart PROVE IInv'
<1>1. Dues \in SUBSET AnyDay /\ IsFiniteSet(Dues)
  <2> DEFINE f == [m \in Milestones |-> milestone[m].due]
  <2>1. IsFiniteSet({f[m] : m \in Milestones})
    <3>1. DOMAIN f = Milestones /\ f = [m \in Milestones |-> f[m]]
      OBVIOUS
    <3> HIDE DEF f
    <3> QED BY <3>1, TemplateAssumption, FiniteImage
  <2>2. {f[m] : m \in Milestones} = Dues
    BY DEF Dues
  <2>3. \A m \in Milestones : milestone[m].due \in AnyDay
    BY PlannedIsDay DEF IInv, TypeOK, MilestoneRow
  <2> QED BY <2>1, <2>2, <2>3 DEF Dues
<1>2. /\ campaign' \in CampaignRow
      /\ campaign.start # NoDay => campaign'.start = campaign.start
  <2>1. Earliest(Dues) \in AnyDay /\ Latest(Dues) \in AnyDay
    BY <1>1, EarliestPlanned, LatestPlanned
  <2> DEFINE begin == OrElse(campaign.start, Earliest(Dues))
             close == OrElse(campaign.end, Latest(Dues))
  <2>2. begin \in AnyDay /\ close \in AnyDay
    BY <2>1 DEF OrElse, IInv, TypeOK, CampaignRow
  <2>3. campaign' = [campaign EXCEPT !.start = begin, !.end = close]
    <3>1. StartFilled(campaign) = [campaign EXCEPT !.start = begin]
      BY Zenon DEF StartFilled
    <3>2. campaign' = [StartFilled(campaign) EXCEPT !.end = OrElse(@, Latest(Dues))]
      BY Zenon DEF Restart, EndFilled
    <3> QED BY <3>1, <3>2 DEF IInv, TypeOK, CampaignRow
  <2>4. campaign.start # NoDay => begin = campaign.start
    BY DEF OrElse
  <2> HIDE DEF begin, close
  <2> QED BY <2>2, <2>3, <2>4 DEF IInv, TypeOK, CampaignRow
<1>3. \A m \in Milestones : milestone'[m] \in MilestoneRow /\ Anchored(milestone'[m], campaign'.start)
  <2> TAKE m \in Milestones
  <2>1. milestone[m] \in MilestoneRow /\ Anchored(milestone[m], campaign.start)
    BY DEF IInv, TypeOK
  <2>2. milestone'[m] = OffsetFilled(milestone[m], campaign'.start)
    BY DEF Restart
  <2>3. campaign.start \in AnyDay /\ campaign'.start \in AnyDay
    BY <1>2 DEF IInv, TypeOK, CampaignRow
  <2> QED BY <1>2, <2>1, <2>2, <2>3, FilledRow
<1>4. milestone' \in [Milestones -> MilestoneRow]
  <2>1. milestone' = [m \in Milestones |-> OffsetFilled(milestone[m], campaign'.start)]
    BY DEF Restart
  <2> QED BY <1>3, <2>1
<1>5. step' \in StepRows
  <2>1. step' = [s \in Steps |->
          [step[s] EXCEPT !.earliest = OrElse(@, OrElse(step[s].start, step[s].baseStart))]]
    BY Zenon DEF Restart
  <2>2. ASSUME NEW s \in Steps PROVE step'[s] \in StepRow
    <3> DEFINE day == OrElse(step[s].earliest, OrElse(step[s].start, step[s].baseStart))
    <3>1. step[s] \in StepRow
      BY DEF IInv, TypeOK
    <3>2. day \in AnyDay
      BY <3>1 DEF OrElse, StepRow
    <3>3. step'[s] = [step[s] EXCEPT !.earliest = day]
      BY <2>1
    <3> HIDE DEF day
    <3> QED BY <3>1, <3>2, <3>3 DEF StepRow
  <2> QED BY <2>1, <2>2 DEF StepRows
<1>6. stage' \in [Stages -> StageRow]
  <2>1. \A g \in Stages : RestartedStage(step, g) \in StageRow
    BY RestartedRow DEF StepRows, IInv, TypeOK
  <2> QED BY <2>1 DEF Restart
<1>7. changes' \in 0..MaxChanges
  BY BoundAssumption DEF Restart, Request, IInv, TypeOK
<1> QED BY <1>2, <1>3, <1>4, <1>5, <1>6, <1>7 DEF Restart, IInv, TypeOK, StepRows

LEMMA InitIsTyped == Init => IInv
<1> SUFFICES ASSUME Init PROVE IInv
  OBVIOUS
<1>1. PICK s \in Situations :
        /\ step = s.step /\ stage = s.stage /\ deliverable = s.deliverable
        /\ campaign = s.campaign /\ milestone = s.milestone
  BY DEF Init
<1>2. today \in Days /\ changes \in 0..MaxChanges
  BY BoundAssumption DEF Init, Days
<1> QED BY <1>1, <1>2, SituationAssumption DEF IInv, TypeOK, Anchored

LEMMA NextKeeps == IInv /\ [Next]_vars => IInv'
<1> SUFFICES ASSUME IInv, [Next]_vars PROVE IInv'
  OBVIOUS
<1>1. ASSUME NEW s \in Steps, Complete(s) PROVE IInv'
  <2>1. step[s] \in StepRow
    BY DEF IInv, TypeOK
  <2> QED BY <1>1, <2>1, CompletionKeeps, Zenon DEF Complete
<1>2. ASSUME NEW status, status \in Closing, SetCampaignStatus(status) PROVE IInv'
  <2>1. campaign' \in CampaignRow /\ campaign'.start = campaign.start
    BY <1>2 DEF SetCampaignStatus, IInv, TypeOK, CampaignRow
  <2>2. changes' \in 0..MaxChanges
    BY <1>2, BoundAssumption DEF SetCampaignStatus, Request, IInv, TypeOK
  <2> QED BY <1>2, <2>1, <2>2 DEF SetCampaignStatus, IInv, TypeOK
<1>3. CASE RecalculateHealth
  <2>1. campaign' \in CampaignRow /\ campaign'.start = campaign.start
    BY <1>3, HealthOfType DEF RecalculateHealth, IInv, TypeOK
  <2>2. changes' \in 0..MaxChanges
    BY <1>3, BoundAssumption DEF RecalculateHealth, Request, IInv, TypeOK
  <2> QED BY <1>3, <2>1, <2>2 DEF RecalculateHealth, IInv, TypeOK
<1>4. CASE DayPasses
  <2>1. today' \in Days
    BY <1>4, BoundAssumption DEF DayPasses, Days, IInv, TypeOK
  <2> QED BY <1>4, <2>1 DEF DayPasses, IInv, TypeOK
<1>5. CASE Unhealthy
  <2>1. {"done", "cancelled", "open"} \subseteq Closing
    BY DEF Closing
  <2> QED BY <1>2, <1>4, <1>5, <2>1, RunOpsJobKeeps, RestartKeeps DEF Unhealthy
<1>6. CASE UNCHANGED vars
  BY <1>6 DEF vars, IInv, TypeOK
<1> QED
  BY <1>1, <1>3, <1>5, <1>6, OverrideDueKeeps, ManageKeeps, DeliverablesKeep,
     SetCampaignDatesKeeps, MilestonesKeep, Zenon DEF Next

(* Every row keeps its type, in any calendar: whatever sets the date of a  *)
(* milestone, a request, a start that moves or a backfill, it is due on a  *)
(* working day, and where an offset is known the offset puts it there.     *)
THEOREM Typed == Spec => []IInv
BY InitIsTyped, NextKeeps, PTL DEF Spec

THEOREM TypeCorrect == Spec => []TypeOK
<1>1. IInv => TypeOK
  BY DEF IInv
<1> QED BY <1>1, Typed, PTL

(* One visit of each step leaves no open step to begin before one it waits *)
(* for ends, for any steps, whatever follows whatever and in whatever      *)
(* order the rows come (_recalculate_successor_chain).                     *)
THEOREM ChainSettles == Spec => []ChainIsSettled
BY TypeCorrect, SettledChain, PTL

(* A milestone that has an offset stays where it puts it, in any campaign: *)
(* the offset is never kept from a start the campaign has lost.            *)
THEOREM MilestonesFollow == Spec => []MilestonesFollowStart
<1>1. IInv => MilestonesFollowStart
  BY DEF IInv, Anchored, MilestonesFollowStart
<1> QED BY <1>1, Typed, PTL

(* Once a campaign was repaired, a second repair moves no date of any of   *)
(* its steps, whatever was planned by hand before and in whatever order    *)
(* the rows come, if the template lists a step after those it needs, and   *)
(* the publications, their promotions and what comes after a step of the   *)
(* template are steps of it (reconcile_campaign).                          *)
THEOREM RepairComesToRest == Spec => [](TemplateInOrder /\ TemplateIsClosed => RepairSettles)
<1>1. TypeOK => (TemplateInOrder /\ TemplateIsClosed => RepairSettles)
  <2> SUFFICES ASSUME TypeOK, TemplateInOrder, TemplateIsClosed, NEW order \in RowOrders, NEW again \in RowOrders
               PROVE  LET after == Reconciled(today, campaign, milestone, step, order)
                      IN  Reconciled(today, campaign, milestone, after, again) = after
    BY DEF RepairSettles
  <2>1. /\ today \in Nat /\ campaign \in CampaignRow /\ milestone \in [Milestones -> MilestoneRow]
        /\ step \in StepRows
    BY TodayIsDay DEF TypeOK, StepRows
  <2> QED BY <2>1, ReconciledTwice
<1> QED BY <1>1, TypeCorrect, PTL

-----------------------------------------------------------------------------
(* The health a request stores.                                            *)

(* The health of a campaign reads nothing of the campaign's own row but    *)
(* its dates and its status.                                               *)
LEMMA HealthReads ==
  ASSUME NEW day, NEW row, NEW other, NEW rows, NEW stages, NEW deliverables,
         row.start = other.start, row.end = other.end, row.status = other.status
  PROVE  CampaignHealth(day, row, rows, stages, deliverables) =
           CampaignHealth(day, other, rows, stages, deliverables)
<1>1. ASSUME NEW s PROVE StepHealth(day, row, rows, s) = StepHealth(day, other, rows, s)
  BY Zenon DEF StepHealth
<1>2. ASSUME NEW some PROVE TurnaroundLeft(row, rows, some) = TurnaroundLeft(other, rows, some)
  <2>1. \A s : Turnaround(row, rows[s]) = Turnaround(other, rows[s])
    BY Zenon DEF Turnaround
  <2>2. [s \in Steps |-> Turnaround(row, rows[s])] = [s \in Steps |-> Turnaround(other, rows[s])]
    BY <2>1
  <2> QED BY <2>2, Zenon DEF TurnaroundLeft
<1>3. ASSUME NEW some
      PROVE  {StepHealth(day, row, rows, s) : s \in some} = {StepHealth(day, other, rows, s) : s \in some}
  BY <1>1
<1>4. ASSUME NEW g PROVE StageHealth(day, row, rows, stages, g) = StageHealth(day, other, rows, stages, g)
  BY <1>2, <1>3, Zenon DEF StageHealth
<1>5. ASSUME NEW d
      PROVE  DeliverableHealth(day, row, rows, deliverables, d) =
               DeliverableHealth(day, other, rows, deliverables, d)
  BY <1>3, Zenon DEF DeliverableHealth
<1>6. {StageHealth(day, row, rows, stages, g) : g \in Stages} =
        {StageHealth(day, other, rows, stages, g) : g \in Stages}
  BY <1>4
<1>7. {DeliverableHealth(day, row, rows, deliverables, d) : d \in Deliverables} =
        {DeliverableHealth(day, other, rows, deliverables, d) : d \in Deliverables}
  BY <1>5
<1>8. CampaignStart(row, deliverables) = CampaignStart(other, deliverables)
  BY DEF CampaignStart
<1> DEFINE Own(x) ==
             EvaluateWindow(day,
               [start |-> CampaignStart(x, deliverables),
                due |-> OrElse(x.end, Latest({deliverables[d].due : d \in Deliverables})),
                closed |-> x.status # "open",
                hours |-> HoursLeft(rows, Steps), needs |-> TurnaroundLeft(x, rows, Steps),
                capacity |-> FourDaysCapacity(TeamCapacity), buffer |-> Buffer["campaign"],
                worst |-> "none"])
           Inner(x) == {StageHealth(day, x, rows, stages, g) : g \in Stages}
           Others(x) == IF NoDeliverables THEN {StepHealth(day, x, rows, s) : s \in Steps}
                        ELSE {DeliverableHealth(day, x, rows, deliverables, d) : d \in Deliverables}
<1>9. Own(row) = Own(other)
  BY <1>2, <1>8
<1>10. Inner(row) = Inner(other) /\ Others(row) = Others(other)
  BY <1>3, <1>6, <1>7, Zenon
<1>11. \A x : CampaignHealth(day, x, rows, stages, deliverables) =
               IF "off_track" \in Inner(x) THEN "off_track"
               ELSE IF Own(x) = "on_track" /\ {"at_risk", "off_track"} \intersect (Inner(x) \union Others(x)) # {}
                 THEN "at_risk"
               ELSE Own(x)
  BY Zenon DEF CampaignHealth
<1> HIDE DEF Own, Inner, Others
<1> QED BY <1>9, <1>10, <1>11, Zenon

LEMMA HealthStored ==
  ASSUME NEW row \in CampaignRow, NEW rows, NEW stages, NEW deliverables
  PROVE  HealthOf(row, rows, stages, deliverables).health =
           CampaignHealth(today, HealthOf(row, rows, stages, deliverables), rows, stages, deliverables)
<1> DEFINE other == HealthOf(row, rows, stages, deliverables)
<1>1. /\ other.start = row.start /\ other.end = row.end /\ other.status = row.status
      /\ other.health = CampaignHealth(today, row, rows, stages, deliverables)
  BY HealthOfType
<1> HIDE DEF other
<1>2. CampaignHealth(today, row, rows, stages, deliverables) =
        CampaignHealth(today, other, rows, stages, deliverables)
  BY <1>1, HealthReads
<1> QED BY <1>1, <1>2 DEF other

(* The step is one of those known to leave a stored health behind, or the  *)
(* health it stores is that of the rows it leaves.                         *)
Seen == campaign'.health = CampaignHealth(today, campaign', step', stage', deliverable') \/ Unhealthy

LEMMA StepRequestSeen ==
  ASSUME TypeOK, NEW rows, NEW some, StepRequest(rows, some) PROVE Seen
<1>1. PICK status \in RolledUp(stage') :
        campaign' = HealthOf([campaign EXCEPT !.status = status], step', stage', deliverable)
  BY Zenon DEF StepRequest
<1> DEFINE row == [campaign EXCEPT !.status = status]
<1>2. row \in CampaignRow
  BY DEF TypeOK, CampaignRow, RolledUp, Closing
<1>3. campaign' = HealthOf(row, step', stage', deliverable)
  BY <1>1
<1> HIDE DEF row
<1>4. campaign'.health = CampaignHealth(today, campaign', step', stage', deliverable)
  BY <1>2, <1>3, HealthStored
<1>5. deliverable' = deliverable
  BY DEF StepRequest
<1> QED BY <1>4, <1>5 DEF Seen

LEMMA StepsSeen ==
  ASSUME TypeOK, NEW s \in Steps,
         Complete(s) \/ (\E day \in RequestDays : OverrideDue(s, day)) \/ (\E edit \in Edits : Manage(s, edit))
  PROVE  Seen
<1>1. \E rows, some : StepRequest(rows, some)
  BY Zenon DEF Complete, OverrideDue, Manage
<1> QED BY <1>1, StepRequestSeen

LEMMA DeliverableRequestSeen ==
  ASSUME TypeOK, NEW d, NEW row, DeliverableRequest(d, row) PROVE Seen
<1>1. campaign' = HealthOf(campaign, step, stage, deliverable') /\ step' = step /\ stage' = stage
  BY DEF DeliverableRequest
<1>2. campaign'.health = CampaignHealth(today, campaign', step, stage, deliverable')
  BY <1>1, HealthStored DEF TypeOK
<1> QED BY <1>1, <1>2 DEF Seen

\* What leaves every row as it was but the campaign's, and milestones.
LEMMA CampaignSeen ==
  ASSUME NEW row \in CampaignRow, campaign' = HealthOf(row, step, stage, deliverable),
         UNCHANGED <<step, stage, deliverable>>
  PROVE  Seen
<1>1. campaign'.health = CampaignHealth(today, campaign', step, stage, deliverable)
  BY HealthStored
<1> QED BY <1>1 DEF Seen

LEMMA SetCampaignDatesSeen ==
  ASSUME TypeOK, NEW start \in RequestDays \union {NoDay}, NEW end \in RequestDays \union {NoDay},
         SetCampaignDates(start, end)
  PROVE  Seen
<1> DEFINE begin == Set(campaign.start, start)
           set == Set(campaign.end, end)
           close == NotBefore(set, begin)
           row == [campaign EXCEPT !.start = begin, !.end = close]
<1>1. campaign \in CampaignRow /\ start \in AnyDay /\ end \in AnyDay
  BY RequestAssumption DEF TypeOK, AnyDay
<1>2. begin \in AnyDay /\ set \in AnyDay
  BY <1>1, SetPlanned DEF CampaignRow
<1>3. campaign' = HealthOf(row, step, stage, deliverable) /\ UNCHANGED <<step, stage, deliverable>>
  BY Zenon DEF SetCampaignDates
<1> HIDE DEF begin, set
<1>4. close \in AnyDay
  BY <1>2 DEF NotBefore
<1> HIDE DEF close
<1>5. row \in CampaignRow
  BY <1>1, <1>2, <1>4 DEF CampaignRow
<1> HIDE DEF row
<1> QED BY <1>3, <1>5, CampaignSeen

(* Every request but those known not to leaves the health it stores in     *)
(* agreement with what health is made of, in whatever state it finds them. *)
THEOREM HealthStaysFresh == Spec => HealthIsFresh
<1>1. TypeOK /\ [Next]_vars => [Seen]_vars
  <2> SUFFICES ASSUME TypeOK, Next PROVE Seen
    BY Zenon
  <2>2. ASSUME NEW m, NEW row, MilestoneRequest(m, row) PROVE Seen
    BY <2>2, CampaignSeen DEF MilestoneRequest, TypeOK
  <2>3. ASSUME NEW d \in Deliverables,
               \/ Publish(d)
               \/ \E day \in RequestDays : OverrideDeliverableDue(d, day)
               \/ \E start, due \in RequestDays \union {NoDay} : DeliverableDates(d, start, due)
        PROVE  Seen
    <3>1. \E row : DeliverableRequest(d, row)
      BY <2>3, Zenon DEF Publish, OverrideDeliverableDue, DeliverableDates
    <3> QED BY <3>1, DeliverableRequestSeen
  <2>4. ASSUME NEW m \in Milestones,
               \/ \E day \in RequestDays : UpdateMilestone(m, day)
               \/ \E day \in RequestDays \union {NoDay} : CompleteMilestone(m, day)
               \/ \E sla \in Sla : OverrideSla(m, sla)
               \/ ClearSla(m)
        PROVE  Seen
    BY <2>2, <2>4, Zenon DEF UpdateMilestone, CompleteMilestone, OverrideSla, ClearSla
  <2>5. CASE RecalculateHealth
    BY <2>5, CampaignSeen DEF RecalculateHealth, TypeOK
  <2>6. CASE Unhealthy
    BY <2>6 DEF Seen
  <2> QED BY <2>3, <2>4, <2>5, <2>6, StepsSeen, SetCampaignDatesSeen, Zenon DEF Next
<1>2. [Seen]_vars <=>
        [campaign'.health = CampaignHealth(today, campaign', step', stage', deliverable') \/ Unhealthy]_vars
  BY DEF Seen
<1>3. Spec => [][Seen]_vars
  BY <1>1, TypeCorrect, PTL DEF Spec
<1> QED BY <1>2, <1>3, PTL DEF HealthIsFresh

-----------------------------------------------------------------------------
(* Health, when a day passes.                                              *)

(* A sum over a set is a natural, whatever order it is added up in.        *)
Pick(s) == CHOOSE x \in s : TRUE
Summed(it, f, s) == IF s = {} THEN 0 ELSE f[Pick(s)] + it[s \ {Pick(s)}]
SumsUp(it, f, S) == \A s \in SUBSET S : it[s] = Summed(it, f, s)
Naturals(f, S) == \A x \in S : f[x] \in Nat

LEMMA PickLeaves ==
  ASSUME NEW S, IsFiniteSet(S), NEW s \in SUBSET S, s # {}
  PROVE  /\ Pick(s) \in S /\ s \ {Pick(s)} \in SUBSET S /\ IsFiniteSet(s)
         /\ Cardinality(s) \in Nat /\ Cardinality(s) # 0
         /\ Cardinality(s \ {Pick(s)}) = Cardinality(s) - 1
<1>1. Pick(s) \in s
  BY Zenon DEF Pick
<1>2. IsFiniteSet(s)
  BY FS_Subset, Zenon
<1>3. Cardinality(s) \in Nat /\ Cardinality(s) # 0
  BY <1>2, FS_CardinalityType, FS_EmptySet
<1>4. Cardinality(s \ {Pick(s)}) = Cardinality(s) - 1
  BY <1>1, <1>2, FS_RemoveElement
<1> QED BY <1>1, <1>2, <1>3, <1>4

LEMMA SumExists ==
  ASSUME NEW S, IsFiniteSet(S), NEW f, Naturals(f, S)
  PROVE  \E it \in [SUBSET S -> Nat] : SumsUp(it, f, S)
<1> DEFINE P(k) == \E it \in [SUBSET S -> Nat] :
                     \A s \in SUBSET S : Cardinality(s) <= k => it[s] = Summed(it, f, s)
<1>0. \A s \in SUBSET S : Cardinality(s) \in Nat /\ (Cardinality(s) = 0 => s = {})
  <2> TAKE s \in SUBSET S
  <2>1. IsFiniteSet(s)
    BY FS_Subset, Zenon
  <2> QED BY <2>1, FS_CardinalityType, FS_EmptySet
<1>1. P(0)
  <2> DEFINE it == [s \in SUBSET S |-> 0]
  <2>1. it \in [SUBSET S -> Nat]
    OBVIOUS
  <2>2. \A s \in SUBSET S : Cardinality(s) <= 0 => it[s] = Summed(it, f, s)
    BY <1>0 DEF Summed
  <2> HIDE DEF it
  <2> QED BY <2>1, <2>2
<1>2. ASSUME NEW k \in Nat, P(k) PROVE P(k + 1)
  <2>1. PICK old \in [SUBSET S -> Nat] :
          \A s \in SUBSET S : Cardinality(s) <= k => old[s] = Summed(old, f, s)
    BY <1>2
  <2> DEFINE it == [s \in SUBSET S |-> IF Cardinality(s) = k + 1 THEN Summed(old, f, s) ELSE old[s]]
  <2>2. \A s \in SUBSET S : s # {} => f[Pick(s)] \in Nat /\ old[s \ {Pick(s)}] \in Nat
    BY <2>1, PickLeaves DEF Naturals
  <2>3. it \in [SUBSET S -> Nat]
    <3>1. \A s \in SUBSET S : Summed(old, f, s) \in Nat
      BY <2>2 DEF Summed
    <3> QED BY <2>1, <3>1
  <2>4. ASSUME NEW s \in SUBSET S, Cardinality(s) <= k + 1 PROVE it[s] = Summed(it, f, s)
    <3>1. Summed(it, f, s) = Summed(old, f, s)
      <4>1. CASE s = {}
        BY <4>1 DEF Summed
      <4>2. CASE s # {}
        <5>1. s \ {Pick(s)} \in SUBSET S /\ Cardinality(s \ {Pick(s)}) # k + 1
          BY <2>4, <4>2, PickLeaves
        <5>2. it[s \ {Pick(s)}] = old[s \ {Pick(s)}]
          BY <5>1
        <5> HIDE DEF it
        <5> QED BY <5>2 DEF Summed
      <4> QED BY <4>1, <4>2
    <3>2. Cardinality(s) # k + 1 => Cardinality(s) <= k
      BY <1>0, <2>4
    <3> QED BY <2>1, <3>1, <3>2
  <2> HIDE DEF it
  <2> QED BY <2>3, <2>4
<1> HIDE DEF P
<1> DEFINE U == {k \in Nat : P(k)}
<1>3. 0 \in U /\ \A k \in Nat : k \in U => k + 1 \in U
  BY <1>1, <1>2
<1> HIDE DEF U
<1>4. Cardinality(S) \in Nat
  BY FS_CardinalityType
<1>5. P(Cardinality(S))
  BY <1>3, <1>4, SetInduction DEF U
<1>6. PICK it \in [SUBSET S -> Nat] :
        \A s \in SUBSET S : Cardinality(s) <= Cardinality(S) => it[s] = Summed(it, f, s)
  BY <1>5 DEF P
<1>7. \A s \in SUBSET S : Cardinality(s) <= Cardinality(S)
  BY FS_Subset
<1> QED BY <1>6, <1>7 DEF SumsUp

LEMMA SumIsNatural ==
  ASSUME NEW S, IsFiniteSet(S), NEW f, Naturals(f, S)
  PROVE  SumFunctionOnSet(f, S) \in Nat
<1> DEFINE Solves(it) == it = [s \in SUBSET S |-> Summed(it, f, s)]
           iter == CHOOSE it : Solves(it)
<1>1. SumFunctionOnSet(f, S) = iter[S]
  BY Zenon DEF SumFunctionOnSet, FoldFunctionOnSet, MapThenFoldSet, Summed, Pick
<1>2. \E it : Solves(it)
  <2>1. PICK it \in [SUBSET S -> Nat] : SumsUp(it, f, S)
    BY SumExists
  <2>2. Solves(it)
    BY <2>1 DEF SumsUp
  <2> HIDE DEF Solves
  <2> QED BY <2>2
<1>3. Solves(iter)
  <2> HIDE DEF Solves
  <2> QED BY <1>2
<1> HIDE DEF iter
<1>4. \A s \in SUBSET S : iter[s] = Summed(iter, f, s)
  BY <1>3
<1> HIDE DEF Solves
<1> DEFINE U == {k \in Nat : \A s \in SUBSET S : Cardinality(s) = k => iter[s] \in Nat}
<1>5. 0 \in U
  <2> SUFFICES ASSUME NEW s \in SUBSET S, Cardinality(s) = 0 PROVE iter[s] \in Nat
    OBVIOUS
  <2>1. s = {}
    BY PickLeaves
  <2>2. iter[s] = 0
    BY <1>4, <2>1 DEF Summed
  <2> QED BY <2>2
<1>6. ASSUME NEW k \in Nat, k \in U PROVE k + 1 \in U
  <2> SUFFICES ASSUME NEW s \in SUBSET S, Cardinality(s) = k + 1 PROVE iter[s] \in Nat
    OBVIOUS
  <2>1. s # {}
    BY FS_EmptySet
  <2>2. f[Pick(s)] \in Nat /\ s \ {Pick(s)} \in SUBSET S /\ Cardinality(s \ {Pick(s)}) = k
    BY <2>1, PickLeaves DEF Naturals
  <2>3. iter[s \ {Pick(s)}] \in Nat
    BY <1>6, <2>2
  <2> QED BY <1>4, <2>1, <2>2, <2>3 DEF Summed
<1> HIDE DEF U
<1>7. Cardinality(S) \in Nat
  BY FS_CardinalityType
<1>8. Cardinality(S) \in U
  BY <1>5, <1>6, <1>7, SetInduction
<1> QED BY <1>1, <1>8 DEF U

LEMMA WorkLeft ==
  ASSUME NEW rows, NEW some \in SUBSET Steps
  PROVE  /\ HoursLeft(rows, some) \in Nat /\ EffortLeft(rows, some) \in Nat
         /\ \A row \in CampaignRow : rows \in StepRows => TurnaroundLeft(row, rows, some) \in Nat
<1>1. Open(rows, some) \in SUBSET Steps /\ IsFiniteSet(Open(rows, some))
  <2>1. Open(rows, some) \in SUBSET Steps
    BY DEF Open
  <2> QED BY <2>1, SomeSteps
<1>2. HoursLeft(rows, some) \in Nat /\ EffortLeft(rows, some) \in Nat
  <2>1. Naturals(Hours, Open(rows, some)) /\ Naturals(EffortCapacity, Open(rows, some))
    BY <1>1, WorkAssumption DEF Naturals
  <2> QED BY <1>1, <2>1, SumIsNatural DEF HoursLeft, EffortLeft
<1>3. ASSUME NEW row \in CampaignRow, rows \in StepRows PROVE TurnaroundLeft(row, rows, some) \in Nat
  <2>1. ASSUME NEW s \in Steps PROVE Turnaround(row, rows[s]) \in Nat
    <3> DEFINE baseline == rows[s].baseStart # NoDay /\ rows[s].baseDue # NoDay
               from == IF baseline THEN rows[s].baseStart ELSE OrElse(rows[s].start, row.start)
               to == IF baseline THEN rows[s].baseDue ELSE OrElse(rows[s].due, row.end)
    <3>1. rows[s] \in StepRow
      BY <1>3 DEF StepRows
    <3>2. from \in AnyDay /\ to \in AnyDay
      BY <3>1 DEF OrElse, StepRow, CampaignRow
    <3>3. from \in Int /\ to \in Int
      BY <3>2, PlannedIsDay
    <3>4. Turnaround(row, rows[s]) = IF from = NoDay \/ to = NoDay THEN 1 ELSE Max({1, WorkingDaysBetween(from, to)})
      BY DEF Turnaround
    <3> HIDE DEF from, to
    <3> DEFINE between == WorkingDaysBetween(from, to)
    <3>5. between \in Int
      BY <3>3, WorkingDaysInteger
    <3> HIDE DEF between
    <3>6. Max({1, between}) \in Nat
      BY <3>5, MaxOfTwo
    <3> QED BY <3>4, <3>6 DEF between
  <2> DEFINE days == [s \in Steps |-> Turnaround(row, rows[s])]
  <2>2. Naturals(days, Open(rows, some))
    BY <1>1, <2>1 DEF Naturals
  <2>3. TurnaroundLeft(row, rows, some) = SumFunctionOnSet(days, Open(rows, some))
    BY DEF TurnaroundLeft
  <2> HIDE DEF days
  <2> QED BY <1>1, <2>2, <2>3, SumIsNatural
<1> QED BY <1>2, <1>3

LEMMA CapacityPositive == ASSUME NEW weekly \in Nat PROVE FourDaysCapacity(weekly) \in Nat
BY DEF FourDaysCapacity

LEMMA ProductGrows ==
  ASSUME NEW a \in Nat, NEW b \in Nat, NEW c \in Nat, a <= b
  PROVE  a * c \in Nat /\ a * c <= b * c
OBVIOUS

(* The healths that are trouble, and the windows a row can have.           *)
Trouble == {"at_risk", "off_track"}

Frame(w) == /\ w.start \in AnyDay /\ w.due \in AnyDay /\ w.closed \in BOOLEAN
            /\ w.hours \in Nat /\ w.needs \in Nat /\ w.capacity \in Nat /\ w.buffer \in Nat

Alike(w, x) == /\ w.start = x.start /\ w.due = x.due /\ w.closed = x.closed
               /\ w.hours = x.hours /\ w.needs = x.needs /\ w.capacity = x.capacity
               /\ w.buffer = x.buffer

LEMMA GuardedTrouble ==
  ASSUME NEW worst
  PROVE  /\ worst \in Trouble <=> Guarded(worst) \in Trouble
         /\ Guarded(worst) \in Trouble \union {"on_track"}
BY DEF Guarded, Trouble

(* A window in trouble stays in trouble the next day, unless what goes on  *)
(* inside it was the trouble and is no more.                               *)
LEMMA WindowWorsens ==
  ASSUME NEW day \in Nat, NEW w, NEW x, Frame(w), Alike(w, x),
         w.worst \in Trouble => x.worst \in Trouble,
         EvaluateWindow(day, w) \in Trouble
  PROVE  EvaluateWindow(day + 1, x) \in Trouble
<1> DEFINE between == WorkingDaysBetween(day, w.due)
           after == WorkingDaysBetween(day + 1, w.due)
           left == IF between < 0 THEN 0 ELSE between
           rest == IF after < 0 THEN 0 ELSE after
           Out(n) == n * w.capacity < 4 * w.hours \/ n < w.needs
<1>1. /\ EvaluateWindow(day, w) =
           IF w.start = NoDay \/ w.due = NoDay THEN "at_risk"
           ELSE IF day < w.start THEN "not_started"
           ELSE IF w.closed THEN Guarded(w.worst)
           ELSE IF day > w.due \/ Out(left) THEN "off_track"
           ELSE IF left <= w.buffer THEN "at_risk" ELSE Guarded(w.worst)
      /\ EvaluateWindow(day + 1, x) =
           IF w.start = NoDay \/ w.due = NoDay THEN "at_risk"
           ELSE IF day + 1 < w.start THEN "not_started"
           ELSE IF w.closed THEN Guarded(x.worst)
           ELSE IF day + 1 > w.due \/ Out(rest) THEN "off_track"
           ELSE IF rest <= w.buffer THEN "at_risk" ELSE Guarded(x.worst)
  BY Zenon DEF EvaluateWindow, Alike
<1>2. /\ w.due \in Int /\ w.start \in Int /\ w.capacity \in Nat /\ w.hours \in Nat
      /\ w.needs \in Nat /\ w.buffer \in Nat
  BY DEF Frame, AnyDay, NoDay
<1>3. between \in Int /\ after \in Int
  <2>1. day \in Int /\ day + 1 \in Int /\ w.due \in Int
    BY <1>2
  <2>2. between \in Int
    BY <2>1, WorkingDaysInteger
  <2>3. after \in Int
    BY <2>1, WorkingDaysInteger
  <2> QED BY <2>2, <2>3
<1>4. day + 1 <= w.due => after <= between
  BY <1>2, WaitingLeavesLess
<1> HIDE DEF between, after
<1>5. left \in Nat /\ rest \in Nat /\ (day + 1 <= w.due => rest <= left)
  BY <1>3, <1>4
<1> HIDE DEF left, rest
<1>6. day + 1 <= w.due => rest * w.capacity \in Nat /\ left * w.capacity \in Nat
                          /\ rest * w.capacity <= left * w.capacity
  BY <1>2, <1>5, ProductGrows
<1>7. day + 1 <= w.due /\ Out(left) => Out(rest)
  BY <1>2, <1>5, <1>6
<1>8. day > w.due => day + 1 > w.due
  BY <1>2
<1>9. day + 1 <= w.due /\ left <= w.buffer => rest <= w.buffer
  BY <1>2, <1>5
<1> HIDE DEF Out
<1>10. {"at_risk", "off_track"} \subseteq Trouble /\ "not_started" \notin Trouble
  BY DEF Trouble
<1>11. w.start # NoDay /\ w.due # NoDay => day >= w.start /\ day + 1 >= w.start
  BY <1>1, <1>2, <1>10
<1>12. ASSUME w.start # NoDay, w.due # NoDay, ~w.closed, day + 1 <= w.due, ~Out(rest), ~(rest <= w.buffer)
       PROVE  Guarded(x.worst) \in Trouble
  <2>1. day >= w.start /\ ~(day < w.start) /\ ~(day > w.due) /\ ~Out(left) /\ ~(left <= w.buffer)
    BY <1>2, <1>7, <1>8, <1>9, <1>11, <1>12
  <2>2. EvaluateWindow(day, w) = Guarded(w.worst)
    BY <1>1, <1>12, <2>1
  <2> QED BY <2>2, GuardedTrouble
<1>13. ASSUME w.start # NoDay, w.due # NoDay, w.closed PROVE Guarded(x.worst) \in Trouble
  <2>1. ~(day < w.start)
    BY <1>2, <1>11, <1>13
  <2>2. EvaluateWindow(day, w) = Guarded(w.worst)
    BY <1>1, <1>13, <2>1
  <2> QED BY <2>2, GuardedTrouble
<1>14. day + 1 \in Int
  OBVIOUS
<1>15. w.start # NoDay /\ w.due # NoDay => ~(day + 1 < w.start)
  BY <1>2, <1>11, <1>14
<1>16. ~(day + 1 > w.due) => day + 1 <= w.due
  BY <1>2, <1>14
<1> QED BY <1>1, <1>10, <1>12, <1>13, <1>15, <1>16

(* A window that has begun is not waiting for its start.                   *)
LEMMA WindowBegun ==
  ASSUME NEW day \in Nat, NEW w, Frame(w), w.start <= day
  PROVE  EvaluateWindow(day, w) \in Trouble \union {"on_track"}
<1>1. w.start \in Int
  BY DEF Frame, AnyDay, NoDay
<1>2. ~(day < w.start)
  BY <1>1
<1> QED BY <1>2, GuardedTrouble, Zenon DEF EvaluateWindow, Trouble

(* The worst of some healths is trouble when one of them is.               *)
LEMMA WorstTrouble ==
  ASSUME NEW healths \in SUBSET Health
  PROVE  Worst(healths) \in Trouble <=> healths \intersect Trouble # {}
<1>1. \A h \in Health : Rank(h) = IF h = "not_started" THEN 0 ELSE IF h = "on_track" THEN 1
                                  ELSE IF h = "at_risk" THEN 2 ELSE 3
  BY DEF Rank, Health
<1>2. CASE healths = {}
  BY <1>2 DEF Worst, Trouble
<1>3. CASE healths # {}
  <2>1. \E h \in healths : \A g \in healths : Rank(g) <= Rank(h)
    <3>1. CASE "off_track" \in healths
      BY <1>1, <3>1 DEF Health
    <3>2. CASE "off_track" \notin healths /\ "at_risk" \in healths
      BY <1>1, <3>2 DEF Health
    <3>3. CASE "off_track" \notin healths /\ "at_risk" \notin healths /\ "on_track" \in healths
      BY <1>1, <3>3 DEF Health
    <3>4. CASE "off_track" \notin healths /\ "at_risk" \notin healths /\ "on_track" \notin healths
      <4>1. healths = {"not_started"}
        BY <1>3, <3>4 DEF Health
      <4>2. Rank("not_started") = 0
        BY <1>1 DEF Health
      <4> QED BY <4>1, <4>2
    <3> QED BY <3>1, <3>2, <3>3, <3>4
  <2>2. Worst(healths) \in healths /\ \A g \in healths : Rank(g) <= Rank(Worst(healths))
    BY <1>3, <2>1, Zenon DEF Worst
  <2> DEFINE worst == Worst(healths)
  <2> HIDE DEF worst
  <2>3. worst \in healths /\ worst \in Health /\ \A g \in healths : Rank(g) <= Rank(worst)
    BY <2>2 DEF worst
  <2>4. ASSUME NEW g \in healths, g \in Trouble PROVE worst \in Trouble
    BY <1>1, <2>3, <2>4 DEF Trouble, Health
  <2> QED BY <2>3, <2>4 DEF worst
<1> QED BY <1>2, <1>3

LEMMA DueDaysOfDeliverables ==
  ASSUME NEW rows \in [Deliverables -> DeliverableRow]
  PROVE  /\ Earliest({rows[d].due : d \in Deliverables}) \in AnyDay
         /\ Latest({rows[d].due : d \in Deliverables}) \in AnyDay
<1> DEFINE f == [d \in Deliverables |-> rows[d].due]
           dues == {f[d] : d \in Deliverables}
<1>1. IsFiniteSet(dues)
  <2>1. DOMAIN f = Deliverables /\ f = [d \in Deliverables |-> f[d]]
    OBVIOUS
  <2> HIDE DEF f
  <2> QED BY <2>1, WorkAssumption, FiniteImage
<1>2. dues \in SUBSET AnyDay
  BY DEF DeliverableRow
<1>3. dues = {rows[d].due : d \in Deliverables}
  OBVIOUS
<1> HIDE DEF dues
<1> QED BY <1>1, <1>2, <1>3, EarliestPlanned, LatestPlanned

(* Trouble of a step, of a deliverable and of a stage does not pass when a *)
(* day does.                                                               *)
LEMMA StepWorsens ==
  ASSUME NEW day \in Nat, NEW row \in CampaignRow, NEW rows \in StepRows, NEW s \in Steps,
         StepHealth(day, row, rows, s) \in Trouble
  PROVE  StepHealth(day + 1, row, rows, s) \in Trouble
<1> DEFINE own == rows[s]
           begin == OrElse(own.earliest, OrElse(own.start, OrElse(own.baseStart, row.start)))
           due == OrElse(own.due, OrElse(own.baseDue, row.end))
           w == [start |-> begin, due |-> due,
                 closed |-> own.done # NoDay \/ own.status # "open",
                 hours |-> HoursLeft(rows, {s}), needs |-> 0,
                 capacity |-> FourDaysCapacity(OwnCapacity[s]), buffer |-> Buffer[s], worst |-> "none"]
<1>1. begin \in AnyDay /\ due \in AnyDay
  BY PlannedIsDay DEF OrElse, StepRows, StepRow, CampaignRow
<1>2. HoursLeft(rows, {s}) \in Nat
  BY WorkLeft
<1>3. FourDaysCapacity(OwnCapacity[s]) \in Nat /\ Buffer[s] \in Nat
  BY WorkAssumption, CapacityPositive DEF Rows
<1>4. \A now : StepHealth(now, row, rows, s) = EvaluateWindow(now, w)
  BY Zenon DEF StepHealth
<1> HIDE DEF begin, due
<1>5. Frame(w) /\ Alike(w, w)
  BY <1>1, <1>2, <1>3 DEF Frame, Alike
<1> HIDE DEF w
<1> QED BY <1>4, <1>5, WindowWorsens

LEMMA StepHealths ==
  ASSUME NEW day, NEW row, NEW rows, NEW some
  PROVE  \A s \in some : StepHealth(day, row, rows, s) \in Health
BY WindowHealth DEF StepHealth

LEMMA WorstStepWorsens ==
  ASSUME NEW day \in Nat, NEW row \in CampaignRow, NEW rows \in StepRows, NEW some \in SUBSET Steps,
         Worst({StepHealth(day, row, rows, s) : s \in some}) \in Trouble
  PROVE  Worst({StepHealth(day + 1, row, rows, s) : s \in some}) \in Trouble
<1> DEFINE these == {StepHealth(day, row, rows, s) : s \in some}
           those == {StepHealth(day + 1, row, rows, s) : s \in some}
<1>1. these \in SUBSET Health /\ those \in SUBSET Health
  BY StepHealths
<1>2. these \intersect Trouble # {} => those \intersect Trouble # {}
  BY StepWorsens
<1> HIDE DEF these, those
<1>3. Worst(these) \in Trouble
  BY DEF these
<1>4. Worst(those) \in Trouble
  BY <1>1, <1>2, <1>3, WorstTrouble
<1> QED BY <1>4 DEF those

LEMMA DeliverableWorsens ==
  ASSUME NEW day \in Nat, NEW row \in CampaignRow, NEW rows \in StepRows,
         NEW deliverables \in [Deliverables -> DeliverableRow], NEW d \in Deliverables,
         DeliverableHealth(day, row, rows, deliverables, d) \in Trouble
  PROVE  DeliverableHealth(day + 1, row, rows, deliverables, d) \in Trouble
<1> DEFINE own == deliverables[d]
           mine == StepsOf(d)
           starts == Earliest(UNION {{rows[s].start, rows[s].baseStart} : s \in mine})
           last == Latest({rows[s].due : s \in mine})
           begin == OrElse(starts, row.start)
           due == OrElse(own.due, OrElse(own.baseDue, OrElse(last, row.end)))
           capacity == IF Open(rows, mine) = {} THEN NobodysCapacity
                       ELSE FourDaysCapacity(EffortLeft(rows, mine))
           worst(now) == Worst({StepHealth(now, row, rows, s) : s \in mine})
           w(now) == [start |-> begin, due |-> due, closed |-> own.published,
                      hours |-> HoursLeft(rows, mine), needs |-> 0,
                      capacity |-> capacity, buffer |-> Buffer[d], worst |-> worst(now)]
<1>1. mine \in SUBSET Steps
  BY DEF StepsOf
<1>2. \A now : DeliverableHealth(now, row, rows, deliverables, d) = EvaluateWindow(now, w(now))
  BY Zenon DEF DeliverableHealth
<1> HIDE DEF mine
<1>3. starts \in AnyDay
  <2>1. UNION {{rows[s].start, rows[s].baseStart} : s \in mine} \in SUBSET AnyDay
    BY <1>1 DEF StepRows, StepRow
  <2> QED BY <2>1, EarliestPlanned
<1>4. last \in AnyDay
  BY <1>1, DuesFinite, LatestPlanned
<1> HIDE DEF starts, last
<1>5. begin \in AnyDay /\ due \in AnyDay /\ own.published \in BOOLEAN
  BY <1>3, <1>4, PlannedIsDay DEF OrElse, DeliverableRow, CampaignRow
<1>6. capacity \in Nat /\ HoursLeft(rows, mine) \in Nat
  BY <1>1, WorkLeft, CapacityPositive DEF NobodysCapacity
<1>7. Buffer[d] \in Nat
  BY WorkAssumption DEF Rows
<1>8. worst(day) \in Trouble => worst(day + 1) \in Trouble
  BY <1>1, WorstStepWorsens
<1> HIDE DEF begin, due, capacity, worst
<1>9. /\ Frame(w(day)) /\ Alike(w(day), w(day + 1))
      /\ w(day).worst = worst(day) /\ w(day + 1).worst = worst(day + 1)
  BY <1>5, <1>6, <1>7 DEF Frame, Alike
<1> HIDE DEF w
<1>10. EvaluateWindow(day, w(day)) \in Trouble
  BY <1>2
<1>11. EvaluateWindow(day + 1, w(day + 1)) \in Trouble
  BY <1>8, <1>9, <1>10, WindowWorsens
<1> QED BY <1>2, <1>11

LEMMA StageWorsens ==
  ASSUME NEW day \in Nat, NEW row \in CampaignRow, NEW rows \in StepRows,
         NEW stages \in [Stages -> StageRow], NEW g \in Stages,
         StageHealth(day, row, rows, stages, g) \in Trouble
  PROVE  StageHealth(day + 1, row, rows, stages, g) \in Trouble
<1> DEFINE own == stages[g]
           mine == Inside(g)
           begin == OrElse(own.start, OrElse(own.baseStart, row.start))
           due == OrElse(own.due, OrElse(own.baseDue, row.end))
           capacity == FourDaysCapacity(IF Open(rows, mine) = {} THEN ManagerCapacity
                                        ELSE EffortLeft(rows, mine))
           worst(now) == Worst({StepHealth(now, row, rows, s) : s \in mine})
           w(now) == [start |-> begin, due |-> due, closed |-> own.status # "open",
                      hours |-> HoursLeft(rows, mine), needs |-> TurnaroundLeft(row, rows, mine),
                      capacity |-> capacity, buffer |-> Buffer[g], worst |-> worst(now)]
<1>1. mine \in SUBSET Steps
  BY DEF Inside
<1>2. \A now : StageHealth(now, row, rows, stages, g) = EvaluateWindow(now, w(now))
  BY Zenon DEF StageHealth
<1> HIDE DEF mine
<1>3. begin \in AnyDay /\ due \in AnyDay
  BY PlannedIsDay DEF OrElse, StageRow, CampaignRow
<1>4. /\ capacity \in Nat /\ HoursLeft(rows, mine) \in Nat
      /\ TurnaroundLeft(row, rows, mine) \in Nat
  BY <1>1, WorkLeft, CapacityPositive, WorkAssumption
<1>5. Buffer[g] \in Nat
  BY WorkAssumption DEF Rows
<1>6. worst(day) \in Trouble => worst(day + 1) \in Trouble
  BY <1>1, WorstStepWorsens
<1> HIDE DEF begin, due, capacity, worst
<1>7. /\ Frame(w(day)) /\ Alike(w(day), w(day + 1))
      /\ w(day).worst = worst(day) /\ w(day + 1).worst = worst(day + 1)
  BY <1>3, <1>4, <1>5 DEF Frame, Alike
<1> HIDE DEF w
<1>8. EvaluateWindow(day, w(day)) \in Trouble
  BY <1>2
<1>9. EvaluateWindow(day + 1, w(day + 1)) \in Trouble
  BY <1>6, <1>7, <1>8, WindowWorsens
<1> QED BY <1>2, <1>9

(* So does that of a campaign, whose own window has begun.                 *)
LEMMA CampaignWorsens ==
  ASSUME NEW day \in Nat, NEW row \in CampaignRow, NEW rows \in StepRows,
         NEW stages \in [Stages -> StageRow], NEW deliverables \in [Deliverables -> DeliverableRow],
         CampaignHealth(day, row, rows, stages, deliverables) \in Trouble,
         CampaignStart(row, deliverables) <= day + 1
  PROVE  CampaignHealth(day + 1, row, rows, stages, deliverables) \in Trouble
<1> DEFINE begin == CampaignStart(row, deliverables)
           due == OrElse(row.end, Latest({deliverables[d].due : d \in Deliverables}))
           w == [start |-> begin, due |-> due, closed |-> row.status # "open",
                 hours |-> HoursLeft(rows, Steps), needs |-> TurnaroundLeft(row, rows, Steps),
                 capacity |-> FourDaysCapacity(TeamCapacity), buffer |-> Buffer["campaign"],
                 worst |-> "none"]
           Own(now) == EvaluateWindow(now, w)
           Inner(now) == {StageHealth(now, row, rows, stages, g) : g \in Stages}
           Others(now) == IF NoDeliverables THEN {StepHealth(now, row, rows, s) : s \in Steps}
                          ELSE {DeliverableHealth(now, row, rows, deliverables, d) : d \in Deliverables}
<1>1. \A now : CampaignHealth(now, row, rows, stages, deliverables) =
                 IF "off_track" \in Inner(now) THEN "off_track"
                 ELSE IF Own(now) = "on_track" /\ Trouble \intersect (Inner(now) \union Others(now)) # {}
                   THEN "at_risk"
                 ELSE Own(now)
  BY Zenon DEF CampaignHealth, Trouble
<1>2. begin \in AnyDay /\ due \in AnyDay
  BY DueDaysOfDeliverables, PlannedIsDay DEF CampaignStart, OrElse, CampaignRow
<1>3. /\ HoursLeft(rows, Steps) \in Nat /\ TurnaroundLeft(row, rows, Steps) \in Nat
      /\ FourDaysCapacity(TeamCapacity) \in Nat /\ Buffer["campaign"] \in Nat
  BY WorkLeft, CapacityPositive, WorkAssumption DEF Rows
<1>4. begin <= day + 1
  OBVIOUS
<1> HIDE DEF begin, due
<1>5. Frame(w) /\ Alike(w, w) /\ w.start <= day + 1
  BY <1>2, <1>3, <1>4 DEF Frame, Alike
<1> HIDE DEF w
<1>6. /\ Own(day) \in Trouble => Own(day + 1) \in Trouble
      /\ Own(day + 1) \in Trouble \union {"on_track"}
  BY <1>5, WindowWorsens, WindowBegun
<1>7. Trouble \intersect (Inner(day) \union Others(day)) # {} =>
        Trouble \intersect (Inner(day + 1) \union Others(day + 1)) # {}
  <2>1. \A g \in Stages : StageHealth(day, row, rows, stages, g) \in Trouble =>
                            StageHealth(day + 1, row, rows, stages, g) \in Trouble
    BY StageWorsens
  <2>2. \A s \in Steps : StepHealth(day, row, rows, s) \in Trouble =>
                           StepHealth(day + 1, row, rows, s) \in Trouble
    BY StepWorsens
  <2>3. \A d \in Deliverables : DeliverableHealth(day, row, rows, deliverables, d) \in Trouble =>
                                  DeliverableHealth(day + 1, row, rows, deliverables, d) \in Trouble
    BY DeliverableWorsens
  <2> QED BY <2>1, <2>2, <2>3, Zenon
<1> HIDE DEF Own, Inner, Others
<1>8. "off_track" \in Trouble /\ "at_risk" \in Trouble /\ "on_track" \notin Trouble
  BY DEF Trouble
<1>9. CASE Own(day + 1) \in Trouble
  BY <1>1, <1>8, <1>9
<1>10. CASE Own(day + 1) = "on_track"
  <2>1. Own(day) \notin Trouble
    BY <1>6, <1>8, <1>10
  <2>2. Trouble \intersect (Inner(day) \union Others(day)) # {}
    BY <1>1, <1>8, <2>1
  <2> QED BY <1>1, <1>7, <1>8, <1>10, <2>2
<1> QED BY <1>6, <1>9, <1>10

LEMMA RankOfTrouble == ASSUME NEW health \in Health PROVE Rank(health) >= 2 <=> health \in Trouble
BY DEF Health, Trouble, Rank

(* Trouble of a campaign whose own window has begun by the next day is     *)
(* there the next day, in any calendar, with whatever work and whatever    *)
(* capacity (evaluate_campaign).                                           *)
THEOREM TroubleStays == Spec => TroubleDoesNotPass
<1> DEFINE Lasts ==
             DayPasses => (/\ Rank(CampaignHealth(today, campaign, step, stage, deliverable)) >= 2
                           /\ CampaignStart(campaign, deliverable) <= today'
               => Rank(CampaignHealth(today', campaign, step, stage, deliverable)) >= 2)
<1>1. TypeOK => Lasts
  <2> SUFFICES ASSUME TypeOK, DayPasses,
                      Rank(CampaignHealth(today, campaign, step, stage, deliverable)) >= 2,
                      CampaignStart(campaign, deliverable) <= today'
               PROVE  Rank(CampaignHealth(today', campaign, step, stage, deliverable)) >= 2
    OBVIOUS
  <2>1. today \in Nat /\ today' = today + 1
    BY TodayIsDay DEF DayPasses
  <2>2. CampaignHealth(today, campaign, step, stage, deliverable) \in Trouble
    BY CampaignHealthType, RankOfTrouble
  <2>3. CampaignHealth(today + 1, campaign, step, stage, deliverable) \in Trouble
    BY <2>1, <2>2, CampaignWorsens DEF TypeOK, StepRows
  <2> QED BY <2>1, <2>3, CampaignHealthType, RankOfTrouble
<1>2. TypeOK /\ [Next]_vars => [Lasts]_vars
  BY <1>1
<1> HIDE DEF Lasts
<1>3. Spec => [][Lasts]_vars
  BY <1>2, TypeCorrect, PTL DEF Spec
<1> QED BY <1>3 DEF TroubleDoesNotPass, Lasts
=============================================================================
