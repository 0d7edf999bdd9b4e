---------------------------- MODULE OfficeProofs ----------------------------
(***************************************************************************)
(* Theorems about the parts that work without being asked and that read    *)
(* the office for its people: Scheduler for any jobs, hours and jitter,    *)
(* Access for any tree of folders and any nesting of groups, Retrieval for *)
(* any documents, models and limit, Desk for any rows and any number       *)
(* shown, Figures for any history, Calendar for any months and any window, *)
(* and Reliability, with ToolNames, for any catalogue, any schema of       *)
(* finite depth and any call.                                              *)
(***************************************************************************)
EXTENDS Scheduler, Access, Retrieval, Desk, Figures, Calendar, Reliability,
        FiniteSetTheorems, SequenceTheorems, TLAPS

(* Least elements and days *)

(* The order of the naturals, as a set of pairs. *)
Below == {ss \in Nat \X Nat : ss[1] < ss[2]}

(* Nothing descends forever in it. *)
LEMMA NatIsWellFounded == IsWellFoundedOn(Below, Nat)
BY NatLessThanWellFounded DEF OpToRel, Below

(* Every set of naturals that is not empty has a least element. *)
LEMMA LeastNat == ASSUME NEW S \in SUBSET Nat, S # {} PROVE \E x \in S : \A y \in S : x <= y
<1>1. PICK x \in S : \A y \in S : ~(<<y, x>> \in Below)
  BY NatIsWellFounded, WFMin
<1>2. ASSUME NEW y \in S PROVE x <= y
  <2>1. x \in Nat /\ y \in Nat
    OBVIOUS
  <2>2. ~(y < x)
    BY <1>1, <2>1 DEF Below
  <2> QED
    BY <2>1, <2>2
<1> QED
  BY <1>2

(* Every set of integers bounded from below has one: the library's Min. *)
LEMMA LeastInt ==
  ASSUME NEW S \in SUBSET Int, S # {}, NEW b \in Int, \A x \in S : b <= x
  PROVE  Min(S) \in S /\ \A y \in S : Min(S) <= y
<1> DEFINE T == {n \in Nat : n + b \in S}
<1>1. T # {}
  <2>1. PICK x \in S : TRUE
    OBVIOUS
  <2>2. x - b \in Nat /\ (x - b) + b = x
    OBVIOUS
  <2> QED
    BY <2>2
<1>2. PICK m \in T : \A y \in T : m <= y
  BY <1>1, LeastNat
<1>3. ASSUME NEW x \in S PROVE m + b <= x
  <2>2. x - b \in Nat /\ (x - b) + b = x
    OBVIOUS
  <2> QED
    BY <2>2, <1>2
<1>4. m + b \in S 
  OBVIOUS
<1> QED
  BY <1>3, <1>4 DEF Min

(* And bounded from above a greatest: the library's Max. *)
LEMMA GreatestInt ==
  ASSUME NEW S \in SUBSET Int, S # {}, NEW b \in Int, \A x \in S : x <= b
  PROVE  Max(S) \in S /\ \A y \in S : Max(S) >= y
<1> DEFINE T == {n \in Nat : b - n \in S}
<1>1. T # {}
  <2>1. PICK x \in S : TRUE
    OBVIOUS
  <2>2. b - x \in Nat /\ b - (b - x) = x
    OBVIOUS
  <2> QED
    BY <2>2
<1>2. PICK m \in T : \A y \in T : m <= y
  BY <1>1, LeastNat
<1>3. ASSUME NEW x \in S PROVE b - m >= x
  <2>2. b - x \in Nat /\ b - (b - x) = x
    OBVIOUS
  <2>3. m <= b - x /\ m \in Nat /\ x \in Int
    BY <2>2, <1>2
  <2> QED
    BY <2>3
<1>4. b - m \in S
  OBVIOUS
<1> QED
  BY <1>3, <1>4 DEF Max

(* Whole days come out of a moment unchanged. *)
LEMMA DaysOf ==
  ASSUME NEW t \in Int, NEW n \in Int, NEW D \in Nat \ {0}
  PROVE  (n * D + t) \div D = n + t \div D
OBVIOUS

(* A moment lies on its day. *)
LEMMA DayOf ==
  ASSUME NEW t \in Int, NEW D \in Nat \ {0}
  PROVE  t \div D \in Int /\ t < (t \div D + 1) * D /\ (t \div D) * D <= t
OBVIOUS

(* The eight days that Schedule.next_run_after looks at always offer a     *)
(* next run, and it is the earliest working one after the moment, for any  *)
(* hour and any jitter: the ValueError the code ends with is not raised.   *)
THEOREM NextRunIsFound ==
  ASSUME NEW k \in JobKeys, NEW at \in Times, NEW t \in Int
  PROVE  LET next == NextRunAfter(k, at, t)
         IN  /\ next \in Int /\ next > t /\ Weekday(next) \in WorkDays
             /\ \A c \in Candidates(k, at, t) : Weekday(c) \in WorkDays /\ c > t => next <= c
<1> DEFINE now == t \div DayLength
           off == at + Offset[k]
           moved == off \div DayLength
           S == {c \in Candidates(k, at, t) : Weekday(c) \in WorkDays /\ c > t}
<1>1. /\ off \in Nat /\ DayLength \in Nat \ {0} /\ WorkDays \subseteq 0..6
      /\ now \in Int /\ t < (now + 1) * DayLength
  BY SchedulerAssumption, DayOf
<1>2. moved \in Int
  BY <1>1, DayOf
<1>3. PICK w \in WorkDays : w \in 0..6
  BY SchedulerAssumption
<1> HIDE DEF now, off, moved
<1>4. PICK ahead \in 1..7 : (now + ahead + moved) % 7 = w
  <2> DEFINE a == ((w - now - moved - 1) % 7) + 1
  <2>1. a \in 1..7 /\ (now + a + moved) % 7 = w
    BY <1>1, <1>2, <1>3
  <2> QED
    BY <2>1
<1> DEFINE c == (now + ahead) * DayLength + off
<1>5. c \in Int /\ c > t
  <2>1. (now + ahead) * DayLength >= (now + 1) * DayLength
    BY <1>1
  <2> QED
    BY <1>1, <2>1
<1>6. Weekday(c) = w
  <2>1. off \in Int /\ now + ahead \in Int
    BY <1>1
  <2>2. c \div DayLength = (now + ahead) + moved
    BY <1>1, <2>1, DaysOf DEF moved
  <2>3. (now + ahead) + moved = now + ahead + moved
    BY <1>1, <1>2
  <2> QED
    BY <1>4, <2>2, <2>3 DEF Weekday
<1>7. c \in Candidates(k, at, t)
  BY <1>1, SchedulerAssumption DEF Candidates, off, now
<1>8. S # {}
  BY <1>3, <1>5, <1>6, <1>7
<1>9. S \in SUBSET Int /\ \A x \in S : t <= x
  <2>1. Candidates(k, at, t) \subseteq Int
    BY <1>1, SchedulerAssumption DEF Candidates, off, now
  <2> QED
    BY <2>1
<1>10. Min(S) \in S /\ \A y \in S : Min(S) <= y
  BY <1>8, <1>9, LeastInt
<1>11. NextRunAfter(k, at, t) = Min(S)
  BY DEF NextRunAfter
<1> HIDE DEF S
<1> QED
  BY <1>9, <1>10, <1>11 DEF S

-----------------------------------------------------------------------------
(* What sorted returns *)

(* A strict total order of S: no two keys of a sort compare equal.         *)
IsOrderOf(before, S) ==
    /\ \A x \in S : <<x, x>> \notin before
    /\ \A x, y \in S : x # y => <<x, y>> \in before \/ <<y, x>> \in before
    /\ \A x, y, z \in S : <<x, y>> \in before /\ <<y, z>> \in before => <<x, z>> \in before

(* Those before x in S. *)
Earlier(x, S, before) == {y \in S : <<y, x>> \in before}

(* Whoever comes earlier has fewer before it. *)
LEMMA PlacesRise ==
  ASSUME NEW S, IsFiniteSet(S), NEW before, IsOrderOf(before, S),
         NEW x \in S, NEW z \in S, <<x, z>> \in before
  PROVE  /\ Cardinality(Earlier(x, S, before)) \in Nat
         /\ Cardinality(Earlier(z, S, before)) \in Nat
         /\ Cardinality(Earlier(x, S, before)) < Cardinality(Earlier(z, S, before))
<1> DEFINE low == Earlier(x, S, before)
           high == Earlier(z, S, before)
<1>1. low \subseteq high /\ x \in high /\ x \notin low /\ high \subseteq S
  BY DEF Earlier, IsOrderOf
<1> HIDE DEF low, high
<1>2. IsFiniteSet(high) /\ IsFiniteSet(low)
  BY <1>1, FS_Subset
<1>3. Cardinality(low) <= Cardinality(high) /\ (Cardinality(low) = Cardinality(high) => low = high)
  BY <1>1, <1>2, FS_Subset
<1>4. Cardinality(low) \in Nat /\ Cardinality(high) \in Nat
  BY <1>2, FS_CardinalityType
<1>5. Cardinality(low) < Cardinality(high)
  BY <1>1, <1>3, <1>4
<1> QED
  BY <1>4, <1>5 DEF low, high

(* What sorted returns holds each member once, and in the order it was     *)
(* given.                                                                  *)
LEMMA SortedIsOrder ==
  ASSUME NEW S, IsFiniteSet(S), NEW before, IsOrderOf(before, S)
  PROVE  /\ Cardinality(S) \in Nat
         /\ Sorted(S, before) \in [1..Cardinality(S) -> S]
         /\ \A x \in S : \E n \in 1..Cardinality(S) : Sorted(S, before)[n] = x
         /\ \A m, n \in 1..Cardinality(S) :
              <<Sorted(S, before)[m], Sorted(S, before)[n]>> \in before <=> m < n
         /\ \A m, n \in 1..Cardinality(S) : Sorted(S, before)[m] = Sorted(S, before)[n] => m = n
<1> DEFINE size == Cardinality(S)
           place == [x \in S |-> Cardinality(Earlier(x, S, before)) + 1]
           s == Sorted(S, before)
<1>1. size \in Nat
  BY FS_CardinalityType
<1>2. ASSUME NEW x \in S PROVE place[x] \in 1..size
  <2> DEFINE low == Earlier(x, S, before)
  <2>1. low \subseteq S /\ x \notin low
    BY DEF Earlier, IsOrderOf
  <2> HIDE DEF low
  <2>2. IsFiniteSet(low) /\ Cardinality(low) <= size /\ (size = Cardinality(low) => S = low)
    BY <2>1, FS_Subset
  <2>3. Cardinality(low) \in Nat
    BY <2>2, FS_CardinalityType
  <2>4. Cardinality(low) < size
    BY <1>1, <2>1, <2>2, <2>3
  <2>5. place[x] = Cardinality(low) + 1
    BY DEF low
  <2> HIDE DEF place, size
  <2> QED
    BY <1>1, <2>3, <2>4, <2>5
<1>3. ASSUME NEW x \in S, NEW z \in S, <<x, z>> \in before PROVE place[x] < place[z]
  BY <1>3, PlacesRise
<1>4. ASSUME NEW x \in S, NEW z \in S, place[x] = place[z] PROVE x = z
  <2>1. place[x] \in 1..size /\ place[z] \in 1..size
    BY <1>2
  <2>2. ~(place[x] < place[z]) /\ ~(place[z] < place[x])
    BY <1>4, <2>1
  <2> QED
    BY <1>3, <2>2 DEF IsOrderOf
<1>5. place \in Injection(S, 1..size)
  <2>1. place \in [S -> 1..size]
    BY <1>2
  <2> HIDE DEF place, size
  <2> QED
    BY <1>4, <2>1 DEF Injection, IsInjective
<1>6. place \in Surjection(S, 1..size)
  <2>1. IsFiniteSet(1..size) /\ Cardinality(1..size) = size
    <3> HIDE DEF size
    <3> QED
      BY <1>1, FS_Interval
  <2>2. \A f \in Injection(S, 1..size) : Cardinality(S) = Cardinality(1..size) => f \in Surjection(S, 1..size)
    BY <2>1, FS_Injection
  <2> HIDE DEF place
  <2> QED
    BY <1>5, <2>1, <2>2
<1>7. ASSUME NEW n \in 1..size PROVE s[n] \in S /\ place[s[n]] = n
  <2>1. \E x \in S : place[x] = n
    <3> HIDE DEF place, size
    <3> QED
      BY <1>6 DEF Surjection
  <2>2. \A x \in S : place[x] = n <=> Cardinality(Earlier(x, S, before)) = n - 1
    <3> SUFFICES ASSUME NEW x \in S PROVE place[x] = n <=> Cardinality(Earlier(x, S, before)) = n - 1
      OBVIOUS
    <3>1. place[x] \in 1..size /\ place[x] = Cardinality(Earlier(x, S, before)) + 1
      BY <1>2
    <3>2. Cardinality(Earlier(x, S, before)) \in Nat
      <4>1. Earlier(x, S, before) \in SUBSET S
        BY DEF Earlier
      <4> QED
        BY <4>1, FS_Subset, FS_CardinalityType
    <3> DEFINE c == Cardinality(Earlier(x, S, before))
               p == place[x]
    <3>3. n \in Int /\ c \in Int /\ p = c + 1
      BY <1>1, <3>1, <3>2
    <3> HIDE DEF c, p
    <3>4. p = n <=> c = n - 1
      BY <3>3
    <3> QED
      BY <3>4 DEF c, p
  <2>3. s[n] = CHOOSE x \in S : Cardinality(Earlier(x, S, before)) = n - 1
    BY DEF Sorted, Earlier
  <2> HIDE DEF place, s
  <2> QED
    BY <2>1, <2>2, <2>3
<1>8. s \in [1..size -> S]
  <2> DEFINE pick(n) == CHOOSE x \in S : Cardinality({y \in S : <<y, x>> \in before}) = n - 1
  <2>1. s = [n \in 1..size |-> pick(n)]
    BY DEF Sorted
  <2> HIDE DEF s, size, pick
  <2>2. \A n \in 1..size : pick(n) \in S
    BY <1>7, <2>1
  <2> QED
    BY <2>1, <2>2
<1>9. ASSUME NEW x \in S PROVE \E n \in 1..size : s[n] = x
  <2>1. place[x] \in 1..size
    BY <1>2
  <2>2. s[place[x]] \in S /\ place[s[place[x]]] = place[x]
    <3> HIDE DEF place, s, size
    <3> QED
      BY <1>7, <2>1
  <2>3. s[place[x]] = x
    <3> HIDE DEF place, s
    <3> QED
      BY <1>4, <2>2
  <2> HIDE DEF place, s, size
  <2> QED
    BY <2>1, <2>3
<1> HIDE DEF place, s
<1>10. ASSUME NEW m \in 1..size, NEW n \in 1..size
       PROVE  (<<s[m], s[n]>> \in before <=> m < n) /\ (s[m] = s[n] => m = n)
  <2>1. s[m] \in S /\ s[n] \in S /\ place[s[m]] = m /\ place[s[n]] = n
    BY <1>7
  <2>2. <<s[m], s[n]>> \in before => m < n
    BY <1>3, <2>1
  <2>3. <<s[n], s[m]>> \in before => n < m
    BY <1>3, <2>1
  <2>4. s[m] = s[n] => m = n
    BY <2>1
  <2>5. s[m] # s[n] => <<s[m], s[n]>> \in before \/ <<s[n], s[m]>> \in before
    BY <2>1 DEF IsOrderOf
  <2>6. m < n => s[m] # s[n]
    BY <1>1, <2>1
  <2> HIDE DEF size
  <2> QED
    BY <1>1, <2>2, <2>3, <2>4, <2>5, <2>6
<1> QED
  BY <1>1, <1>8, <1>9, <1>10 DEF s

(* Numbers rise. *)
LEMMA RisingIsOrder == ASSUME NEW S \in SUBSET Nat PROVE IsOrderOf(Rising(S), S)
BY DEF IsOrderOf, Rising

-----------------------------------------------------------------------------
(* Sums *)

(* Sums along a sequence of steps: the recursion is defined at every       *)
(* place, since there is no first place at which it is not.                *)
Climbs(f, n, step) == f \in [0..n -> Int] /\ f[0] = 0 /\ \A d \in 1..n : f[d] = f[d - 1] + step[d]

LEMMA SomethingClimbs ==
  ASSUME NEW n \in Nat, NEW step \in [1..n -> Int]
  PROVE  \E f : Climbs(f, n, step)
<1> DEFINE without == {m \in 0..n : ~\E f : Climbs(f, m, step)}
<1>0. n \in 0..n
  OBVIOUS
<1> SUFFICES ASSUME without # {} PROVE FALSE
  BY <1>0
<1>1. without \in SUBSET Nat
  OBVIOUS
<1>2. PICK m \in without : \A k \in without : m <= k
  BY <1>1, LeastNat
<1>3. m \in 0..n /\ ~\E f : Climbs(f, m, step)
  OBVIOUS
<1>4. m # 0
  <2>1. Climbs([d \in 0..0 |-> 0], 0, step)
    BY DEF Climbs
  <2> QED
    BY <1>3, <2>1
<1>5. m - 1 \in 0..n /\ m - 1 \notin without
  BY <1>2, <1>3, <1>4
<1> HIDE DEF without
<1>6. PICK f : Climbs(f, m - 1, step)
  BY <1>5 DEF without
<1> DEFINE g == [d \in 0..m |-> IF d = m THEN f[m - 1] + step[m] ELSE f[d]]
<1>7. \A d \in 0..m - 1 : g[d] = f[d] /\ f[d] \in Int
  BY <1>3, <1>4, <1>6 DEF Climbs
<1>8. g[m] = f[m - 1] + step[m] /\ g[m] \in Int
  <2>1. m \in 0..m /\ m \in 1..n /\ m - 1 \in 0..m - 1
    BY <1>3, <1>4
  <2>2. step[m] \in Int /\ f[m - 1] \in Int
    BY <1>7, <2>1
  <2>3. g[m] = f[m - 1] + step[m]
    BY <2>1
  <2> QED
    BY <2>2, <2>3
<1>9. g \in [0..m -> Int]
  <2>1. \A d \in 0..m : d = m \/ d \in 0..m - 1
    BY <1>3
  <2>2. \A d \in 0..m : g[d] \in Int
    BY <1>7, <1>8, <2>1
  <2> QED
    BY <2>2
<1>10. g[0] = 0
  BY <1>3, <1>4, <1>6, <1>7 DEF Climbs
<1> HIDE DEF g
<1>11. ASSUME NEW d \in 1..m PROVE g[d] = g[d - 1] + step[d]
  <2>1. CASE d = m
    BY <1>3, <1>4, <1>7, <1>8, <2>1
  <2>2. CASE d # m
    <3>1. d \in 1..m - 1 /\ d \in 0..m - 1 /\ d - 1 \in 0..m - 1
      BY <1>3, <2>2
    <3>2. f[d] = f[d - 1] + step[d]
      BY <1>6, <3>1 DEF Climbs
    <3> QED
      BY <1>7, <3>1, <3>2
  <2> QED
    BY <2>1, <2>2
<1>12. Climbs(g, m, step)
  BY <1>9, <1>10, <1>11 DEF Climbs
<1> QED
  BY <1>3, <1>12

-----------------------------------------------------------------------------
(* Scheduler *)

(* What was stamped last was begun then: the two differ in no object and in no row *)
Stamped ==
    /\ \A i \in 1..Len(heap) : heap[i].last = heap[i].begun
    /\ \A k \in JobKeys : rows[k].last = rows[k].begun

(* No object belongs to two keys *)
Apart(f) == \A k, other \in JobKeys : f[k] = f[other] => k = other \/ f[k] = 0

(* What the tick holds and has not begun is due at the tick's now *)
StillDue ==
    \A k \in JobKeys :
        /\ stage[k] # "idle" => held[k] # 0 /\ tickAt # Never
        /\ stage[k] = "waiting" =>
             LET j == heap[held[k]] IN j.last = Never \/ NextRunAfter(k, j.at, j.last) <= tickAt

(* The inductive invariant of Scheduler *)
SchedulerInv == SchedulerTypes /\ Stamped /\ Apart(jobs) /\ Apart(held) /\ StillDue

(* What the tick has in hand is in the heap. *)
LEMMA JobsAreHeld ==
  ASSUME SchedulerTypes, NEW k \in JobKeys
  PROVE  /\ held[k] \in 0..Len(heap) /\ jobs[k] \in 0..Len(heap) /\ unsaved[k] \in 0..Len(heap)
         /\ held[k] # 0 => heap[held[k]] \in JobSet
         /\ jobs[k] # 0 => heap[jobs[k]] \in JobSet
         /\ unsaved[k] # 0 => heap[unsaved[k]] \in JobSet
<1>1. /\ held[k] \in 0..Len(heap) /\ jobs[k] \in 0..Len(heap) /\ unsaved[k] \in 0..Len(heap)
      /\ heap \in Seq(JobSet)
  BY DEF SchedulerTypes
<1> QED
  BY <1>1

(* A tick takes what is due. *)
LEMMA TickStep == SchedulerInv /\ Tick => SchedulerInv'
<1> SUFFICES ASSUME SchedulerInv, Tick PROVE SchedulerInv'
  OBVIOUS
<1> USE DEF SchedulerInv
<1>1. SchedulerTypes'
  <2>1. held' \in [JobKeys -> 0..Len(heap)] /\ stage' \in [JobKeys -> Stages]
    BY DEF Tick, SchedulerTypes, Stages
  <2> QED
    BY <2>1 DEF Tick, SchedulerTypes
<1>2. Stamped'
  BY DEF Tick, Stamped
<1>3. Apart(jobs)' /\ Apart(held)'
  BY DEF Tick, Apart
<1>4. StillDue'
  <2> SUFFICES ASSUME NEW k \in JobKeys
               PROVE  /\ stage'[k] # "idle" => held'[k] # 0 /\ tickAt' # Never
                      /\ stage'[k] = "waiting" =>
                           LET j == heap'[held'[k]]
                           IN  j.last = Never \/ NextRunAfter(k, j.at, j.last) <= tickAt'
    BY DEF StillDue
  <2>1. stage'[k] # "idle" => k \in DueNow /\ held'[k] = jobs[k]
    BY DEF Tick
  <2>2. tickAt' = clock /\ clock # Never /\ heap' = heap
    BY DEF Tick, SchedulerTypes, Never
  <2>3. k \in DueNow => jobs[k] # 0 /\ IsDue(k, heap[jobs[k]], clock)
    BY DEF DueNow
  <2> QED
    BY <2>1, <2>2, <2>3 DEF IsDue
<1> QED
  BY <1>1, <1>2, <1>3, <1>4

(* A job that starts is stamped before it works. *)
LEMMA StartStep == ASSUME NEW k \in JobKeys, SchedulerInv, StartJob(k) PROVE SchedulerInv'
<1> USE DEF SchedulerInv
<1> DEFINE obj == held[k]
           begun == [heap[obj] EXCEPT !.last = tickAt, !.begun = tickAt]
<1>1. /\ stage[k] = "waiting" /\ stage' = [stage EXCEPT ![k] = "working"]
      /\ UNCHANGED <<clock, jobs, wake, tickAt, held, rows, unsaved, edits, restarts>>
  BY DEF StartJob
<1>2. obj \in 1..Len(heap) /\ tickAt # Never /\ heap \in Seq(JobSet) /\ heap[obj] \in JobSet
  BY <1>1, JobsAreHeld DEF StillDue, SchedulerTypes
<1>3. tickAt \in Instants
  BY DEF SchedulerTypes, Instants
<1>4. heap' = [heap EXCEPT ![obj] = begun]
  BY <1>2 DEF StartJob, Stamp, JobSet
<1>5. begun \in JobSet /\ begun.last = begun.begun /\ begun.at = heap[obj].at
  BY <1>2, <1>3 DEF JobSet
<1>6. heap' \in Seq(JobSet) /\ Len(heap') = Len(heap)
      /\ \A i \in 1..Len(heap) : heap'[i] = IF i = obj THEN begun ELSE heap[i]
  BY <1>2, <1>4, <1>5
<1>7. SchedulerTypes'
  BY <1>1, <1>6 DEF SchedulerTypes, Stages
<1>8. Stamped'
  BY <1>1, <1>5, <1>6 DEF Stamped
<1>9. Apart(jobs)' /\ Apart(held)'
  BY <1>1 DEF Apart
<1>10. StillDue'
  <2> SUFFICES ASSUME NEW other \in JobKeys
               PROVE  /\ stage'[other] # "idle" => held'[other] # 0 /\ tickAt' # Never
                      /\ stage'[other] = "waiting" =>
                           LET j == heap'[held'[other]]
                           IN  j.last = Never \/ NextRunAfter(other, j.at, j.last) <= tickAt'
    BY DEF StillDue
  <2>1. stage \in [JobKeys -> Stages]
    BY DEF SchedulerTypes
  <2>2. CASE other = k
    BY <1>1, <1>2, <2>1, <2>2
  <2>3. CASE other # k
    <3>1. stage'[other] = stage[other] /\ held'[other] = held[other]
      BY <1>1, <2>1, <2>3
    <3>2. held[other] # 0 => held[other] # obj /\ held[other] \in 1..Len(heap)
      BY <2>3, JobsAreHeld DEF Apart
    <3>3. held[other] # 0 => heap'[held[other]] = heap[held[other]]
      BY <1>6, <3>2
    <3> QED
      BY <1>1, <3>1, <3>3 DEF StillDue
  <2> QED
    BY <2>2, <2>3
<1> QED
  BY <1>7, <1>8, <1>9, <1>10

(* A job that ends, well or not, keeps its stamp. *)
LEMMA FinishStep == ASSUME NEW k \in JobKeys, SchedulerInv, FinishJob(k) PROVE SchedulerInv'
<1> USE DEF SchedulerInv
<1>1. /\ stage[k] = "working" /\ stage' = [stage EXCEPT ![k] = "done"]
      /\ UNCHANGED <<clock, heap, jobs, wake, tickAt, held, unsaved, edits, restarts>>
      /\ rows' = rows \/ rows' = [rows EXCEPT ![k] = heap[held[k]]]
  BY DEF FinishJob
<1>2. held[k] \in 1..Len(heap) /\ heap[held[k]] \in JobSet
  BY <1>1, JobsAreHeld DEF StillDue
<1>3. rows \in [JobKeys -> JobSet \cup {NoRow}] /\ stage \in [JobKeys -> Stages]
  BY DEF SchedulerTypes
<1>4. SchedulerTypes'
  <2>1. rows' \in [JobKeys -> JobSet \cup {NoRow}] /\ stage' \in [JobKeys -> Stages]
    BY <1>1, <1>2, <1>3 DEF Stages
  <2> QED
    BY <1>1, <2>1 DEF SchedulerTypes
<1>5. Stamped'
  BY <1>1, <1>2, <1>3 DEF Stamped
<1>6. Apart(jobs)' /\ Apart(held)'
  BY <1>1 DEF Apart
<1>7. StillDue'
  BY <1>1, <1>3 DEF StillDue
<1> QED
  BY <1>4, <1>5, <1>6, <1>7

(* The tick ends when its jobs have. *)
LEMMA OverStep == SchedulerInv /\ TickOver => SchedulerInv'
<1> SUFFICES ASSUME SchedulerInv, TickOver PROVE SchedulerInv'
  OBVIOUS
<1> USE DEF SchedulerInv
<1>1. /\ tickAt' = Never /\ held' = [k \in JobKeys |-> 0] /\ stage' = [k \in JobKeys |-> "idle"]
      /\ UNCHANGED <<clock, heap, jobs, rows, unsaved, edits, restarts>>
  BY DEF TickOver
<1>2. wake' \in 0..Horizon
  <2> DEFINE S == {clock + Interval, Horizon}
  <2>1. /\ S \in SUBSET Int /\ \A x \in S : 0 <= x
        /\ Horizon \in Nat
    BY SchedulerAssumption DEF SchedulerTypes
  <2>2. wake' = Min(S) /\ S # {} /\ S \subseteq {clock + Interval, Horizon}
    BY DEF TickOver
  <2> HIDE DEF S
  <2>3. Min(S) \in S /\ \A y \in S : Min(S) <= y
    BY <2>1, <2>2, LeastInt
  <2> QED
    BY <2>1, <2>2, <2>3 DEF S
<1>3. SchedulerTypes'
  BY <1>1, <1>2 DEF SchedulerTypes, Stages
<1> QED
  BY <1>1, <1>3 DEF Stamped, Apart, StillDue

(* Setting a schedule replaces the cell or changes it in place. *)
LEMMA SetStep == ASSUME NEW k \in JobKeys, SchedulerInv, SetSchedule(k) PROVE SchedulerInv'
<1> USE DEF SchedulerInv
<1>1. PICK at \in Times, on \in BOOLEAN :
          heap' = Append(heap,
                    IF jobs[k] = 0 \/ heap[jobs[k]].last = Never
                    THEN Fresh(at, on, NextRunAfter(k, at, clock))
                    ELSE [heap[jobs[k]] EXCEPT !.at = at, !.enabled = on])
  BY DEF SetSchedule
<1> DEFINE job == IF jobs[k] = 0 \/ heap[jobs[k]].last = Never
                  THEN Fresh(at, on, NextRunAfter(k, at, clock))
                  ELSE [heap[jobs[k]] EXCEPT !.at = at, !.enabled = on]
<1>2. /\ jobs' = [jobs EXCEPT ![k] = Len(heap')] /\ unsaved' = [unsaved EXCEPT ![k] = Len(heap')]
      /\ edits' = edits + 1 /\ edits < MaxEdits
      /\ UNCHANGED <<clock, wake, tickAt, held, stage, rows, restarts>>
  BY DEF SetSchedule
<1>3. heap \in Seq(JobSet) /\ clock \in Int
  BY DEF SchedulerTypes
<1>4. job \in JobSet /\ job.last = job.begun
  <2>1. CASE jobs[k] = 0 \/ heap[jobs[k]].last = Never
    <3>1. NextRunAfter(k, at, clock) \in Int
      BY <1>3, NextRunIsFound
    <3> QED
      BY <2>1, <3>1 DEF Fresh, JobSet, Instants
  <2>2. CASE ~(jobs[k] = 0 \/ heap[jobs[k]].last = Never)
    <3>1. heap[jobs[k]] \in JobSet /\ heap[jobs[k]].last = heap[jobs[k]].begun
      BY <2>2, JobsAreHeld DEF Stamped
    <3> QED
      BY <2>2, <3>1 DEF JobSet
  <2> QED
    BY <2>1, <2>2
<1> HIDE DEF job
<1>5. heap' \in Seq(JobSet) /\ Len(heap') = Len(heap) + 1 /\ heap'[Len(heap) + 1] = job
      /\ \A i \in 1..Len(heap) : heap'[i] = heap[i]
  BY <1>1, <1>3, <1>4 DEF job
<1>6. SchedulerTypes'
  <2>1. /\ jobs \in [JobKeys -> 0..Len(heap)] /\ unsaved \in [JobKeys -> 0..Len(heap)]
        /\ held \in [JobKeys -> 0..Len(heap)] /\ edits \in 0..MaxEdits
    BY DEF SchedulerTypes
  <2>2. Len(heap) \in Nat /\ 0..Len(heap) \subseteq 0..Len(heap')
    BY <1>3, <1>5
  <2>3. held' \in [JobKeys -> 0..Len(heap')]
    BY <1>2, <2>1, <2>2
  <2>4. jobs' \in [JobKeys -> 0..Len(heap')] /\ unsaved' \in [JobKeys -> 0..Len(heap')]
    BY <1>2, <1>5, <2>1, <2>2
  <2>5. edits' \in 0..MaxEdits
    BY <1>2, <2>1, SchedulerAssumption
  <2> QED
    BY <1>2, <1>5, <2>3, <2>4, <2>5 DEF SchedulerTypes
<1>7. Stamped'
  BY <1>2, <1>3, <1>4, <1>5 DEF Stamped
<1>8. Apart(jobs)' /\ Apart(held)'
  BY <1>2, <1>3, <1>5, JobsAreHeld DEF Apart
<1>9. StillDue'
  <2>1. \A other \in JobKeys : held[other] # 0 => heap'[held[other]] = heap[held[other]]
    BY <1>5, JobsAreHeld
  <2> QED
    BY <1>2, <2>1 DEF StillDue
<1> QED
  BY <1>6, <1>7, <1>8, <1>9

(* Saving writes what the cell says. *)
LEMMA SaveStep == ASSUME NEW k \in JobKeys, SchedulerInv, SaveSchedule(k) PROVE SchedulerInv'
<1> USE DEF SchedulerInv
<1>1. /\ unsaved[k] # 0 /\ unsaved' = [unsaved EXCEPT ![k] = 0]
      /\ UNCHANGED <<clock, heap, jobs, wake, tickAt, held, stage, edits, restarts>>
      /\ rows' = rows \/ rows' = [rows EXCEPT ![k] = heap[unsaved[k]]]
  BY DEF SaveSchedule
<1>2. unsaved[k] \in 1..Len(heap) /\ heap[unsaved[k]] \in JobSet
  BY <1>1, JobsAreHeld
<1>3. rows \in [JobKeys -> JobSet \cup {NoRow}]
  BY DEF SchedulerTypes
<1>4. SchedulerTypes'
  <2>1. rows' \in [JobKeys -> JobSet \cup {NoRow}]
    BY <1>1, <1>2, <1>3
  <2>2. unsaved \in [JobKeys -> 0..Len(heap)] /\ 0 \in 0..Len(heap)
    BY <1>2 DEF SchedulerTypes
  <2>3. unsaved' \in [JobKeys -> 0..Len(heap)]
    BY <1>1, <2>2
  <2> QED
    BY <1>1, <2>1, <2>3 DEF SchedulerTypes
<1>5. Stamped'
  BY <1>1, <1>2, <1>3 DEF Stamped
<1>6. Apart(jobs)' /\ Apart(held)' /\ StillDue'
  BY <1>1 DEF Apart, StillDue
<1> QED
  BY <1>4, <1>5, <1>6

(* A restart reads what was saved into cells of their own. *)
LEMMA RestartStep == SchedulerInv /\ RestartScheduler => SchedulerInv'
<1> SUFFICES ASSUME SchedulerInv, RestartScheduler PROVE SchedulerInv'
  OBVIOUS
<1> USE DEF SchedulerInv
<1> DEFINE stored == {k \in JobKeys : rows[k] # NoRow}
           n == Cardinality(stored)
           order == CHOOSE s \in Bijection(1..n, stored) : TRUE
<1>1. n \in Nat /\ order \in Bijection(1..n, stored)
  <2>1. IsFiniteSet(stored)
    BY SchedulerAssumption, FS_Subset
  <2>2. n \in Nat /\ Bijection(1..n, stored) # {}
    BY <2>1, FS_CardinalityType DEF ExistsBijection
  <2> QED
    BY <2>2
<1>2. /\ heap' = [i \in 1..n |-> rows[order[i]]]
      /\ jobs' = [k \in JobKeys |-> IF k \notin stored THEN 0 ELSE CHOOSE i \in 1..n : order[i] = k]
      /\ wake' = clock /\ tickAt' = Never /\ held' = [k \in JobKeys |-> 0]
      /\ unsaved' = [k \in JobKeys |-> 0] /\ stage' = [k \in JobKeys |-> "idle"]
      /\ UNCHANGED <<clock, rows, edits>> /\ restarts < MaxRestarts /\ restarts' = restarts + 1
  BY DEF RestartScheduler
<1> HIDE DEF n, order
<1>3. /\ order \in [1..n -> stored]
      /\ \A k \in stored : \E i \in 1..n : order[i] = k
  BY <1>1 DEF Bijection, Surjection
<1>4. \A i \in 1..n : rows[order[i]] \in JobSet
  BY <1>3 DEF SchedulerTypes
<1>5. heap' \in Seq(JobSet) /\ Len(heap') = n
  BY <1>1, <1>2, <1>4
<1>6. \A k \in JobKeys : IF k \in stored THEN jobs'[k] \in 1..n /\ order[jobs'[k]] = k ELSE jobs'[k] = 0
  BY <1>2, <1>3
<1>7. SchedulerTypes'
  <2>1. \A k \in JobKeys : jobs'[k] \in 0..n
    BY <1>1, <1>6
  <2>2. /\ jobs' \in [JobKeys -> 0..Len(heap')] /\ held' \in [JobKeys -> 0..Len(heap')]
        /\ unsaved' \in [JobKeys -> 0..Len(heap')]
    BY <1>1, <1>2, <1>5, <2>1
  <2>3. restarts' \in 0..MaxRestarts
    BY <1>2, SchedulerAssumption DEF SchedulerTypes
  <2> QED
    BY <1>2, <1>5, <2>2, <2>3 DEF SchedulerTypes, Stages
<1>8. Stamped'
  <2>1. \A i \in 1..n : heap'[i] = rows[order[i]] /\ order[i] \in JobKeys
    BY <1>2, <1>3
  <2> QED
    BY <1>2, <1>5, <2>1 DEF Stamped
<1>9. Apart(jobs)' /\ Apart(held)' /\ StillDue'
  BY <1>2, <1>6 DEF Apart, StillDue
<1> QED
  BY <1>7, <1>8, <1>9

(* What a tick holds is what was due, in every reachable state, for any    *)
(* jobs, hours, horizon and jitter.                                        *)
THEOREM SchedulerInductive == SchedulerSpec => []SchedulerInv
<1>1. SchedulerInit => SchedulerInv
  BY SchedulerAssumption DEF SchedulerInit, SchedulerInv, SchedulerTypes, Stamped, Apart, StillDue, NoRow, Fresh, Stages
<1>2. SchedulerInv /\ [SchedulerNext]_schedulerVars => SchedulerInv'
  <2> SUFFICES ASSUME SchedulerInv, [SchedulerNext]_schedulerVars PROVE SchedulerInv'
    OBVIOUS
  <2>1. CASE Second
    <3>1. clock' \in 0..Horizon
      BY <2>1, SchedulerAssumption DEF Second, SchedulerInv, SchedulerTypes
    <3>2. UNCHANGED <<heap, jobs, wake, tickAt, held, stage, rows, unsaved, edits, restarts>>
      BY <2>1 DEF Second
    <3>3. SchedulerTypes'
      BY <3>1, <3>2 DEF SchedulerInv, SchedulerTypes
    <3>4. (Stamped /\ Apart(jobs) /\ Apart(held) /\ StillDue)'
      BY <3>2 DEF SchedulerInv, Stamped, Apart, StillDue
    <3> QED
      BY <3>3, <3>4 DEF SchedulerInv
  <2>2. CASE UNCHANGED schedulerVars
    BY <2>2 DEF schedulerVars, SchedulerInv, SchedulerTypes, Stamped, Apart, StillDue
  <2> QED
    BY <2>1, <2>2, TickStep, OverStep, RestartStep, StartStep, FinishStep, SetStep, SaveStep DEF SchedulerNext
<1> QED
  BY <1>1, <1>2, PTL DEF SchedulerSpec

(* Every variable of Scheduler keeps its type. *)
THEOREM SchedulerTypesHold == SchedulerSpec => []SchedulerTypes
BY SchedulerInductive, PTL DEF SchedulerInv

(* A job that was attempted is not started again before the next time its  *)
(* schedule names, whether the attempt went well or not (Scheduler.tick,   *)
(* Schedule.next_run_after).                                               *)
THEOREM FailuresWaitHolds == SchedulerSpec => FailuresWait
<1> DEFINE Waits ==
      \A k \in JobKeys :
          stage[k] = "waiting" /\ stage'[k] = "working" =>
             LET j == heap[held[k]] IN
             j.begun = Never \/ NextRunAfter(k, j.at, j.begun) <= tickAt
<1>1. SchedulerInv => Waits
  <2> SUFFICES ASSUME SchedulerInv, NEW k \in JobKeys, stage[k] = "waiting"
               PROVE  LET j == heap[held[k]] IN j.begun = Never \/ NextRunAfter(k, j.at, j.begun) <= tickAt
    OBVIOUS
  <2>1. held[k] \in 1..Len(heap)
    BY JobsAreHeld DEF SchedulerInv, StillDue
  <2> QED
    BY <2>1 DEF SchedulerInv, StillDue, Stamped
<1> QED
  BY <1>1, SchedulerInductive, PTL DEF FailuresWait

-----------------------------------------------------------------------------
(* Access *)

(* The least closed set is closed, starts at its start, and is within      *)
(* every closed set.                                                       *)
LEMMA UpwardIsClosed ==
  ASSUME NEW all, NEW start \in all, NEW above \in [all -> SUBSET all]
  PROVE  LET U == Upward(all, start, above) IN
         /\ U \subseteq all /\ start \in U
         /\ \A y \in U : above[y] \subseteq U
         /\ \A S \in SUBSET all : start \in S /\ (\A y \in S : above[y] \subseteq S) => U \subseteq S
<1> DEFINE U == Upward(all, start, above)
<1>1. U \subseteq all /\ start \in U
  BY DEF Upward
<1>2. \A S \in SUBSET all : start \in S /\ (\A y \in S : above[y] \subseteq S) => U \subseteq S
  BY DEF Upward
<1>3. ASSUME NEW y \in U, NEW x \in above[y] PROVE x \in U
  <2>1. x \in all
    BY <1>1
  <2> QED
    BY <2>1 DEF Upward
<1> QED
  BY <1>1, <1>2, <1>3

(* The pointers and the nesting are what an import can bring *)
Imported ==
    /\ parent \in [Nodes -> Nodes \cup {Orphan}]
    /\ nodes \in [Nodes -> Statements]
    /\ nesting \in GroupGraphs

(* The nodes that the climb has met. *)
Climbed == {chain[i] : i \in DOMAIN chain}

(* Where the climb goes next. *)
AboveChain == NextUp(chain)

(* The chain goes up the pointers without a repetition, ... *)
ChainClimbs ==
    /\ chain \in Seq(Nodes)
    /\ chain # <<>> => chain[1] = LeafNode
    /\ \A i \in 1..Len(chain) - 1 : parent[chain[i]] = chain[i + 1]
    /\ \A i, j \in DOMAIN chain : chain[i] = chain[j] => i = j
    /\ progress = "climbing" => Len(chain) <= MaxAncestry

(* ... to ancestors only, and as far as no break to uncut ones; *)
ChainIsUp ==
    /\ Climbed \subseteq Ancestors
    /\ Collected \subseteq Uncut

(* where it ended within the bound nothing is above it.                    *)
ChainIsWhole ==
    progress \in {"expanding", "done"} /\ share = <<>> /\ Cardinality(Ancestors) <= MaxAncestry
        => chain # <<>> /\ AboveChain \in Climbed \cup {Orphan}

(* What is expanded is a part of what should be, and each round brought a  *)
(* group or was the last.                                                  *)
ExpandedSoFar ==
    /\ visited \cup frontier \subseteq Effective
    /\ Role \in visited \cup frontier
    /\ \A g \in visited : ParentsOf(g) \subseteq visited \cup frontier
    /\ frontier = {} \/ Cardinality(visited) >= rounds
    /\ rounds \in 0..MaxDepth
    /\ progress = "done" /\ share = <<>> => frontier = {} \/ rounds = MaxDepth

(* Whom the path at a level lets read, or pass. *)
Reads(i) == ReadBy(share[i], i > 1)

(* What is left of each grant says what the paths so far allow, unless one *)
(* of them could not be inspected: then nothing is left.                   *)
Unreadable == progress = "done" /\ level > 0 /\ ~share[level].mode.stat /\ ~others /\ gids = {} /\ uids = {}
Narrowed ==
    /\ \A i \in 1..level : share[i].mode.stat
    /\ others <=> \A i \in 1..level : "others" \in Reads(i)
    /\ gids = IF \A i \in 1..level : "group" \in Reads(i) THEN {share[1].group} ELSE {}
    /\ uids = IF "owner" \in Reads(1) /\ \A i \in 1..level : Reads(i) # {} THEN {share[1].owner} ELSE {}
    /\ progress = "walking" => level <= Depth
    /\ progress = "done" => level = Depth + 1
NarrowedSoFar ==
    /\ progress = "walking" => share # <<>> /\ level <= Depth
    /\ share # <<>> => /\ share \in [1..Depth + 1 -> Paths]
                       /\ progress \in {"walking", "done"}
                       /\ level = 0 => progress = "walking"
                       /\ level > 0 => Unreadable \/ Narrowed

(* The inductive invariant of Access *)
AccessInv ==
    /\ AccessTypes /\ Imported
    /\ ChainClimbs /\ ChainIsUp /\ ChainIsWhole
    /\ ExpandedSoFar /\ NarrowedSoFar

(* One step up the chain. *)
LEMMA WhatIsAbove ==
  ASSUME Imported
  PROVE  /\ Ancestors \subseteq Nodes /\ LeafNode \in Ancestors
         /\ \A n \in Ancestors : parent[n] # Orphan => parent[n] \in Ancestors
         /\ \A S \in SUBSET Nodes :
              LeafNode \in S /\ (\A n \in S : parent[n] \in S \cup {Orphan}) => Ancestors \subseteq S
         /\ Uncut \subseteq Nodes /\ LeafNode \in Uncut
         /\ \A n \in Uncut : nodes[n].inherits /\ parent[n] # Orphan => parent[n] \in Uncut
         /\ \A S \in SUBSET Nodes :
              LeafNode \in S /\ (\A n \in S : nodes[n].inherits => parent[n] \in S \cup {Orphan}) => Uncut \subseteq S
         /\ Effective \subseteq Groups /\ Role \in Effective
         /\ \A g \in Effective : ParentsOf(g) \subseteq Effective
         /\ \A S \in SUBSET Groups :
              Role \in S /\ (\A g \in S : ParentsOf(g) \subseteq S) => Effective \subseteq S
<1> DEFINE up  == [n \in Nodes |-> ParentOf(n)]
           cut == [n \in Nodes |-> IF nodes[n].inherits THEN ParentOf(n) ELSE {}]
           out == [g \in Groups |-> ParentsOf(g)]
<1>1. up \in [Nodes -> SUBSET Nodes] /\ cut \in [Nodes -> SUBSET Nodes] /\ out \in [Groups -> SUBSET Groups]
      /\ LeafNode \in Nodes /\ Role \in Groups
  BY AccessAssumption DEF Imported, ParentOf, ParentsOf
<1>2. /\ \A n \in Nodes : up[n] = {parent[n]} \ {Orphan}
      /\ \A n \in Nodes : cut[n] = IF nodes[n].inherits THEN {parent[n]} \ {Orphan} ELSE {}
      /\ \A g \in Groups : out[g] = ParentsOf(g)
  BY DEF ParentOf
<1>3. Ancestors = Upward(Nodes, LeafNode, up) /\ Uncut = Upward(Nodes, LeafNode, cut)
      /\ Effective = Upward(Groups, Role, out)
  BY DEF Ancestors, Uncut, Effective
<1> HIDE DEF up, cut, out
<1>4. /\ Ancestors \subseteq Nodes /\ LeafNode \in Ancestors
      /\ \A y \in Ancestors : up[y] \subseteq Ancestors
      /\ \A S \in SUBSET Nodes : LeafNode \in S /\ (\A y \in S : up[y] \subseteq S) => Ancestors \subseteq S
  BY <1>1, <1>3, UpwardIsClosed
<1>5. /\ Uncut \subseteq Nodes /\ LeafNode \in Uncut
      /\ \A y \in Uncut : cut[y] \subseteq Uncut
      /\ \A S \in SUBSET Nodes : LeafNode \in S /\ (\A y \in S : cut[y] \subseteq S) => Uncut \subseteq S
  BY <1>1, <1>3, UpwardIsClosed
<1>6. /\ Effective \subseteq Groups /\ Role \in Effective
      /\ \A y \in Effective : out[y] \subseteq Effective
      /\ \A S \in SUBSET Groups : Role \in S /\ (\A y \in S : out[y] \subseteq S) => Effective \subseteq S
  BY <1>1, <1>3, UpwardIsClosed
<1>7. \A n \in Ancestors : parent[n] # Orphan => parent[n] \in Ancestors
  BY <1>2, <1>4
<1>8. ASSUME NEW S \in SUBSET Nodes, LeafNode \in S, \A n \in S : parent[n] \in S \cup {Orphan}
      PROVE  Ancestors \subseteq S
  <2>1. \A y \in S : up[y] \subseteq S
    BY <1>2, <1>8
  <2> QED
    BY <1>4, <1>8, <2>1
<1>9. \A n \in Uncut : nodes[n].inherits /\ parent[n] # Orphan => parent[n] \in Uncut
  BY <1>2, <1>5
<1>10. ASSUME NEW S \in SUBSET Nodes, LeafNode \in S,
              \A n \in S : nodes[n].inherits => parent[n] \in S \cup {Orphan}
       PROVE  Uncut \subseteq S
  <2>1. ASSUME NEW y \in S PROVE cut[y] \subseteq S
    <3>1. cut[y] = IF nodes[y].inherits THEN {parent[y]} \ {Orphan} ELSE {}
      BY <1>2
    <3>2. CASE nodes[y].inherits
      BY <1>10, <3>1, <3>2
    <3>3. CASE ~nodes[y].inherits
      BY <3>1, <3>3
    <3> QED
      BY <3>2, <3>3
  <2> QED
    BY <1>5, <1>10, <2>1
<1>11. \A g \in Effective : ParentsOf(g) \subseteq Effective
  BY <1>2, <1>6
<1>12. ASSUME NEW S \in SUBSET Groups, Role \in S, \A g \in S : ParentsOf(g) \subseteq S
       PROVE  Effective \subseteq S
  <2>1. \A y \in S : out[y] \subseteq S
    BY <1>2, <1>12
  <2> QED
    BY <1>6, <1>12, <2>1
<1> QED
  BY <1>4, <1>5, <1>6, <1>7, <1>8, <1>9, <1>10, <1>11, <1>12

(* The climb keeps to the tree. *)
LEMMA ClimbStep == AccessInv /\ Climb => AccessInv'
<1> SUFFICES ASSUME AccessInv, Climb PROVE AccessInv'
  OBVIOUS
<1> USE DEF AccessInv
<1>1. progress = "climbing" /\ share = <<>>
      /\ UNCHANGED <<parent, nodes, nesting, frontier, visited, rounds, share, level, others, gids, uids, mapped>>
  BY DEF Climb, NarrowedSoFar
<1>2. Imported' /\ Ancestors' = Ancestors /\ Uncut' = Uncut /\ Effective' = Effective
  BY <1>1 DEF Imported, Ancestors, Uncut, Effective, ParentOf, ParentsOf
<1>3. chain \in Seq(Nodes) /\ LeafNode \in Nodes /\ parent \in [Nodes -> Nodes \cup {Orphan}] /\ Orphan \notin Nodes
  BY AccessAssumption DEF ChainClimbs, Imported
<1>4. AboveChain \in Nodes \cup {Orphan}
  BY <1>3 DEF AboveChain, NextUp
<1>5. CASE AboveChain # Orphan /\ ~InChain(AboveChain) /\ Len(chain) < MaxAncestry
  <2>1. chain' = Append(chain, AboveChain) /\ progress' = "climbing"
    BY <1>1, <1>5 DEF Climb, AboveChain
  <2>2. /\ AboveChain \in Nodes /\ chain' \in Seq(Nodes) /\ Len(chain') = Len(chain) + 1
        /\ chain'[Len(chain) + 1] = AboveChain /\ \A i \in 1..Len(chain) : chain'[i] = chain[i]
        /\ DOMAIN chain' = 1..Len(chain) + 1 /\ DOMAIN chain = 1..Len(chain) /\ Len(chain) \in Nat
    BY <1>3, <1>4, <1>5, <2>1
  <2>3. /\ chain = <<>> => AboveChain = LeafNode
        /\ chain # <<>> => AboveChain = parent[chain[Len(chain)]]
    BY DEF AboveChain, NextUp
  <2>4. ChainClimbs'
    <3>1. chain'[1] = LeafNode
      BY <2>2, <2>3 DEF ChainClimbs
    <3>2. \A i \in 1..Len(chain') - 1 : parent[chain'[i]] = chain'[i + 1]
      BY <2>2, <2>3 DEF ChainClimbs
    <3>3. \A i, j \in DOMAIN chain' : chain'[i] = chain'[j] => i = j
      BY <1>5, <2>2 DEF ChainClimbs, InChain
    <3>4. MaxAncestry \in Nat
      BY AccessAssumption
    <3> QED
      BY <1>1, <1>5, <2>2, <3>1, <3>2, <3>3, <3>4 DEF ChainClimbs
  <2>5. AboveChain \in Ancestors
    BY <1>5, <2>2, <2>3, WhatIsAbove DEF ChainIsUp, Climbed
  <2>6. Climbed' \subseteq Ancestors
    BY <2>2, <2>5 DEF ChainIsUp, Climbed
  <2>7. Collected' \subseteq Uncut
    <3> SUFFICES ASSUME NEW j \in 1..Len(chain) + 1, \A k \in 1..j - 1 : nodes[chain'[k]].inherits
                 PROVE  chain'[j] \in Uncut
      BY <1>1, <2>2 DEF Collected
    <3>1. CASE j \in 1..Len(chain)
      <4>1. \A k \in 1..j - 1 : nodes[chain[k]].inherits
        BY <2>2, <3>1
      <4>2. chain[j] \in Collected
        BY <2>2, <3>1, <4>1 DEF Collected
      <4> QED
        BY <2>2, <3>1, <4>2 DEF ChainIsUp
    <3>2. CASE j = Len(chain) + 1 /\ chain = <<>>
      BY <2>2, <2>3, <3>2, WhatIsAbove
    <3>3. CASE j = Len(chain) + 1 /\ chain # <<>>
      <4>1. Len(chain) \in 1..Len(chain)
        BY <2>2, <3>3
      <4>2. \A k \in 1..Len(chain) : nodes[chain[k]].inherits
        BY <2>2, <3>3
      <4>3. chain[Len(chain)] \in Collected
        BY <2>2, <4>1, <4>2 DEF Collected
      <4> QED
        BY <1>5, <2>2, <2>3, <3>3, <4>1, <4>2, <4>3, WhatIsAbove DEF ChainIsUp
    <3> QED
      BY <3>1, <3>2, <3>3
  <2>8. AccessTypes'
    BY <1>1, <2>1, <2>2 DEF AccessTypes, GroupGraphs
  <2>9. ChainIsUp' /\ ChainIsWhole'
    BY <1>2, <2>1, <2>6, <2>7 DEF ChainIsUp, ChainIsWhole
  <2>10. ExpandedSoFar' /\ NarrowedSoFar'
    BY <1>1, <1>2, <2>1 DEF ExpandedSoFar, NarrowedSoFar, ParentsOf
  <2> QED
    BY <1>2, <2>4, <2>8, <2>9, <2>10
<1>6. CASE ~(AboveChain # Orphan /\ ~InChain(AboveChain) /\ Len(chain) < MaxAncestry)
  <2>1. chain' = chain /\ progress' = "expanding"
    BY <1>1, <1>6 DEF Climb, AboveChain
  <2>2. AboveChain' = AboveChain /\ Climbed' = Climbed /\ Collected' = Collected
    BY <1>1, <2>1 DEF AboveChain, NextUp, Climbed, Collected
  <2>3. AccessTypes' /\ ChainClimbs' /\ ChainIsUp'
    BY <1>1, <1>2, <2>1, <2>2 DEF AccessTypes, ChainClimbs, ChainIsUp
  <2>4. ASSUME Cardinality(Ancestors) <= MaxAncestry
        PROVE  chain # <<>> /\ AboveChain \in Climbed \cup {Orphan}
    <3>1. IsFiniteSet(Ancestors) /\ Cardinality(Ancestors) \in Nat /\ Cardinality(Ancestors) > 0
      <4>1. IsFiniteSet(Ancestors)
        BY AccessAssumption, WhatIsAbove, FS_Subset
      <4> QED
        BY <4>1, WhatIsAbove, FS_CardinalityType, FS_EmptySet
    <3>2. CASE Len(chain) < MaxAncestry
      BY <1>3, <1>6, <3>1, <3>2, AccessAssumption DEF AboveChain, NextUp, InChain, Climbed
    <3>3. CASE ~(Len(chain) < MaxAncestry)
      <4>1. Len(chain) >= Cardinality(Ancestors) /\ Len(chain) \in Nat /\ DOMAIN chain = 1..Len(chain)
        BY <1>3, <2>4, <3>1, <3>3, AccessAssumption
      <4>2. chain \in Injection(1..Len(chain), Ancestors)
        <5>1. \A i \in 1..Len(chain) : chain[i] \in Ancestors
          BY <4>1 DEF ChainIsUp, Climbed
        <5>2. chain \in [1..Len(chain) -> Ancestors]
          BY <1>3, <4>1, <5>1
        <5>3. \A i, j \in 1..Len(chain) : chain[i] = chain[j] => i = j
          BY <4>1 DEF ChainClimbs
        <5> QED
          BY <4>1, <5>2, <5>3 DEF Injection, IsInjective
      <4>3. Cardinality(1..Len(chain)) = Len(chain)
        <5> DEFINE n == Len(chain)
        <5>1. 1 \in Int /\ n \in Int /\ n \in Nat
          BY <4>1
        <5> HIDE DEF n
        <5>2. Cardinality(1..n) = IF 1 > n THEN 0 ELSE n - 1 + 1
          BY <5>1, FS_Interval
        <5>3. Cardinality(1..n) = n
          BY <5>1, <5>2
        <5> QED
          BY <5>3 DEF n
      <4>4. chain \in Surjection(1..Len(chain), Ancestors)
        BY <3>1, <4>1, <4>2, <4>3, FS_Injection
      <4>5. Ancestors \subseteq Climbed
        BY <4>1, <4>4 DEF Surjection, Climbed
      <4>6. chain # <<>>
        BY <3>1, <4>1
      <4> QED
        BY <1>3, <4>1, <4>5, <4>6, WhatIsAbove DEF AboveChain, NextUp, ChainIsUp, Climbed
    <3> QED
      BY <3>2, <3>3
  <2>5. ChainIsWhole'
    BY <1>2, <2>1, <2>2, <2>4 DEF ChainIsWhole
  <2>6. ExpandedSoFar' /\ NarrowedSoFar'
    BY <1>1, <1>2, <2>1 DEF ExpandedSoFar, NarrowedSoFar, ParentsOf
  <2> QED
    BY <1>2, <2>3, <2>5, <2>6
<1> QED
  BY <1>5, <1>6

(* A round of the expansion asks the frontier. *)
LEMMA ExpandStep == AccessInv /\ Expand => AccessInv'
<1> SUFFICES ASSUME AccessInv, Expand PROVE AccessInv'
  OBVIOUS
<1> USE DEF AccessInv
<1>1. progress = "expanding" /\ share = <<>>
      /\ UNCHANGED <<parent, nodes, nesting, chain, share, level, others, gids, uids, mapped>>
  BY DEF Expand, NarrowedSoFar
<1>2. /\ Imported' /\ Ancestors' = Ancestors /\ Uncut' = Uncut /\ Effective' = Effective
      /\ AboveChain' = AboveChain /\ Climbed' = Climbed /\ Collected' = Collected
  BY <1>1 DEF Imported, Ancestors, Uncut, Effective, ParentOf, ParentsOf, AboveChain, NextUp, Climbed, Collected
<1>3. \A g : ParentsOf(g)' = ParentsOf(g)
  BY <1>1 DEF ParentsOf
<1>4. ChainClimbs' /\ ChainIsUp' /\ ChainIsWhole' /\ NarrowedSoFar'
  BY <1>1, <1>2 DEF Expand, ChainClimbs, ChainIsUp, ChainIsWhole, NarrowedSoFar
<1>5. CASE frontier # {} /\ rounds < MaxDepth
  <2>1. /\ visited' = visited \cup frontier /\ frontier' = UNION {ParentsOf(g) : g \in frontier \ visited}
        /\ rounds' = rounds + 1 /\ progress' = progress
    BY <1>5 DEF Expand
  <2>2. visited' \cup frontier' \subseteq Effective
    BY <2>1, WhatIsAbove DEF ExpandedSoFar
  <2>3. \A g \in visited' : ParentsOf(g) \subseteq visited' \cup frontier'
    BY <2>1 DEF ExpandedSoFar
  <2>4. rounds' \in 0..MaxDepth
    BY <1>5, <2>1, AccessAssumption DEF ExpandedSoFar
  <2>5. frontier' = {} \/ Cardinality(visited') >= rounds'
    <3>1. CASE frontier \subseteq visited
      BY <2>1, <3>1
    <3>2. CASE ~(frontier \subseteq visited)
      <4>1. PICK g \in frontier : g \notin visited
        BY <3>2
      <4>2. IsFiniteSet(visited') /\ IsFiniteSet(visited)
        BY <2>1, <2>2, AccessAssumption, WhatIsAbove, FS_Subset DEF ExpandedSoFar
      <4>3. Cardinality(visited \cup {g}) = Cardinality(visited) + 1 /\ IsFiniteSet(visited \cup {g})
        BY <4>1, <4>2, FS_AddElement
      <4>4. Cardinality(visited \cup {g}) <= Cardinality(visited')
        BY <2>1, <4>1, <4>2, FS_Subset
      <4>5. Cardinality(visited) \in Nat /\ Cardinality(visited') \in Nat
        BY <4>2, FS_CardinalityType
      <4> QED
        BY <1>5, <2>1, <2>4, <4>3, <4>4, <4>5 DEF ExpandedSoFar
    <3> QED
      BY <3>1, <3>2
  <2>6. ExpandedSoFar'
    BY <1>1, <1>2, <1>3, <2>1, <2>2, <2>3, <2>4, <2>5 DEF ExpandedSoFar
  <2>7. AccessTypes'
    BY <1>1, <2>1, <2>2, <2>4, WhatIsAbove DEF AccessTypes
  <2> QED
    BY <1>2, <1>4, <2>6, <2>7
<1>6. CASE ~(frontier # {} /\ rounds < MaxDepth)
  <2>1. progress' = "done" /\ UNCHANGED <<visited, frontier, rounds>>
    BY <1>6 DEF Expand
  <2>2. frontier = {} \/ rounds = MaxDepth
    BY <1>6, AccessAssumption DEF ExpandedSoFar
  <2>3. ExpandedSoFar'
    BY <1>2, <1>3, <2>1, <2>2 DEF ExpandedSoFar
  <2>4. AccessTypes'
    BY <1>1, <2>1 DEF AccessTypes
  <2> QED
    BY <1>2, <1>4, <2>3, <2>4
<1> QED
  BY <1>5, <1>6

(* A level of the share narrows the readers. *)
LEMMA NarrowStep == AccessInv /\ Narrow => AccessInv'
<1> SUFFICES ASSUME AccessInv, Narrow PROVE AccessInv'
  OBVIOUS
<1> USE DEF AccessInv
<1>1. progress = "walking" /\ share # <<>> /\ level <= Depth
      /\ UNCHANGED <<parent, nodes, nesting, chain, frontier, visited, rounds, share, mapped>>
  BY DEF Narrow, NarrowedSoFar
<1>2. /\ Imported' /\ Ancestors' = Ancestors /\ Uncut' = Uncut /\ Effective' = Effective
      /\ AboveChain' = AboveChain /\ Climbed' = Climbed /\ Collected' = Collected
  BY <1>1 DEF Imported, Ancestors, Uncut, Effective, ParentOf, ParentsOf, AboveChain, NextUp, Climbed, Collected
<1>3. \A g : ParentsOf(g)' = ParentsOf(g)
  BY <1>1 DEF ParentsOf
<1>4. progress' \in {"walking", "done"} /\ level \in 0..Depth /\ level' = level + 1 /\ Depth \in Nat
      /\ share \in [1..Depth + 1 -> Paths]
  BY <1>1, AccessAssumption DEF Narrow, NarrowedSoFar, AccessTypes
<1>5. ChainClimbs' /\ ChainIsUp' /\ ChainIsWhole'
  BY <1>1, <1>2, <1>4 DEF ChainClimbs, ChainIsUp, ChainIsWhole
<1>6. ExpandedSoFar'
  BY <1>1, <1>2, <1>3, <1>4 DEF ExpandedSoFar
<1> DEFINE path == share[level + 1]
           classes == ReadBy(path, level > 0)
<1>7. level + 1 \in 1..Depth + 1 /\ path \in Paths
  BY <1>4
<1>8. AccessTypes'
  <2>1. gids' \subseteq Gangs /\ uids' \subseteq Owners
    BY <1>7 DEF Narrow, AccessTypes, Paths
  <2> QED
    BY <1>1, <1>4, <2>1 DEF AccessTypes
<1>9. \A i : Reads(i)' = Reads(i)
  BY <1>1 DEF Reads
<1>10. classes = Reads(level + 1)
  <2>1. (level > 0) <=> (level + 1 > 1)
    BY <1>4
  <2> QED
    BY <2>1 DEF Reads, ReadBy
<1>11. CASE ~path.mode.stat
  <2>1. ~others' /\ gids' = {} /\ uids' = {} /\ progress' = "done"
    BY <1>11 DEF Narrow
  <2>2. Unreadable'
    BY <1>1, <1>4, <1>11, <2>1 DEF Unreadable
  <2>3. NarrowedSoFar'
    BY <1>1, <1>4, <2>1, <2>2 DEF NarrowedSoFar
  <2> QED
    BY <1>2, <1>5, <1>6, <1>8, <2>3
<1>12. CASE path.mode.stat
  <2> DEFINE c == Reads(level + 1)
  <2>1. /\ others' = ("others" \in c /\ (level = 0 \/ others))
        /\ gids' = IF "group" \notin c THEN {} ELSE IF level = 0 THEN {path.group} ELSE gids
        /\ uids' = IF level = 0 THEN (IF "owner" \in c THEN {path.owner} ELSE {})
                   ELSE IF c = {} THEN {} ELSE uids
        /\ progress' = IF level = Depth THEN "done" ELSE "walking"
    BY <1>10, <1>12 DEF Narrow
  <2>2. ASSUME level = 0 PROVE Narrowed'
    <3>1. 1..level' = {1} /\ path = share[1] /\ c = Reads(1) /\ level' = 1
      BY <1>4, <2>2
    <3>2. \A i \in 1..level' : share[i].mode.stat
      BY <1>12, <3>1
    <3>3. /\ others' <=> \A i \in 1..level' : "others" \in Reads(i)
          /\ gids' = IF \A i \in 1..level' : "group" \in Reads(i) THEN {share[1].group} ELSE {}
          /\ uids' = IF "owner" \in Reads(1) /\ \A i \in 1..level' : Reads(i) # {} THEN {share[1].owner} ELSE {}
      <4> HIDE DEF c, path
      <4>1. "owner" \in Reads(1) => Reads(1) # {}
        OBVIOUS
      <4> QED
        BY <2>1, <2>2, <3>1, <4>1
    <3>4. /\ progress' = "walking" => level' <= Depth
          /\ progress' = "done" => level' = Depth + 1
      BY <1>4, <2>1, <2>2
    <3> QED
      BY <1>1, <1>9, <3>2, <3>3, <3>4 DEF Narrowed
  <2>3. ASSUME level # 0 PROVE Narrowed'
    <3>1. Narrowed /\ level > 0
      BY <1>1, <1>4, <2>3 DEF NarrowedSoFar, Unreadable
    <3>2. 1..level' = 1..level \cup {level + 1}
      BY <1>4
    <3>3. \A i \in 1..level' : share[i].mode.stat
      BY <1>12, <3>1, <3>2 DEF Narrowed
    <3>4. others' <=> \A i \in 1..level' : "others" \in Reads(i)
      BY <2>1, <2>3, <3>1, <3>2 DEF Narrowed
    <3>5. gids' = IF \A i \in 1..level' : "group" \in Reads(i) THEN {share[1].group} ELSE {}
      BY <2>1, <2>3, <3>1, <3>2 DEF Narrowed
    <3>6. uids' = IF "owner" \in Reads(1) /\ \A i \in 1..level' : Reads(i) # {} THEN {share[1].owner} ELSE {}
      BY <2>1, <2>3, <3>1, <3>2 DEF Narrowed
    <3>7. /\ progress' = "walking" => level' <= Depth
          /\ progress' = "done" => level' = Depth + 1
      BY <1>4, <2>1
    <3> QED
      BY <1>1, <1>9, <3>3, <3>4, <3>5, <3>6, <3>7 DEF Narrowed
  <2>4. Narrowed'
    BY <2>2, <2>3
  <2>5. progress' = "walking" => level' <= Depth
    BY <1>4, <2>1
  <2>6. NarrowedSoFar'
    BY <1>1, <1>4, <2>4, <2>5 DEF NarrowedSoFar
  <2> QED
    BY <1>2, <1>5, <1>6, <1>8, <2>6
<1> QED
  BY <1>11, <1>12

(* Once the climb has ended within the bound, its chain is the ancestry. *)
LEMMA ChainIsAncestry ==
  ASSUME AccessInv, share = <<>>, progress = "done", Cardinality(Ancestors) <= MaxAncestry
  PROVE  Climbed = Ancestors /\ Collected = Uncut
<1> USE DEF AccessInv
<1>1. chain # <<>> /\ AboveChain \in Climbed \cup {Orphan} /\ chain \in Seq(Nodes) /\ Len(chain) \in Nat \ {0}
      /\ DOMAIN chain = 1..Len(chain) /\ chain[1] = LeafNode
  BY DEF ChainIsWhole, ChainClimbs
<1>2. \A i \in 1..Len(chain) : parent[chain[i]] = IF i < Len(chain) THEN chain[i + 1] ELSE AboveChain
  BY <1>1 DEF ChainClimbs, AboveChain, NextUp
<1>3. Climbed = Ancestors
  <2>1. Climbed \subseteq Ancestors /\ Imported
    BY DEF ChainIsUp
  <2>2. Climbed \in SUBSET Nodes /\ LeafNode \in Climbed
    BY <1>1 DEF Climbed
  <2>3. \A n \in Climbed : parent[n] \in Climbed \cup {Orphan}
    BY <1>1, <1>2 DEF Climbed
  <2>4. Ancestors \subseteq Climbed
    BY <2>2, <2>3, <2>1, WhatIsAbove
  <2> QED
    BY <2>1, <2>4
<1>4. Collected = Uncut
  <2>1. Collected \subseteq Uncut /\ Imported
    BY DEF ChainIsUp
  <2>2. Collected \in SUBSET Nodes /\ LeafNode \in Collected
    BY <1>1 DEF Collected
  <2>3. ASSUME NEW n \in Collected, nodes[n].inherits
        PROVE  parent[n] \in Collected \cup {Orphan}
    <3>1. PICK j \in 1..Len(chain) : chain[j] = n /\ \A k \in 1..j - 1 : nodes[chain[k]].inherits
      BY <1>1 DEF Collected
    <3>2. \A k \in 1..j : nodes[chain[k]].inherits
      BY <2>3, <3>1
    <3>3. CASE j < Len(chain)
      <4>1. j + 1 \in DOMAIN chain /\ \A k \in 1..(j + 1) - 1 : nodes[chain[k]].inherits
        BY <1>1, <3>2, <3>3
      <4> QED
        BY <1>2, <3>1, <3>3, <4>1 DEF Collected
    <3>4. CASE j = Len(chain) /\ AboveChain # Orphan
      <4>1. PICK i \in 1..Len(chain) : chain[i] = AboveChain
        BY <1>1, <3>4 DEF Climbed
      <4>2. i \in DOMAIN chain /\ \A k \in 1..i - 1 : nodes[chain[k]].inherits
        BY <1>1, <3>2, <3>4, <4>1
      <4> QED
        BY <1>2, <3>1, <3>4, <4>1, <4>2 DEF Collected
    <3>5. CASE j = Len(chain) /\ AboveChain = Orphan
      BY <1>2, <3>1, <3>5
    <3>6. j < Len(chain) \/ j = Len(chain)
      <4>1. \A m \in Nat : j \in 1..m => j < m \/ j = m
        OBVIOUS
      <4>2. Len(chain) \in Nat
        BY <1>1
      <4> QED
        BY <3>1, <4>1, <4>2
    <3> QED
      BY <3>3, <3>4, <3>5, <3>6
  <2>4. Uncut \subseteq Collected
    BY <2>2, <2>3, <2>1, WhatIsAbove
  <2> QED
    BY <2>1, <2>4
<1> QED
  BY <1>3, <1>4

(* Once the expansion has ended, every group was met or it was warned of.  *)
LEMMA GroupsAreMet ==
  ASSUME AccessInv, share = <<>>, progress = "done"
  PROVE  /\ visited \subseteq Effective
         /\ ~Warned => visited = Effective
         /\ Cardinality(Effective) <= MaxDepth => visited = Effective
<1> USE DEF AccessInv
<1>1. IsFiniteSet(Effective) /\ visited \subseteq Effective /\ Cardinality(Effective) \in Nat
  BY AccessAssumption, WhatIsAbove, FS_Subset, FS_CardinalityType DEF ExpandedSoFar
<1>2. ASSUME ~Warned PROVE visited = Effective
  BY <1>1, <1>2, WhatIsAbove DEF ExpandedSoFar, Warned
<1>3. ASSUME Warned, Cardinality(Effective) <= MaxDepth PROVE visited = Effective
  <2>1. Cardinality(visited) >= MaxDepth /\ IsFiniteSet(visited) /\ Cardinality(visited) \in Nat
    BY <1>1, <1>3, FS_Subset, FS_CardinalityType DEF ExpandedSoFar, Warned
  <2>2. Cardinality(visited) = Cardinality(Effective)
    BY <1>1, <1>3, <2>1, AccessAssumption, FS_Subset
  <2> QED
    BY <1>1, <2>2, FS_Subset
<1> QED
  BY <1>1, <1>2, <1>3

(* Once climb and expansion have ended, who may read is who should, and a  *)
(* bound that cut one off is to blame where it is not.                     *)
LEMMA HierarchyFollows == AccessInv => HierarchyIsExact
<1> SUFFICES ASSUME AccessInv, share = <<>>, progress = "done"
             PROVE  /\ Permits => \E n \in Uncut : nodes[n].grants \in {"principal"} \union Effective
                    /\ visited = Effective \/ (Warned /\ Cardinality(Effective) > MaxDepth)
                    /\ Permits /\ ~ShouldRead => Cardinality(Ancestors) > MaxAncestry
                    /\ ShouldRead /\ ~Permits => Warned \/ Cardinality(Ancestors) > MaxAncestry
  BY DEF HierarchyIsExact
<1>1. Imported /\ Collected \subseteq Uncut
  BY DEF AccessInv, ChainIsUp
<1>2. /\ visited \subseteq Effective
      /\ ~Warned => visited = Effective
      /\ Cardinality(Effective) <= MaxDepth => visited = Effective
  BY GroupsAreMet
<1>3. IsFiniteSet(Effective) /\ IsFiniteSet(Ancestors)
      /\ Cardinality(Effective) \in Nat /\ Cardinality(Ancestors) \in Nat
      /\ MaxDepth \in Nat /\ MaxAncestry \in Nat
  <2>1. IsFiniteSet(Effective) /\ IsFiniteSet(Ancestors)
    BY <1>1, AccessAssumption, WhatIsAbove, FS_Subset
  <2> QED
    BY <2>1, AccessAssumption, FS_CardinalityType
<1>4. Permits => \E n \in Uncut : nodes[n].grants \in {"principal"} \union Effective
  BY <1>1, <1>2 DEF Permits, Conferred
<1>5. visited = Effective \/ (Warned /\ Cardinality(Effective) > MaxDepth)
  BY <1>2, <1>3
<1>6. ASSUME Cardinality(Ancestors) <= MaxAncestry
      PROVE  /\ Permits => ShouldRead
             /\ visited = Effective /\ ShouldRead => Permits
  <2>1. Climbed = Ancestors /\ Collected = Uncut
    BY <1>6, ChainIsAncestry
  <2>2. Denied <=> \E n \in Ancestors : nodes[n].denies
    BY <2>1 DEF Denied, Climbed
  <2>3. Permits => ShouldRead
    BY <1>4, <2>2 DEF Permits, ShouldRead
  <2>4. visited = Effective /\ ShouldRead => Permits
    BY <2>1, <2>2 DEF Permits, ShouldRead, Conferred
  <2> QED
    BY <2>3, <2>4
<1>7. Permits /\ ~ShouldRead => Cardinality(Ancestors) > MaxAncestry
  BY <1>3, <1>6
<1>8. ShouldRead /\ ~Permits => Warned \/ Cardinality(Ancestors) > MaxAncestry
  BY <1>2, <1>3, <1>6
<1> QED
  BY <1>4, <1>5, <1>7, <1>8

(* Once the levels are walked, whoever may read is let through by the file *)
(* itself, and on shares of one hand by every level.                       *)
LEMMA ShareFollows == AccessInv => ShareIsExact
<1> SUFFICES ASSUME AccessInv, share # <<>>, progress = "done", Stepwise,
                    NEW u \in Owners, NEW roles \in SUBSET Gangs
             PROVE  LET passes == \A i \in DOMAIN share : MayPass(i, u, roles) IN
                    /\ ShareAllows(u, roles) =>
                          MayPass(1, u, roles) /\ \A i \in DOMAIN share : Reads(i) # {}
                    /\ OpenOrOwn /\ ShareAllows(u, roles) => passes
                    /\ OpenOrOwn /\ EnteredAsRead /\ passes => ShareAllows(u, roles)
  BY DEF ShareIsExact, Reads
<1> USE DEF AccessInv
<1> DEFINE mine == share[1].owner
           ours == share[1].group
           R(i) == share[i].mode.read
           X(i) == share[i].mode.enter
<1>1. Depth \in Nat /\ DOMAIN share = 1..Depth + 1 /\ 1 \in DOMAIN share
      /\ \A i \in DOMAIN share : share[i] \in Paths
  BY AccessAssumption DEF NarrowedSoFar
<1>2. \A i \in DOMAIN share : R(i) \subseteq Classes /\ X(i) \subseteq Classes
  <2> SUFFICES ASSUME NEW i \in DOMAIN share PROVE R(i) \subseteq Classes /\ X(i) \subseteq Classes
    OBVIOUS
  <2>1. share[i].mode \in Modes \/ share[i].mode = Unstated
    BY <1>1 DEF Paths
  <2>2. \A m \in Modes : m.read \subseteq Classes /\ m.enter \subseteq Classes
    BY AccessAssumption
  <2> QED
    BY <2>1, <2>2 DEF Unstated
<1>3. \A i \in DOMAIN share : Falls(R(i)) /\ Falls(X(i))
  BY DEF Stepwise
<1>4. Reads(1) = R(1) /\ \A i \in Directories : Reads(i) = R(i) \cap X(i)
  BY <1>1 DEF Reads, ReadBy, Directories
<1>5. level > 0 /\ (Unreadable \/ Narrowed)
  <2>1. level \in Nat /\ level # 0
    BY <1>1 DEF NarrowedSoFar, AccessTypes
  <2> QED
    BY <2>1 DEF NarrowedSoFar
<1>6. CASE Unreadable
  <2>1. level \in DOMAIN share /\ ~share[level].mode.stat
    BY <1>1, <1>5, <1>6 DEF Unreadable, AccessTypes
  <2>2. share[level].mode = Unstated
    BY <1>1, <2>1, AccessAssumption DEF Paths
  <2>3. ~MayPass(level, u, roles)
    BY <2>2 DEF MayPass, Unstated
  <2>4. ~ShareAllows(u, roles)
    BY <1>6 DEF ShareAllows, Unreadable
  <2> QED
    BY <2>1, <2>3, <2>4
<1>7. CASE Narrowed
  <2>1. level = Depth + 1 /\ 1..level = DOMAIN share
    BY <1>1, <1>7 DEF Narrowed
  <2>2. /\ others <=> \A i \in DOMAIN share : "others" \in Reads(i)
        /\ gids = IF \A i \in DOMAIN share : "group" \in Reads(i) THEN {ours} ELSE {}
        /\ uids = IF "owner" \in Reads(1) /\ \A i \in DOMAIN share : Reads(i) # {} THEN {mine} ELSE {}
    BY <1>7, <2>1 DEF Narrowed
  <2>3. \A i \in DOMAIN share : Reads(i) # {} => "owner" \in Reads(i)
    BY <1>2, <1>3, <1>4 DEF Falls, Classes, Directories
  <2>4. \A i \in DOMAIN share : Reads(i) \subseteq R(i)
    BY <1>4 DEF Directories
  <2>5. ASSUME ShareAllows(u, roles)
        PROVE  /\ \/ \A i \in DOMAIN share : "others" \in Reads(i)
                  \/ u = mine /\ \A i \in DOMAIN share : "owner" \in Reads(i)
                  \/ ours \in roles /\ \A i \in DOMAIN share : "group" \in Reads(i)
               /\ \A i \in DOMAIN share : Reads(i) # {}
    BY <2>2, <2>3, <2>5 DEF ShareAllows
  <2>6. \A c : MayPass(1, u, roles) <=> ClassAt(share[1], u, roles) \in R(1)
    BY DEF MayPass
  <2>7. \A i \in Directories : MayPass(i, u, roles) <=> ClassAt(share[i], u, roles) \in X(i)
    BY <1>1 DEF MayPass, Directories
  <2>8. \A i \in DOMAIN share : ClassAt(share[i], u, roles) \in Classes
    BY DEF ClassAt, Classes
  <2>9. \A S : Falls(S) /\ "others" \in S => Classes \subseteq S
    BY DEF Falls, Classes
  <2>10. ASSUME ShareAllows(u, roles) PROVE MayPass(1, u, roles)
    <3>1. CASE "others" \in R(1)
      BY <1>1, <1>3, <2>6, <2>8, <2>9, <3>1
    <3>2. CASE u = mine /\ "owner" \in R(1)
      BY <2>6, <3>2 DEF ClassAt
    <3>3. CASE ours \in roles /\ "group" \in R(1)
      BY <1>1, <1>3, <2>6, <3>3 DEF ClassAt, Falls
    <3> QED
      BY <1>1, <2>4, <2>5, <2>10, <3>1, <3>2, <3>3
  <2>11. ASSUME OpenOrOwn, ShareAllows(u, roles), NEW i \in Directories PROVE MayPass(i, u, roles)
    <3>1. i \in DOMAIN share /\ Reads(i) \subseteq X(i)
      BY <1>4, <2>11 DEF Directories
    <3>2. CASE "others" \in X(i)
      BY <1>3, <2>7, <2>8, <2>9, <3>1, <3>2
    <3>3. CASE share[i].owner = mine /\ share[i].group = ours
      <4>1. CASE u = mine /\ "owner" \in X(i)
        BY <2>7, <3>3, <4>1 DEF ClassAt
      <4>2. CASE ours \in roles /\ "group" \in X(i)
        BY <1>3, <2>7, <3>1, <3>3, <4>2 DEF ClassAt, Falls
      <4> QED
        BY <2>5, <2>11, <3>1, <3>2, <4>1, <4>2
    <3> QED
      BY <2>11, <3>2, <3>3 DEF OpenOrOwn
  <2>12. ASSUME OpenOrOwn, EnteredAsRead, \A i \in DOMAIN share : MayPass(i, u, roles)
         PROVE  ShareAllows(u, roles)
    <3>1. mine \in mapped /\ ours \in mapped
      BY <2>12 DEF EnteredAsRead
    <3>2. \A i \in Directories : Reads(i) = X(i)
      BY <1>4, <2>12 DEF EnteredAsRead
    <3>3. \A i \in Directories : "others" \in X(i) => Classes \subseteq Reads(i)
      BY <1>3, <2>9, <3>2 DEF Directories
    <3>4. \A i \in Directories : ClassAt(share[i], u, roles) \in Reads(i)
      BY <2>7, <2>12, <3>2 DEF Directories
    <3>5. ClassAt(share[1], u, roles) \in Reads(1)
      BY <1>1, <1>4, <2>6, <2>12
    <3>6. \A i \in Directories : \/ Classes \subseteq Reads(i)
                           \/ ClassAt(share[i], u, roles) = ClassAt(share[1], u, roles)
      BY <2>12, <3>3 DEF OpenOrOwn, ClassAt
    <3>7. \A i \in DOMAIN share : ClassAt(share[1], u, roles) \in Reads(i)
      BY <1>1, <2>8, <3>4, <3>5, <3>6 DEF Directories
    <3>8. CASE u = mine
      <4>1. \A i \in DOMAIN share : "owner" \in Reads(i)
        BY <3>7, <3>8 DEF ClassAt
      <4> QED
        BY <1>1, <2>2, <3>1, <3>8, <4>1 DEF ShareAllows
    <3>9. CASE u # mine /\ ours \in roles
      <4>1. \A i \in DOMAIN share : "group" \in Reads(i)
        BY <3>7, <3>9 DEF ClassAt
      <4> QED
        BY <2>2, <3>1, <3>9, <4>1 DEF ShareAllows
    <3>10. CASE u # mine /\ ours \notin roles
      <4>1. \A i \in DOMAIN share : "others" \in Reads(i)
        BY <3>7, <3>10 DEF ClassAt
      <4> QED
        BY <2>2, <4>1 DEF ShareAllows
    <3> QED
      BY <3>8, <3>9, <3>10
  <2> HIDE DEF mine, ours, R, X
  <2>13. \A i \in DOMAIN share : i = 1 \/ i \in Directories
    BY DEF Directories
  <2> QED
    BY <2>5, <2>10, <2>11, <2>12, <2>13
<1> QED
  BY <1>5, <1>6, <1>7

(* The climb, the expansion and the narrowing are exact so far, in every   *)
(* reachable state, for any tree, nesting and share.                       *)
THEOREM AccessInductive == AccessSpec => []AccessInv
<1>1. AccessInit => AccessInv
  <2> SUFFICES ASSUME AccessInit PROVE AccessInv
    OBVIOUS
  <2>1. Imported
    <3>1. CASE progress = "climbing"
      BY <3>1, AccessAssumption DEF AccessInit, Imported, GroupGraphs
    <3>2. CASE progress = "walking"
      <4>1. parent = [n \in Nodes |-> Orphan] /\ nodes = Bare /\ nesting = [g \in Groups |-> {}]
        BY <3>2 DEF AccessInit
      <4>2. Bare \in [Nodes -> Statements]
        BY DEF Bare, Statements
      <4> QED
        BY <4>1, <4>2 DEF Imported, GroupGraphs
    <3> QED
      BY <3>1, <3>2 DEF AccessInit
  <2>2. chain = <<>> /\ frontier = {Role} /\ visited = {} /\ rounds = 0 /\ level = 0 /\ others = FALSE
        /\ gids = {} /\ uids = {} /\ progress \in {"climbing", "walking"}
    BY DEF AccessInit
  <2>3. AccessTypes
    <3>1. mapped \subseteq Owners \cup Gangs
      BY AccessAssumption DEF AccessInit
    <3> QED
      BY <2>1, <2>2, <3>1, AccessAssumption DEF AccessTypes, Imported
  <2>4. ChainClimbs /\ ChainIsUp /\ ChainIsWhole
    BY <2>2, AccessAssumption DEF ChainClimbs, ChainIsUp, ChainIsWhole, Climbed, Collected
  <2>5. ExpandedSoFar
    BY <2>1, <2>2, AccessAssumption, WhatIsAbove, FS_EmptySet DEF ExpandedSoFar
  <2>6. NarrowedSoFar
    BY <2>2, AccessAssumption DEF AccessInit, NarrowedSoFar
  <2> QED
    BY <2>1, <2>3, <2>4, <2>5, <2>6 DEF AccessInv
<1>2. AccessInv /\ [AccessNext]_accessVars => AccessInv'
  <2> SUFFICES ASSUME AccessInv, UNCHANGED accessVars PROVE AccessInv'
    BY ClimbStep, ExpandStep, NarrowStep DEF AccessNext
  <2>1. /\ Imported' /\ Ancestors' = Ancestors /\ Uncut' = Uncut /\ Effective' = Effective
        /\ AboveChain' = AboveChain /\ Climbed' = Climbed /\ Collected' = Collected
        /\ \A i : Reads(i)' = Reads(i)
    BY DEF accessVars, AccessInv, Imported, Ancestors, Uncut, Effective, ParentOf, ParentsOf, AboveChain, NextUp,
           Climbed, Collected, Reads
  <2> QED
    BY <2>1 DEF accessVars, AccessInv, AccessTypes, ChainClimbs, ChainIsUp, ChainIsWhole, ExpandedSoFar,
                NarrowedSoFar, Narrowed, Unreadable, ParentsOf
<1> QED
  BY <1>1, <1>2, PTL DEF AccessSpec

(* Every variable of Access keeps its type. *)
THEOREM AccessTypesHold == AccessSpec => []AccessTypes
BY AccessInductive, PTL DEF AccessInv

(* Permissions of a hierarchy grant nobody who should not read and deny    *)
(* nobody who should, and a bound is to blame, and for groups warned of,   *)
(* where they do (hierarchy.py, groups.py); permissions of a share let in  *)
(* only whom the file's own mode lets read, and exactly whom the file      *)
(* system would where directories are open to all or of the file's owner   *)
(* and group (connectors/files/acl.py).                                    *)
THEOREM AccessIsExactHolds == AccessSpec => []AccessIsExact
BY AccessInductive, HierarchyFollows, ShareFollows, PTL DEF AccessIsExact

-----------------------------------------------------------------------------
(* Retrieval *)

(* Fractions compare as their cross products. *)
Fractions == [over : Nat, under : Nat \ {0}]

(* A positive factor changes no comparison. *)
LEMMA Scaled ==
  ASSUME NEW x \in Int, NEW y \in Int, NEW f \in Nat \ {0}
  PROVE  (x < y <=> x * f < y * f) /\ (x = y <=> x * f = y * f)
<1>1. x < y => x * f < y * f
  OBVIOUS
<1>2. y < x => y * f < x * f
  OBVIOUS
<1>3. x * f \in Int /\ y * f \in Int
  OBVIOUS
<1>4. x < y \/ x = y \/ y < x
  OBVIOUS
<1> QED
  BY <1>1, <1>2, <1>3, <1>4

(* Factors may be taken in any order. *)
LEMMA Swapped ==
  ASSUME NEW x \in Int, NEW y \in Int, NEW z \in Int
  PROVE  (x * y) * z = (x * z) * y
OBVIOUS

(* To be less or level goes through, and less if either was less. *)
LEMMA LessGoesThrough ==
  ASSUME NEW a \in Fractions, NEW b \in Fractions, NEW c \in Fractions,
         Less(a, b) \/ Level(a, b), Less(b, c) \/ Level(b, c)
  PROVE  /\ Less(a, b) \/ Less(b, c) => Less(a, c)
         /\ Level(a, b) /\ Level(b, c) => Level(a, c)
<1>1. /\ a.over \in Int /\ b.over \in Int /\ c.over \in Int
      /\ a.under \in Nat \ {0} /\ b.under \in Nat \ {0} /\ c.under \in Nat \ {0}
      /\ a.under \in Int /\ b.under \in Int /\ c.under \in Int
  BY DEF Fractions
<1> DEFINE ab == a.over * b.under
           ba == b.over * a.under
           bc == b.over * c.under
           cb == c.over * b.under
           ac == a.over * c.under
           ca == c.over * a.under
<1>2. ab \in Int /\ ba \in Int /\ bc \in Int /\ cb \in Int /\ ac \in Int /\ ca \in Int
  BY <1>1
<1>3. ab * c.under = ac * b.under /\ ba * c.under = bc * a.under /\ cb * a.under = ca * b.under
  BY <1>1, Swapped
<1>4. /\ ab < ba \/ ab = ba
      /\ bc < cb \/ bc = cb
  BY DEF Less, Level
<1>5. /\ Less(a, b) <=> ab < ba
      /\ Less(b, c) <=> bc < cb
      /\ Less(a, c) <=> ac < ca
      /\ Level(a, b) <=> ab = ba
      /\ Level(b, c) <=> bc = cb
      /\ Level(a, c) <=> ac = ca
  BY DEF Less, Level
<1> HIDE DEF ab, ba, bc, cb, ac, ca
<1> DEFINE p == ab * c.under
           q == ba * c.under
           r == cb * a.under
<1>6. p \in Int /\ q \in Int /\ r \in Int
  BY <1>1, <1>2
<1>7. (ab < ba <=> p < q) /\ (ab = ba <=> p = q)
  BY <1>1, <1>2, Scaled
<1>8. (bc < cb <=> q < r) /\ (bc = cb <=> q = r)
  <2>1. (bc < cb <=> bc * a.under < cb * a.under) /\ (bc = cb <=> bc * a.under = cb * a.under)
    BY <1>1, <1>2, Scaled
  <2>2. q = bc * a.under /\ r = cb * a.under
    BY <1>3
  <2> HIDE DEF q, r
  <2> QED
    BY <2>1, <2>2
<1>9. (ac < ca <=> p < r) /\ (ac = ca <=> p = r)
  <2>1. (ac < ca <=> ac * b.under < ca * b.under) /\ (ac = ca <=> ac * b.under = ca * b.under)
    BY <1>1, <1>2, Scaled
  <2>2. p = ac * b.under /\ r = ca * b.under
    BY <1>3
  <2> HIDE DEF p, r
  <2> QED
    BY <2>1, <2>2
<1> HIDE DEF p, q, r
<1> QED
  BY <1>4, <1>5, <1>6, <1>7, <1>8, <1>9

(* A half looks at ten documents or more, and at twenty at most. *)
LEMMA HalfIsTwenty == Half \in 10..20 /\ Limit <= Half
BY RetrievalAssumption DEF Half

(* What a list gives to a document it holds, and to one it does not. *)
LEMMA ShareShape ==
  ASSUME NEW s \in Seq(Docs), Len(s) <= Half, NEW d, NEW w \in Nat
  PROVE  /\ Share(s, d, w) \in Fractions
         /\ d \in Range(s) => Share(s, d, w).over = w /\ Share(s, d, w).under \in 61..80
         /\ d \notin Range(s) => Share(s, d, w) = [over |-> 0, under |-> 1]
<1>1. CASE d \in Range(s)
  <2> DEFINE r == CHOOSE r \in DOMAIN s : s[r] = d
  <2>1. \E i \in DOMAIN s : s[i] = d
    BY <1>1 DEF Range
  <2>2. r \in DOMAIN s
    BY <2>1
  <2>3. r \in 1..20
    <3>1. r \in 1..Len(s) /\ Len(s) \in Nat
      BY <2>2
    <3> HIDE DEF r
    <3> QED
      BY <3>1, HalfIsTwenty
  <2>4. Share(s, d, w) = [over |-> w, under |-> 60 + r]
    BY <1>1 DEF Share, RRF_K
  <2> HIDE DEF r
  <2> QED
    BY <1>1, <2>3, <2>4 DEF Fractions
<1>2. CASE d \notin Range(s)
  BY <1>2 DEF Share, Fractions
<1> QED
  BY <1>1, <1>2

(* Every score is a fraction. *)
LEMMA ScoreShape ==
  ASSUME NEW words \in Seq(Docs), NEW meaning \in Seq(Docs), Len(words) <= Half, Len(meaning) <= Half,
         NEW d
  PROVE  Score(words, meaning, d) \in Fractions
<1> DEFINE w == Share(words, d, 2)
           m == Share(meaning, d, 3)
<1>1. w \in Fractions /\ m \in Fractions
  BY ShareShape
<1>2. Score(words, meaning, d) =
        [over |-> w.over * m.under + m.over * w.under, under |-> w.under * m.under]
  BY DEF Score
<1> HIDE DEF w, m
<1>3. w.over \in Nat /\ m.over \in Nat /\ w.under \in Nat \ {0} /\ m.under \in Nat \ {0}
  BY <1>1 DEF Fractions
<1>4. w.over * m.under + m.over * w.under \in Nat /\ w.under * m.under \in Nat \ {0}
  <2> SUFFICES \A a, b \in Nat : \A c, e \in Nat \ {0} : a * c + b * e \in Nat /\ e * c \in Nat \ {0}
    BY <1>3
  <2> TAKE a, b \in Nat
  <2> TAKE c, e \in Nat \ {0}
  <2>1. a * c \in Nat /\ b * e \in Nat /\ e * c \in Nat
    OBVIOUS
  <2>2. e * c > 0
    OBVIOUS
  <2> QED
    BY <2>1, <2>2
<1> QED
  BY <1>2, <1>4 DEF Fractions

(* A document found by meaning alone scores more than one found by words   *)
(* alone, at any of the ranks that a half gives out.                       *)
LEMMA MeaningScores ==
  ASSUME NEW words \in Seq(Docs), NEW meaning \in Seq(Docs), Len(words) <= Half, Len(meaning) <= Half,
         NEW d \in Range(meaning) \ Range(words), NEW e \in Range(words) \ Range(meaning)
  PROVE  Less(Score(words, meaning, e), Score(words, meaning, d))
<1> DEFINE M == Share(meaning, d, 3).under
           W == Share(words, e, 2).under
<1>1. /\ M \in 61..80 /\ Share(meaning, d, 3).over = 3 /\ Share(words, d, 2) = [over |-> 0, under |-> 1]
      /\ W \in 61..80 /\ Share(words, e, 2).over = 2 /\ Share(meaning, e, 3) = [over |-> 0, under |-> 1]
  BY ShareShape
<1>2. /\ Score(words, meaning, d) = [over |-> 0 * M + 3 * 1, under |-> 1 * M]
      /\ Score(words, meaning, e) = [over |-> 2 * 1 + 0 * W, under |-> W * 1]
  BY <1>1 DEF Score
<1> HIDE DEF M, W
<1>3. Score(words, meaning, d) = [over |-> 3, under |-> M] /\ Score(words, meaning, e) = [over |-> 2, under |-> W]
  BY <1>1, <1>2
<1>4. 2 * M < 3 * W
  BY <1>1
<1> QED
  BY <1>3, <1>4 DEF Less

(* The first of a sequence. *)
LEMMA FirstOfAll ==
  ASSUME NEW S, NEW s \in Seq(S)
  PROVE  /\ First(s) \in Seq(S) /\ Len(First(s)) \in Nat
         /\ \A n \in DOMAIN First(s) : n \in DOMAIN s /\ First(s)[n] = s[n]
<1> DEFINE k == IF Len(s) < Limit THEN Len(s) ELSE Limit
<1>1. k \in Nat /\ k <= Len(s) /\ Len(s) \in Nat
  BY RetrievalAssumption
<1>2. First(s) = SubSeq(s, 1, k)
  BY DEF First
<1> HIDE DEF k
<1>3. \A i \in 1..k : s[i] \in S
  BY <1>1
<1>4. /\ SubSeq(s, 1, k) \in Seq(S) /\ Len(SubSeq(s, 1, k)) = (IF 1 <= k THEN k - 1 + 1 ELSE 0)
      /\ \A i \in 1..k - 1 + 1 : SubSeq(s, 1, k)[i] = s[1 + i - 1]
  BY <1>1, <1>3, SubSeqProperties
<1>5. Len(SubSeq(s, 1, k)) = k /\ \A i \in 1..k : SubSeq(s, 1, k)[i] = s[i]
  BY <1>1, <1>4
<1> QED
  BY <1>1, <1>2, <1>4, <1>5

(* The order that Fused sorts by. *)
Fusion(words, meaning) ==
    LET found == Range(words) \union Range(meaning)
        score == [d \in found |-> Score(words, meaning, d)]
    IN  {ab \in found \X found :
                 \/ Less(score[ab[2]], score[ab[1]])
                 \/ (Level(score[ab[2]], score[ab[1]]) /\ ab[1] < ab[2])}

(* It is one, for ties are broken by id. *)
LEMMA FusionIsOrder ==
  ASSUME NEW words \in Seq(Docs), NEW meaning \in Seq(Docs), Len(words) <= Half, Len(meaning) <= Half
  PROVE  LET found == Range(words) \cup Range(meaning)
         IN  found \subseteq Docs /\ IsFiniteSet(found) /\ IsOrderOf(Fusion(words, meaning), found)
<1> DEFINE found == Range(words) \cup Range(meaning)
           score == [d \in found |-> Score(words, meaning, d)]
           before == Fusion(words, meaning)
<1>1. found \subseteq Docs
  BY DEF Range
<1>2. IsFiniteSet(found)
  BY <1>1, RetrievalAssumption, FS_Subset
<1>3. \A d \in found : score[d] \in Fractions
  BY ScoreShape
<1>4. \A a, b : <<a, b>> \in before <=>
          a \in found /\ b \in found /\ (Less(score[b], score[a]) \/ (Level(score[b], score[a]) /\ a < b))
  BY DEF Fusion
<1>5. \A d \in found : d \in Nat
  BY <1>1, RetrievalAssumption
<1> HIDE DEF score, before, found
<1>6. \A x \in found : <<x, x>> \notin before
  <2> SUFFICES ASSUME NEW x \in found PROVE ~Less(score[x], score[x]) /\ ~(x < x)
    BY <1>4
  <2>1. score[x].over * score[x].under \in Int
    BY <1>3 DEF Fractions
  <2> QED
    BY <1>5, <2>1 DEF Less
<1>7. ASSUME NEW x \in found, NEW y \in found, x # y
      PROVE  <<x, y>> \in before \/ <<y, x>> \in before
  <2> DEFINE xy == score[x].over * score[y].under
             yx == score[y].over * score[x].under
  <2>1. /\ score[x].over \in Int /\ score[y].over \in Int
        /\ score[x].under \in Int /\ score[y].under \in Int
    BY <1>3 DEF Fractions
  <2>2. xy \in Int /\ yx \in Int
    BY <2>1
  <2>3. /\ Less(score[x], score[y]) <=> xy < yx
        /\ Less(score[y], score[x]) <=> yx < xy
        /\ Level(score[x], score[y]) <=> xy = yx
        /\ Level(score[y], score[x]) <=> xy = yx
    BY DEF Less, Level
  <2> HIDE DEF xy, yx
  <2>4. x \in Nat /\ y \in Nat
    BY <1>5
  <2> QED
    BY <1>4, <1>7, <2>2, <2>3, <2>4
<1>8. ASSUME NEW x \in found, NEW y \in found, NEW z \in found,
             <<x, y>> \in before, <<y, z>> \in before
      PROVE  <<x, z>> \in before
  <2>1. score[x] \in Fractions /\ score[y] \in Fractions /\ score[z] \in Fractions
    BY <1>3
  <2>2. /\ Less(score[z], score[y]) \/ (Level(score[z], score[y]) /\ y < z)
        /\ Less(score[y], score[x]) \/ (Level(score[y], score[x]) /\ x < y)
    BY <1>4, <1>8
  <2>3. /\ Less(score[z], score[y]) \/ Less(score[y], score[x]) => Less(score[z], score[x])
        /\ Level(score[z], score[y]) /\ Level(score[y], score[x]) => Level(score[z], score[x])
    BY <2>1, <2>2, LessGoesThrough
  <2>4. y < z /\ x < y => x < z
    BY <1>5
  <2> QED
    BY <1>4, <2>2, <2>3, <2>4
<1>9. IsOrderOf(before, found)
  BY <1>6, <1>7, <1>8 DEF IsOrderOf
<1> QED
  BY <1>1, <1>2, <1>9 DEF before, found

(* The fused order holds what either half found, what the meaning alone    *)
(* found before what the words alone found.                                *)
LEMMA FusedInOrder ==
  ASSUME NEW words \in Seq(Docs), NEW meaning \in Seq(Docs), Len(words) <= Half, Len(meaning) <= Half
  PROVE  LET order == Fused(words, meaning)
             meant == Range(meaning) \ Range(words)
             said  == Range(words) \ Range(meaning)
         IN  /\ order \in Seq(Range(words) \cup Range(meaning)) /\ order \in Seq(Docs)
             /\ \A r, q \in DOMAIN order : order[r] \in meant /\ order[q] \in said => r < q
<1> DEFINE found == Range(words) \cup Range(meaning)
           meant == Range(meaning) \ Range(words)
           said == Range(words) \ Range(meaning)
           before == Fusion(words, meaning)
           s == Sorted(found, before)
           n == Cardinality(found)
           order == First(s)
<1>1. found \subseteq Docs /\ IsFiniteSet(found) /\ IsOrderOf(before, found)
  BY FusionIsOrder
<1>2. Fused(words, meaning) = order
  BY DEF Fused, Fusion
<1>3. \A d \in meant, e \in said : <<d, e>> \in before
  <2> SUFFICES ASSUME NEW d \in meant, NEW e \in said PROVE <<d, e>> \in before
    OBVIOUS
  <2>1. Less(Score(words, meaning, e), Score(words, meaning, d))
    BY MeaningScores
  <2> QED
    BY <2>1 DEF Fusion
<1> HIDE DEF found, before
<1>4. /\ n \in Nat /\ s \in [1..n -> found]
      /\ \A i, j \in 1..n : <<s[i], s[j]>> \in before <=> i < j
      /\ \A i, j \in 1..n : s[i] = s[j] => i = j
  BY <1>1, SortedIsOrder
<1> HIDE DEF s, n
<1>5. s \in Seq(found) /\ DOMAIN s = 1..n
  BY <1>4
<1>6. order \in Seq(found) /\ \A i \in DOMAIN order : i \in 1..n /\ order[i] = s[i]
  BY <1>5, FirstOfAll
<1> HIDE DEF order
<1>7. order \in Seq(Docs)
  BY <1>1, <1>6
<1>8. ASSUME NEW r \in DOMAIN order, NEW q \in DOMAIN order, order[r] \in meant, order[q] \in said
      PROVE  r < q
  <2>1. s[r] \in meant /\ s[q] \in said /\ r \in 1..n /\ q \in 1..n
    BY <1>4, <1>6, <1>8
  <2>2. <<s[r], s[q]>> \in before
    BY <1>3, <2>1
  <2> QED
    BY <1>4, <2>1, <2>2
<1> QED
  BY <1>2, <1>6, <1>7, <1>8 DEF found

(* A page for a document is its lexical hit, or what the index holds now. *)
LEMMA PagesAreOf ==
  ASSUME NEW lexical \in Seq(Docs \X Wordings), NEW d \in Range(Ids(lexical)) \cup Legible(corpus)
  PROVE  Page(d, lexical) \in Range(lexical) \cup Pages(corpus) /\ Page(d, lexical)[1] = d
<1>1. CASE d \in Range(Ids(lexical))
  <2>1. \E r \in DOMAIN lexical : lexical[r][1] = d
    BY <1>1 DEF Range, Ids
  <2> DEFINE r == CHOOSE r \in DOMAIN lexical : lexical[r][1] = d
  <2>2. r \in DOMAIN lexical /\ lexical[r][1] = d
    BY <2>1
  <2>3. Page(d, lexical) = lexical[r]
    BY <1>1 DEF Page
  <2> HIDE DEF r
  <2> QED
    BY <2>2, <2>3 DEF Range
<1>2. CASE d \notin Range(Ids(lexical))
  BY <1>2 DEF Page, Pages
<1> QED
  BY <1>1, <1>2

(* What is rendered keeps the order it was fused in. *)
LEMMA RenderedInOrder ==
  ASSUME NEW order \in Seq(Docs), NEW lexical \in Seq(Docs \X Wordings)
  PROVE  LET hits == Rendered(order, lexical)
         IN  /\ hits \in Seq(Range(lexical) \cup Pages(corpus))
             /\ \E place \in [DOMAIN hits -> DOMAIN order] :
                  /\ \A n \in DOMAIN hits : hits[n][1] = order[place[n]]
                  /\ \A m, n \in DOMAIN hits : place[m] < place[n] => m < n
<1> DEFINE kept == {r \in DOMAIN order : order[r] \in Range(Ids(lexical)) \cup Legible(corpus)}
           places == Sorted(kept, Rising(kept))
           size == Cardinality(kept)
           hits == Rendered(order, lexical)
<1>1. IsFiniteSet(kept) /\ kept \in SUBSET Nat
  <2>1. Len(order) \in Nat /\ DOMAIN order = 1..Len(order)
    OBVIOUS
  <2>2. IsFiniteSet(1..Len(order))
    BY <2>1, FS_Interval
  <2> QED
    BY <2>1, <2>2, FS_Subset
<1>2. hits = [n \in DOMAIN places |-> Page(order[places[n]], lexical)]
  BY DEF Rendered
<1>3. \A r \in kept : r \in DOMAIN order /\ order[r] \in Range(Ids(lexical)) \cup Legible(corpus)
  OBVIOUS
<1> HIDE DEF kept
<1>4. /\ size \in Nat /\ places \in [1..size -> kept]
      /\ \A m, n \in 1..size : <<places[m], places[n]>> \in Rising(kept) <=> m < n
  BY <1>1, RisingIsOrder, SortedIsOrder
<1> HIDE DEF places, size
<1>5. \A n \in 1..size : /\ places[n] \in kept
                         /\ Page(order[places[n]], lexical) \in Range(lexical) \cup Pages(corpus)
                         /\ Page(order[places[n]], lexical)[1] = order[places[n]]
  BY <1>3, <1>4, PagesAreOf
<1>6. hits \in [1..size -> Range(lexical) \cup Pages(corpus)]
  BY <1>2, <1>4, <1>5
<1> HIDE DEF hits
<1>7. hits \in Seq(Range(lexical) \cup Pages(corpus)) /\ DOMAIN hits = 1..size
  BY <1>4, <1>6
<1>8. places \in [DOMAIN hits -> DOMAIN order]
  BY <1>3, <1>4, <1>7
<1>9. \A n \in DOMAIN hits : hits[n][1] = order[places[n]]
  BY <1>2, <1>4, <1>5, <1>7
<1>10. \A m, n \in DOMAIN hits : places[m] < places[n] => m < n
  BY <1>4, <1>5, <1>7 DEF Rising
<1> QED
  BY <1>7, <1>8, <1>9, <1>10 DEF hits
(* A row of the vectors, in memory or in the store. *)
VectorRows == [text : Wordings \cup {0}, digest : Wordings \cup {0}, model : Models \cup {"none"}]

(* The types of the embedding store and of the configured model. *)
StoreTypes == embeddings \in [Docs -> [Models -> VectorRows]] /\ space \in Models

(* A digest is of the text its vector was made from, and the vector of the *)
(* model under which it is kept.                                           *)
IsVectorOf(v, m) == v.digest = v.text /\ (v.text # 0 => v.model = m)
StoreIsTrue ==
    \A d \in Docs : /\ IsVectorOf(vectors[d], space)
                    /\ \A m \in Models : IsVectorOf(embeddings[d][m], m)

(* A sync that does nothing holds nothing, and one that awaits its vectors *)
(* has put none.                                                           *)
Tidy(i) == /\ embedding[i].at = "idle" => embedding[i] = Idle
           /\ embedding[i].at = "embedding" => embedding[i].put = 0

(* What a document's vector and row are while a sync holds it, and after:  *)
(* unless it lapsed one sync has it, with the text indexed, and puts its   *)
(* vector before its row.                                                  *)
InStep(d) ==
    /\ \A i \in Syncs : /\ embedding[i].put = d => Holds(i, d)
                        /\ Holds(i, d) /\ d \in lapsed => d \in unkept
                        /\ Holds(i, d) /\ d \notin lapsed =>
                             /\ \A j \in Syncs : Holds(j, d) => j = i
                             /\ corpus[d].text \in {0, embedding[i].of[d]}
                             /\ embedding[i].put = d => vectors[d] = VectorOf(i, d)
    /\ d \notin unkept /\ (\A i \in Syncs : embedding[i].put # d) => embeddings[d][space] = vectors[d]
    /\ corpus[d].text # 0 /\ d \notin Held \cup lapsed =>
         vectors[d].text = corpus[d].text /\ vectors[d].model = space

Keeping == (\A i \in Syncs : Tidy(i)) /\ (\A d \in Docs : InStep(d))

(* A search, under way or over. *)
Searches ==
    [at : {"idle", "embedding", "done"}, lexical : Seq(Docs \X Wordings), close : Seq(Docs),
     hits : Seq(Docs \X Wordings), semantic : BOOLEAN]

(* What was found could be read, and until the answer is given so could    *)
(* all that can be read now                                                *)
SeenWhileSearching ==
    /\ query \in Searches /\ Len(query.lexical) <= Half /\ exposed \subseteq Docs \X Wordings
    /\ query.at # "idle" => Range(query.lexical) \subseteq exposed
    /\ query.at = "embedding" => Pages(corpus) \subseteq exposed /\ ~query.semantic

(* The inductive invariant of Retrieval *)
RetrievalInv ==
    /\ RetrievalTypes /\ StoreTypes /\ StoreIsTrue /\ Keeping
    /\ SeenWhileSearching /\ NothingUnreadable /\ MeaningOutweighsWords

(* A page is a document and what it says. *)
LEMMA PagesAreDocs ==
  ASSUME NEW c \in [Docs -> [text : Wordings \cup {0}, open : BOOLEAN]]
  PROVE  Pages(c) \subseteq Docs \X Wordings
BY DEF Pages, Legible

(* What a document's step depends on. *)
LEMMA InStepOf ==
  ASSUME NEW d \in Docs, InStep(d),
         \A i \in Syncs : /\ embedding'[i].of[d] = embedding[i].of[d]
                          /\ embedding'[i].put = d <=> embedding[i].put = d,
         corpus'[d].text \in {0, corpus[d].text}, vectors'[d] = vectors[d],
         embeddings'[d][space] = embeddings[d][space], space' = space,
         d \in lapsed' <=> d \in lapsed, d \in unkept' <=> d \in unkept
  PROVE  InStep(d)'
<1>1. \A i \in Syncs : Holds(i, d)' <=> Holds(i, d)
  BY DEF Holds
<1>2. (d \in Held)' <=> d \in Held
  BY <1>1 DEF Held
<1>3. \A i \in Syncs : VectorOf(i, d)' = VectorOf(i, d)
  BY DEF VectorOf
<1> QED
  BY <1>1, <1>2, <1>3 DEF InStep

(* What leaves corpus, vectors and their rows alone leaves them in step. *)
LEMMA KeptAlone ==
  ASSUME Keeping, UNCHANGED <<corpus, vectors, embeddings, embedding, space, keeping>>
  PROVE  Keeping'
<1>1. \A d \in Docs : InStep(d)'
  BY InStepOf DEF Keeping, keeping
<1> QED
  BY <1>1 DEF Keeping, Tidy

(* A change of the corpus leaves the search what it had. *)
LEMMA ReindexStep ==
  ASSUME RetrievalInv, NEW c \in [Docs -> [text : Wordings \cup {0}, open : BOOLEAN]], Reindex(c),
         UNCHANGED <<vectors, embeddings, space, query>>,
         embedding' \in [Syncs -> Tasks], lapsed' \subseteq Docs, unkept' \subseteq Docs, Keeping'
  PROVE  RetrievalInv'
<1>1. /\ corpus' = c
      /\ exposed' = IF query.at = "embedding" THEN exposed \union Pages(c) ELSE exposed
  BY DEF Reindex
<1>2. Pages(c) \subseteq Docs \X Wordings
  BY PagesAreDocs
<1>3. exposed \subseteq exposed' /\ exposed' \subseteq Docs \X Wordings
  BY <1>1, <1>2 DEF RetrievalInv, SeenWhileSearching
<1>4. RetrievalTypes'
  BY <1>1 DEF RetrievalInv, RetrievalTypes
<1>5. (StoreTypes /\ StoreIsTrue)'
  BY DEF RetrievalInv, StoreTypes, StoreIsTrue
<1>6. query.at = "embedding" => Pages(corpus') \subseteq exposed'
  BY <1>1
<1>7. SeenWhileSearching'
  <2>1. Pages(corpus)' = Pages(corpus')
    BY DEF Pages, Legible
  <2> QED
    BY <1>3, <1>6, <2>1 DEF RetrievalInv, SeenWhileSearching
<1>8. NothingUnreadable'
  BY <1>3 DEF RetrievalInv, NothingUnreadable
<1>9. MeaningOutweighsWords'
  BY DEF RetrievalInv, MeaningOutweighsWords, Places
<1> QED
  BY <1>4, <1>5, <1>7, <1>8, <1>9 DEF RetrievalInv

(* What leaves corpus and query alone disturbs only the vectors. *)
LEMMA VectorStep ==
  ASSUME RetrievalInv, UNCHANGED <<corpus, space, query, exposed>>,
         embedding' \in [Syncs -> Tasks], lapsed' \subseteq Docs, unkept' \subseteq Docs,
         vectors' \in [Docs -> VectorRows], embeddings' \in [Docs -> [Models -> VectorRows]],
         StoreIsTrue', Keeping'
  PROVE  RetrievalInv'
<1>1. (RetrievalTypes /\ StoreTypes)'
  BY DEF RetrievalInv, RetrievalTypes, StoreTypes, VectorRows
<1>2. SeenWhileSearching'
  BY DEF RetrievalInv, SeenWhileSearching, Pages, Legible
<1>3. (NothingUnreadable /\ MeaningOutweighsWords)'
  BY DEF RetrievalInv, NothingUnreadable, MeaningOutweighsWords, Places
<1> QED
  BY <1>1, <1>2, <1>3 DEF RetrievalInv

(* What the invariant says of the vectors and of their rows. *)
LEMMA WhatIsStored ==
  ASSUME RetrievalInv
  PROVE  /\ vectors \in [Docs -> VectorRows] /\ embeddings \in [Docs -> [Models -> VectorRows]]
         /\ space \in Models /\ lapsed \subseteq Docs /\ unkept \subseteq Docs
         /\ embedding \in [Syncs -> Tasks]
         /\ corpus \in [Docs -> [text : Wordings \union {0}, open : BOOLEAN]]
         /\ StoreIsTrue /\ Keeping
BY DEF RetrievalInv, RetrievalTypes, StoreTypes, VectorRows

(* An idle task is one, and holds nothing. *)
LEMMA IdleHoldsNothing ==
  Idle \in Tasks /\ Idle.at = "idle" /\ Idle.put = 0 /\ \A d \in Docs : Idle.of[d] = 0 /\ d # 0
BY RetrievalAssumption DEF Idle, Tasks

(* A batch that is taken is indexed, and what of it has no current vector  *)
(* is to be embedded.                                                      *)
LEMMA TakeStep == ASSUME NEW i \in Syncs, RetrievalInv, Take(i) PROVE RetrievalInv'
<1>1. PICK batch \in (SUBSET Docs) \ {{}}, text \in [Docs -> Wordings], open \in BOOLEAN :
        LET of == [d \in Docs |-> IF d \in batch /\ ~IsCurrent(d, text[d]) THEN text[d] ELSE 0]
        IN  /\ \A d \in Docs \ batch : text[d] = CHOOSE t \in Wordings : TRUE
            /\ Reindex([d \in Docs |-> IF d \in batch THEN [text |-> text[d], open |-> open]
                                       ELSE corpus[d]])
            /\ embedding' = IF \E d \in Docs : of[d] # 0
                            THEN [embedding EXCEPT ![i] = [Idle EXCEPT !.at = "embedding", !.of = of]]
                            ELSE embedding
            /\ lapsed' = (lapsed \ batch) \union (batch \intersect Held)
            /\ unkept' = unkept \union (batch \intersect Held)
  BY Zenon DEF Take
<1> DEFINE of == [d \in Docs |-> IF d \in batch /\ ~IsCurrent(d, text[d]) THEN text[d] ELSE 0]
           c == [d \in Docs |-> IF d \in batch THEN [text |-> text[d], open |-> open] ELSE corpus[d]]
           task == [Idle EXCEPT !.at = "embedding", !.of = of]
<1>2. of \in [Docs -> Wordings \cup {0}]
  OBVIOUS
<1>3. c \in [Docs -> [text : Wordings \cup {0}, open : BOOLEAN]]
  BY DEF RetrievalInv, RetrievalTypes
<1>4. /\ Reindex(c)
      /\ \/ embedding' = embedding /\ \A d \in Docs : of[d] = 0
         \/ embedding' = [embedding EXCEPT ![i] = task]
      /\ lapsed' = (lapsed \ batch) \union (batch \intersect Held)
      /\ unkept' = unkept \union (batch \intersect Held)
  BY <1>1
<1>5. /\ \A d \in Docs \ batch : of[d] = 0 /\ c[d] = corpus[d]
      /\ \A d \in batch : /\ c[d].text = text[d] /\ text[d] \in Wordings /\ text[d] # 0
                          /\ of[d] # 0 => of[d] = text[d]
                          /\ of[d] = 0 => IsCurrent(d, text[d])
  BY RetrievalAssumption
<1> HIDE DEF of, c
<1>6. task \in Tasks /\ task.at = "embedding" /\ task.of = of /\ task.put = 0
  BY <1>2, IdleHoldsNothing DEF Tasks
<1> HIDE DEF task
<1>7. embedding' \in [Syncs -> Tasks]
  BY <1>4, <1>6, WhatIsStored
<1>8. UNCHANGED <<vectors, embeddings, space, query>> /\ embedding[i] = Idle /\ corpus' = c
  BY <1>4, WhatIsStored DEF Take, Keeping, Tidy, Reindex
<1>9. \A j \in Syncs : Tidy(j)'
  BY <1>4, <1>6, WhatIsStored DEF Keeping, Tidy
<1>10. /\ \A d \in Docs : embedding'[i].of[d] = of[d] /\ embedding'[i].put = 0 /\ ~Holds(i, d) /\ embedding[i].put = 0
       /\ \A j \in Syncs \ {i} : embedding'[j] = embedding[j]
  BY <1>4, <1>6, <1>8, IdleHoldsNothing, WhatIsStored DEF Holds
<1>11. ASSUME NEW d \in Docs PROVE InStep(d)'
  <2>1. InStep(d) /\ d # 0 /\ IsVectorOf(vectors[d], space)
    BY WhatIsStored, IdleHoldsNothing DEF Keeping, StoreIsTrue
  <2>2. CASE d \notin batch
    <3>1. /\ \A j \in Syncs : /\ embedding'[j].of[d] = embedding[j].of[d]
                              /\ embedding'[j].put = d <=> embedding[j].put = d
          /\ corpus'[d] = corpus[d]
      BY <1>5, <1>8, <1>10, <2>2, <2>1 DEF Holds
    <3>2. (d \in lapsed' <=> d \in lapsed) /\ (d \in unkept' <=> d \in unkept)
      BY <1>4, <2>2
    <3> QED
      BY <1>8, <2>1, <3>1, <3>2, InStepOf
  <2>3. CASE d \in batch /\ d \in Held
    <3>1. d \in lapsed' /\ d \in unkept'
      BY <1>4, <2>3
    <3>2. \A j \in Syncs : embedding'[j].put = d => Holds(j, d)'
      BY <1>10, <2>1 DEF InStep, Holds
    <3> QED
      BY <3>1, <3>2 DEF InStep
  <2>4. CASE d \in batch /\ d \notin Held
    <3>1. d \notin lapsed' /\ (d \in unkept' <=> d \in unkept)
      BY <1>4, <2>4
    <3>2. \A j \in Syncs : ~Holds(j, d) /\ embedding[j].put # d
      BY <2>1, <2>4 DEF Held, InStep
    <3>3. /\ \A j \in Syncs : embedding'[j].put # d /\ (Holds(j, d)' => j = i)
          /\ embedding'[i].of[d] = of[d] /\ corpus'[d].text = text[d] /\ text[d] # 0
      BY <1>5, <1>8, <1>10, <2>1, <2>4, <3>2 DEF Holds
    <3>4. embeddings'[d][space'] = vectors'[d] \/ d \in unkept'
      BY <1>8, <2>1, <3>1, <3>2 DEF InStep
    <3>5. CASE of[d] # 0
      <4>1. Holds(i, d)' /\ (d \in Held)' /\ of[d] = text[d]
        BY <1>5, <2>4, <3>3, <3>5 DEF Holds, Held
      <4> QED
        BY <3>1, <3>3, <3>4, <4>1 DEF InStep
    <3>6. CASE of[d] = 0
      <4>1. vectors'[d].text = corpus'[d].text /\ vectors'[d].model = space'
        BY <1>5, <1>8, <2>1, <2>4, <3>3, <3>6 DEF IsCurrent, IsVectorOf
      <4>2. \A j \in Syncs : ~Holds(j, d)'
        BY <3>3, <3>6 DEF Holds
      <4> QED
        BY <3>3, <3>4, <4>1, <4>2 DEF InStep
    <3> QED
      BY <3>5, <3>6
  <2> QED
    BY <2>2, <2>3, <2>4
<1>12. lapsed' \subseteq Docs /\ unkept' \subseteq Docs
  BY <1>4, WhatIsStored DEF Held
<1> QED
  BY <1>3, <1>4, <1>7, <1>8, <1>9, <1>11, <1>12, ReindexStep DEF Keeping

(* Permissions change and documents go, and the search keeps what it had   *)
(* visited.                                                                   *)
LEMMA PermitStep == ASSUME NEW d \in Docs, RetrievalInv, Permit(d) \/ Unlist(d) PROVE RetrievalInv'
<1>1. PICK c \in [Docs -> [text : Wordings \cup {0}, open : BOOLEAN]] :
        Reindex(c) /\ \A e \in Docs : c[e].text \in {0, corpus[e].text}
  <2>1. CASE Permit(d)
    <3> DEFINE c == [corpus EXCEPT ![d].open = ~@]
    <3>1. c \in [Docs -> [text : Wordings \cup {0}, open : BOOLEAN]] /\ \A e \in Docs : c[e].text = corpus[e].text
      BY WhatIsStored
    <3> QED
      BY <2>1, <3>1 DEF Permit
  <2>2. CASE Unlist(d)
    <3> DEFINE c == [corpus EXCEPT ![d] = Absentee]
    <3>1. c \in [Docs -> [text : Wordings \cup {0}, open : BOOLEAN]]
          /\ \A e \in Docs : c[e].text \in {0, corpus[e].text}
      BY WhatIsStored DEF Absentee
    <3> QED
      BY <2>2, <3>1 DEF Unlist
  <2> QED
    BY <2>1, <2>2
<1>2. UNCHANGED <<vectors, embeddings, embedding, space, query, lapsed, unkept>>
  BY DEF Permit, Unlist, keeping
<1>3. corpus' = c
  BY <1>1 DEF Reindex
<1>4. \A e \in Docs : InStep(e)'
  BY <1>1, <1>2, <1>3, WhatIsStored, InStepOf DEF Keeping
<1>5. Keeping'
  BY <1>2, <1>4, WhatIsStored DEF Keeping, Tidy
<1> QED
  BY <1>1, <1>2, <1>5, WhatIsStored, ReindexStep

(* The vectors of a batch come, or do not. *)
LEMMA EmbeddedStep == ASSUME NEW i \in Syncs, RetrievalInv, Embedded(i) PROVE RetrievalInv'
<1>1. PICK failed \in BOOLEAN :
        /\ embedding' = [embedding EXCEPT ![i] = IF failed THEN Idle ELSE [@ EXCEPT !.at = "putting"]]
        /\ lapsed' = IF failed THEN lapsed \union {d \in Docs : Holds(i, d)} ELSE lapsed
  BY DEF Embedded
<1>2. UNCHANGED <<corpus, vectors, embeddings, space, query, exposed, unkept>>
  BY DEF Embedded
<1> DEFINE putting == [embedding[i] EXCEPT !.at = "putting"]
<1>3. putting = [at |-> "putting", of |-> embedding[i].of, put |-> embedding[i].put]
  BY WhatIsStored DEF Tasks
<1>4. putting \in Tasks /\ putting.of = embedding[i].of /\ putting.put = embedding[i].put /\ putting.at = "putting"
  BY <1>3, WhatIsStored DEF Tasks
<1> HIDE DEF putting
<1>5. embedding' = [embedding EXCEPT ![i] = IF failed THEN Idle ELSE putting]
  BY <1>1 DEF putting
<1>6. embedding' \in [Syncs -> Tasks] /\ \A j \in Syncs : Tidy(j)'
  BY <1>4, <1>5, WhatIsStored, IdleHoldsNothing DEF Keeping, Tidy
<1>7. lapsed' \subseteq Docs
  BY <1>1, WhatIsStored
<1>8. ASSUME NEW d \in Docs PROVE InStep(d)'
  <2>1. InStep(d) /\ d # 0
    BY WhatIsStored, IdleHoldsNothing DEF Keeping
  <2>2. CASE ~failed \/ ~Holds(i, d)
    <3>1. \A j \in Syncs : /\ embedding'[j].of[d] = embedding[j].of[d]
                           /\ embedding'[j].put = d <=> embedding[j].put = d
      BY <1>4, <1>5, <2>1, <2>2, WhatIsStored, IdleHoldsNothing DEF Holds, InStep
    <3>2. d \in lapsed' <=> d \in lapsed
      BY <1>1, <2>2
    <3> QED
      BY <1>2, <2>1, <3>1, <3>2, InStepOf
  <2>3. CASE failed /\ Holds(i, d)
    <3>1. d \in lapsed' /\ embedding' = [embedding EXCEPT ![i] = Idle]
      BY <1>1, <2>3
    <3>2. \A j \in Syncs : Holds(j, d)' => Holds(j, d) /\ j # i
      BY <3>1, WhatIsStored, IdleHoldsNothing DEF Holds
    <3>3. \A j \in Syncs : embedding'[j].put = d => embedding[j].put = d /\ j # i
      BY <2>1, <3>1, WhatIsStored, IdleHoldsNothing
    <3>4. \A j \in Syncs : /\ embedding'[j].put = d => Holds(j, d)'
                           /\ Holds(j, d)' => d \in unkept'
      BY <1>2, <2>1, <2>3, <3>1, <3>2, <3>3, WhatIsStored DEF InStep, Holds
    <3>5. d \notin unkept' /\ (\A j \in Syncs : embedding'[j].put # d) => embeddings'[d][space'] = vectors'[d]
      <4>1. embedding[i].put = 0
        BY WhatIsStored DEF Embedded, Keeping, Tidy
      <4>2. \A j \in Syncs : embedding'[j].put # d => embedding[j].put # d
        BY <2>1, <3>1, <4>1, WhatIsStored
      <4> QED
        BY <1>2, <2>1, <4>2 DEF InStep
    <3> QED
      BY <3>1, <3>4, <3>5 DEF InStep
  <2> QED
    BY <2>2, <2>3
<1> QED
  BY <1>2, <1>6, <1>7, <1>8, WhatIsStored, VectorStep DEF Keeping, StoreIsTrue

(* The vector a sync puts bears the digest of the text it was made from. *)
LEMMA VectorIsTrue ==
  ASSUME RetrievalInv, NEW i \in Syncs, NEW d \in Docs
  PROVE  VectorOf(i, d) \in VectorRows /\ IsVectorOf(VectorOf(i, d), space)
         /\ VectorOf(i, d).text = embedding[i].of[d] /\ VectorOf(i, d).model = space
BY WhatIsStored DEF VectorOf, VectorRows, Tasks, IsVectorOf

(* A vector is put. *)
LEMMA PutStep == ASSUME NEW i \in Syncs, NEW d \in Docs, RetrievalInv, Put(i, d) PROVE RetrievalInv'
<1>1. /\ embedding' = [embedding EXCEPT ![i].put = d] /\ vectors' = [vectors EXCEPT ![d] = VectorOf(i, d)]
      /\ embedding[i].at = "putting" /\ embedding[i].put = 0 /\ Holds(i, d)
      /\ UNCHANGED <<corpus, embeddings, space, query, exposed, lapsed, unkept>>
  BY DEF Put, keeping, Holds
<1> DEFINE task == [embedding[i] EXCEPT !.put = d]
<1>2. task \in Tasks /\ task.put = d /\ task.of = embedding[i].of /\ task.at = "putting"
  BY <1>1, WhatIsStored DEF Tasks
<1>3. embedding' = [embedding EXCEPT ![i] = task]
  BY <1>1
<1> HIDE DEF task
<1>4. embedding' \in [Syncs -> Tasks] /\ \A j \in Syncs : Tidy(j)'
  BY <1>2, <1>3, WhatIsStored DEF Keeping, Tidy
<1>5. vectors' \in [Docs -> VectorRows] /\ StoreIsTrue'
  BY <1>1, VectorIsTrue, WhatIsStored DEF StoreIsTrue
<1>6. /\ \A j \in Syncs : embedding'[j].of = embedding[j].of
      /\ \A j \in Syncs \ {i} : embedding'[j] = embedding[j]
      /\ embedding'[i].put = d
  BY <1>2, <1>3, WhatIsStored
<1>7. ASSUME NEW e \in Docs PROVE InStep(e)'
  <2>1. InStep(e) /\ e # 0
    BY WhatIsStored, IdleHoldsNothing DEF Keeping
  <2>2. CASE e # d
    <3>1. /\ \A j \in Syncs : /\ embedding'[j].of[e] = embedding[j].of[e]
                              /\ embedding'[j].put = e <=> embedding[j].put = e
          /\ vectors'[e] = vectors[e]
      BY <1>1, <1>6, <2>1, <2>2, WhatIsStored
    <3> QED
      BY <1>1, <2>1, <3>1, InStepOf
  <2>3. CASE e = d
    <3>1. \A j \in Syncs : /\ Holds(j, d)' <=> Holds(j, d)
                           /\ VectorOf(j, d)' = VectorOf(j, d)
      BY <1>1, <1>6 DEF Holds, VectorOf
    <3>2. (d \in Held)' /\ vectors'[d] = VectorOf(i, d)
      BY <1>1, <3>1, WhatIsStored DEF Held
    <3>3. \A j \in Syncs : embedding'[j].put = d => Holds(j, d)'
      BY <1>1, <1>6, <2>1, <2>3, <3>1 DEF InStep
    <3>4. \A j \in Syncs : Holds(j, d)' /\ d \in lapsed' => d \in unkept'
      BY <1>1, <2>1, <2>3, <3>1 DEF InStep
    <3>5. \A j \in Syncs : Holds(j, d)' /\ d \notin lapsed' =>
            /\ j = i /\ \A k \in Syncs : Holds(k, d)' => k = i
            /\ corpus'[d].text \in {0, embedding'[j].of[d]}
      BY <1>1, <1>6, <2>1, <2>3, <3>1 DEF InStep
    <3> QED
      BY <1>6, <2>3, <3>1, <3>2, <3>3, <3>4, <3>5 DEF InStep
  <2> QED
    BY <2>2, <2>3
<1> QED
  BY <1>1, <1>4, <1>5, <1>7, WhatIsStored, VectorStep DEF Keeping

(* Its row follows, or the batch is given up. *)
LEMMA PreserveStep == ASSUME NEW i \in Syncs, RetrievalInv, Preserve(i) PROVE RetrievalInv'
<1>12. PICK d \in Docs : embedding[i].put = d
  BY WhatIsStored DEF Preserve, Tasks
<1>2. d \in Docs
  OBVIOUS
<1> DEFINE rest == [embedding[i] EXCEPT !.of[d] = 0, !.put = 0]
<1>1. /\ \/ /\ embeddings' = [embeddings EXCEPT ![d][space] = VectorOf(i, d)]
            /\ embedding' = [embedding EXCEPT ![i] = IF \E e \in Docs : rest.of[e] # 0 THEN rest ELSE Idle]
            /\ unkept' = (IF d \in lapsed THEN unkept ELSE unkept \ {d}) /\ lapsed' = lapsed
         \/ /\ embedding' = [embedding EXCEPT ![i] = Idle] /\ embeddings' = embeddings
            /\ unkept' = unkept \union {d} /\ lapsed' = lapsed \union {e \in Docs : rest.of[e] # 0}
      /\ UNCHANGED <<corpus, vectors, space, query, exposed>>
  BY <1>12 DEF Preserve
<1>3. /\ rest \in Tasks /\ rest.put = 0 /\ rest.of[d] = 0 /\ rest.at = embedding[i].at
      /\ \A e \in Docs \ {d} : rest.of[e] = embedding[i].of[e]
  <2> DEFINE t == embedding[i]
  <2>1. t \in Tasks
    BY WhatIsStored
  <2>2. rest = [t EXCEPT !.of[d] = 0, !.put = 0]
    OBVIOUS
  <2> HIDE DEF t, rest
  <2>3. rest = [at |-> t.at, of |-> [t.of EXCEPT ![d] = 0], put |-> 0]
    BY <2>1, <2>2 DEF Tasks
  <2> QED
    BY <2>1, <2>2, <2>3 DEF Tasks, t
<1>4. embedding[i].at # "idle" /\ Holds(i, d)
  BY <1>12, WhatIsStored, IdleHoldsNothing DEF Keeping, Tidy, InStep
<1> HIDE DEF rest
<1>5. \/ embedding' = [embedding EXCEPT ![i] = rest] /\ lapsed' = lapsed
      \/ /\ embedding' = [embedding EXCEPT ![i] = Idle]
         /\ \A e \in Docs : rest.of[e] # 0 => e \in lapsed'
         /\ \A e \in Docs : rest.of[e] = 0 => (e \in lapsed' <=> e \in lapsed)
  BY <1>1
<1>6. embedding' \in [Syncs -> Tasks]
  BY <1>3, <1>5, WhatIsStored, IdleHoldsNothing
<1>7. \A j \in Syncs : Tidy(j)'
  <2>1. Idle.at = "idle" /\ rest.at # "idle" /\ rest.put = 0
    BY <1>3, <1>4, IdleHoldsNothing
  <2> QED
    BY <1>5, <2>1, WhatIsStored, IdleHoldsNothing DEF Keeping, Tidy
<1>8. embeddings' \in [Docs -> [Models -> VectorRows]] /\ StoreIsTrue'
  <2> DEFINE v == VectorOf(i, d)
  <2>1. v \in VectorRows /\ IsVectorOf(v, space)
    BY <1>2, VectorIsTrue
  <2>2. embeddings' = embeddings \/ embeddings' = [embeddings EXCEPT ![d][space] = v]
    BY <1>1
  <2> HIDE DEF v
  <2>3. embeddings' \in [Docs -> [Models -> VectorRows]]
    <3>1. embeddings \in [Docs -> [Models -> VectorRows]] /\ space \in Models /\ v \in VectorRows
      BY <2>1, WhatIsStored
    <3> QED
      BY <1>2, <2>2, <3>1
  <2>4. \A e \in Docs, m \in Models : IsVectorOf(embeddings'[e][m], m)
    <3> SUFFICES ASSUME NEW e \in Docs, NEW m \in Models PROVE IsVectorOf(embeddings'[e][m], m)
      OBVIOUS
    <3>1. IsVectorOf(embeddings[e][m], m)
      BY WhatIsStored DEF StoreIsTrue
    <3>2. \/ embeddings'[e][m] = embeddings[e][m]
          \/ m = space /\ embeddings'[e][m] = v
      BY <1>2, <2>2, WhatIsStored
    <3> QED
      BY <2>1, <3>1, <3>2
  <2>5. vectors' = vectors /\ space' = space
    BY <1>1
  <2> QED
    BY <2>3, <2>4, <2>5, WhatIsStored DEF StoreIsTrue
<1>9. lapsed' \subseteq Docs /\ unkept' \subseteq Docs
  BY <1>1, <1>2, WhatIsStored
<1>10. /\ \A j \in Syncs \ {i} : embedding'[j] = embedding[j]
       /\ embedding'[i].put = 0 /\ embedding'[i].of[d] = 0
  BY <1>2, <1>3, <1>5, WhatIsStored, IdleHoldsNothing
<1>11. \A e \in Docs \ {d} : embeddings'[e] = embeddings[e] /\ (e \in unkept' <=> e \in unkept)
  BY <1>1, WhatIsStored
<1>13. ASSUME NEW e \in Docs PROVE InStep(e)'
  <2>1. InStep(e) /\ e # 0
    BY WhatIsStored, IdleHoldsNothing DEF Keeping
  <2>2. CASE e # d
    <3>1. \A j \in Syncs : embedding'[j].put = e <=> embedding[j].put = e
      BY <1>10, <1>12, <2>1, <2>2
    <3>2. CASE embedding'[i].of[e] = embedding[i].of[e] /\ (e \in lapsed' <=> e \in lapsed)
      <4>1. \A j \in Syncs : embedding'[j].of[e] = embedding[j].of[e]
        BY <1>10, <3>2
      <4>2. /\ embeddings'[e][space] = embeddings[e][space] /\ (e \in unkept' <=> e \in unkept)
            /\ corpus' = corpus /\ vectors' = vectors /\ space' = space
        BY <1>1, <1>11, <2>2
      <4> QED
        BY <2>1, <3>1, <3>2, <4>1, <4>2, InStepOf
    <3>3. CASE Holds(i, e) /\ e \in lapsed' /\ embedding'[i].of[e] = 0
      <4>1. \A j \in Syncs : Holds(j, e)' => Holds(j, e) /\ j # i
        BY <1>10, <3>3 DEF Holds
      <4>2. \A j \in Syncs : embedding'[j].put = e => embedding[j].put = e /\ j # i
        BY <1>10, <2>1, <3>1
      <4>3. \A j \in Syncs : /\ embedding'[j].put = e => Holds(j, e)'
                             /\ Holds(j, e)' => e \in unkept'
        BY <1>10, <1>11, <2>1, <2>2, <3>3, <4>1, <4>2 DEF InStep, Holds
      <4>4. e \notin unkept' /\ (\A j \in Syncs : embedding'[j].put # e) => embeddings'[e][space'] = vectors'[e]
        BY <1>1, <1>11, <2>1, <2>2, <3>1 DEF InStep
      <4> QED
        BY <3>3, <4>3, <4>4 DEF InStep
    <3>4. \/ embedding'[i].of[e] = embedding[i].of[e] /\ (e \in lapsed' <=> e \in lapsed)
          \/ Holds(i, e) /\ e \in lapsed' /\ embedding'[i].of[e] = 0
      <4>1. rest.of[e] = embedding[i].of[e]
        BY <1>3, <2>2
      <4>2. embedding'[i] \in {rest, Idle}
        BY <1>5, WhatIsStored
      <4>3. CASE embedding'[i] = rest /\ lapsed' = lapsed
        BY <4>1, <4>3
      <4>4. CASE embedding'[i] = Idle /\ (rest.of[e] # 0 => e \in lapsed')
                 /\ (rest.of[e] = 0 => (e \in lapsed' <=> e \in lapsed))
        BY <4>1, <4>4, IdleHoldsNothing DEF Holds
      <4> QED
        BY <1>5, <4>3, <4>4, WhatIsStored
    <3> QED
      BY <3>2, <3>3, <3>4
  <2>3. CASE e = d
    <3>1. ~Holds(i, d)' /\ \A j \in Syncs \ {i} : (Holds(j, d)' <=> Holds(j, d))
      BY <1>10 DEF Holds
    <3>2. \A j \in Syncs : embedding'[j].put = d => Holds(j, d)'
      BY <1>2, <1>10, <2>1, <2>3, <3>1 DEF InStep
    <3>3. d \in lapsed' <=> d \in lapsed
      BY <1>1, <1>3
    <3>4. CASE d \in lapsed
      <4>1. d \in unkept /\ d \in unkept'
        BY <1>1, <1>4, <2>1, <2>3, <3>4 DEF InStep
      <4> QED
        BY <2>3, <3>2, <3>3, <3>4, <4>1 DEF InStep
    <3>5. CASE d \notin lapsed
      <4>1. /\ \A j \in Syncs : Holds(j, d) => j = i
            /\ corpus[d].text \in {0, embedding[i].of[d]} /\ vectors[d] = VectorOf(i, d)
        BY <1>4, <1>12, <2>1, <2>3, <3>5 DEF InStep
      <4>2. \A j \in Syncs : ~Holds(j, d)'
        BY <3>1, <4>1
      <4>3. d \notin unkept' => embeddings'[d][space'] = vectors'[d]
        BY <1>1, <1>2, <4>1, WhatIsStored
      <4>4. corpus'[d].text # 0 => vectors'[d].text = corpus'[d].text /\ vectors'[d].model = space'
        BY <1>1, <1>2, <4>1, VectorIsTrue
      <4> QED
        BY <2>3, <3>2, <3>3, <3>5, <4>2, <4>3, <4>4 DEF InStep
    <3> QED
      BY <3>4, <3>5
  <2> QED
    BY <2>2, <2>3
<1> QED
  BY <1>1, <1>6, <1>7, <1>8, <1>9, <1>13, WhatIsStored, VectorStep DEF Keeping

(* A search that has not begun. *)
LEMMA QuietHolds ==
  Quiet \in Searches /\ Quiet.at = "idle" /\ Quiet.semantic = FALSE /\ Len(Quiet.lexical) = 0
BY DEF Quiet, Searches

(* A search that is over leaves nothing behind. *)
LEMMA ResetStep ==
  ASSUME RetrievalInv, query' = Quiet, exposed' = {}, RetrievalTypes', StoreTypes', StoreIsTrue', Keeping'
  PROVE  RetrievalInv'
<1>1. Len(Quiet.lexical) <= Half
  BY QuietHolds, HalfIsTwenty
<1>2. SeenWhileSearching'
  BY <1>1, QuietHolds DEF SeenWhileSearching
<1>3. (NothingUnreadable /\ MeaningOutweighsWords)'
  BY QuietHolds DEF NothingUnreadable, MeaningOutweighsWords
<1> QED
  BY <1>2, <1>3 DEF RetrievalInv

(* A restart loads the rows of one model. *)
LEMMA RebootStep == ASSUME NEW m \in Models, RetrievalInv, Reboot(m) PROVE RetrievalInv'
<1>1. /\ space' = m /\ embeddings' = Purged(m) /\ vectors' = LoadInto(m) /\ unkept' = {}
      /\ embedding' = [i \in Syncs |-> Idle] /\ query' = Quiet /\ exposed' = {} /\ corpus' = corpus
      /\ lapsed' = IF m = space THEN lapsed \union Held \union unkept ELSE Docs
  BY DEF Reboot
<1>2. NoVector \in VectorRows /\ NoVector.digest = NoVector.text /\ NoVector.text = 0
  BY DEF NoVector, VectorRows
<1>3. LoadInto(m) \in [Docs -> VectorRows] /\ Purged(m) \in [Docs -> [Models -> VectorRows]]
  BY <1>2, WhatIsStored DEF LoadInto, Purged
<1>4. \A d \in Docs : LoadInto(m)[d] = embeddings[d][m] /\ Purged(m)[d][m] = embeddings[d][m]
  BY DEF LoadInto, Purged
<1>5. \A d \in Docs, n \in Models : Purged(m)[d][n] \in {embeddings[d][n], NoVector}
  BY DEF Purged
<1>6. RetrievalTypes'
  <2>1. lapsed' \subseteq Docs /\ unkept' \subseteq Docs
    BY <1>1, WhatIsStored DEF Held
  <2>2. query'.at \in {"idle", "embedding", "done"} /\ query'.semantic \in BOOLEAN
    BY <1>1, QuietHolds
  <2> QED
    BY <1>1, <1>3, <2>1, <2>2, IdleHoldsNothing, WhatIsStored DEF RetrievalTypes, VectorRows
<1>7. StoreTypes'
  BY <1>1, <1>3 DEF StoreTypes
<1>8. StoreIsTrue'
  <2> SUFFICES ASSUME NEW d \in Docs
               PROVE  /\ IsVectorOf(vectors'[d], space')
                      /\ \A n \in Models : IsVectorOf(embeddings'[d][n], n)
    BY DEF StoreIsTrue
  <2>1. \A n \in Models : IsVectorOf(embeddings[d][n], n) /\ IsVectorOf(NoVector, n)
    BY <1>2, WhatIsStored DEF StoreIsTrue, IsVectorOf
  <2> QED
    BY <1>1, <1>4, <1>5, <2>1
<1>9. ASSUME NEW d \in Docs PROVE InStep(d)'
  <2>1. InStep(d) /\ d # 0
    BY WhatIsStored, IdleHoldsNothing DEF Keeping
  <2>2. \A i \in Syncs : ~Holds(i, d)' /\ embedding'[i].put # d
    BY <1>1, <2>1, IdleHoldsNothing DEF Holds
  <2>3. embeddings'[d][space'] = vectors'[d]
    BY <1>1, <1>4
  <2>4. corpus'[d].text # 0 /\ d \notin lapsed' => vectors'[d].text = corpus'[d].text /\ vectors'[d].model = space'
    <3> SUFFICES ASSUME corpus'[d].text # 0, d \notin lapsed'
                 PROVE  vectors'[d].text = corpus'[d].text /\ vectors'[d].model = space'
      OBVIOUS
    <3>1. m = space /\ d \notin lapsed /\ d \notin Held /\ d \notin unkept
      BY <1>1
    <3>2. \A i \in Syncs : embedding[i].put # d
      BY <2>1, <3>1 DEF InStep, Held
    <3> QED
      BY <1>1, <1>4, <2>1, <3>1, <3>2 DEF InStep
  <2> QED
    BY <2>2, <2>3, <2>4 DEF InStep
<1>10. Keeping'
  BY <1>1, <1>9, IdleHoldsNothing DEF Keeping, Tidy
<1> QED
  BY <1>1, <1>6, <1>7, <1>8, <1>10, ResetStep

(* The answer is given. *)
LEMMA HandStep == RetrievalInv /\ Hand => RetrievalInv'
<1> SUFFICES ASSUME RetrievalInv, Hand PROVE RetrievalInv'
  OBVIOUS
<1>1. query' = Quiet /\ exposed' = {} /\ UNCHANGED <<corpus, vectors, embeddings, embedding, space, keeping>>
  BY DEF Hand
<1>2. RetrievalTypes'
  BY <1>1, QuietHolds DEF RetrievalInv, RetrievalTypes, keeping
<1>3. (StoreTypes /\ StoreIsTrue)'
  BY <1>1 DEF RetrievalInv, StoreTypes, StoreIsTrue
<1>4. Keeping'
  BY <1>1, KeptAlone DEF RetrievalInv
<1> QED
  BY <1>1, <1>2, <1>3, <1>4, ResetStep

(* A half's ranking is as long as it may be, and holds matches only. *)
LEMMA RankingsAreCut ==
  ASSUME NEW matches, IsFiniteSet(matches), NEW found \in Rankings(matches)
  PROVE  found \in Seq(matches) /\ Len(found) <= Half
<1> DEFINE k == IF Cardinality(matches) < Half THEN Cardinality(matches) ELSE Half
<1>1. k \in Nat /\ k <= Half
  BY FS_CardinalityType, HalfIsTwenty
<1>2. found \in [1..k -> matches]
  BY DEF Rankings, Injection
<1> HIDE DEF k
<1> QED
  BY <1>1, <1>2

(* What changes the search alone. *)
LEMMA SearchStep ==
  ASSUME RetrievalInv, UNCHANGED <<corpus, vectors, embeddings, embedding, space, keeping>>,
         SeenWhileSearching', (NothingUnreadable /\ MeaningOutweighsWords)'
  PROVE  RetrievalInv'
<1>1. RetrievalTypes'
  BY DEF RetrievalInv, RetrievalTypes, SeenWhileSearching, Searches, keeping
<1>2. (StoreTypes /\ StoreIsTrue)'
  BY DEF RetrievalInv, StoreTypes, StoreIsTrue
<1>3. Keeping'
  BY KeptAlone DEF RetrievalInv
<1> QED
  BY <1>1, <1>2, <1>3 DEF RetrievalInv

(* What may be read, and what of it matches, is finite. *)
LEMMA PagesAreFinite ==
  ASSUME RetrievalInv
  PROVE  /\ Pages(corpus) \subseteq Docs \X Wordings
         /\ IsFiniteSet({p \in Pages(corpus) : p[2] \in Wordy})
         /\ IsFiniteSet({d \in Legible(corpus) : vectors[d].text \in Near})
<1>1. IsFiniteSet(Legible(corpus))
  BY RetrievalAssumption, FS_Subset DEF Legible
<1> DEFINE page == [d \in Legible(corpus) |-> <<d, corpus[d].text>>]
<1>2. page \in Surjection(Legible(corpus), Pages(corpus))
  <2>1. page \in [Legible(corpus) -> Pages(corpus)]
    BY DEF Pages
  <2>2. \A p \in Pages(corpus) : \E d \in Legible(corpus) : page[d] = p
    BY DEF Pages
  <2> QED
    BY <2>1, <2>2 DEF Surjection
<1>3. IsFiniteSet(Pages(corpus))
  BY <1>1, <1>2, FS_Surjection
<1>4. Pages(corpus) \subseteq Docs \X Wordings
  BY PagesAreDocs DEF RetrievalInv, RetrievalTypes
<1> QED
  BY <1>1, <1>3, <1>4, FS_Subset

(* The lexical half finds what may be read. *)
LEMMA SeekStep == RetrievalInv /\ Seek => RetrievalInv'
<1> SUFFICES ASSUME RetrievalInv, Seek PROVE RetrievalInv'
  OBVIOUS
<1>1. PICK found \in Lexical :
        \/ query' = [Quiet EXCEPT !.at = "embedding", !.lexical = found]
        \/ query' = [Quiet EXCEPT !.at = "done", !.lexical = found, !.hits = First(found)]
  BY DEF Seek
<1>2. exposed' = Pages(corpus) /\ UNCHANGED <<corpus, vectors, embeddings, embedding, space, keeping>>
  BY DEF Seek
<1>3. found \in Seq({p \in Pages(corpus) : p[2] \in Wordy}) /\ Len(found) <= Half
  BY PagesAreFinite, RankingsAreCut DEF Lexical
<1>4. found \in Seq(Pages(corpus)) /\ Pages(corpus) \subseteq Docs \X Wordings
  BY <1>3, PagesAreFinite
<1>5. found \in Seq(Docs \X Wordings)
  BY <1>4
<1>6. First(found) \in Seq(Docs \X Wordings) /\ First(found) \in Seq(Pages(corpus))
  BY <1>4, <1>5, FirstOfAll
<1>7. \/ query' = [at |-> "embedding", lexical |-> found, close |-> <<>>, hits |-> <<>>, semantic |-> FALSE]
      \/ query' = [at |-> "done", lexical |-> found, close |-> <<>>, hits |-> First(found), semantic |-> FALSE]
  BY <1>1 DEF Quiet
<1>8. query' \in Searches /\ query'.lexical = found /\ ~query'.semantic
  <2>1. <<>> \in Seq(Docs) /\ <<>> \in Seq(Docs \X Wordings)
    OBVIOUS
  <2>2. query' \in Searches
    <3>1. [at |-> "embedding", lexical |-> found, close |-> <<>>, hits |-> <<>>, semantic |-> FALSE] \in Searches
      BY <1>5, <2>1 DEF Searches
    <3>2. [at |-> "done", lexical |-> found, close |-> <<>>, hits |-> First(found), semantic |-> FALSE] \in Searches
      BY <1>5, <1>6, <2>1 DEF Searches
    <3> QED
      BY <1>7, <3>1, <3>2
  <2>3. query'.lexical = found /\ query'.semantic = FALSE
    BY <1>7
  <2> QED
    BY <2>2, <2>3
<1>9. Range(found) \subseteq Pages(corpus) /\ Range(First(found)) \subseteq Pages(corpus)
  BY <1>4, <1>6 DEF Range
<1>10. Pages(corpus)' = Pages(corpus)
  BY <1>2 DEF Pages, Legible
<1>11. SeenWhileSearching'
  BY <1>2, <1>3, <1>4, <1>8, <1>9, <1>10 DEF SeenWhileSearching
<1>12. query'.at = "done" => query'.hits = First(found)
  BY <1>7
<1>13. (NothingUnreadable /\ MeaningOutweighsWords)'
  BY <1>2, <1>8, <1>9, <1>12 DEF NothingUnreadable, MeaningOutweighsWords
<1> QED
  BY <1>2, <1>11, <1>13, SearchStep

(* The answer is the lexical half alone, or the fusion of both. *)
LEMMA CombineStep == RetrievalInv /\ Combine => RetrievalInv'
<1> SUFFICES ASSUME RetrievalInv, Combine PROVE RetrievalInv'
  OBVIOUS
<1>1. UNCHANGED <<corpus, vectors, embeddings, embedding, space, exposed, keeping>>
  BY DEF Combine
<1>2. /\ query \in Searches /\ Len(query.lexical) <= Half /\ exposed \subseteq Docs \X Wordings
      /\ Range(query.lexical) \subseteq exposed /\ Pages(corpus) \subseteq exposed /\ ~query.semantic
  BY DEF RetrievalInv, SeenWhileSearching, Combine
<1>3. query.lexical \in Seq(Docs \X Wordings)
  BY <1>2 DEF Searches
<1>4. CASE query' = [query EXCEPT !.at = "done", !.hits = First(query.lexical)]
  <2> DEFINE found == query.lexical
  <2>1. First(found) \in Seq(Docs \X Wordings)
    BY <1>3, FirstOfAll
  <2>2. query' = [at |-> "done", lexical |-> found, close |-> query.close, hits |-> First(found),
                  semantic |-> query.semantic]
    BY <1>2, <1>4 DEF Searches
  <2>3. query.close \in Seq(Docs) /\ query.semantic \in BOOLEAN
    BY <1>2 DEF Searches
  <2>4. Range(First(found)) \subseteq exposed
    <3>1. \A n \in DOMAIN First(found) : n \in DOMAIN found /\ First(found)[n] = found[n]
      BY <1>3, FirstOfAll
    <3> QED
      BY <1>2, <3>1 DEF Range
  <2> HIDE DEF found
  <2>5. query' \in Searches
    BY <1>3, <2>1, <2>2, <2>3 DEF Searches, found
  <2>6. query'.lexical = found /\ query'.hits = First(found) /\ query'.at = "done" /\ ~query'.semantic
    BY <1>2, <2>2
  <2>7. SeenWhileSearching'
    BY <1>1, <1>2, <2>5, <2>6 DEF SeenWhileSearching, found
  <2>8. (NothingUnreadable /\ MeaningOutweighsWords)'
    BY <1>1, <2>4, <2>6 DEF NothingUnreadable, MeaningOutweighsWords
  <2> QED
    BY <1>1, <2>7, <2>8, SearchStep
<1>5. ASSUME NEW close \in Neighbours,
             query' = [query EXCEPT !.at = "done", !.semantic = TRUE, !.close = close,
                                    !.hits = Rendered(Fused(Ids(query.lexical), close), query.lexical)]
      PROVE  RetrievalInv'
  <2> DEFINE words == Ids(query.lexical)
             order == Fused(words, close)
             hits  == Rendered(order, query.lexical)
             meant == Range(close) \ Range(words)
             said  == Range(words) \ Range(close)
  <2>1. words \in Seq(Docs) /\ Len(words) <= Half
    BY <1>2, <1>3 DEF Ids
  <2>2. close \in Seq(Docs) /\ Len(close) <= Half
    <3>1. close \in Seq({d \in Legible(corpus) : vectors[d].text \in Near}) /\ Len(close) <= Half
      BY PagesAreFinite, RankingsAreCut DEF Neighbours
    <3>2. {d \in Legible(corpus) : vectors[d].text \in Near} \subseteq Docs
      BY DEF Legible
    <3> QED
      BY <3>1, <3>2
  <2>3. /\ order \in Seq(Docs)
        /\ \A r, q \in DOMAIN order : order[r] \in meant /\ order[q] \in said => r < q
    <3> HIDE DEF words
    <3> QED
      BY <2>1, <2>2, FusedInOrder
  <2> HIDE DEF order
  <2>4. /\ hits \in Seq(Range(query.lexical) \cup Pages(corpus))
        /\ \E place \in [DOMAIN hits -> DOMAIN order] :
             /\ \A n \in DOMAIN hits : hits[n][1] = order[place[n]]
             /\ \A m, n \in DOMAIN hits : place[m] < place[n] => m < n
    BY <1>3, <2>3, RenderedInOrder
  <2> HIDE DEF hits
  <2>5. hits \in Seq(exposed) /\ hits \in Seq(Docs \X Wordings)
    BY <1>2, <2>4
  <2>6. \A r, q \in DOMAIN hits : hits[r][1] \in meant /\ hits[q][1] \in said => r < q
    <3> HIDE DEF meant, said
    <3> QED
      BY <2>3, <2>4
  <2>7. query' = [at |-> "done", lexical |-> query.lexical, close |-> close, hits |-> hits, semantic |-> TRUE]
    BY <1>2, <1>5 DEF Searches, hits, order
  <2>8. query' \in Searches
    BY <1>3, <2>2, <2>5, <2>7 DEF Searches
  <2>9. /\ query'.lexical = query.lexical /\ query'.hits = hits /\ query'.at = "done"
        /\ query'.semantic /\ query'.close = close
    BY <2>7
  <2>10. SeenWhileSearching'
    BY <1>1, <1>2, <2>8, <2>9 DEF SeenWhileSearching
  <2>11. NothingUnreadable'
    BY <1>1, <2>5, <2>9 DEF NothingUnreadable, Range
  <2>12. MeaningOutweighsWords'
    <3>1. Ids(query.lexical)' = words
      BY <2>9 DEF Ids
    <3>2. (Range(query.close) \ Range(Ids(query.lexical)))' = meant
          /\ (Range(Ids(query.lexical)) \ Range(query.close))' = said
      BY <2>9, <3>1 DEF Range
    <3> HIDE DEF meant, said, words
    <3>3. \A r, q \in DOMAIN query'.hits :
            query'.hits[r][1] \in meant /\ query'.hits[q][1] \in said => r < q
      BY <2>6, <2>9
    <3> QED
      BY <3>2, <3>3 DEF MeaningOutweighsWords, Places
  <2> QED
    BY <1>1, <2>10, <2>11, <2>12, SearchStep
<1> QED
  BY <1>4, <1>5 DEF Combine

(* A search and the vectors behind it are honest in every reachable state, *)
(* for any documents, wordings, models and limit.                          *)
THEOREM RetrievalInductive == RetrievalSpec => []RetrievalInv
<1>1. RetrievalInit => RetrievalInv
  <2> SUFFICES ASSUME RetrievalInit PROVE RetrievalInv
    OBVIOUS
  <2>1. space \in Models
    BY RetrievalAssumption DEF RetrievalInit
  <2>2. /\ Absentee \in [text : Wordings \union {0}, open : BOOLEAN] /\ Absentee.text = 0
        /\ NoVector \in VectorRows /\ NoVector.digest = NoVector.text /\ NoVector.text = 0
        /\ Idle \in Tasks /\ Idle.put = 0 /\ \A d \in Docs : Idle.of[d] = 0 /\ d # 0
    BY RetrievalAssumption DEF Absentee, NoVector, VectorRows, Idle, Tasks
  <2>3. RetrievalTypes
    BY <2>2, QuietHolds DEF RetrievalInit, RetrievalTypes, VectorRows
  <2>4. StoreTypes /\ StoreIsTrue
    BY <2>1, <2>2 DEF RetrievalInit, StoreTypes, StoreIsTrue, IsVectorOf
  <2>5. Keeping
    BY <2>1, <2>2 DEF RetrievalInit, Keeping, Tidy, InStep, Holds
  <2>6. SeenWhileSearching
    BY QuietHolds, HalfIsTwenty DEF RetrievalInit, SeenWhileSearching
  <2>7. NothingUnreadable /\ MeaningOutweighsWords
    BY QuietHolds DEF RetrievalInit, NothingUnreadable, MeaningOutweighsWords
  <2> QED
    BY <2>3, <2>4, <2>5, <2>6, <2>7 DEF RetrievalInv
<1>2. RetrievalInv /\ [RetrievalNext]_retrievalVars => RetrievalInv'
  <2> SUFFICES ASSUME RetrievalInv, UNCHANGED retrievalVars PROVE RetrievalInv'
    BY TakeStep, EmbeddedStep, PreserveStep, PutStep, PermitStep, RebootStep, SeekStep, CombineStep,
       HandStep DEF RetrievalNext
  <2>1. UNCHANGED <<corpus, space, query, exposed, embedding, vectors, embeddings, keeping>>
    BY DEF retrievalVars
  <2>2. SeenWhileSearching'
    BY <2>1 DEF RetrievalInv, SeenWhileSearching, Pages, Legible
  <2>3. (NothingUnreadable /\ MeaningOutweighsWords)'
    BY <2>1 DEF RetrievalInv, NothingUnreadable, MeaningOutweighsWords, Places
  <2> QED
    BY <2>1, <2>2, <2>3, SearchStep
<1> QED
  BY <1>1, <1>2, PTL DEF RetrievalSpec

(* Every variable of Retrieval keeps its type. *)
THEOREM RetrievalTypesHold == RetrievalSpec => []RetrievalTypes
BY RetrievalInductive, PTL DEF RetrievalInv

(* A search shows nothing its reader could not read while it ran and puts  *)
(* what the meaning alone found before what the words alone found; and the *)
(* vectors it compares are of the texts indexed, unless a document lapsed  *)
(* (knowledge/semantic.py, index.py).                                      *)
THEOREM SearchIsHonestHolds == RetrievalSpec => []SearchIsHonest
<1>1. RetrievalInv => SearchIsHonest
  BY DEF RetrievalInv, Keeping, InStep, SearchIsHonest, VectorsKeepStep
<1> QED
  BY <1>1, RetrievalInductive, PTL

-----------------------------------------------------------------------------
(* Desk *)

(* What an item may be. *)
LEMMA ItemsAre ==
  ASSUME NEW items \in Seq(QueueItems)
  PROVE  \A i \in DOMAIN items :
           /\ items[i] \in QueueItems /\ i \in Nat
           /\ items[i].band \in {Blocking, Critical, Assigned, Awaiting}
           /\ items[i].band \in Nat /\ items[i].priority \in Nat
           /\ items[i].sources \subseteq {"approvals", "tasks", "incidents", "mail"}
<1>1. ASSUME NEW e \in QueueItems
      PROVE  /\ e.band \in {Blocking, Critical, Assigned, Awaiting}
             /\ e.band \in Nat /\ e.priority \in Nat
             /\ e.sources \subseteq {"approvals", "tasks", "incidents", "mail"}
  BY DEF QueueItems, Priorities, Blocking, Critical, Assigned, Awaiting, Unprioritised
<1>2. \A i \in DOMAIN items : items[i] \in QueueItems /\ i \in Nat
  OBVIOUS
<1> QED
  BY <1>1, <1>2

(* Merging: the first item of each key stands for all of it. *)
Keyed(items) == {items[i].key : i \in DOMAIN items}

(* Each key has one first item. *)
LEMMA FirstsStand ==
  ASSUME NEW items \in Seq(QueueItems)
  PROVE  /\ Firsts(items) \in SUBSET (1..Len(items)) /\ Firsts(items) \in SUBSET Nat
         /\ IsFiniteSet(Firsts(items))
         /\ \A i, j \in Firsts(items) : items[i].key = items[j].key => i = j
         /\ \A i \in DOMAIN items : \E j \in Firsts(items) : items[j].key = items[i].key
         /\ Cardinality(Firsts(items)) = Cardinality(Keyed(items))
<1> DEFINE firsts == Firsts(items)
<1>1. Len(items) \in Nat /\ DOMAIN items = 1..Len(items)
  OBVIOUS
<1>2. firsts \in SUBSET (1..Len(items)) /\ firsts \in SUBSET Nat
  BY <1>1 DEF Firsts
<1>3. IsFiniteSet(firsts)
  <2> DEFINE k == Len(items)
  <2>1. k \in Nat /\ firsts \in SUBSET (1..k)
    BY <1>1, <1>2
  <2> HIDE DEF k, firsts
  <2>2. IsFiniteSet(1..k)
    BY <2>1, FS_Interval
  <2> QED
    BY <2>1, <2>2, FS_Subset
<1>4. ASSUME NEW i \in firsts, NEW j \in firsts, items[i].key = items[j].key PROVE i = j
  <2>1. i <= j /\ j <= i
    BY <1>1, <1>2, <1>4 DEF Firsts, Same
  <2> QED
    BY <1>2, <2>1
<1>5. ASSUME NEW i \in DOMAIN items PROVE \E j \in firsts : items[j].key = items[i].key
  <2>1. Same(items, i) \in SUBSET Nat /\ i \in Same(items, i)
    BY <1>1 DEF Same
  <2>2. PICK j \in Same(items, i) : \A k \in Same(items, i) : j <= k
    BY <2>1, LeastNat
  <2>3. j \in DOMAIN items /\ items[j].key = items[i].key
    BY <2>2 DEF Same
  <2>4. Same(items, j) = Same(items, i)
    BY <2>3 DEF Same
  <2> QED
    BY <2>2, <2>3, <2>4 DEF Firsts
<1>6. Cardinality(firsts) = Cardinality(Keyed(items))
  <2> DEFINE key == [i \in firsts |-> items[i].key]
  <2>1. key \in [firsts -> Keyed(items)]
    BY <1>1, <1>2 DEF Keyed
  <2>2. \A k \in Keyed(items) : \E i \in firsts : key[i] = k
    BY <1>5 DEF Keyed
  <2>3. \A i, j \in firsts : key[i] = key[j] => i = j
    BY <1>4
  <2> HIDE DEF key, firsts
  <2>4. key \in Surjection(firsts, Keyed(items)) /\ key \in Injection(firsts, Keyed(items))
    BY <2>1, <2>2, <2>3 DEF Surjection, Injection, IsInjective
  <2> QED
    BY <1>3, <2>4, FS_Surjection
<1> QED
  BY <1>2, <1>3, <1>4, <1>5, <1>6

(* The most urgent band of any item of a key. *)
Urgent(items, i) == Min({items[j].band : j \in Same(items, i)})

LEMMA UrgentIsLeast ==
  ASSUME NEW items \in Seq(QueueItems), NEW i \in DOMAIN items
  PROVE  /\ Urgent(items, i) \in {Blocking, Critical, Assigned, Awaiting}
         /\ \A j \in Same(items, i) : Urgent(items, i) <= items[j].band
<1> DEFINE bands == {items[j].band : j \in Same(items, i)}
<1>1. \A j \in DOMAIN items : items[j].band \in {Blocking, Critical, Assigned, Awaiting}
  BY ItemsAre
<1>2. bands \subseteq {Blocking, Critical, Assigned, Awaiting} /\ items[i].band \in bands
  BY <1>1 DEF Same
<1>3. bands \in SUBSET Int /\ bands # {} /\ \A x \in bands : 0 <= x
  <2>1. \A x \in {Blocking, Critical, Assigned, Awaiting} : x \in Int /\ 0 <= x
    BY DEF Blocking, Critical, Assigned, Awaiting
  <2> HIDE DEF bands
  <2> QED
    BY <1>2, <2>1
<1> HIDE DEF bands
<1>4. Min(bands) \in bands /\ \A y \in bands : Min(bands) <= y
  BY <1>3, LeastInt
<1>5. Urgent(items, i) = Min(bands)
  BY DEF Urgent, bands
<1> QED
  BY <1>2, <1>4, <1>5 DEF bands

(* The merged list has one item of each key, with the systems and the most *)
(* urgent band of all.                                                     *)
LEMMA MergedIsWhole ==
  ASSUME NEW items \in Seq(QueueItems)
  PROVE  LET merged == Deduplicated(items)
         IN  /\ merged \in Seq(QueueItems) /\ Len(merged) = Cardinality(Keyed(items))
             /\ \A m, n \in DOMAIN merged : merged[m].key = merged[n].key => m = n
             /\ \A i \in DOMAIN items : \E n \in DOMAIN merged : merged[n].key = items[i].key
             /\ \A i \in DOMAIN items, n \in DOMAIN merged : merged[n].key = items[i].key =>
                    /\ items[i].sources \subseteq merged[n].sources /\ merged[n].band <= items[i].band
                    /\ Same(items, i) = {i} =>
                         merged[n].band = items[i].band /\ merged[n].priority = items[i].priority
<1> DEFINE firsts == Sorted(Firsts(items), Rising(Firsts(items)))
           size == Cardinality(Firsts(items))
           merged == Deduplicated(items)
           Intact(i) == [items[i] EXCEPT !.sources = UNION {items[j].sources : j \in Same(items, i)},
                                        !.band = Urgent(items, i)]
<1>1. /\ Firsts(items) \in SUBSET (1..Len(items)) /\ Firsts(items) \in SUBSET Nat
      /\ IsFiniteSet(Firsts(items)) /\ DOMAIN items = 1..Len(items)
      /\ \A i, j \in Firsts(items) : items[i].key = items[j].key => i = j
      /\ \A i \in DOMAIN items : \E j \in Firsts(items) : items[j].key = items[i].key
      /\ size = Cardinality(Keyed(items))
  BY FirstsStand
<1>2. /\ size \in Nat /\ firsts \in [1..size -> Firsts(items)]
      /\ \A x \in Firsts(items) : \E n \in 1..size : firsts[n] = x
      /\ \A m, n \in 1..size : firsts[m] = firsts[n] => m = n
  BY <1>1, RisingIsOrder, SortedIsOrder
<1>3. merged = [n \in DOMAIN firsts |-> Intact(firsts[n])]
  BY DEF Deduplicated, Urgent
<1>4. ASSUME NEW i \in DOMAIN items
      PROVE  /\ Intact(i) \in QueueItems
             /\ Intact(i).key = items[i].key /\ Intact(i).band = Urgent(items, i)
             /\ Intact(i).priority = items[i].priority
             /\ \A j \in Same(items, i) : items[j].sources \subseteq Intact(i).sources
  <2> DEFINE S == UNION {items[j].sources : j \in Same(items, i)}
             b == Urgent(items, i)
             e == items[i]
  <2>1. b \in {Blocking, Critical, Assigned, Awaiting}
    BY UrgentIsLeast
  <2>2. e \in QueueItems
    OBVIOUS
  <2>3. S \subseteq {"approvals", "tasks", "incidents", "mail"}
    <3>1. \A j \in DOMAIN items : items[j].sources \subseteq {"approvals", "tasks", "incidents", "mail"}
      BY ItemsAre
    <3> QED
      BY <3>1 DEF Same
  <2>4. \A j \in Same(items, i) : items[j].sources \subseteq S
    OBVIOUS
  <2>5. Intact(i) = [e EXCEPT !.sources = S, !.band = b]
    OBVIOUS
  <2> HIDE DEF S, b, e, Intact
  <2>6. Intact(i) \in QueueItems
    BY <2>1, <2>2, <2>3, <2>5 DEF QueueItems
  <2>7. Intact(i).key = e.key /\ Intact(i).band = b /\ Intact(i).sources = S /\ Intact(i).priority = e.priority
    BY <2>2, <2>5 DEF QueueItems
  <2> QED
    BY <2>4, <2>6, <2>7 DEF e, b
<1> HIDE DEF firsts, merged, Intact, size
<1>5. merged \in Seq(QueueItems) /\ DOMAIN merged = 1..size /\ Len(merged) = size
  <2>1. \A n \in 1..size : Intact(firsts[n]) \in QueueItems
    BY <1>1, <1>2, <1>4
  <2>2. merged \in [1..size -> QueueItems]
    BY <1>2, <1>3, <2>1
  <2> QED
    BY <1>2, <2>2
<1>6. \A n \in 1..size : merged[n] = Intact(firsts[n]) /\ firsts[n] \in Firsts(items) /\ firsts[n] \in DOMAIN items
  BY <1>1, <1>2, <1>3
<1>7. \A m, n \in DOMAIN merged : merged[m].key = merged[n].key => m = n
  BY <1>1, <1>2, <1>4, <1>5, <1>6
<1>8. \A i \in DOMAIN items : \E n \in DOMAIN merged : merged[n].key = items[i].key
  BY <1>1, <1>2, <1>4, <1>5, <1>6
<1>9. ASSUME NEW i \in DOMAIN items, NEW n \in DOMAIN merged, merged[n].key = items[i].key
      PROVE  /\ items[i].sources \subseteq merged[n].sources /\ merged[n].band <= items[i].band
             /\ Same(items, i) = {i} =>
                  merged[n].band = items[i].band /\ merged[n].priority = items[i].priority
  <2>1. firsts[n] \in DOMAIN items /\ merged[n] = Intact(firsts[n])
    BY <1>5, <1>6
  <2>2. i \in Same(items, firsts[n])
    BY <1>4, <1>9, <2>1 DEF Same
  <2>3. ASSUME Same(items, i) = {i}
        PROVE  merged[n].band = items[i].band /\ merged[n].priority = items[i].priority
    <3>1. firsts[n] = i
      BY <1>4, <1>9, <2>1, <2>3 DEF Same
    <3>2. Urgent(items, i) = items[i].band
      <4> DEFINE b == items[i].band
      <4>1. {items[j].band : j \in Same(items, i)} = {b}
        BY <2>3
      <4>2. b \in Nat
        BY ItemsAre
      <4> HIDE DEF b
      <4>3. {b} \in SUBSET Int /\ {b} # {} /\ \A x \in {b} : 0 <= x
        BY <4>2
      <4>4. Min({b}) \in {b}
        <5> DEFINE B == {b}
        <5>1. B \in SUBSET Int /\ B # {} /\ 0 \in Int /\ \A x \in B : 0 <= x
          BY <4>3
        <5> HIDE DEF B
        <5>2. Min(B) \in B
          BY <5>1, LeastInt
        <5> QED
          BY <5>2 DEF B
      <4> QED
        BY <4>1, <4>4 DEF Urgent, b
    <3> QED
      BY <1>4, <2>1, <3>1, <3>2
  <2> QED
    BY <1>4, <2>1, <2>2, <2>3, UrgentIsLeast
<1> QED
  BY <1>1, <1>5, <1>7, <1>8, <1>9 DEF merged

(* The sort key, with the place in the list to break ties, is an order. *)
LEMMA TurnIsOrder ==
  ASSUME NEW items \in Seq(QueueItems)
  PROVE  IsOrderOf(InTurn(items), DOMAIN items)
<1>1. \A i \in DOMAIN items : items[i].band \in Nat /\ items[i].priority \in Nat /\ i \in Nat
  BY ItemsAre
<1>2. \A i, j : <<i, j>> \in InTurn(items) <=>
          /\ i \in DOMAIN items /\ j \in DOMAIN items
          /\ Before(items[i], items[j]) \/ (~Before(items[j], items[i]) /\ i < j)
  BY DEF InTurn
<1>3. \A i \in DOMAIN items : <<i, i>> \notin InTurn(items)
  BY <1>1, <1>2 DEF Before
<1>4. \A i, j \in DOMAIN items : i # j => <<i, j>> \in InTurn(items) \/ <<j, i>> \in InTurn(items)
  BY <1>1, <1>2 DEF Before
<1>5. ASSUME NEW i \in DOMAIN items, NEW j \in DOMAIN items, NEW k \in DOMAIN items,
             <<i, j>> \in InTurn(items), <<j, k>> \in InTurn(items)
      PROVE  <<i, k>> \in InTurn(items)
  <2>1. /\ Before(items[i], items[j]) \/ (~Before(items[j], items[i]) /\ i < j)
        /\ Before(items[j], items[k]) \/ (~Before(items[k], items[j]) /\ j < k)
    BY <1>2, <1>5
  <2> DEFINE b(x) == items[x].band
             p(x) == items[x].priority
  <2>2. /\ b(i) \in Nat /\ b(j) \in Nat /\ b(k) \in Nat
        /\ p(i) \in Nat /\ p(j) \in Nat /\ p(k) \in Nat
        /\ i \in Nat /\ j \in Nat /\ k \in Nat
    BY <1>1
  <2>3. \A x, y : Before(items[x], items[y]) <=> b(x) < b(y) \/ (b(x) = b(y) /\ p(x) < p(y))
    BY DEF Before
  <2> HIDE DEF b, p
  <2>4. Before(items[i], items[k]) \/ (~Before(items[k], items[i]) /\ i < k)
    BY <2>1, <2>2, <2>3
  <2> QED
    BY <1>2, <2>4
<1> QED
  BY <1>3, <1>4, <1>5 DEF IsOrderOf

(* The ranking has every item once, and none behind a less urgent one. *)
LEMMA RankedIsWhole ==
  ASSUME NEW items \in Seq(QueueItems)
  PROVE  LET ranked == Ranked(items)
         IN  /\ ranked \in Seq(QueueItems) /\ Len(ranked) = Len(items)
             /\ \E place \in [DOMAIN ranked -> DOMAIN items] :
                  /\ \A n \in DOMAIN ranked : ranked[n] = items[place[n]]
                  /\ \A m, n \in DOMAIN ranked : place[m] = place[n] => m = n
                  /\ \A i \in DOMAIN items : \E n \in DOMAIN ranked : place[n] = i
             /\ \A m, n \in DOMAIN ranked : m < n =>
                  ranked[m].band <= ranked[n].band /\ ~Before(ranked[n], ranked[m])
<1> DEFINE places == Sorted(DOMAIN items, InTurn(items))
           size == Cardinality(DOMAIN items)
           ranked == Ranked(items)
<1>1. Len(items) \in Nat /\ DOMAIN items = 1..Len(items)
  OBVIOUS
<1>2. IsFiniteSet(DOMAIN items) /\ size = Len(items)
  <2> DEFINE k == Len(items)
  <2>1. k \in Nat
    BY <1>1
  <2>2. DOMAIN items = 1..k
    BY <1>1
  <2> HIDE DEF k
  <2>3. IsFiniteSet(1..k) /\ Cardinality(1..k) = k
    BY <2>1, FS_Interval
  <2> QED
    BY <2>2, <2>3 DEF k
<1>3. /\ places \in [1..size -> DOMAIN items]
      /\ \A x \in DOMAIN items : \E n \in 1..size : places[n] = x
      /\ \A m, n \in 1..size : <<places[m], places[n]>> \in InTurn(items) <=> m < n
      /\ \A m, n \in 1..size : places[m] = places[n] => m = n
  BY <1>2, TurnIsOrder, SortedIsOrder
<1>4. ranked = [n \in DOMAIN places |-> items[places[n]]]
  BY DEF Ranked
<1> HIDE DEF places, ranked, size
<1>5. ranked \in [1..size -> QueueItems] /\ \A n \in 1..size : ranked[n] = items[places[n]]
  BY <1>3, <1>4
<1>6. ranked \in Seq(QueueItems) /\ Len(ranked) = Len(items) /\ DOMAIN ranked = 1..size
  BY <1>1, <1>2, <1>5
<1>7. ASSUME NEW m \in 1..size, NEW n \in 1..size, m < n
      PROVE  ranked[m].band <= ranked[n].band /\ ~Before(ranked[n], ranked[m])
  <2>1. <<places[m], places[n]>> \in InTurn(items) /\ places[m] \in DOMAIN items /\ places[n] \in DOMAIN items
    BY <1>3, <1>7
  <2>2. /\ ranked[m].band \in Nat /\ ranked[n].band \in Nat
        /\ ranked[m].priority \in Nat /\ ranked[n].priority \in Nat
    <3>1. ranked[m] \in QueueItems /\ ranked[n] \in QueueItems
      BY <1>5
    <3> QED
      BY <3>1 DEF QueueItems, Priorities, Unprioritised, Blocking, Critical, Assigned, Awaiting
  <2>3. Before(ranked[m], ranked[n]) \/ ~Before(ranked[n], ranked[m])
    BY <1>5, <2>1 DEF InTurn
  <2> QED
    BY <2>2, <2>3 DEF Before
<1>8. /\ places \in [DOMAIN ranked -> DOMAIN items]
      /\ \A n \in DOMAIN ranked : ranked[n] = items[places[n]]
      /\ \A m, n \in DOMAIN ranked : places[m] = places[n] => m = n
      /\ \A i \in DOMAIN items : \E n \in DOMAIN ranked : places[n] = i
  BY <1>3, <1>5, <1>6
<1> QED
  BY <1>6, <1>7, <1>8 DEF ranked

LEMMA TopOfAll ==
  ASSUME NEW S, NEW s \in Seq(S)
  PROVE  /\ Top(s) \in Seq(S) /\ Len(Top(s)) <= Len(s)
         /\ \A n \in DOMAIN Top(s) : n \in DOMAIN s /\ Top(s)[n] = s[n]
         /\ \A m \in DOMAIN Top(s), n \in DOMAIN s : n \notin DOMAIN Top(s) => m < n
<1> DEFINE k == Min({Shown, Len(s)})
<1>1. Len(s) \in Nat /\ Shown \in Nat
  BY DeskAssumption
<1>2. {Shown, Len(s)} \in SUBSET Int /\ {Shown, Len(s)} # {} /\ \A x \in {Shown, Len(s)} : 0 <= x
  BY <1>1
<1>3. k \in {Shown, Len(s)} /\ \A y \in {Shown, Len(s)} : k <= y
  <2> DEFINE T == {Shown, Len(s)}
  <2>1. T \in SUBSET Int /\ T # {} /\ \A x \in T : 0 <= x
    BY <1>2
  <2> HIDE DEF T
  <2>2. Min(T) \in T /\ \A y \in T : Min(T) <= y
    BY <2>1, 0 \in Int, LeastInt
  <2> QED
    BY <2>2 DEF T
<1>4. Top(s) = SubSeq(s, 1, k)
  BY DEF Top
<1> HIDE DEF k
<1>5. k \in Nat /\ k <= Len(s)
  BY <1>1, <1>3
<1>6. \A i \in 1..k : s[i] \in S
  BY <1>1, <1>5
<1>7. /\ SubSeq(s, 1, k) \in Seq(S) /\ Len(SubSeq(s, 1, k)) = (IF 1 <= k THEN k - 1 + 1 ELSE 0)
      /\ \A i \in 1..k - 1 + 1 : SubSeq(s, 1, k)[i] = s[1 + i - 1]
  BY <1>5, <1>6, SubSeqProperties
<1>8. Top(s) \in Seq(S) /\ Len(Top(s)) = k /\ \A i \in 1..k : Top(s)[i] = s[i]
  BY <1>4, <1>5, <1>7
<1> QED
  BY <1>1, <1>5, <1>8

(* What a queue presents of what was gathered. *)
LEMMA PresentedIsFair ==
  ASSUME NEW items \in Seq(QueueItems)
  PROVE  LET shown == Presented(items).items
         IN  /\ Presented(items).done /\ shown \in Seq(QueueItems)
             /\ Len(shown) + Presented(items).dropped = Cardinality(Keyed(items))
             /\ \A i, j \in DOMAIN shown : shown[i].key = shown[j].key => i = j
             /\ \A i \in DOMAIN items : \A j \in DOMAIN shown :
                  shown[j].key = items[i].key => items[i].sources \subseteq shown[j].sources
             /\ \A i \in DOMAIN items :
                  (\A j \in DOMAIN shown : shown[j].key # items[i].key) =>
                      \A j \in DOMAIN shown : /\ shown[j].band <= items[i].band
                                              /\ Same(items, i) = {i} => ~Before(items[i], shown[j])
<1> DEFINE merged == Deduplicated(items)
           ranked == Ranked(merged)
           shown == Top(ranked)
<1>1. /\ merged \in Seq(QueueItems) /\ Len(merged) = Cardinality(Keyed(items))
      /\ \A m, n \in DOMAIN merged : merged[m].key = merged[n].key => m = n
      /\ \A i \in DOMAIN items : \E n \in DOMAIN merged : merged[n].key = items[i].key
      /\ \A i \in DOMAIN items, n \in DOMAIN merged : merged[n].key = items[i].key =>
             /\ items[i].sources \subseteq merged[n].sources /\ merged[n].band <= items[i].band
             /\ Same(items, i) = {i} =>
                  merged[n].band = items[i].band /\ merged[n].priority = items[i].priority
  BY MergedIsWhole
<1>2. Presented(items) = [done |-> TRUE, items |-> shown, dropped |-> Len(ranked) - Len(shown)]
  BY DEF Presented
<1> HIDE DEF merged
<1>3. /\ ranked \in Seq(QueueItems) /\ Len(ranked) = Len(merged)
      /\ \E place \in [DOMAIN ranked -> DOMAIN merged] :
           /\ \A n \in DOMAIN ranked : ranked[n] = merged[place[n]]
           /\ \A m, n \in DOMAIN ranked : place[m] = place[n] => m = n
           /\ \A i \in DOMAIN merged : \E n \in DOMAIN ranked : place[n] = i
      /\ \A m, n \in DOMAIN ranked : m < n =>
           ranked[m].band <= ranked[n].band /\ ~Before(ranked[n], ranked[m])
  BY <1>1, RankedIsWhole
<1>4. PICK place \in [DOMAIN ranked -> DOMAIN merged] :
           /\ \A n \in DOMAIN ranked : ranked[n] = merged[place[n]]
           /\ \A m, n \in DOMAIN ranked : place[m] = place[n] => m = n
           /\ \A i \in DOMAIN merged : \E n \in DOMAIN ranked : place[n] = i
  BY <1>3
<1> HIDE DEF ranked
<1>5. /\ shown \in Seq(QueueItems) /\ Len(shown) <= Len(ranked)
      /\ \A n \in DOMAIN shown : n \in DOMAIN ranked /\ shown[n] = ranked[n]
      /\ \A m \in DOMAIN shown, n \in DOMAIN ranked : n \notin DOMAIN shown => m < n
  BY <1>3, TopOfAll
<1> HIDE DEF shown
<1>6. Len(shown) + (Len(ranked) - Len(shown)) = Cardinality(Keyed(items))
  <2>1. Len(shown) \in Nat /\ Len(ranked) \in Nat
    BY <1>3, <1>5
  <2> QED
    BY <1>1, <1>3, <2>1
<1>7. \A i, j \in DOMAIN shown : shown[i].key = shown[j].key => i = j
  BY <1>1, <1>4, <1>5
<1>8. \A n \in DOMAIN shown : place[n] \in DOMAIN merged /\ shown[n] = merged[place[n]]
  BY <1>4, <1>5
<1>9. \A i \in DOMAIN items : \A j \in DOMAIN shown :
        shown[j].key = items[i].key => items[i].sources \subseteq shown[j].sources
  <2> SUFFICES ASSUME NEW i \in DOMAIN items, NEW j \in DOMAIN shown, shown[j].key = items[i].key
               PROVE  items[i].sources \subseteq shown[j].sources
    OBVIOUS
  <2>1. place[j] \in DOMAIN merged /\ shown[j] = merged[place[j]]
    BY <1>8
  <2> QED
    BY <1>1, <2>1
<1>10. ASSUME NEW i \in DOMAIN items, \A j \in DOMAIN shown : shown[j].key # items[i].key,
              NEW j \in DOMAIN shown
       PROVE  shown[j].band <= items[i].band /\ (Same(items, i) = {i} => ~Before(items[i], shown[j]))
  <2>1. PICK n \in DOMAIN merged : merged[n].key = items[i].key
    BY <1>1
  <2>2. PICK r \in DOMAIN ranked : place[r] = n
    BY <1>4
  <2>3. r \notin DOMAIN shown
    BY <1>8, <1>10, <2>1, <2>2
  <2>4. /\ ranked[j].band <= ranked[r].band /\ ~Before(ranked[r], ranked[j])
        /\ shown[j] = ranked[j] /\ ranked[r] = merged[n]
    BY <1>3, <1>4, <1>5, <2>2, <2>3
  <2>5. merged[n].band <= items[i].band
    BY <1>1, <2>1
  <2>6. ranked[j].band \in Nat /\ ranked[r].band \in Nat /\ items[i].band \in Nat
    <3>1. ranked[j] \in QueueItems /\ ranked[r] \in QueueItems /\ items[i] \in QueueItems
      BY <1>3, <1>5
    <3> QED
      BY <3>1 DEF QueueItems, Blocking, Critical, Assigned, Awaiting
  <2>7. Same(items, i) = {i} => ~Before(items[i], shown[j])
    BY <1>1, <2>1, <2>4 DEF Before
  <2> QED
    BY <2>4, <2>5, <2>6, <2>7
<1> QED
  BY <1>2, <1>5, <1>6, <1>7, <1>9, <1>10

-----------------------------------------------------------------------------
(* A finished queue is what was gathered, every item is from a system that *)
(* was asked, and a finished brief is what the calls came to.              *)

QueueIsPresented == queue = Unfinished \/ (asked = Len(QueueSources) /\ queue = Presented(gathered))

WhereFrom ==
    \A i \in DOMAIN gathered : gathered[i].sources # {"approvals"} =>
        \E n \in heard : gathered[i].sources = {QueueSources[n].system}

Unheard == {m \in 1..asked \ heard : QueueSources[m].tool \in fitted}
MuteIsNamed == mute = {QueueSources[n].system : n \in Unheard}

BriefIsComposed ==
    \/ brief = Unfinished
    \/ /\ brief.done
       /\ Answering \union Failing = DOMAIN sections
       /\ brief.degraded = Failing

DeskInv == DeskTypes /\ QueueIsPresented /\ WhereFrom /\ MuteIsNamed /\ BriefIsComposed

(* What the tools and the calls settle, they settle once. *)
LEMMA ToolsStay ==
  ASSUME UNCHANGED fitted
  PROVE  \A s : FittedFor(s)' = FittedFor(s) /\ FilledBy(s)' = FilledBy(s)
<1>1. \A s : FittedFor(s)' = FittedFor(s)
  BY DEF FittedFor
<1> QED
  BY <1>1 DEF FilledBy

LEMMA BriefStays ==
  ASSUME UNCHANGED <<fitted, sections, brief>>, BriefIsComposed
  PROVE  BriefIsComposed' /\ Resolved' = Resolved
<1>1. Answering' = Answering /\ Failing' = Failing
  BY DEF Answering, Failing
<1>2. Resolved' = Resolved
  BY ToolsStay DEF Resolved
<1> QED
  BY <1>1, <1>2 DEF BriefIsComposed, Unfinished

(* The four systems a queue asks. *)
LEMMA SourcesAre ==
  /\ Len(QueueSources) = 4
  /\ \A n \in 1..4 : /\ QueueSources[n].system \in {"tasks", "incidents", "mail"}
                     /\ QueueSources[n].band \in {Assigned, Awaiting}
<1>1. Len(QueueSources) = 4
  BY DEF QueueSources
<1>2. \A n \in 1..4 : n = 1 \/ n = 2 \/ n = 3 \/ n = 4
  OBVIOUS
<1>3. /\ QueueSources[1].system = "tasks" /\ QueueSources[1].band = Assigned
      /\ QueueSources[2].system = "incidents" /\ QueueSources[2].band = Assigned
      /\ QueueSources[3].system = "incidents" /\ QueueSources[3].band = Assigned
      /\ QueueSources[4].system = "mail" /\ QueueSources[4].band = Awaiting
  BY DEF QueueSources, Asks
<1> QED
  BY <1>1, <1>2, <1>3

LEMMA DeskInitInv == DeskInit => DeskInv
<1> SUFFICES ASSUME DeskInit PROVE DeskInv
  OBVIOUS
<1>1. PICK k \in 0..MaxHeld : \E waiting \in [1..k -> HeldTools] :
        gathered = [i \in 1..k |-> HeldItem(waiting[i])]
  BY DEF DeskInit
<1>2. PICK waiting \in [1..k -> HeldTools] : gathered = [i \in 1..k |-> HeldItem(waiting[i])]
  BY <1>1
<1>3. k \in Nat
  BY DeskAssumption
<1>5. \A a \in HeldTools : HeldItem(a) \in QueueItems /\ HeldItem(a).sources = {"approvals"}
  BY DEF HeldItem, QueueItems, Priorities, Blocking, Unprioritised
<1>6. /\ gathered \in [1..k -> QueueItems]
      /\ \A i \in DOMAIN gathered : gathered[i].sources = {"approvals"}
  BY <1>2, <1>5
<1>7. gathered \in Seq(QueueItems)
  BY <1>3, <1>6
<1>8. sections \in [Resolved -> SectionResults]
  <2>1. [at |-> "asked", mentions |-> {}] \in SectionResults
    BY DEF SectionResults
  <2> QED
    BY <2>1 DEF DeskInit
<1>9. queue = Unfinished /\ brief = Unfinished /\ ~queue.done
  BY DEF DeskInit, Unfinished
<1>10. asked \in 0..Len(QueueSources)
  BY SourcesAre DEF DeskInit
<1>11. DeskTypes
  BY <1>7, <1>8, <1>9, <1>10 DEF DeskInit, DeskTypes
<1>12. MuteIsNamed
  <2>1. Unheard = {} /\ mute = {}
    BY DEF DeskInit, Unheard
  <2> QED
    BY <2>1 DEF MuteIsNamed
<1> QED
  BY <1>6, <1>9, <1>11, <1>12 DEF DeskInv, QueueIsPresented, WhereFrom, BriefIsComposed

(* What a row becomes. *)
LEMMA RowsAreItems ==
  ASSUME DeskTypes, asked < Len(QueueSources), NEW row \in Rows
  PROVE  /\ RowToItem(row, NextSource) \in QueueItems
         /\ RowToItem(row, NextSource).sources = {NextSource.system}
<1>1. asked + 1 \in 1..4
  BY SourcesAre DEF DeskTypes
<1>2. NextSource.system \in {"tasks", "incidents", "mail"} /\ NextSource.band \in {Assigned, Awaiting}
  BY <1>1, SourcesAre DEF NextSource
<1> DEFINE b == IF row.priority \in {1, 2} THEN Critical ELSE NextSource.band
<1>3. b \in {Blocking, Critical, Assigned, Awaiting} /\ row.key \in Keys /\ row.priority \in Priorities
  BY <1>2 DEF Rows
<1>4. RowToItem(row, NextSource) =
        [key |-> row.key, band |-> b, priority |-> row.priority, sources |-> {NextSource.system}]
  BY DEF RowToItem
<1> HIDE DEF b
<1> QED
  BY <1>2, <1>3, <1>4 DEF QueueItems

LEMMA GatherInv == ASSUME DeskInv, Gather PROVE DeskInv'
<1>1. /\ errandOf = "queue" /\ asked < Len(QueueSources) /\ asked' = asked + 1
      /\ UNCHANGED <<errandOf, fitted, queue, sections, brief>>
      /\ \/ NextSource.tool \notin fitted /\ UNCHANGED <<gathered, heard, mute>>
         \/ /\ NextSource.tool \in fitted /\ UNCHANGED <<gathered, heard>>
            /\ mute' = mute \union {NextSource.system}
         \/ /\ NextSource.tool \in fitted /\ UNCHANGED mute /\ heard' = heard \union {asked + 1}
            /\ \E answer \in Answers :
                 gathered' = gathered \o [i \in DOMAIN answer |-> RowToItem(answer[i], NextSource)]
  BY DEF Gather
<1>2. asked + 1 \in 1..4 /\ asked \in Nat /\ NextSource = QueueSources[asked + 1]
  BY <1>1, SourcesAre DEF DeskInv, DeskTypes, NextSource
<1>3. gathered' \in Seq(QueueItems) /\ WhereFrom'
  <2>1. CASE UNCHANGED gathered
    <3>1. heard \subseteq heard'
      BY <1>1
    <3> QED
      BY <2>1, <3>1 DEF DeskInv, DeskTypes, WhereFrom
  <2>2. ASSUME heard' = heard \union {asked + 1}, NEW answer \in Answers,
               gathered' = gathered \o [i \in DOMAIN answer |-> RowToItem(answer[i], NextSource)]
        PROVE  gathered' \in Seq(QueueItems) /\ WhereFrom'
    <3> DEFINE more == [i \in DOMAIN answer |-> RowToItem(answer[i], NextSource)]
    <3>1. PICK n \in 0..MaxRows : answer \in [1..n -> Rows]
      BY DEF Answers
    <3>2. n \in Nat
      BY <3>1, DeskAssumption
    <3>3. \A i \in 1..n : RowToItem(answer[i], NextSource) \in QueueItems
                          /\ RowToItem(answer[i], NextSource).sources = {NextSource.system}
      BY <1>1, <3>1, RowsAreItems DEF DeskInv
    <3>4. more \in [1..n -> QueueItems] /\ \A i \in 1..n : more[i].sources = {NextSource.system}
      BY <3>1, <3>3
    <3> HIDE DEF more
    <3>5. more \in Seq(QueueItems) /\ Len(more) = n
      BY <3>2, <3>4
    <3>6. gathered \in Seq(QueueItems) /\ gathered' = gathered \o more
      BY <2>2 DEF DeskInv, DeskTypes, more
    <3>7. /\ gathered' \in Seq(QueueItems)
          /\ \A i \in DOMAIN gathered' :
               \/ i \in DOMAIN gathered /\ gathered'[i] = gathered[i]
               \/ \E j \in 1..n : gathered'[i] = more[j]
      <4>1. gathered \o more \in Seq(QueueItems) /\ Len(gathered \o more) = Len(gathered) + n
        BY <3>5, <3>6, ConcatProperties
      <4> SUFFICES ASSUME NEW i \in DOMAIN gathered'
                   PROVE  \/ i \in DOMAIN gathered /\ gathered'[i] = gathered[i]
                          \/ \E j \in 1..n : gathered'[i] = more[j]
        BY <3>6, <4>1
      <4>2. i \in 1..Len(gathered) + n
        BY <3>6, <4>1
      <4>3. CASE i <= Len(gathered)
        BY <3>5, <3>6, <4>2, <4>3
      <4>4. CASE i > Len(gathered)
        <5>1. i - Len(gathered) \in 1..n /\ gathered'[i] = more[i - Len(gathered)]
          BY <3>2, <3>5, <3>6, <4>2, <4>4
        <5> QED
          BY <5>1
      <4> QED
        BY <3>6, <4>2, <4>3, <4>4
    <3>8. WhereFrom'
      <4> SUFFICES ASSUME NEW i \in DOMAIN gathered', gathered'[i].sources # {"approvals"}
                   PROVE  \E m \in heard' : gathered'[i].sources = {QueueSources[m].system}
        BY DEF WhereFrom
      <4>1. CASE i \in DOMAIN gathered /\ gathered'[i] = gathered[i]
        BY <2>2, <4>1 DEF DeskInv, WhereFrom
      <4>2. CASE \E j \in 1..n : gathered'[i] = more[j]
        <5>1. gathered'[i].sources = {QueueSources[asked + 1].system}
          BY <1>1, <1>2, <3>4, <4>2
        <5> QED
          BY <2>2, <5>1
      <4> QED
        BY <3>7, <4>1, <4>2
    <3> QED
      BY <3>7, <3>8
  <2> QED
    BY <1>1, <2>1, <2>2
<1>4. mute' \subseteq {"tasks", "incidents", "mail"}
  BY <1>1, <1>2, SourcesAre DEF DeskInv, DeskTypes
<1>5. queue = Unfinished /\ ~queue.done
  BY <1>1, SourcesAre DEF DeskInv, QueueIsPresented, DeskTypes, Unfinished
<1>6. sections' \in [Resolved' -> SectionResults] /\ BriefIsComposed'
  BY <1>1, BriefStays DEF DeskInv, DeskTypes
<1>7. asked' \in 0..Len(QueueSources) /\ heard' \subseteq 1..asked'
  <2>1. asked \in Nat /\ heard \subseteq 1..asked
    BY <1>2 DEF DeskInv, DeskTypes
  <2>2. asked' \in 1..4
    BY <1>1, <1>2
  <2>3. asked' \in 0..Len(QueueSources)
    BY <2>2, SourcesAre
  <2>4. 1..asked \subseteq 1..asked' /\ asked + 1 \in 1..asked'
    BY <1>1, <2>1
  <2>5. heard' = heard \/ heard' = heard \union {asked + 1}
    BY <1>1
  <2> QED
    BY <2>1, <2>3, <2>4, <2>5
<1>9. MuteIsNamed'
  <2>1. asked \in Nat /\ heard \subseteq 1..asked /\ 1..asked' = (1..asked) \union {asked + 1} /\ asked + 1 \notin 1..asked
    BY <1>1, <1>2 DEF DeskInv, DeskTypes
  <2>2. mute = {QueueSources[n].system : n \in Unheard}
    BY DEF DeskInv, MuteIsNamed
  <2>3. CASE NextSource.tool \notin fitted /\ UNCHANGED <<gathered, heard, mute>>
    <3>1. Unheard' = Unheard
      BY <1>1, <1>2, <2>1, <2>3 DEF Unheard
    <3> QED
      BY <2>2, <2>3, <3>1 DEF MuteIsNamed
  <2>4. CASE NextSource.tool \in fitted /\ UNCHANGED heard /\ mute' = mute \union {NextSource.system}
    <3>1. Unheard' = Unheard \union {asked + 1}
      BY <1>1, <1>2, <2>1, <2>4 DEF Unheard
    <3> QED
      BY <1>2, <2>2, <2>4, <3>1 DEF MuteIsNamed
  <2>5. CASE UNCHANGED mute /\ heard' = heard \union {asked + 1}
    <3>1. Unheard' = Unheard
      BY <1>1, <2>1, <2>5 DEF Unheard
    <3> QED
      BY <2>2, <2>5, <3>1 DEF MuteIsNamed
  <2> QED
    BY <1>1, <2>3, <2>4, <2>5
<1>8. DeskTypes'
  BY <1>1, <1>3, <1>4, <1>5, <1>6, <1>7 DEF DeskInv, DeskTypes
<1> QED
  BY <1>1, <1>3, <1>5, <1>6, <1>8, <1>9 DEF DeskInv, QueueIsPresented

LEMMA PresentInv == ASSUME DeskInv, Present PROVE DeskInv'
<1>1. /\ queue' = Presented(gathered) /\ asked = Len(QueueSources)
      /\ UNCHANGED <<errandOf, fitted, asked, gathered, heard, mute, sections, brief>>
  BY DEF Present
<1>2. Presented(gathered).items \in Seq(QueueItems)
  BY PresentedIsFair DEF DeskInv, DeskTypes
<1>3. DeskTypes'
  BY <1>1, <1>2 DEF DeskInv, DeskTypes, Resolved, FittedFor
<1>4. QueueIsPresented'
  BY <1>1 DEF QueueIsPresented
<1>5. WhereFrom' /\ MuteIsNamed' /\ BriefIsComposed'
  BY <1>1, BriefStays DEF DeskInv, WhereFrom, MuteIsNamed, Unheard
<1> QED
  BY <1>3, <1>4, <1>5 DEF DeskInv

LEMMA FetchInv == ASSUME DeskInv, NEW s \in Sections, Fetch(s) PROVE DeskInv'
<1>1. /\ s \in DOMAIN sections /\ sections[s].at = "asked"
      /\ UNCHANGED <<errandOf, fitted, asked, gathered, heard, mute, queue, brief>>
      /\ \/ \E found \in SUBSET Keys :
              sections' = [sections EXCEPT ![s] = [at |-> "ok", mentions |-> found]]
         \/ sections' = [sections EXCEPT ![s].at = "failed"]
  BY DEF Fetch
<1>2. sections \in [Resolved -> SectionResults] /\ s \in Resolved
  BY <1>1 DEF DeskInv, DeskTypes
<1>3. sections' \in [Resolved -> SectionResults]
  <2>1. CASE \E found \in SUBSET Keys :
               sections' = [sections EXCEPT ![s] = [at |-> "ok", mentions |-> found]]
    BY <1>2, <2>1 DEF SectionResults
  <2>2. CASE sections' = [sections EXCEPT ![s].at = "failed"]
    <3>1. sections[s] \in SectionResults
      BY <1>2
    <3>2. [sections[s] EXCEPT !.at = "failed"] \in SectionResults
      BY <3>1 DEF SectionResults
    <3> QED
      BY <1>2, <2>2, <3>2
  <2> QED
    BY <1>1, <2>1, <2>2
<1>4. brief = Unfinished
  BY <1>1 DEF DeskInv, BriefIsComposed, Answering, Failing
<1>5. DeskTypes'
  BY <1>1, <1>3 DEF DeskInv, DeskTypes, Resolved, FittedFor
<1> QED
  BY <1>1, <1>4, <1>5 DEF DeskInv, QueueIsPresented, WhereFrom, MuteIsNamed, Unheard, BriefIsComposed

LEMMA ComposeInv == ASSUME DeskInv, Compose PROVE DeskInv'
<1>1. PICK modelAnswers \in BOOLEAN :
         brief' = [done |-> TRUE, body |-> IF modelAnswers THEN "prose" ELSE "sections",
                   error |-> ~modelAnswers, degraded |-> Failing, connections |-> Connections,
                   tainted |-> \E s \in Answering : FilledBy(s) \in Untrusted]
  BY DEF Compose
<1>2. /\ Answering \union Failing = DOMAIN sections
      /\ UNCHANGED <<errandOf, fitted, asked, gathered, heard, mute, queue, sections>>
  BY DEF Compose
<1>3. /\ Failing \subseteq Sections /\ Connections \subseteq Keys
      /\ (\E s \in Answering : FilledBy(s) \in Untrusted) \in BOOLEAN
  BY DEF DeskInv, DeskTypes, Failing, Connections, Resolved
<1>4. brief' \in Briefs
  BY <1>1, <1>3 DEF Briefs
<1>5. DeskTypes'
  BY <1>2, <1>4 DEF DeskInv, DeskTypes, Resolved, FittedFor
<1>6. brief'.done /\ brief'.degraded = Failing
  BY <1>1
<1>7. Answering' = Answering /\ Failing' = Failing
  BY <1>2 DEF Answering, Failing
<1>8. BriefIsComposed'
  BY <1>2, <1>6, <1>7 DEF BriefIsComposed
<1> QED
  BY <1>2, <1>5, <1>8 DEF DeskInv, QueueIsPresented, WhereFrom, MuteIsNamed, Unheard

(* What is put before a person is made of what was gathered and of what the *)
(* calls came to, in every state: the type invariant, and the four facts    *)
(* DeskKept rests on.                                                       *)
THEOREM DeskInductive == DeskSpec => []DeskInv
<1>1. DeskInv /\ [DeskNext]_deskVars => DeskInv'
  <2> SUFFICES ASSUME DeskInv, [DeskNext]_deskVars PROVE DeskInv'
    OBVIOUS
  <2>1. CASE UNCHANGED deskVars
    <3>1. UNCHANGED <<errandOf, fitted, asked, gathered, heard, mute, queue, sections, brief>>
      BY <2>1 DEF deskVars
    <3>2. BriefIsComposed' /\ Resolved' = Resolved
      BY <3>1, BriefStays DEF DeskInv
    <3>3. DeskTypes' /\ WhereFrom' /\ MuteIsNamed'
      BY <3>1, <3>2 DEF DeskInv, DeskTypes, WhereFrom, MuteIsNamed, Unheard
    <3>4. QueueIsPresented'
      BY <3>1 DEF DeskInv, QueueIsPresented, Unfinished
    <3> QED
      BY <3>2, <3>3, <3>4 DEF DeskInv
  <2> QED
    BY <2>1, GatherInv, PresentInv, FetchInv, ComposeInv DEF DeskNext
<1> QED
  BY <1>1, DeskInitInv, PTL DEF DeskSpec

(* DeskTypes holds of every queue and brief. *)
THEOREM DeskTypesHold == DeskSpec => []DeskTypes
<1>1. DeskInv => DeskTypes
  BY DEF DeskInv
<1> QED
  BY <1>1, DeskInductive, PTL

(* QueueBuilder.build and BriefGenerator.generate, for any rows, held      *)
(* actions and tools, and any number shown: every key gathered is shown or *)
(* counted, the cap never drops the more urgent, and the gaps are named.   *)
THEOREM DeskKeptHolds == DeskSpec => []DeskKept
<1>1. DeskInv => DeskKept
  <2> SUFFICES ASSUME DeskInv PROVE DeskKept
    OBVIOUS
  <2>1. NothingHidden /\ CapKeepsTheUrgent
    <3>1. CASE queue = Unfinished
      BY <3>1 DEF NothingHidden, CapKeepsTheUrgent, Unfinished
    <3>2. CASE queue = Presented(gathered)
      <4>1. gathered \in Seq(QueueItems)
        BY DEF DeskInv, DeskTypes
      <4> QED
        BY <3>2, <4>1, PresentedIsFair DEF NothingHidden, CapKeepsTheUrgent, Keyed
    <3> QED
      BY <3>1, <3>2 DEF DeskInv, QueueIsPresented
  <2>2. ASSUME brief.done, NEW s \in Sections
        PROVE  \/ s \in DOMAIN sections /\ sections[s].at = "ok"
               \/ s \in brief.degraded
               \/ Range(BriefSources[s]) \intersect fitted = {}
    <3>1. Answering \union Failing = DOMAIN sections /\ brief.degraded = Failing
      <4>1. brief # Unfinished
        BY <2>2 DEF Unfinished
      <4> QED
        BY <4>1 DEF DeskInv, BriefIsComposed
    <3>2. DOMAIN sections = Resolved
      BY DEF DeskInv, DeskTypes
    <3>3. s \notin Resolved => Range(BriefSources[s]) \intersect fitted = {}
      BY DEF Resolved, FittedFor, Range
    <3>4. s \in Answering => s \in DOMAIN sections /\ sections[s].at = "ok"
      BY DEF Answering
    <3> QED
      BY <3>1, <3>2, <3>3, <3>4
  <2>3. GapsAreNamed
    BY <2>2 DEF GapsAreNamed, DeskInv, WhereFrom, MuteIsNamed, Unheard
  <2> QED
    BY <2>1, <2>3 DEF DeskKept
<1> QED
  BY <1>1, DeskInductive, PTL

-----------------------------------------------------------------------------
(* Figures *)

(* The median lies above half of what it is the median of.                 *)
LEMMA FiguresAreOrdered ==
  ASSUME NEW S \in SUBSET Nat, NEW f \in [S -> Nat]
  PROVE  IsOrderOf(ByFigure(f), S)
<1>1. \A a, b : <<a, b>> \in ByFigure(f) <=>
          a \in S /\ b \in S /\ (f[a] < f[b] \/ (f[a] = f[b] /\ a < b))
  BY DEF ByFigure
<1>2. \A a \in S : a \in Nat /\ f[a] \in Nat
  OBVIOUS
<1> QED
  BY <1>1, <1>2 DEF IsOrderOf

LEMMA HalfIsBelow ==
  ASSUME NEW S \in SUBSET Nat, IsFiniteSet(S), S # {}, NEW f \in [S -> Nat]
  PROVE  /\ Median2(f) \in Nat
         /\ 2 * Cardinality({d \in S : 2 * f[d] <= Median2(f)}) >= Cardinality(S)
<1> DEFINE n == Cardinality(S)
           sorted == Sorted(S, ByFigure(f))
           low == (n + 1) \div 2
           high == n \div 2 + 1
           below == {d \in S : 2 * f[d] <= Median2(f)}
<1>1. /\ n \in Nat /\ sorted \in [1..n -> S]
      /\ \A a, b \in 1..n : <<sorted[a], sorted[b]>> \in ByFigure(f) <=> a < b
      /\ \A a, b \in 1..n : sorted[a] = sorted[b] => a = b
  BY FiguresAreOrdered, SortedIsOrder
<1>2. n # 0
  BY FS_EmptySet
<1>3. Median2(f) = f[sorted[low]] + f[sorted[high]]
  BY DEF Median2
<1> HIDE DEF sorted
<1>4. low \in 1..n /\ high \in 1..n /\ low <= high /\ 2 * low >= n
  <2> HIDE DEF n
  <2> QED
    BY <1>1, <1>2
<1> HIDE DEF n, low, high
<1>5. \A a, b \in 1..n : a <= b => f[sorted[a]] <= f[sorted[b]]
  <2> SUFFICES ASSUME NEW a \in 1..n, NEW b \in 1..n, a <= b PROVE f[sorted[a]] <= f[sorted[b]]
    OBVIOUS
  <2>1. sorted[a] \in S /\ sorted[b] \in S /\ f[sorted[a]] \in Nat /\ f[sorted[b]] \in Nat
    BY <1>1
  <2>2. CASE a = b
    BY <2>1, <2>2
  <2>3. CASE a # b
    <3>1. <<sorted[a], sorted[b]>> \in ByFigure(f)
      BY <1>1, <2>3
    <3> QED
      BY <2>1, <3>1 DEF ByFigure
  <2> QED
    BY <2>2, <2>3
<1>6. Median2(f) \in Nat
  <2>1. sorted[low] \in S /\ sorted[high] \in S
    BY <1>1, <1>4
  <2>2. f[sorted[low]] \in Nat /\ f[sorted[high]] \in Nat
    BY <2>1
  <2> QED
    BY <1>3, <2>2
<1>7. \A m \in 1..low : m \in 1..n /\ sorted[m] \in below
  <2> SUFFICES ASSUME NEW m \in 1..low PROVE m \in 1..n /\ sorted[m] \in below
    OBVIOUS
  <2>1. m \in 1..n
    BY <1>1, <1>4
  <2>2. f[sorted[m]] <= f[sorted[low]] /\ f[sorted[m]] <= f[sorted[high]]
    BY <1>4, <1>5, <2>1
  <2>3. sorted[m] \in S /\ f[sorted[m]] \in Nat /\ f[sorted[low]] \in Nat /\ f[sorted[high]] \in Nat
    BY <1>1, <1>4, <2>1
  <2>4. 2 * f[sorted[m]] <= Median2(f)
    BY <1>3, <2>2, <2>3
  <2> QED
    BY <2>1, <2>3, <2>4
<1>8. below \subseteq S
  OBVIOUS
<1> DEFINE g == [m \in 1..low |-> sorted[m]]
<1> HIDE DEF below
<1>9. g \in Injection(1..low, below)
  <2>1. g \in [1..low -> below]
    BY <1>7
  <2>2. \A a, b \in 1..low : g[a] = g[b] => a = b
    BY <1>1, <1>7
  <2> HIDE DEF g
  <2> QED
    BY <2>1, <2>2 DEF Injection, IsInjective
<1>10. IsFiniteSet(below)
  BY <1>8, FS_Subset
<1> HIDE DEF g
<1>11. Cardinality(1..low) <= Cardinality(below)
  BY <1>9, <1>10, FS_Injection
<1>12. low \in Nat /\ Cardinality(1..low) = low
  BY <1>4, FS_Interval
<1>13. Cardinality(below) \in Nat
  BY <1>10, FS_CardinalityType
<1>14. 2 * Cardinality(below) >= n
  BY <1>1, <1>4, <1>11, <1>12, <1>13
<1> QED
  BY <1>6, <1>14 DEF below, n

-----------------------------------------------------------------------------
(* x for each of c. *)
LEMMA OneMore == ASSUME NEW x \in Int, NEW c \in Int PROVE x * (c + 1) = x * c + x /\ x * 0 = 0
OBVIOUS

(* A total of a week lies between so many of its least and of its greatest. *)
LEMMA TotalIsBetween ==
  ASSUME FiguresTypes, NEW S \in SUBSET (DOMAIN series), NEW k \in Nat
  PROVE  /\ Total(S) \in Int /\ Cardinality(S) \in Nat
         /\ (\A d \in S : series[d] <= k) => Total(S) <= k * Cardinality(S)
         /\ (\A d \in S : k <= series[d]) => k * Cardinality(S) <= Total(S)
<1> DEFINE step == [d \in 1..day |-> IF d \in S THEN series[d] ELSE 0]
           Rule(g) == [d \in 0..day |-> IF d = 0 THEN 0 ELSE g[d - 1] + (IF d \in S THEN series[d] ELSE 0)]
           upTo == CHOOSE g : g = Rule(g)
<1>1. day \in Nat /\ S \in SUBSET (1..day) /\ \A d \in S : series[d] \in Nat
  <2>1. PICK measured \in SUBSET (1..day) : series \in [measured -> Values]
    BY DEF FiguresTypes, Histories
  <2>2. day \in Nat
    BY FiguresAssumption DEF FiguresTypes
  <2>3. DOMAIN series = measured /\ \A d \in measured : series[d] \in Values
    BY <2>1
  <2>4. Values \subseteq Nat
    BY FiguresAssumption
  <2> QED
    BY <2>1, <2>2, <2>3, <2>4
<1>2. step \in [1..day -> Int]
  BY <1>1
<1>3. PICK f : Climbs(f, day, step)
  <2> HIDE DEF step
  <2> QED
    BY <1>1, <1>2, SomethingClimbs
<1>4. f = Rule(f)
  <2>1. \A d \in 0..day : f[d] = IF d = 0 THEN 0 ELSE f[d - 1] + (IF d \in S THEN series[d] ELSE 0)
    BY <1>1, <1>3 DEF Climbs
  <2>2. f = [d \in 0..day |-> f[d]]
    BY <1>3 DEF Climbs
  <2> QED
    BY <2>1, <2>2
<1>5. upTo = Rule(upTo)
  <2> HIDE DEF Rule
  <2> QED
    BY <1>4
<1>6. Total(S) = upTo[day]
  BY DEF Total
<1> HIDE DEF upTo, step
<1>7. upTo[0] = 0 /\ \A d \in 1..day : upTo[d] = upTo[d - 1] + (IF d \in S THEN series[d] ELSE 0)
  BY <1>1, <1>5
<1> HIDE DEF Rule
<1> DEFINE c(d) == Cardinality(S \intersect (1..d))
           Fine(d) == /\ upTo[d] \in Int /\ c(d) \in Nat
                      /\ (\A e \in S : series[e] <= k) => upTo[d] <= k * c(d)
                      /\ (\A e \in S : k <= series[e]) => k * c(d) <= upTo[d]
           bad == {d \in 0..day : ~Fine(d)}
<1>8. Fine(0)
  <2>1. c(0) = 0
    BY FS_EmptySet
  <2> HIDE DEF c
  <2> QED
    BY <1>7, <2>1, OneMore
<1>9. ASSUME NEW d \in 1..day, Fine(d - 1) PROVE Fine(d)
  <2>1. d \in Nat /\ d - 1 \in Nat
    BY <1>1
  <2>2. IsFiniteSet(S \intersect (1..d - 1))
    <3>1. IsFiniteSet(1..d - 1)
      <4> DEFINE j == d - 1
      <4>1. j \in Nat
        BY <2>1
      <4> HIDE DEF j
      <4>2. IsFiniteSet(1..j)
        BY <4>1, FS_Interval
      <4> QED
        BY <4>2 DEF j
    <3> QED
      BY <3>1, FS_Subset
  <2>3. CASE d \in S
    <3>1. S \intersect (1..d) = (S \intersect (1..d - 1)) \union {d} /\ d \notin S \intersect (1..d - 1)
      BY <1>1, <2>1, <2>3
    <3>2. c(d) = c(d - 1) + 1
      BY <2>2, <3>1, FS_AddElement
    <3>3. upTo[d] = upTo[d - 1] + series[d] /\ series[d] \in Nat
      BY <1>1, <1>7, <2>3
    <3>4. k * c(d) = k * c(d - 1) + k
      BY <1>9, <3>2, OneMore
    <3> DEFINE p == k * c(d - 1)
    <3>5. p \in Int
      BY <1>9
    <3>6. /\ upTo[d - 1] \in Int /\ c(d - 1) \in Nat
          /\ (\A e \in S : series[e] <= k) => upTo[d - 1] <= p
          /\ (\A e \in S : k <= series[e]) => p <= upTo[d - 1]
      BY <1>9
    <3>7. k * c(d) = p + k
      BY <3>4
    <3> HIDE DEF p, c
    <3> QED
      BY <2>3, <3>2, <3>3, <3>5, <3>6, <3>7
  <2>4. CASE d \notin S
    <3>1. S \intersect (1..d) = S \intersect (1..d - 1)
      BY <1>1, <2>1, <2>4
    <3>2. upTo[d] = upTo[d - 1] + 0
      BY <1>7, <2>4
    <3>3. c(d) = c(d - 1)
      BY <3>1
    <3> HIDE DEF c
    <3> QED
      BY <1>9, <3>2, <3>3
  <2> QED
    BY <2>3, <2>4
<1> HIDE DEF Fine
<1>10. bad = {}
  <2> SUFFICES ASSUME bad # {} PROVE FALSE
    OBVIOUS
  <2>1. bad \in SUBSET Nat
    BY <1>1
  <2>2. PICK d \in bad : \A e \in bad : d <= e
    BY <2>1, LeastNat
  <2>3. d \in 0..day /\ ~Fine(d) /\ d # 0
    BY <1>8
  <2>4. d \in 1..day /\ d - 1 \in 0..day /\ d - 1 \notin bad
    BY <1>1, <2>2, <2>3
  <2> QED
    BY <1>9, <2>3, <2>4
<1>11. Fine(day)
  BY <1>1, <1>10
<1>12. S \intersect (1..day) = S
  BY <1>1
<1> QED
  BY <1>6, <1>11, <1>12 DEF Fine

(* Days are finitely many, and each has a natural figure.                  *)
LEMMA DaysHaveFigures ==
  ASSUME FiguresTypes
  PROVE  /\ IsFiniteSet(DOMAIN series) /\ DOMAIN series \in SUBSET Nat /\ day \in Nat
         /\ \A d \in DOMAIN series : series[d] \in Values /\ series[d] \in Nat
<1>1. PICK measured \in SUBSET (1..day) : series \in [measured -> Values]
  BY DEF FiguresTypes, Histories
<1>2. day \in Nat
  BY FiguresAssumption DEF FiguresTypes
<1>3. IsFiniteSet(1..day)
  BY <1>2, FS_Interval
<1>4. IsFiniteSet(measured)
  BY <1>3, FS_Subset
<1>5. DOMAIN series = measured /\ \A d \in measured : series[d] \in Values
  BY <1>1
<1>6. Values \subseteq Nat
  BY FiguresAssumption
<1>7. measured \in SUBSET Nat
  BY <1>1, <1>2
<1> QED
  BY <1>2, <1>4, <1>5, <1>6, <1>7

(* The mean of a week whose days are all at most k is at most k, and of    *)
(* one whose days are all at least k at least k.                           *)
LEMMA TenthsAreBetween ==
  ASSUME FiguresTypes, NEW S \in SUBSET (DOMAIN series), S # {}, NEW k \in Nat
  PROVE  /\ Tenths(S) \in Int
         /\ (\A d \in S : series[d] <= k) => Tenths(S) <= 10 * k
         /\ (\A d \in S : k <= series[d]) => 10 * k <= Tenths(S)
<1> DEFINE c == Cardinality(S)
           t == Total(S)
           q == Tenths(S)
           p == k * c
<1>1. /\ t \in Int /\ c \in Nat
      /\ (\A d \in S : series[d] <= k) => t <= p
      /\ (\A d \in S : k <= series[d]) => p <= t
  BY TotalIsBetween
<1>2. c # 0
  BY DaysHaveFigures, FS_Subset, FS_EmptySet
<1>3. q = (20 * t + c) \div (2 * c)
  BY DEF Tenths
<1> HIDE DEF c, t, q
<1>4. q \in Int /\ 20 * t + c < (q + 1) * (2 * c) /\ q * (2 * c) <= 20 * t + c
  <2>1. 20 * t + c \in Int /\ 2 * c \in Nat \ {0}
    BY <1>1, <1>2
  <2> QED
    BY <1>3, <2>1, DayOf
<1>5. p \in Int /\ (10 * k) * (2 * c) = 20 * p /\ (10 * k + 1) * (2 * c) = 20 * p + 2 * c
  BY <1>1
<1> HIDE DEF p
<1>6. \A x, y \in Int : x >= y => x * (2 * c) >= y * (2 * c)
  BY <1>1
<1>7. ASSUME t <= p PROVE q <= 10 * k
  <2> SUFFICES ASSUME q > 10 * k PROVE FALSE
    BY <1>4
  <2>1. q >= 10 * k + 1 /\ 10 * k + 1 \in Int
    BY <1>4
  <2>2. q * (2 * c) >= (10 * k + 1) * (2 * c)
    BY <1>4, <1>6, <2>1
  <2>3. q * (2 * c) \in Int
    BY <1>1, <1>4
  <2> QED
    BY <1>1, <1>2, <1>4, <1>5, <1>7, <2>2, <2>3
<1>8. ASSUME p <= t PROVE 10 * k <= q
  <2> SUFFICES ASSUME q < 10 * k PROVE FALSE
    BY <1>4
  <2>1. 10 * k >= q + 1 /\ q + 1 \in Int /\ 10 * k \in Int
    BY <1>4
  <2>2. (10 * k) * (2 * c) >= (q + 1) * (2 * c)
    BY <1>6, <2>1
  <2>3. (q + 1) * (2 * c) \in Int
    BY <1>1, <1>4
  <2> QED
    BY <1>1, <1>2, <1>4, <1>5, <1>8, <2>2, <2>3
<1> QED
  BY <1>1, <1>4, <1>7, <1>8 DEF q

-----------------------------------------------------------------------------
(* The history stays a history.                                            *)
THEOREM FiguresTypesHold == FiguresSpec => []FiguresTypes
<1>1. FiguresInit => FiguresTypes
  <2>1. <<>> \in [{} -> Values] /\ {} \in SUBSET (1..0)
    OBVIOUS
  <2> QED
    BY <2>1, FiguresAssumption DEF FiguresInit, FiguresTypes, Histories
<1>2. FiguresTypes /\ [FiguresNext]_figuresVars => FiguresTypes'
  <2> SUFFICES ASSUME FiguresTypes, [FiguresNext]_figuresVars PROVE FiguresTypes'
    OBVIOUS
  <2>1. PICK measured \in SUBSET (1..day) : series \in [measured -> Values]
    BY DEF FiguresTypes, Histories
  <2>2. day \in 0..Days /\ Days \in Nat
    BY FiguresAssumption DEF FiguresTypes
  <2>3. ASSUME NEW v \in Values, Record(v) PROVE FiguresTypes'
    <3>1. day' \in 0..Days /\ measured \union {day + 1} \in SUBSET (1..day') /\ day' = day + 1
      BY <2>2, <2>3 DEF Record
    <3>2. series' \in [measured \union {day + 1} -> Values]
      BY <2>1, <2>3 DEF Record
    <3> QED
      BY <3>1, <3>2 DEF FiguresTypes, Histories
  <2>4. CASE Miss
    <3>1. day' \in 0..Days /\ measured \in SUBSET (1..day') /\ series' = series
      BY <2>2, <2>4 DEF Miss
    <3> QED
      BY <2>1, <3>1 DEF FiguresTypes, Histories
  <2>5. CASE UNCHANGED figuresVars
    BY <2>5 DEF figuresVars, FiguresTypes, Histories
  <2> QED
    BY <2>3, <2>4, <2>5 DEF FiguresNext
<1> QED
  BY <1>1, <1>2, PTL DEF FiguresSpec

(* A day called unusual was judged by a sample, and lies beyond half of it. *)
LEMMA OutliersAreFar == ASSUME FiguresTypes PROVE OutliersStandOut
<1> SUFFICES ASSUME Assess = "anomalous" PROVE OutliersStandOut
  BY DEF OutliersStandOut
<1>1. Cardinality(DOMAIN series) >= MinHistory + 1 /\ Anomalous(series[Latest])
  <2>1. Cardinality(DOMAIN series) \in Nat /\ MinHistory \in Nat
    BY DaysHaveFigures, FS_CardinalityType, FiguresAssumption
  <2> QED
    BY <2>1 DEF Assess
<1>2. Past # {}
  <2> SUFFICES ASSUME Past = {} PROVE FALSE
    OBVIOUS
  <2>1. DOMAIN series \subseteq {Latest}
    BY DEF Past
  <2>2. Cardinality({Latest}) = 1 /\ IsFiniteSet({Latest})
    BY FS_Singleton
  <2>3. Cardinality(DOMAIN series) <= 1
    BY <2>1, <2>2, FS_Subset
  <2>4. Cardinality(DOMAIN series) \in Nat
    BY DaysHaveFigures, FS_CardinalityType
  <2> QED
    BY <1>1, <2>3, <2>4, FiguresAssumption
<1>3. Sample \subseteq DOMAIN series /\ Sample # {} /\ Sample \in SUBSET Nat /\ IsFiniteSet(Sample)
  <2>1. Past \subseteq DOMAIN series /\ SameDay \subseteq DOMAIN series
    BY DEF Past, SameDay
  <2>2. Seasonal => SameDay # {}
    <3> SUFFICES ASSUME SameDay = {}, Seasonal PROVE FALSE
      OBVIOUS
    <3>1. Cardinality(SameDay) = 0
      BY FS_EmptySet
    <3> QED
      BY <3>1, FiguresAssumption DEF Seasonal
  <2>3. Sample \subseteq DOMAIN series /\ Sample # {}
    BY <1>2, <2>1, <2>2 DEF Sample
  <2> QED
    BY <2>3, DaysHaveFigures, FS_Subset
<1> DEFINE figure == [d \in Sample |-> series[d]]
           far == [d \in Sample |-> Distance(2 * series[d], Baseline2)]
           near == {d \in Sample : 2 * far[d] <= Spread4}
           nearer == {d \in Sample : Moved2(series[d]) < Moved2(series[Latest])}
<1>4. Baseline2 \in Nat
  <2>1. figure \in [Sample -> Nat]
    BY <1>3, DaysHaveFigures
  <2>2. Baseline2 = Median2(figure)
    BY DEF Baseline2
  <2> HIDE DEF figure
  <2> QED
    BY <1>3, <2>1, <2>2, HalfIsBelow
<1>5. \A v \in Nat : Moved2(v) \in Nat
  BY <1>4 DEF Moved2, Distance
<1>6. far \in [Sample -> Nat] /\ \A d \in Sample : far[d] = Moved2(series[d])
  <2>1. \A d \in Sample : far[d] = Moved2(series[d]) /\ Moved2(series[d]) \in Nat
    BY <1>3, <1>5, DaysHaveFigures DEF Moved2
  <2> QED
    BY <2>1
<1>7. Spread4 = Median2(far)
  BY DEF Spread4
<1> HIDE DEF far
<1>8. Spread4 \in Nat /\ 2 * Cardinality(near) >= Cardinality(Sample)
  BY <1>3, <1>6, <1>7, HalfIsBelow
<1>9. Latest \in DOMAIN series
  <2>1. \E d \in DOMAIN series : TRUE
    BY <1>3
  <2> DEFINE T == DOMAIN series
  <2>2. T \in SUBSET Int /\ T # {} /\ \A x \in T : x <= day
    <3>1. PICK measured \in SUBSET (1..day) : series \in [measured -> Values]
      BY DEF FiguresTypes, Histories
    <3> QED
      BY <2>1, <3>1, DaysHaveFigures
  <2> HIDE DEF T
  <2>3. day \in Int
    BY DaysHaveFigures
  <2>4. Max(T) \in T
    BY <2>2, <2>3, GreatestInt
  <2> QED
    BY <2>4 DEF T, Latest
<1>10. series[Latest] \in Nat /\ Moved2(series[Latest]) \in Nat
  BY <1>5, <1>9, DaysHaveFigures
<1>11. Moved2(series[Latest]) >= 2 /\ (Spread4 = 0 \/ 13490 * Moved2(series[Latest]) >= 35000 * Spread4)
  BY <1>1 DEF Anomalous, Unlikely
<1>12. near \subseteq nearer
  <2> SUFFICES ASSUME NEW d \in near PROVE Moved2(series[d]) < Moved2(series[Latest])
    OBVIOUS
  <2> DEFINE x == Moved2(series[d])
             y == Moved2(series[Latest])
  <2>1. x \in Nat /\ y \in Nat /\ 2 * x <= Spread4
    BY <1>6, <1>10
  <2>2. y >= 2 /\ (Spread4 = 0 \/ 13490 * y >= 35000 * Spread4)
    BY <1>11
  <2> HIDE DEF x, y
  <2>3. x < y
    BY <1>8, <2>1, <2>2
  <2> QED
    BY <2>3 DEF x, y
<1>13. 2 * Cardinality(nearer) >= Cardinality(Sample)
  <2>1. nearer \subseteq Sample
    OBVIOUS
  <2> HIDE DEF near, nearer
  <2>2. IsFiniteSet(nearer)
    BY <1>3, <2>1, FS_Subset
  <2>3. Cardinality(near) <= Cardinality(nearer) /\ IsFiniteSet(near)
    BY <1>12, <2>2, FS_Subset
  <2>4. Cardinality(near) \in Nat /\ Cardinality(nearer) \in Nat /\ Cardinality(Sample) \in Nat
    BY <1>3, <2>2, <2>3, FS_CardinalityType
  <2> QED
    BY <1>8, <2>3, <2>4
<1>14. ASSUME NEW v \in Values, Moved2(v) >= Moved2(series[Latest]) PROVE Anomalous(v)
  <2> DEFINE x == Moved2(v)
             y == Moved2(series[Latest])
  <2>1. x \in Nat /\ y \in Nat /\ x >= y
    BY <1>5, <1>10, <1>14, FiguresAssumption
  <2>2. y >= 2 /\ (Spread4 = 0 \/ 13490 * y >= 35000 * Spread4)
    BY <1>11
  <2> HIDE DEF x, y
  <2>3. x >= 2 /\ (Spread4 = 0 \/ 13490 * x >= 35000 * Spread4)
    BY <1>8, <2>1, <2>2
  <2> QED
    BY <2>3 DEF Anomalous, Unlikely, x
<1> HIDE DEF nearer
<1>15. OutliersStandOut
  BY <1>13, <1>14 DEF OutliersStandOut, nearer
<1> QED
  BY <1>15

(* A week is above another only by some day of it. *)
LEMMA WeeksAreCompared == ASSUME FiguresTypes PROVE WeeksCompare
<1> SUFFICES ASSUME Compared PROVE WeeksCompare
  BY DEF WeeksCompare
<1>1. /\ ThisWeek \in SUBSET (DOMAIN series) /\ LastWeek \in SUBSET (DOMAIN series)
      /\ ThisWeek # {} /\ LastWeek # {}
  BY DEF Compared, ThisWeek, LastWeek
<1>2. ThisWeek \intersect LastWeek = {}
  <2>1. Week \in Nat /\ day \in Nat /\ DOMAIN series \in SUBSET Nat
    BY FiguresAssumption, DaysHaveFigures
  <2> QED
    BY <2>1 DEF ThisWeek, LastWeek
<1>3. \A A, B \in SUBSET (DOMAIN series) :
        A # {} /\ B # {} /\ (\A a \in A, b \in B : series[a] <= series[b]) => Tenths(A) <= Tenths(B)
  <2> SUFFICES ASSUME NEW A \in SUBSET (DOMAIN series), NEW B \in SUBSET (DOMAIN series),
                      A # {}, B # {}, \A a \in A, b \in B : series[a] <= series[b]
               PROVE  Tenths(A) <= Tenths(B)
    OBVIOUS
  <2> DEFINE T == {series[b] : b \in B}
  <2>1. T \in SUBSET Nat /\ T # {}
    BY DaysHaveFigures
  <2>2. PICK k \in T : \A x \in T : k <= x
    BY <2>1, LeastNat
  <2>3. k \in Nat /\ (\A a \in A : series[a] <= k) /\ (\A b \in B : k <= series[b])
    BY <2>1, <2>2
  <2>4. /\ Tenths(A) \in Int /\ Tenths(A) <= 10 * k
        /\ Tenths(B) \in Int /\ 10 * k <= Tenths(B)
    BY <2>3, TenthsAreBetween
  <2> QED
    BY <2>3, <2>4
<1>4. Tenths(ThisWeek) \in Int /\ Tenths(LastWeek) \in Int
  BY <1>1, 0 \in Nat, TenthsAreBetween
<1>5. \A d \in DOMAIN series : series[d] \in Nat
  BY DaysHaveFigures
<1>6. ASSUME Direction = "up" PROVE \E a \in ThisWeek, b \in LastWeek : series[a] > series[b]
  <2>1. Tenths(ThisWeek) > Tenths(LastWeek)
    BY <1>6 DEF Direction
  <2>2. ~\A a \in ThisWeek, b \in LastWeek : series[a] <= series[b]
    BY <1>1, <1>3, <1>4, <2>1
  <2> QED
    BY <1>1, <1>5, <2>2
<1>7. ASSUME Direction = "down" PROVE \E a \in ThisWeek, b \in LastWeek : series[a] < series[b]
  <2>1. Tenths(ThisWeek) < Tenths(LastWeek)
    BY <1>4, <1>7 DEF Direction
  <2>2. ~\A b \in LastWeek, a \in ThisWeek : series[b] <= series[a]
    BY <1>1, <1>3, <1>4, <2>1
  <2> QED
    BY <1>1, <1>5, <2>2
<1> QED
  BY <1>2, <1>6, <1>7 DEF WeeksCompare

(* Detector.assess and compare_weeks, for any history of natural figures,  *)
(* any week and any thresholds on its length: an outlier lies beyond half  *)
(* of what it is compared with, and a week that is up has a day that is.   *)
THEOREM FiguresAreJustHolds == FiguresSpec => []FiguresAreJust
<1>1. FiguresTypes => FiguresAreJust
  BY OutliersAreFar, WeeksAreCompared DEF FiguresAreJust
<1> QED
  BY <1>1, FiguresTypesHold, PTL

-----------------------------------------------------------------------------
(* Calendar *)

(* The months follow one another, each as long as it is. *)
LEMMA MonthsFollow ==
  LET L == Len(MonthLengths)
  IN  /\ L \in Nat /\ \A m \in 1..L : MonthLengths[m] \in Nat \ {0}
      /\ FirstOf[1] = 0 /\ \A m \in 1..L + 1 : FirstOf[m] \in Nat
      /\ \A m \in 1..L : FirstOf[m + 1] = FirstOf[m] + MonthLengths[m]
      /\ \A m \in 1..L, n \in 1..L + 1 : m < n => FirstOf[m] + MonthLengths[m] <= FirstOf[n]
<1> DEFINE L == Len(MonthLengths)
           Rule(g) == [m \in 1..L + 1 |-> IF m = 1 THEN 0 ELSE g[m - 1] + MonthLengths[m - 1]]
<1>1. L \in Nat /\ MonthLengths \in [1..L -> Int] /\ \A m \in 1..L : MonthLengths[m] \in Nat \ {0}
  BY CalendarAssumption
<1>2. FirstOf = CHOOSE g : g = Rule(g)
  BY DEF FirstOf
<1> HIDE DEF L
<1>3. PICK f : Climbs(f, L, MonthLengths)
  BY <1>1, SomethingClimbs
<1> DEFINE h == [m \in 1..L + 1 |-> f[m - 1]]
<1>4. h = Rule(h)
  <2>1. ASSUME NEW m \in 1..L + 1
        PROVE  h[m] = IF m = 1 THEN 0 ELSE h[m - 1] + MonthLengths[m - 1]
    <3>1. CASE m = 1
      BY <1>1, <1>3, <3>1 DEF Climbs
    <3>2. CASE m # 1
      <4>1. m - 1 \in 1..L /\ m - 1 \in 1..L + 1
        BY <1>1, <3>2
      <4>2. f[m - 1] = f[(m - 1) - 1] + MonthLengths[m - 1]
        BY <1>3, <4>1 DEF Climbs
      <4> QED
        BY <3>2, <4>1, <4>2
    <3> QED
      BY <3>1, <3>2
  <2>2. h = [m \in 1..L + 1 |-> h[m]]
    OBVIOUS
  <2> HIDE DEF h
  <2> QED
    BY <2>1, <2>2
<1>5. FirstOf = Rule(FirstOf)
  <2> HIDE DEF h, Rule
  <2> QED
    BY <1>2, <1>4
<1>6. FirstOf[1] = 0 /\ \A m \in 1..L : FirstOf[m + 1] = FirstOf[m] + MonthLengths[m]
  <2>1. \A m \in 1..L + 1 : FirstOf[m] = IF m = 1 THEN 0 ELSE FirstOf[m - 1] + MonthLengths[m - 1]
    BY <1>5
  <2>2. 1 \in 1..L + 1
    BY <1>1
  <2>3. ASSUME NEW m \in 1..L PROVE FirstOf[m + 1] = FirstOf[m] + MonthLengths[m]
    <3>1. m + 1 \in 1..L + 1 /\ m + 1 # 1 /\ (m + 1) - 1 = m
      BY <1>1
    <3> QED
      BY <2>1, <3>1
  <2> QED
    BY <2>1, <2>2, <2>3
<1> HIDE DEF Rule
<1>7. \A m \in 1..L + 1 : FirstOf[m] \in Nat
  <2> DEFINE bad == {m \in 1..L + 1 : FirstOf[m] \notin Nat}
  <2> SUFFICES ASSUME bad # {} PROVE FALSE
    OBVIOUS
  <2>1. bad \in SUBSET Nat
    OBVIOUS
  <2>2. PICK m \in bad : \A n \in bad : m <= n
    BY <2>1, LeastNat
  <2>3. m \in 1..L + 1 /\ m # 1
    BY <1>6
  <2>4. m - 1 \in 1..L /\ m - 1 \in 1..L + 1 /\ (m - 1) + 1 = m
    BY <1>1, <2>3
  <2>5. m - 1 \notin bad
    BY <2>2, <2>4
  <2>6. FirstOf[m - 1] \in Nat
    BY <2>4, <2>5
  <2>7. FirstOf[m] \in Nat
    BY <1>1, <1>6, <2>4, <2>6
  <2> QED
    BY <2>7
<1>8. ASSUME NEW m \in 1..L
      PROVE  \A n \in 1..L + 1 : m < n => FirstOf[m] + MonthLengths[m] <= FirstOf[n]
  <2> DEFINE bad == {n \in 1..L + 1 : m < n /\ ~(FirstOf[m] + MonthLengths[m] <= FirstOf[n])}
  <2> SUFFICES ASSUME bad # {} PROVE FALSE
    OBVIOUS
  <2>1. bad \in SUBSET Nat
    OBVIOUS
  <2>2. PICK n \in bad : \A k \in bad : n <= k
    BY <2>1, LeastNat
  <2>3. n \in 1..L + 1 /\ m < n /\ ~(FirstOf[m] + MonthLengths[m] <= FirstOf[n])
    BY <2>2
  <2>4. n - 1 \in 1..L /\ n - 1 \in 1..L + 1 /\ (n - 1) + 1 = n /\ n - 1 \notin bad
    BY <1>1, <2>2, <2>3
  <2>5. FirstOf[n] = FirstOf[n - 1] + MonthLengths[n - 1]
    BY <1>6, <2>4
  <2>6. /\ FirstOf[n - 1] \in Nat /\ FirstOf[n] \in Nat /\ MonthLengths[n - 1] \in Nat
        /\ MonthLengths[m] \in Nat /\ m \in 1..L + 1
    BY <1>1, <1>7, <2>3, <2>4
  <2>7. FirstOf[m] \in Nat
    BY <1>7, <2>6
  <2>8. CASE n - 1 = m
    BY <2>3, <2>5, <2>6, <2>7, <2>8
  <2>9. CASE n - 1 # m
    <3>1. m < n - 1
      BY <2>3, <2>4, <2>9
    <3>2. FirstOf[m] + MonthLengths[m] <= FirstOf[n - 1]
      BY <2>4, <3>1
    <3> QED
      BY <2>3, <2>5, <2>6, <2>7, <3>2
  <2> QED
    BY <2>8, <2>9
<1> QED
  BY <1>1, <1>6, <1>7, <1>8 DEF L

(* Every day of the calendar lies in one month. *)
LEMMA DaysLieInMonths ==
  ASSUME NEW d \in 0..LastDay
  PROVE  LET m == MonthOf(d)
         IN  /\ m \in 1..Len(MonthLengths) /\ m \in Nat
             /\ FirstOf[m] <= d /\ d < FirstOf[m] + MonthLengths[m]
             /\ DayOfMonth(d) \in 1..MonthLengths[m]
             /\ d = FirstOf[m] + DayOfMonth(d) - 1
<1> DEFINE L == Len(MonthLengths)
           after == {m \in 1..L + 1 : d < FirstOf[m]}
           m == MonthOf(d)
<1>1. /\ L \in Nat /\ \A n \in 1..L : MonthLengths[n] \in Nat \ {0}
      /\ FirstOf[1] = 0 /\ \A n \in 1..L + 1 : FirstOf[n] \in Nat
      /\ \A n \in 1..L : FirstOf[n + 1] = FirstOf[n] + MonthLengths[n]
  BY MonthsFollow
<1>2. L + 1 \in 1..L + 1 /\ LastDay = FirstOf[L + 1] - 1
  BY <1>1 DEF LastDay
<1> HIDE DEF L
<1>3. after # {} /\ after \in SUBSET Nat
  BY <1>1, <1>2
<1>4. PICK n \in after : \A k \in after : n <= k
  BY <1>3, LeastNat
<1>5. n \in 1..L + 1 /\ d < FirstOf[n] /\ n # 1
  BY <1>1, <1>4
<1>6. n - 1 \in 1..L /\ n - 1 \in 1..L + 1 /\ (n - 1) + 1 = n /\ n - 1 \notin after
  BY <1>1, <1>4, <1>5
<1>7. FirstOf[n - 1] <= d /\ d < FirstOf[(n - 1) + 1]
  BY <1>1, <1>5, <1>6
<1>8. m \in 1..L /\ FirstOf[m] <= d /\ d < FirstOf[m + 1]
  <2>1. m = CHOOSE k \in 1..L : FirstOf[k] <= d /\ d < FirstOf[k + 1]
    BY DEF MonthOf, L
  <2> HIDE DEF m
  <2> QED
    BY <1>6, <1>7, <2>1
<1>9. DayOfMonth(d) = d - FirstOf[m] + 1
  BY DEF DayOfMonth
<1> HIDE DEF m
<1>10. FirstOf[m] \in Nat /\ MonthLengths[m] \in Nat /\ FirstOf[m + 1] = FirstOf[m] + MonthLengths[m]
  <2>1. m \in 1..L + 1
    BY <1>1, <1>8
  <2> QED
    BY <1>1, <1>8, <2>1
<1>11. /\ m \in Nat /\ d < FirstOf[m] + MonthLengths[m]
       /\ DayOfMonth(d) \in 1..MonthLengths[m]
       /\ d = FirstOf[m] + DayOfMonth(d) - 1
  BY <1>1, <1>8, <1>9, <1>10
<1> QED
  BY <1>8, <1>11 DEF m, L

(* And in that one only. *)
LEMMA MonthIs ==
  ASSUME NEW n \in 1..Len(MonthLengths), NEW k \in 1..MonthLengths[n]
  PROVE  LET d == FirstOf[n] + k - 1
         IN  d \in 0..LastDay /\ MonthOf(d) = n /\ DayOfMonth(d) = k
<1> DEFINE L == Len(MonthLengths)
           d == FirstOf[n] + k - 1
           m == MonthOf(d)
<1>1. /\ L \in Nat /\ \A i \in 1..L : MonthLengths[i] \in Nat \ {0}
      /\ \A i \in 1..L + 1 : FirstOf[i] \in Nat
      /\ \A i \in 1..L, j \in 1..L + 1 : i < j => FirstOf[i] + MonthLengths[i] <= FirstOf[j]
  BY MonthsFollow
<1>2. n \in 1..L /\ n \in 1..L + 1 /\ L + 1 \in 1..L + 1 /\ n < L + 1 /\ LastDay = FirstOf[L + 1] - 1
  BY <1>1 DEF LastDay
<1> HIDE DEF L
<1>3. FirstOf[n] \in Nat /\ MonthLengths[n] \in Nat /\ FirstOf[L + 1] \in Nat /\ k \in Nat
  BY <1>1, <1>2
<1>4. FirstOf[n] + MonthLengths[n] <= FirstOf[L + 1]
  BY <1>1, <1>2
<1>5. d \in 0..LastDay /\ FirstOf[n] <= d /\ d < FirstOf[n] + MonthLengths[n]
  <2>1. 1 <= k /\ k <= MonthLengths[n]
    BY <1>3
  <2>2. d \in Nat /\ FirstOf[n] <= d /\ d < FirstOf[n] + MonthLengths[n]
    BY <1>3, <2>1
  <2> HIDE DEF d
  <2>3. d < FirstOf[L + 1] /\ LastDay \in Int
    BY <1>2, <1>3, <1>4, <2>2
  <2>4. d <= LastDay
    BY <1>2, <1>3, <2>2, <2>3
  <2> QED
    BY <2>2, <2>3, <2>4
<1> HIDE DEF d
<1>6. m \in 1..L /\ FirstOf[m] <= d /\ d < FirstOf[m] + MonthLengths[m]
  BY <1>5, DaysLieInMonths DEF L
<1> HIDE DEF m
<1>7. m \in 1..L + 1 /\ FirstOf[m] \in Nat /\ MonthLengths[m] \in Nat
  BY <1>1, <1>6
<1>8. ~(m < n) /\ ~(n < m)
  <2>1. m < n => FirstOf[m] + MonthLengths[m] <= FirstOf[n]
    BY <1>1, <1>2, <1>6
  <2>2. n < m => FirstOf[n] + MonthLengths[n] <= FirstOf[m]
    BY <1>1, <1>2, <1>7
  <2> QED
    BY <1>3, <1>5, <1>6, <1>7, <2>1, <2>2
<1>9. m = n
  BY <1>2, <1>7, <1>8
<1>10. DayOfMonth(d) = k
  <2>1. DayOfMonth(d) = d - FirstOf[m] + 1
    BY DEF DayOfMonth, m
  <2> QED
    BY <1>3, <1>9, <2>1 DEF d
<1> QED
  BY <1>5, <1>9, <1>10 DEF d, m

-----------------------------------------------------------------------------
(* What a rule may be. *)
LEMMA RulesAre ==
  ASSUME rule \in RRules
  PROVE  /\ rule.freq = "DAILY" \/ rule.freq = "WEEKLY" \/ rule.freq = "MONTHLY"
         /\ rule.interval = 1 \/ rule.interval = 2
         /\ rule.start \in Nat /\ rule.count \in Nat /\ rule.until \in Nat
<1>1. rule.freq = "DAILY" \/ rule.freq = "WEEKLY" \/ rule.freq = "MONTHLY"
  BY DEF RRules, Frequencies
<1>2. (rule.interval = 1 \/ rule.interval = 2) /\ rule.start \in Starts
  BY DEF RRules
<1>3. rule.count \in {0, 2} /\ rule.until \in {0, WindowOpens + 1}
  BY DEF RRules
<1>4. Starts \subseteq Nat /\ WindowOpens + 1 \in Nat
  BY CalendarAssumption
<1>5. rule.count = 0 \/ rule.count = 2
  BY <1>3
<1>6. rule.until = 0 \/ rule.until = WindowOpens + 1
  BY <1>3
<1>7. rule.until \in Nat
  BY <1>4, <1>6
<1>8. rule.start \in Nat
  BY <1>2, <1>4
<1>9. rule.count \in Nat
  BY <1>5
<1> QED
  BY <1>1, <1>2, <1>7, <1>8, <1>9

LEMMA LastDayIsInt == LastDay \in Int
<1> DEFINE L == Len(MonthLengths)
<1>1. L \in Nat /\ \A m \in 1..L + 1 : FirstOf[m] \in Nat
  BY MonthsFollow
<1>2. LastDay = FirstOf[L + 1] - 1
  BY DEF LastDay
<1> HIDE DEF L
<1>3. L + 1 \in 1..L + 1
  BY <1>1
<1>4. FirstOf[L + 1] \in Nat
  BY <1>1, <1>3
<1> QED
  BY <1>2, <1>4

(* A month later is later, though the day of the month be cut to fit. *)
LEMMA MonthsGoOn ==
  ASSUME NEW d \in 0..LastDay, NEW i \in 1..2
  PROVE  /\ SameDayOf(d, i) \in Nat /\ d < SameDayOf(d, i)
         /\ MonthOf(d) + i > Len(MonthLengths) => SameDayOf(d, i) = LastDay + 1
         /\ MonthOf(d) + i <= Len(MonthLengths) /\ DayOfMonth(d) <= MonthLengths[MonthOf(d) + i] =>
                /\ SameDayOf(d, i) \in 0..LastDay
                /\ MonthOf(SameDayOf(d, i)) = MonthOf(d) + i
                /\ DayOfMonth(SameDayOf(d, i)) = DayOfMonth(d)
<1> DEFINE L == Len(MonthLengths)
           m == MonthOf(d)
           k == DayOfMonth(d)
           s == SameDayOf(d, i)
           cut == IF k > MonthLengths[m + i] THEN MonthLengths[m + i] ELSE k
<1>1. /\ L \in Nat /\ \A n \in 1..L : MonthLengths[n] \in Nat \ {0}
      /\ \A n \in 1..L + 1 : FirstOf[n] \in Nat
      /\ \A n \in 1..L, j \in 1..L + 1 : n < j => FirstOf[n] + MonthLengths[n] <= FirstOf[j]
  BY MonthsFollow
<1>2. /\ m \in 1..L /\ m \in Nat /\ FirstOf[m] <= d /\ d < FirstOf[m] + MonthLengths[m]
      /\ k \in 1..MonthLengths[m]
  BY DaysLieInMonths
<1>3. s = IF m + i > L THEN LastDay + 1 ELSE FirstOf[m + i] + cut - 1
  BY DEF SameDayOf
<1>4. LastDay \in Int
  BY LastDayIsInt
<1>5. \A n \in 1..L : \A j \in 1..MonthLengths[n] :
         /\ FirstOf[n] + j - 1 \in 0..LastDay
         /\ MonthOf(FirstOf[n] + j - 1) = n /\ DayOfMonth(FirstOf[n] + j - 1) = j
  BY MonthIs
<1> HIDE DEF L, m, k, s
<1>6. CASE m + i > L
  BY <1>1, <1>2, <1>3, <1>4, <1>6 DEF L, m, k, s
<1>7. CASE m + i <= L
  <2>1. m + i \in 1..L /\ m + i \in 1..L + 1 /\ m < m + i
    BY <1>1, <1>2, <1>7
  <2>2. FirstOf[m] + MonthLengths[m] <= FirstOf[m + i] /\ FirstOf[m + i] \in Nat /\ FirstOf[m] \in Nat
    <3>1. m \in 1..L + 1
      BY <1>1, <1>2
    <3> QED
      BY <1>1, <1>2, <2>1, <3>1
  <2>3. MonthLengths[m] \in Nat \ {0} /\ MonthLengths[m + i] \in Nat \ {0} /\ k \in Nat \ {0}
    BY <1>1, <1>2, <2>1
  <2>4. cut \in 1..MonthLengths[m + i] /\ (k <= MonthLengths[m + i] => cut = k)
    BY <2>3
  <2> HIDE DEF cut
  <2>5. s = FirstOf[m + i] + cut - 1
    BY <1>1, <1>2, <1>3, <1>7
  <2>6. s \in 0..LastDay /\ MonthOf(s) = m + i /\ DayOfMonth(s) = cut
    BY <1>5, <2>1, <2>4, <2>5
  <2>7. s \in Nat /\ d < s
    BY <1>2, <2>2, <2>3, <2>4, <2>5
  <2>8. ~(m + i > L)
    BY <1>1, <1>2, <1>7
  <2> QED
    BY <2>4, <2>6, <2>7, <2>8 DEF L, m, k, s
<1> QED
  BY <1>1, <1>2, <1>6, <1>7

(* The walk only goes forward. *)
LEMMA WalkGoesOn ==
  ASSUME rule \in RRules, NEW c \in 0..LastDay
  PROVE  Advanced(c) \in Nat /\ c < Advanced(c)
<1>1. c \in Nat /\ rule.interval \in 1..2
  BY RulesAre, LastDayIsInt
<1>2. CASE rule.freq = "MONTHLY"
  <2>1. Advanced(c) = SameDayOf(c, rule.interval)
    BY <1>2 DEF Advanced
  <2> DEFINE i == rule.interval
  <2>2. i \in 1..2
    BY <1>1
  <2> HIDE DEF i
  <2>3. SameDayOf(c, i) \in Nat /\ c < SameDayOf(c, i)
    BY <2>2, MonthsGoOn
  <2> QED
    BY <2>1, <2>3 DEF i
<1>3. CASE rule.freq = "DAILY"
  BY <1>1, <1>3 DEF Advanced
<1>4. CASE rule.freq = "WEEKLY"
  BY <1>1, <1>4 DEF Advanced
<1> QED
  BY <1>2, <1>3, <1>4, RulesAre

(* The days the walk of a plain rule comes to. *)
OnTrack(c) ==
    /\ rule.start <= c
    /\ rule.freq = "DAILY" => (c - rule.start) % rule.interval = 0
    /\ rule.freq = "WEEKLY" /\ rule.byDay = {} =>
          DayOfWeek(c) = DayOfWeek(rule.start) /\ (WeekOf(c) - WeekOf(rule.start)) % rule.interval = 0
    /\ rule.freq = "MONTHLY" /\ c <= LastDay =>
          /\ DayOfMonth(c) = DayOfMonth(rule.start)
          /\ (MonthOf(c) - MonthOf(rule.start)) % rule.interval = 0

(* From such a day it comes to another, and passes over no day of the rule. *)
PassesOver(c) ==
    /\ OnTrack(Advanced(c))
    /\ c \in Recurring <=> Matches(c)
    /\ \A d \in Recurring : c < d => Advanced(c) <= d

LEMMA DaysArePassed ==
  ASSUME rule \in RRules, NEW c \in 0..LastDay, OnTrack(c), rule.freq = "DAILY"
  PROVE  PassesOver(c)
<1> DEFINE s == rule.start
           i == rule.interval
<1>1. s \in Nat /\ (i = 1 \/ i = 2) /\ c \in Nat /\ LastDay \in Int /\ c <= LastDay
  BY RulesAre, LastDayIsInt
<1>2. s <= c /\ (c - s) % i = 0
  BY DEF OnTrack
<1>3. \A d : d \in Recurring <=> d \in s..LastDay /\ (d - s) % i = 0 /\ Matches(d)
  BY DEF Recurring
<1>4. Advanced(c) = c + i
  BY DEF Advanced
<1>5. \A n : OnTrack(n) <=> s <= n /\ (n - s) % i = 0
  BY DEF OnTrack
<1> HIDE DEF s, i
<1>6. s <= c + i /\ ((c + i) - s) % i = 0
  BY <1>1, <1>2
<1>7. c \in Recurring <=> Matches(c)
  BY <1>1, <1>2, <1>3
<1>8. ASSUME NEW d \in Recurring, c < d PROVE c + i <= d
  <2>1. d \in s..LastDay /\ (d - s) % i = 0
    BY <1>3
  <2> QED
    BY <1>1, <1>2, <1>8, <2>1
<1>9. OnTrack(c + i)
  BY <1>5, <1>6
<1> QED
  BY <1>4, <1>7, <1>8, <1>9 DEF PassesOver

LEMMA WeeksArePassed ==
  ASSUME rule \in RRules, Plain, NEW c \in 0..LastDay, OnTrack(c), rule.freq = "WEEKLY"
  PROVE  PassesOver(c)
<1> DEFINE s == rule.start
           i == rule.interval
<1>1. s \in Nat /\ (i = 1 \/ i = 2) /\ c \in Nat /\ LastDay \in Int /\ c <= LastDay /\ s <= c
  BY RulesAre, LastDayIsInt DEF OnTrack
<1>2. \A d : d \in Recurring <=>
          /\ d \in s..LastDay /\ (d \div 7 - s \div 7) % i = 0
          /\ IF rule.byDay = {} THEN d % 7 = s % 7 ELSE Matches(d)
  BY DEF Recurring, WeekOf, DayOfWeek
<1>3. CASE rule.byDay # {}
  <2>1. i = 1 /\ Advanced(c) = c + 1
    BY <1>3 DEF Plain, Advanced
  <2>2. OnTrack(Advanced(c)) <=> s <= c + 1
    BY <1>3, <2>1 DEF OnTrack
  <2>3. \A d : d \in Recurring <=> d \in s..LastDay /\ (d \div 7 - s \div 7) % i = 0 /\ Matches(d)
    BY <1>2, <1>3
  <2> HIDE DEF s, i
  <2>4. (c \div 7 - s \div 7) % i = 0
    BY <1>1, <2>1
  <2>5. c \in Recurring <=> Matches(c)
    BY <1>1, <2>3, <2>4
  <2>6. \A d \in Recurring : c < d => c + 1 <= d
    BY <1>1, <2>3
  <2> QED
    BY <1>1, <2>1, <2>2, <2>5, <2>6 DEF PassesOver
<1>4. CASE rule.byDay = {}
  <2>1. Advanced(c) = c + 7 * i /\ Matches(c)
    BY <1>4 DEF Advanced, Matches
  <2>2. c % 7 = s % 7 /\ (c \div 7 - s \div 7) % i = 0
    BY <1>4 DEF OnTrack, WeekOf, DayOfWeek
  <2>3. OnTrack(Advanced(c)) <=>
          s <= c + 7 * i /\ (c + 7 * i) % 7 = s % 7 /\ ((c + 7 * i) \div 7 - s \div 7) % i = 0
    BY <1>4, <2>1 DEF OnTrack, WeekOf, DayOfWeek
  <2>4. \A d : d \in Recurring <=> d \in s..LastDay /\ (d \div 7 - s \div 7) % i = 0 /\ d % 7 = s % 7
    BY <1>2, <1>4
  <2> HIDE DEF s, i
  <2>5. s <= c + 7 * i /\ (c + 7 * i) % 7 = s % 7 /\ ((c + 7 * i) \div 7 - s \div 7) % i = 0
    BY <1>1, <2>2
  <2>6. c \in Recurring
    <3>1. c \in s..LastDay
      BY <1>1
    <3> QED
      BY <2>2, <2>4, <3>1
  <2>7. ASSUME NEW d \in Recurring, c < d PROVE c + 7 * i <= d
    <3>1. d \in s..LastDay /\ (d \div 7 - s \div 7) % i = 0 /\ d % 7 = s % 7
      BY <2>4
    <3> QED
      BY <1>1, <2>2, <2>7, <3>1
  <2> QED
    BY <2>1, <2>3, <2>5, <2>6, <2>7 DEF PassesOver
<1> QED
  BY <1>3, <1>4

LEMMA MonthsArePassed ==
  ASSUME rule \in RRules, Plain, NEW c \in 0..LastDay, OnTrack(c), rule.freq = "MONTHLY"
  PROVE  PassesOver(c)
<1> DEFINE L == Len(MonthLengths)
           s == rule.start
           i == rule.interval
           m == MonthOf(c)
           k == DayOfMonth(c)
           next == SameDayOf(c, i)
<1>1. /\ s \in Nat /\ (i = 1 \/ i = 2) /\ i \in 1..2 /\ c \in Nat /\ LastDay \in Int
      /\ c <= LastDay /\ s <= c /\ s \in 0..LastDay
  BY RulesAre, LastDayIsInt DEF OnTrack
<1>2. \A d : d \in Recurring <=>
          /\ d \in s..LastDay /\ DayOfMonth(d) = DayOfMonth(s) /\ (MonthOf(d) - MonthOf(s)) % i = 0
  BY DEF Recurring, Plain
<1>3. Advanced(c) = next /\ Matches(c) /\ \A n \in 1..L : DayOfMonth(s) <= MonthLengths[n]
  BY DEF Advanced, Matches, Plain
<1>4. k = DayOfMonth(s) /\ (m - MonthOf(s)) % i = 0
  BY <1>1 DEF OnTrack
<1>5. MonthOf(s) \in 1..L /\ m \in 1..L /\ m \in Nat /\ L \in Nat
  BY <1>1, DaysLieInMonths, MonthsFollow
<1>6. /\ next \in Nat /\ c < next
      /\ m + i > L => next = LastDay + 1
      /\ m + i <= L /\ k <= MonthLengths[m + i] => next \in 0..LastDay /\ MonthOf(next) = m + i /\ DayOfMonth(next) = k
  BY <1>1, MonthsGoOn
<1>7. OnTrack(next) <=>
        s <= next /\ (next <= LastDay => DayOfMonth(next) = DayOfMonth(s) /\ (MonthOf(next) - MonthOf(s)) % i = 0)
  BY DEF OnTrack
<1>8. \A d \in 0..LastDay : MonthOf(d) \in 1..L /\ d = FirstOf[MonthOf(d)] + DayOfMonth(d) - 1
  BY DaysLieInMonths
<1>9. /\ \A n \in 1..L + 1 : FirstOf[n] \in Nat
      /\ \A n \in 1..L : MonthLengths[n] \in Nat \ {0}
      /\ \A n \in 1..L, j \in 1..L + 1 : n < j => FirstOf[n] + MonthLengths[n] <= FirstOf[j]
  BY MonthsFollow
<1> HIDE DEF L, s, i, m, k, next
<1>10. \A n, j \in 1..L : n < j => FirstOf[n] < FirstOf[j]
  <2> SUFFICES ASSUME NEW n \in 1..L, NEW j \in 1..L, n < j PROVE FirstOf[n] < FirstOf[j]
    OBVIOUS
  <2>1. n \in 1..L + 1 /\ j \in 1..L + 1
    BY <1>5
  <2>2. FirstOf[n] \in Nat /\ FirstOf[j] \in Nat /\ MonthLengths[n] \in Nat \ {0}
    BY <1>9, <2>1
  <2>3. FirstOf[n] + MonthLengths[n] <= FirstOf[j]
    BY <1>9, <2>1
  <2> QED
    BY <2>2, <2>3
<1>11. k \in Int /\ \A n \in 1..L : FirstOf[n] \in Nat
  <2>1. \A n \in 1..L : n \in 1..L + 1
    BY <1>5
  <2>2. k \in 1..MonthLengths[m]
    BY DaysLieInMonths DEF k, m
  <2> QED
    BY <1>9, <2>1, <2>2
<1>12. OnTrack(next)
  <2>1. CASE m + i > L
    BY <1>1, <1>6, <1>7, <2>1
  <2>2. CASE m + i <= L
    <3>1. m + i \in 1..L
      BY <1>1, <1>5, <2>2
    <3>2. MonthOf(next) = m + i /\ DayOfMonth(next) = k
      BY <1>3, <1>4, <1>6, <2>2, <3>1
    <3> DEFINE x == MonthOf(s)
    <3>3. x \in Int /\ (m - x) % i = 0
      BY <1>4, <1>5
    <3> HIDE DEF x
    <3>6. ((m + i) - x) % i = 0
      BY <1>1, <1>5, <3>3
    <3>4. s <= next
      BY <1>1, <1>6
    <3>5. DayOfMonth(next) = DayOfMonth(s) /\ (MonthOf(next) - MonthOf(s)) % i = 0
      BY <1>4, <3>2, <3>6 DEF x
    <3> QED
      BY <1>7, <3>4, <3>5
  <2> QED
    BY <1>1, <1>5, <2>1, <2>2
<1>13. c \in Recurring
  BY <1>1, <1>2, <1>4 DEF k, m
<1>14. ASSUME NEW d \in Recurring, c < d PROVE next <= d
  <2>1. d \in s..LastDay /\ DayOfMonth(d) = k /\ (MonthOf(d) - MonthOf(s)) % i = 0
    BY <1>2, <1>4
  <2>2. d \in 0..LastDay /\ d \in Nat
    BY <1>1, <2>1
  <2> DEFINE n == MonthOf(d)
  <2>3. n \in 1..L /\ d = FirstOf[n] + k - 1 /\ c = FirstOf[m] + k - 1 /\ (n - MonthOf(s)) % i = 0
    BY <1>8, <2>1, <2>2 DEF m, k
  <2> HIDE DEF n
  <2>4. ~(n < m) /\ n # m
    <3>1. FirstOf[n] \in Nat /\ FirstOf[m] \in Nat
      BY <1>5, <1>11, <2>3
    <3>2. n < m => FirstOf[n] < FirstOf[m]
      BY <1>5, <1>10, <2>3
    <3> QED
      BY <1>11, <1>14, <2>3, <3>1, <3>2
  <2>5. m + i <= n
    BY <1>1, <1>4, <1>5, <2>3, <2>4
  <2>6. m + i \in 1..L
    BY <1>1, <1>5, <2>3, <2>5
  <2>7. next \in 0..LastDay /\ MonthOf(next) = m + i /\ DayOfMonth(next) = k
    <3>1. m + i <= L
      BY <1>1, <1>5, <2>6
    <3> QED
      BY <1>3, <1>4, <1>6, <2>6, <3>1
  <2>8. next = FirstOf[m + i] + k - 1
    BY <1>8, <2>7
  <2>9. FirstOf[m + i] <= FirstOf[n]
    <3>1. CASE m + i = n
      BY <1>11, <2>3, <3>1
    <3>2. CASE m + i < n
      BY <1>10, <1>11, <2>3, <2>6, <3>2
    <3> QED
      BY <1>1, <1>5, <2>3, <2>5, <3>1, <3>2
  <2> QED
    BY <1>11, <2>3, <2>6, <2>8, <2>9
<1> QED
  BY <1>3, <1>12, <1>13, <1>14 DEF PassesOver

LEMMA NothingIsPassedOver ==
  ASSUME rule \in RRules, Plain, NEW c \in 0..LastDay, OnTrack(c)
  PROVE  PassesOver(c)
BY RulesAre, DaysArePassed, WeeksArePassed, MonthsArePassed

-----------------------------------------------------------------------------
(* What the walk has made of a plain rule by the day it has come to: it    *)
(* has counted the days of the rule before it, and produced those of them  *)
(* that count and fall in the window.                                      *)

WalkIsFaithful ==
    /\ rule.start + turn <= cursor
    /\ OnTrack(cursor)
    /\ emitted = Cardinality(Recurring \intersect 0..cursor - 1)
    /\ instances = {d \in Occurrences : d < cursor /\ InWindow(d)}

CalendarInv == CalendarTypes /\ (Plain => WalkIsFaithful)

(* The days of a rule. *)
LEMMA DaysOfARule ==
  ASSUME rule \in RRules
  PROVE  /\ Recurring \subseteq 0..LastDay /\ Recurring \subseteq rule.start..LastDay
         /\ Occurrences \subseteq Recurring /\ Recurring \in SUBSET Nat
         /\ \A d \in Int : /\ IsFiniteSet(Recurring \intersect 0..d)
                           /\ Cardinality(Recurring \intersect 0..d) \in Nat
<1>1. Recurring \subseteq rule.start..LastDay /\ Occurrences \subseteq Recurring
  BY DEF Recurring, Occurrences
<1>2. Recurring \subseteq 0..LastDay /\ Recurring \in SUBSET Nat
  BY <1>1, RulesAre, LastDayIsInt
<1>3. ASSUME NEW d \in Int
      PROVE  IsFiniteSet(Recurring \intersect 0..d) /\ Cardinality(Recurring \intersect 0..d) \in Nat
  <2>1. IsFiniteSet(0..d)
    BY FS_Interval
  <2> QED
    BY <2>1, FS_Subset, FS_CardinalityType
<1> QED
  BY <1>1, <1>2, <1>3

LEMMA CalendarInitInv == CalendarInit => CalendarInv
<1> SUFFICES ASSUME CalendarInit PROVE CalendarInv
  OBVIOUS
<1>1. rule \in RRules /\ cursor = rule.start /\ turn = 0 /\ emitted = 0 /\ instances = {}
  BY DEF CalendarInit
<1>2. rule.start \in Nat /\ Turns \in Nat
  BY <1>1, RulesAre, CalendarAssumption
<1>3. CalendarTypes
  BY <1>1, <1>2 DEF CalendarTypes
<1>4. ASSUME Plain PROVE OnTrack(cursor)
  <2> DEFINE s == rule.start
  <2>1. \A x \in Int : (x - x) % 1 = 0 /\ (x - x) % 2 = 0
    OBVIOUS
  <2>2. s \in Int /\ WeekOf(s) \in Int
    BY <1>2 DEF WeekOf
  <2>3. s <= LastDay => MonthOf(s) \in Int
    BY <1>2, LastDayIsInt, DaysLieInMonths
  <2>4. rule.interval = 1 \/ rule.interval = 2
    BY <1>1, RulesAre
  <2> QED
    BY <1>1, <1>2, <2>1, <2>2, <2>3, <2>4 DEF OnTrack
<1>5. Recurring \intersect 0..cursor - 1 = {}
  BY <1>1, <1>2, LastDayIsInt, DaysOfARule
<1>6. emitted = Cardinality(Recurring \intersect 0..cursor - 1)
  BY <1>1, <1>5, FS_EmptySet
<1>7. {d \in Occurrences : d < cursor /\ InWindow(d)} = {}
  <2>1. \A d \in Occurrences : d \in rule.start..LastDay
    BY <1>1, DaysOfARule
  <2> QED
    BY <1>1, <1>2, <2>1, LastDayIsInt
<1>8. rule.start + turn <= cursor
  BY <1>1, <1>2
<1> QED
  BY <1>1, <1>3, <1>4, <1>6, <1>7, <1>8 DEF CalendarInv, WalkIsFaithful

(* The meaning of a rule is of the rule alone. *)
LEMMA RuleStays ==
  ASSUME UNCHANGED rule
  PROVE  /\ Plain' <=> Plain
         /\ Recurring' = Recurring /\ Occurrences' = Occurrences
         /\ \A d : InWindow(d)' <=> InWindow(d)
         /\ \A d : OnTrack(d)' <=> OnTrack(d)
<1>1. Plain' <=> Plain
  BY DEF Plain
<1>2. Recurring' = Recurring
  BY DEF Recurring, Matches
<1>3. Occurrences' = Occurrences
  BY <1>2 DEF Occurrences
<1>4. \A d : InWindow(d)' <=> InWindow(d)
  BY DEF InWindow, BeginsAt, EndsAt
<1>5. \A d : OnTrack(d)' <=> OnTrack(d)
  BY DEF OnTrack
<1> QED
  BY <1>1, <1>2, <1>3, <1>4, <1>5

(* A day the walk considers is an occurrence if it matches. *)
LEMMA ConsideredIsDue ==
  ASSUME CalendarInv, Plain, ~Walked, cursor \in 0..LastDay
  PROVE  /\ cursor \in Recurring <=> Matches(cursor)
         /\ cursor \in Occurrences <=> Matches(cursor)
         /\ Matches(cursor) =>
              Cardinality(Recurring \intersect 0..cursor) = Cardinality(Recurring \intersect 0..cursor - 1) + 1
<1> DEFINE c == cursor
           before == Recurring \intersect 0..c - 1
<1>1. rule \in RRules /\ c \in Nat /\ OnTrack(c) /\ emitted = Cardinality(before)
  BY DEF CalendarInv, CalendarTypes, WalkIsFaithful
<1>2. c \in Recurring <=> Matches(c)
  BY <1>1, NothingIsPassedOver DEF PassesOver
<1>3. IsFiniteSet(before) /\ Cardinality(before) \in Nat
  <2>1. c - 1 \in Int
    BY <1>1
  <2> QED
    BY <1>1, <2>1, DaysOfARule
<1>4. ASSUME Matches(c) PROVE Cardinality(Recurring \intersect 0..c) = Cardinality(before) + 1
  <2>1. Recurring \intersect 0..c = before \union {c} /\ c \notin before
    BY <1>1, <1>2, <1>4, DaysOfARule
  <2> HIDE DEF before, c
  <2> QED
    BY <1>3, <2>1, FS_AddElement
<1>5. ASSUME Matches(c) PROVE c \in Occurrences
  <2>1. rule.until # 0 => c <= rule.until
    BY <1>1, RulesAre DEF Walked
  <2>2. rule.count # 0 => Cardinality(Recurring \intersect 0..c) <= rule.count
    <3>1. rule.count # 0 => emitted < rule.count
      BY <1>1, <1>3, RulesAre DEF Walked
    <3> HIDE DEF before, c
    <3> QED
      BY <1>1, <1>3, <1>4, <1>5, <3>1, RulesAre
  <2> QED
    BY <1>2, <1>5, <2>1, <2>2 DEF Occurrences
<1> QED
  BY <1>1, <1>2, <1>4, <1>5, DaysOfARule

LEMMA ConsiderInv == ASSUME CalendarInv, Consider PROVE CalendarInv'
<1> DEFINE c == cursor
           n == Advanced(cursor)
<1>1. /\ ~Walked /\ c <= LastDay /\ turn' = turn + 1 /\ cursor' = n /\ UNCHANGED rule
      /\ emitted' = IF Matches(c) THEN emitted + 1 ELSE emitted
      /\ instances' = IF Matches(c) /\ InWindow(c) THEN instances \union {c} ELSE instances
  BY DEF Consider
<1>2. /\ rule \in RRules /\ c \in 0..LastDay /\ turn \in 0..Turns /\ emitted \in Nat
      /\ c \in Nat /\ instances \subseteq 0..LastDay /\ Turns \in Nat
  BY <1>1, LastDayIsInt, CalendarAssumption DEF CalendarInv, CalendarTypes
<1>3. n \in Nat /\ c < n
  BY <1>2, WalkGoesOn
<1> HIDE DEF n
<1>4. CalendarTypes'
  <2>1. turn + 1 \in 0..Turns
    BY <1>1, <1>2 DEF Walked
  <2> QED
    BY <1>1, <1>2, <1>3, <2>1 DEF CalendarTypes
<1>5. ASSUME Plain PROVE WalkIsFaithful'
  <2>1. /\ rule.start + turn <= c /\ OnTrack(c)
        /\ emitted = Cardinality(Recurring \intersect 0..c - 1)
        /\ instances = {d \in Occurrences : d < c /\ InWindow(d)}
    BY <1>5 DEF CalendarInv, WalkIsFaithful
  <2>2. OnTrack(n) /\ \A d \in Recurring : c < d => n <= d
    BY <1>2, <1>5, <2>1, NothingIsPassedOver DEF PassesOver, n
  <2>3. /\ c \in Recurring <=> Matches(c)
        /\ c \in Occurrences <=> Matches(c)
        /\ Matches(c) =>
             Cardinality(Recurring \intersect 0..c) = Cardinality(Recurring \intersect 0..c - 1) + 1
    BY <1>1, <1>2, <1>5, ConsideredIsDue
  <2>4. Recurring \in SUBSET Nat /\ Occurrences \subseteq Recurring
    BY <1>2, DaysOfARule
  <2> HIDE DEF c
  <2>5. \A d \in Recurring : d < n <=> d < c \/ d = c
    BY <1>2, <1>3, <2>2, <2>4
  <2>6. emitted' = Cardinality(Recurring \intersect 0..n - 1)
    <3>1. CASE Matches(c)
      <4>1. Recurring \intersect 0..n - 1 = Recurring \intersect 0..c
        BY <1>2, <1>3, <2>4, <2>5
      <4> QED
        BY <1>1, <2>1, <2>3, <3>1, <4>1
    <3>2. CASE ~Matches(c)
      <4>1. Recurring \intersect 0..n - 1 = Recurring \intersect 0..c - 1
        BY <1>2, <1>3, <2>3, <2>4, <2>5, <3>2
      <4> QED
        BY <1>1, <2>1, <3>2, <4>1
    <3> QED
      BY <3>1, <3>2
  <2>7. instances' = {d \in Occurrences : d < n /\ InWindow(d)}
    <3>1. CASE Matches(c) /\ InWindow(c)
      BY <1>1, <2>1, <2>3, <2>4, <2>5, <3>1
    <3>2. CASE ~(Matches(c) /\ InWindow(c))
      BY <1>1, <2>1, <2>3, <2>4, <2>5, <3>2
    <3> QED
      BY <3>1, <3>2
  <2>8. rule.start + (turn + 1) <= n
    BY <1>2, <1>3, <2>1, RulesAre
  <2>9. /\ Recurring' = Recurring /\ Occurrences' = Occurrences
        /\ \A d : InWindow(d)' <=> InWindow(d)
        /\ OnTrack(cursor)'
    <3>1. OnTrack(cursor)'
      BY <1>1, <2>2 DEF OnTrack
    <3> QED
      BY <1>1, <3>1, RuleStays
  <2>10. instances' = {d \in Occurrences' : d < cursor' /\ InWindow(d)'}
    BY <1>1, <2>7, <2>9
  <2> QED
    BY <1>1, <2>6, <2>8, <2>9, <2>10 DEF WalkIsFaithful
<1> QED
  BY <1>1, <1>4, <1>5, RuleStays DEF CalendarInv

(* In every state the walk of a plain rule has produced what the rule has  *)
(* up to there: the facts CalendarKept rests on.                           *)
THEOREM CalendarInductive == CalendarSpec => []CalendarInv
<1>1. CalendarInv /\ [CalendarNext]_calendarVars => CalendarInv'
  <2> SUFFICES ASSUME CalendarInv, [CalendarNext]_calendarVars PROVE CalendarInv'
    OBVIOUS
  <2>1. CASE UNCHANGED calendarVars
    <3>1. UNCHANGED <<rule, cursor, turn, emitted, instances>>
      BY <2>1 DEF calendarVars
    <3>2. CalendarTypes'
      BY <3>1 DEF CalendarInv, CalendarTypes
    <3>3. WalkIsFaithful => WalkIsFaithful'
      <4> SUFFICES ASSUME WalkIsFaithful PROVE WalkIsFaithful'
        OBVIOUS
      <4>1. OnTrack(cursor)'
        BY <3>1 DEF WalkIsFaithful, OnTrack
      <4>2. instances' = {d \in Occurrences' : d < cursor' /\ InWindow(d)'}
        BY <3>1, RuleStays DEF WalkIsFaithful
      <4> QED
        BY <3>1, <4>1, <4>2, RuleStays DEF WalkIsFaithful
    <3> QED
      BY <3>1, <3>2, <3>3, RuleStays DEF CalendarInv
  <2>2. CASE Consider
    BY <2>2, ConsiderInv
  <2> QED
    BY <2>1, <2>2 DEF CalendarNext
<1> QED
  BY <1>1, CalendarInitInv, PTL DEF CalendarSpec

(* CalendarTypes holds of every walk, plain or not. *)
THEOREM CalendarTypesHold == CalendarSpec => []CalendarTypes
<1>1. CalendarInv => CalendarTypes
  BY DEF CalendarInv
<1> QED
  BY <1>1, CalendarInductive, PTL

(* Whatever ended the walk, every occurrence in the window lies behind it. *)
LEMMA DueIsBehind ==
  ASSUME CalendarInv, Plain, Walked, NEW d \in Occurrences, d < WindowCloses
  PROVE  d < cursor
<1>1. /\ rule \in RRules /\ cursor \in Nat /\ turn \in 0..Turns /\ emitted \in Nat /\ Turns \in Nat
      /\ rule.start + turn <= cursor
      /\ emitted = Cardinality(Recurring \intersect 0..cursor - 1)
  BY CalendarAssumption DEF CalendarInv, CalendarTypes, WalkIsFaithful
<1>2. d \in Recurring /\ d \in Nat /\ WindowCloses \in Nat /\ rule.start \in Nat
  BY <1>1, DaysOfARule, RulesAre, CalendarAssumption
<1>3. (rule.until # 0 => d <= rule.until) /\ (rule.count # 0 => Cardinality(Recurring \intersect 0..d) <= rule.count)
  BY DEF Occurrences
<1>4. CASE turn = Turns
  BY <1>1, <1>2, <1>4 DEF Plain
<1>5. CASE cursor > WindowCloses
  BY <1>1, <1>2, <1>5
<1>6. CASE rule.until # 0 /\ cursor > rule.until
  BY <1>1, <1>2, <1>3, <1>6, RulesAre
<1>7. CASE rule.count # 0 /\ emitted >= rule.count
  <2> SUFFICES ASSUME ~(d < cursor) PROVE FALSE
    OBVIOUS
  <2> DEFINE before == Recurring \intersect 0..cursor - 1
             upTo == Recurring \intersect 0..d
  <2>1. before \subseteq upTo /\ d \in upTo /\ d \notin before
    BY <1>1, <1>2
  <2>2. IsFiniteSet(upTo) /\ Cardinality(upTo) \in Nat
    BY <1>1, <1>2, DaysOfARule
  <2> HIDE DEF before, upTo
  <2>3. Cardinality(before) <= Cardinality(upTo) /\ (Cardinality(before) = Cardinality(upTo) => before = upTo)
    BY <2>1, <2>2, FS_Subset
  <2>4. Cardinality(before) < Cardinality(upTo)
    BY <1>1, <2>1, <2>2, <2>3 DEF before
  <2>5. Cardinality(upTo) <= rule.count /\ rule.count <= Cardinality(before) /\ rule.count \in Nat
    BY <1>1, <1>3, <1>7, RulesAre DEF before, upTo
  <2> QED
    BY <1>1, <2>2, <2>4, <2>5 DEF before
<1> QED
  BY <1>4, <1>5, <1>6, <1>7 DEF Walked

(* Hours of the day. *)
LEMMA HoursOf ==
  ASSUME rule \in RRules, NEW e \in Nat
  PROVE  /\ BeginsAt(e) \in Nat /\ EndsAt(e) \in Nat /\ TrueEnd(e) \in Nat
         /\ 48 * e <= BeginsAt(e) /\ TrueEnd(e) <= EndsAt(e)
         /\ ~rule.allDay => TrueEnd(e) = EndsAt(e)
<1>1. From \in Nat /\ To \in Nat
  BY CalendarAssumption
<1>2. CASE rule.allDay
  BY <1>1, <1>2 DEF BeginsAt, EndsAt, TrueEnd
<1>3. CASE ~rule.allDay
  BY <1>1, <1>3 DEF BeginsAt, EndsAt, TrueEnd
<1> QED
  BY <1>2, <1>3

(* _expand_rule and free_slots, for any calendar of months, any window and *)
(* any number of rounds that reaches over it: a plain rule's occurrences   *)
(* in the window are all shown, and no slot is offered that one of them    *)
(* takes.                                                                  *)
THEOREM CalendarKeptHolds == CalendarSpec => []CalendarKept
<1>1. CalendarInv => CalendarKept
  <2> SUFFICES ASSUME CalendarInv, Walked, Plain
               PROVE  LET days == WindowOpens..WindowCloses - 1
                      IN  /\ Due \subseteq instances
                          /\ \A d \in days : FreeSlots(d) \subseteq TrulyFree(d)
                          /\ ~rule.allDay => instances = Due /\ \A d \in days : FreeSlots(d) = TrulyFree(d)
    BY DEF CalendarKept
  <2>1. /\ rule \in RRules /\ instances = {d \in Occurrences : d < cursor /\ InWindow(d)}
        /\ Occurrences \in SUBSET Nat
    BY DaysOfARule DEF CalendarInv, CalendarTypes, WalkIsFaithful
  <2>2. WindowOpens \in Nat /\ WindowCloses \in Nat
    BY CalendarAssumption
  <2>3. \A e \in Occurrences : BeginsAt(e) < 48 * WindowCloses => e < cursor
    <3> SUFFICES ASSUME NEW e \in Occurrences, BeginsAt(e) < 48 * WindowCloses PROVE e < cursor
      OBVIOUS
    <3>1. e \in Nat /\ BeginsAt(e) \in Nat /\ 48 * e <= BeginsAt(e)
      BY <2>1, HoursOf
    <3>2. e < WindowCloses
      BY <2>2, <3>1
    <3> QED
      BY <3>2, DueIsBehind
  <2>4. \A e \in Occurrences :
          /\ BeginsAt(e) \in Nat /\ EndsAt(e) \in Nat /\ TrueEnd(e) \in Nat /\ TrueEnd(e) <= EndsAt(e)
          /\ ~rule.allDay => TrueEnd(e) = EndsAt(e)
    BY <2>1, HoursOf
  <2>5. Due \subseteq instances
    <3> SUFFICES ASSUME NEW e \in Due PROVE e \in instances
      OBVIOUS
    <3>1. e \in Occurrences /\ BeginsAt(e) < 48 * WindowCloses /\ TrueEnd(e) > 48 * WindowOpens
      BY DEF Due
    <3>2. EndsAt(e) > 48 * WindowOpens
      BY <2>2, <2>4, <3>1
    <3> QED
      BY <2>1, <2>3, <3>1, <3>2 DEF InWindow
  <2>6. ASSUME NEW d \in WindowOpens..WindowCloses - 1 PROVE FreeSlots(d) \subseteq TrulyFree(d)
    <3> SUFFICES ASSUME NEW h \in FreeSlots(d), NEW e \in Occurrences,
                        BeginsAt(e) < 48 * d + 2 * (h + 1), TrueEnd(e) > 48 * d + 2 * h
                 PROVE  FALSE
      BY DEF FreeSlots, TrulyFree
    <3>1. h \in 9..17 /\ d \in Nat /\ WindowOpens <= d /\ d + 1 <= WindowCloses
      BY <2>2 DEF FreeSlots, WorkingHours
    <3>2. BeginsAt(e) < 48 * WindowCloses /\ TrueEnd(e) > 48 * WindowOpens /\ EndsAt(e) > 48 * d + 2 * h
      BY <2>2, <2>4, <3>1
    <3>3. e \in instances
      BY <2>5, <3>2 DEF Due
    <3> QED
      BY <3>2, <3>3 DEF FreeSlots
  <2>7. ASSUME ~rule.allDay PROVE instances = Due
    <3>1. \A e \in Occurrences : InWindow(e) => e \in Due
      BY <2>4, <2>7 DEF InWindow, Due
    <3> QED
      BY <2>1, <2>5, <3>1
  <2>8. ASSUME ~rule.allDay, NEW d \in WindowOpens..WindowCloses - 1 PROVE FreeSlots(d) = TrulyFree(d)
    <3>1. TrulyFree(d) \subseteq FreeSlots(d)
      BY <2>1, <2>4, <2>8 DEF FreeSlots, TrulyFree
    <3> QED
      BY <2>6, <3>1
  <2> QED
    BY <2>5, <2>6, <2>7, <2>8
<1> QED
  BY <1>1, CalendarInductive, PTL

-----------------------------------------------------------------------------
(* Tool names *)

LEMMA OneMeansIt == ASSUME NEW S, IsFiniteSet(S), Cardinality(S) = 1, NEW x, x = CHOOSE y \in S : TRUE
                    PROVE  S = {x}
BY FS_Singleton

(* What the resolver makes of a name: one of four tools, or none. *)
ResolvedAs(T, name, n, r) ==
    \/ name \in T /\ r = name
    \/ name \notin T /\ n \in T /\ r = n
    \/ name \notin T /\ n \notin T /\ SameButCase(T, n) = {r}
    \/ name \notin T /\ n \notin T /\ Cardinality(SameButCase(T, n)) # 1 /\ SameBare(T, n) = {r}
    \/ /\ name \notin T /\ n \notin T /\ r = Nameless
       /\ Cardinality(SameButCase(T, n)) # 1 /\ Cardinality(SameBare(T, n)) # 1

LEMMA ResolutionIs ==
  ASSUME NEW T \in SUBSET Catalogue, NEW name, NEW n, n = Stripped(name), name \in T => n = name
  PROVE  ResolvedAs(T, name, n, Resolution(T, name))
<1> DEFINE cased == SameButCase(T, n)
           bare  == SameBare(T, n)
           r     == Resolution(T, name)
<1>1. IsFiniteSet(cased) /\ IsFiniteSet(bare)
  <2>1. cased \subseteq Catalogue /\ bare \subseteq Catalogue
    BY DEF SameButCase, SameBare
  <2> QED
    BY <2>1, CatalogueAssumption, FS_Subset
<1>2. r = CASE name \in T -> name
            [] name \notin T /\ n \in T -> n
            [] n \notin T /\ Cardinality(cased) = 1 -> CHOOSE k \in cased : TRUE
            [] n \notin T /\ Cardinality(cased) # 1 /\ Cardinality(bare) = 1 -> CHOOSE k \in bare : TRUE
            [] OTHER -> Nameless
  BY DEF Resolution
<1> HIDE DEF cased, bare, r
<1>3. CASE n \in T
  BY <1>2, <1>3 DEF ResolvedAs, r
<1>4. CASE n \notin T /\ Cardinality(cased) = 1
  <2>1. name \notin T /\ r = CHOOSE k \in cased : TRUE
    BY <1>2, <1>4
  <2>2. cased = {r}
    BY <1>1, <1>4, <2>1, OneMeansIt
  <2> QED
    BY <1>4, <2>1, <2>2 DEF ResolvedAs, r, cased
<1>5. CASE n \notin T /\ Cardinality(cased) # 1 /\ Cardinality(bare) = 1
  <2>1. name \notin T /\ r = CHOOSE k \in bare : TRUE
    BY <1>2, <1>5
  <2>2. bare = {r}
    BY <1>1, <1>5, <2>1, OneMeansIt
  <2> QED
    BY <1>5, <2>1, <2>2 DEF ResolvedAs, r, cased, bare
<1>6. CASE n \notin T /\ Cardinality(cased) # 1 /\ Cardinality(bare) # 1
  <2>1. name \notin T /\ r = Nameless
    BY <1>2, <1>6
  <2> QED
    BY <1>6, <2>1 DEF ResolvedAs, r, cased, bare
<1> QED
  BY <1>3, <1>4, <1>5, <1>6

(* ToolNameResolver.resolve, for any finite catalogue of tools, any choice *)
(* of them on offer and any name: what it returns is nearer to the name    *)
(* than any other tool on offer, it refuses only what is ambiguous or      *)
(* unknown, and one tool more never turns the name to a third.             *)
THEOREM NeverGuessed ==
  ASSUME NEW tools \in SUBSET Catalogue, NEW s, NEW t, NEW w \in SUBSET {"cased", "padded", "dashed"}
  PROVE  NeverAGuess(tools, ToolName(s, t, w), Resolution(tools, ToolName(s, t, w)))
<1> DEFINE name == ToolName(s, t, w)
           n == Stripped(name)
           r == Resolution(tools, name)
<1>1. /\ name.server = s /\ name.tool = t /\ name.written = w
      /\ n = ToolName(s, t, w \ {"padded"})
      /\ n.server = s /\ n.tool = t /\ n.written = w \ {"padded"}
  BY DEF ToolName, Stripped
<1>2. \A T \in SUBSET Catalogue : name \in T => n = name
  <2> SUFFICES ASSUME NEW T \in SUBSET Catalogue, name \in T PROVE n = name
    OBVIOUS
  <2>1. w \ {"padded"} = w
    BY <1>1, CatalogueAssumption
  <2> QED
    BY <1>1, <2>1
<1>3. \A T \in SUBSET Catalogue : ResolvedAs(T, name, n, Resolution(T, name))
  <2> HIDE DEF name
  <2> QED
    BY <1>2, ResolutionIs
<1>4. \A T : /\ SameBare(T, n) = Namesakes(T, name) /\ SameButCase(T, n) \subseteq SameBare(T, n)
            /\ Namesakes(T, name) \subseteq T
            /\ (name \in T => name \in SameBare(T, n)) /\ (n \in T => n \in SameBare(T, n))
  BY <1>1 DEF SameBare, SameButCase, Namesakes
<1>5. \A T \in SUBSET Catalogue : \A k \in SameBare(T, n) :
         k = ToolName(k.server, t, k.written) /\ k.written \subseteq {"cased", "dashed"}
  BY <1>1, CatalogueAssumption DEF SameBare
<1>6. \A k : "server" \notin Strays(name, k) => k.server = s
  BY <1>1 DEF Strays
<1>7. \A k : "dashed" \notin Strays(name, k) => ("dashed" \in k.written <=> "dashed" \in w)
  BY <1>1 DEF Strays
<1>8. ASSUME NEW k \in SameBare(tools, n), Strays(name, k) \subseteq {"padded"} PROVE k = n
  <2>1. k.server = s
    BY <1>6, <1>8
  <2>2. k.written = w \ {"padded"}
    <3>1. k.written \subseteq {"cased", "dashed"}
      BY <1>5
    <3>2. (w \ k.written) \subseteq {"padded"} /\ (k.written \ w) \subseteq {"padded"}
      BY <1>1, <1>8 DEF Strays
    <3> QED
      BY <3>1, <3>2
  <2> QED
    BY <1>1, <1>5, <2>1, <2>2
<1>9. ASSUME r # Nameless
      PROVE  /\ r \in Namesakes(tools, name)
             /\ \A k \in Namesakes(tools, name) \ {r} : ~(Strays(name, k) \subseteq Strays(name, r))
  <2>1. ResolvedAs(tools, name, n, r)
    BY <1>3
  <2> HIDE DEF r
  <2>2. CASE n \in tools
    <3>1. r = n
      BY <1>2, <2>1, <2>2 DEF ResolvedAs
    <3>2. Strays(name, n) \subseteq {"padded"}
      BY <1>1 DEF Strays
    <3> HIDE DEF n, name
    <3> QED
      BY <1>4, <1>8, <2>2, <3>1, <3>2
  <2>3. CASE n \notin tools /\ SameButCase(tools, n) = {r}
    <3>1. r \in SameButCase(tools, n)
      BY <2>3
    <3>2. r.server = s /\ ("dashed" \in r.written <=> "dashed" \in w)
      BY <1>1, <3>1 DEF SameButCase
    <3>3. "server" \notin Strays(name, r) /\ "dashed" \notin Strays(name, r)
      <4>1. r.written \subseteq {"cased", "dashed"}
        BY <1>4, <1>5, <3>1
      <4> QED
        BY <1>1, <3>2, <4>1 DEF Strays
    <3>4. ASSUME NEW k \in Namesakes(tools, name), Strays(name, k) \subseteq Strays(name, r) PROVE k = r
      <4>1. k.server = s /\ ("dashed" \in k.written <=> "dashed" \in w)
        BY <1>6, <1>7, <3>3, <3>4
      <4>2. k \in SameButCase(tools, n)
        BY <1>1, <4>1, <3>4 DEF SameButCase, Namesakes
      <4> QED
        BY <2>3, <4>2
    <3> HIDE DEF n, name
    <3> QED
      BY <1>4, <3>1, <3>4
  <2>4. CASE n \notin tools /\ SameBare(tools, n) = {r}
    <3> HIDE DEF n, name
    <3> QED
      BY <1>4, <2>4
  <2> HIDE DEF n, name
  <2> QED
    BY <1>2, <1>9, <2>1, <2>2, <2>3, <2>4 DEF ResolvedAs
<1>10. ASSUME r # Nameless, NEW x \in Catalogue
       PROVE  Resolution(tools \union {x}, name) \in {r, x, Nameless}
  <2> DEFINE T == tools \union {x}
             q == Resolution(T, name)
  <2>1. ResolvedAs(tools, name, n, r) /\ ResolvedAs(T, name, n, q) /\ (name \in T => n = name)
        /\ (name \in tools => n = name)
    BY <1>2, <1>3
  <2>2. /\ SameBare(T, n) \subseteq SameBare(tools, n) \union {x}
        /\ SameButCase(T, n) \subseteq SameButCase(tools, n) \union {x}
        /\ SameBare(tools, n) \subseteq SameBare(T, n) /\ SameButCase(tools, n) \subseteq SameButCase(T, n)
        /\ SameButCase(tools, n) \subseteq SameBare(tools, n) /\ SameButCase(T, n) \subseteq SameBare(T, n)
    BY DEF SameBare, SameButCase
  <2>3. name \in T <=> (name \in tools \/ name = x)
    OBVIOUS
  <2>4. n \in T <=> (n \in tools \/ n = x)
    OBVIOUS
  <2> HIDE DEF T, q, r, n, name
  <2>5. CASE n \in T
    BY <2>1, <2>3, <2>4, <2>5 DEF ResolvedAs, T, q
  <2>6. CASE n \notin T /\ SameButCase(tools, n) = {r}
    <3>1. CASE SameButCase(T, n) = {r}
      <4>1. Cardinality(SameButCase(T, n)) = 1
        BY <3>1, FS_Singleton
      <4> QED
        BY <2>1, <2>6, <3>1, <4>1 DEF ResolvedAs, T, q
    <3>2. CASE SameButCase(T, n) # {r}
      <4>1. x # r /\ x \in SameBare(T, n) /\ r \in SameBare(T, n) /\ x \in SameButCase(T, n) /\ r \in SameButCase(T, n)
        BY <2>2, <2>6, <3>2
      <4> QED
        BY <2>1, <2>6, <4>1 DEF ResolvedAs, T, q
    <3> QED
      BY <3>1, <3>2
  <2>7. CASE n \notin T /\ SameBare(tools, n) = {r} /\ SameButCase(tools, n) # {r}
    <3>1. SameButCase(T, n) \subseteq {x} /\ SameBare(T, n) \subseteq {r, x}
      BY <2>2, <2>7
    <3> QED
      BY <2>1, <2>7, <3>1 DEF ResolvedAs, T, q
  <2> QED
    BY <1>10, <2>1, <2>3, <2>4, <2>5, <2>6, <2>7 DEF ResolvedAs, T, q
<1>11. ASSUME r = Nameless, name # Nameless PROVE n \notin tools /\ Cardinality(Namesakes(tools, name)) # 1
  <2>1. ResolvedAs(tools, name, n, r) /\ Nameless \notin tools
    BY <1>3, CatalogueAssumption
  <2>2. Nameless \notin SameBare(tools, n) /\ Nameless \notin SameButCase(tools, n)
    BY <2>1 DEF SameBare, SameButCase
  <2> HIDE DEF r, n, name
  <2> QED
    BY <1>2, <1>4, <1>11, <2>1, <2>2 DEF ResolvedAs
<1> QED
  BY <1>9, <1>10, <1>11 DEF NeverAGuess

-----------------------------------------------------------------------------
(* Reliability *)

(* What F makes of a schema depends on the functions only below it.        *)
Descends(fs, F) ==
    /\ fs # {}
    /\ \A f \in fs : \E g \in fs : \A s \in Schemas : g[s] = F[s][f]
    /\ \A s \in Schemas : \A a, b \in fs :
          (\A t \in Schemas : t.depth < s.depth => a[t] = b[t]) => F[s][a] = F[s][b]
IsMadeBy(f, F) == \A s \in Schemas : f[s] = F[s][f]

(* What is computed on schemas is computed on smaller ones first, hence it *)
(* is defined on all: by induction on how deep they nest.                  *)
LEMMA PredicatesDefined ==
  ASSUME NEW fs, NEW F, Descends(fs, F)
  PROVE  \E f \in fs : IsMadeBy(f, F)
<1> USE DEF Descends, IsMadeBy
<1> USE SchemaAssumption
<1> DEFINE Upto(n) == \E f \in fs : \A s \in Schemas : s.depth < n => f[s] = F[s][f]
           without == {n \in Nat : ~Upto(n)}
<1>0. ASSUME NEW s \in Schemas, NEW a \in fs, NEW b \in fs,
             \A t \in Schemas : t.depth < s.depth => a[t] = b[t]
      PROVE  F[s][a] = F[s][b]
  BY <1>0
<1>1. \A s \in Schemas : s.depth \in Nat /\ s.depth < Nesting + 1
  OBVIOUS
<1>2. Upto(Nesting + 1) => \E f \in fs : \A s \in Schemas : f[s] = F[s][f]
  BY <1>1
<1> SUFFICES ASSUME ~Upto(Nesting + 1) PROVE FALSE
  BY <1>2
<1>10. Nesting + 1 \in without
  <2> HIDE DEF Upto
  <2> QED
    OBVIOUS
<1>3. PICK m \in without : \A k \in without : m <= k
  BY <1>10, LeastNat
<1>4. m \in Nat /\ ~Upto(m)
  BY <1>3
<1>5. m # 0
  <2>2. \A s \in Schemas : ~(s.depth < 0)
    BY <1>1
  <2>3. Upto(0)
    BY <2>2
  <2> QED
    BY <1>4, <2>3
<1>6. Upto(m - 1)
  <2>1. m - 1 \in Nat /\ ~(m <= m - 1)
    BY <1>4, <1>5
  <2> QED
    BY <1>3, <2>1
<1>7. PICK f \in fs : \A s \in Schemas : s.depth < m - 1 => f[s] = F[s][f]
  BY <1>6
<1>8. PICK g \in fs : \A s \in Schemas : g[s] = F[s][f]
  OBVIOUS
<1>9. ASSUME NEW s \in Schemas, s.depth < m PROVE g[s] = F[s][g]
  <2>1. ASSUME NEW t \in Schemas, t.depth < s.depth PROVE f[t] = g[t]
    <3>2. t.depth \in Nat /\ s.depth \in Nat /\ m \in Nat /\ t.depth < s.depth /\ s.depth < m
      BY <1>1, <1>4, <1>9, <2>1
    <3>1. t.depth < m - 1
      <4>1. \A a, b, c \in Nat : a < b /\ b < c => a < c - 1
        OBVIOUS
      <4> HIDE SchemaAssumption
      <4> QED
        BY <3>2, <4>1
    <3> QED
      BY <1>7, <1>8, <3>1
  <2>2. f \in fs /\ g \in fs /\ g[s] = F[s][f]
    BY <1>8
  <2>3. F[s][f] = F[s][g]
    <3>1. \A a, b \in fs : (\A t \in Schemas : t.depth < s.depth => a[t] = b[t]) => F[s][a] = F[s][b]
      BY <1>0
    <3>2. f \in fs /\ g \in fs
      BY <2>2
    <3> HIDE SchemaAssumption
    <3>3. (\A t \in Schemas : t.depth < s.depth => f[t] = g[t]) => F[s][f] = F[s][g]
      BY <3>1, <3>2
    <3> QED
      BY <2>1, <3>3
  <2> QED
    BY <2>2, <2>3
<1> QED
  BY <1>4, <1>8, <1>9

(* Functions that agree below a schema make the same of its values.        *)
LEMMA PartsBelow ==
  ASSUME NEW s \in Schemas
  PROVE  /\ \A k \in DOMAIN s.fields : s.fields[k] \in Schemas /\ s.fields[k].depth < s.depth
         /\ s.items # {} => ItemOf(s) \in Schemas /\ ItemOf(s).depth < s.depth
BY SchemaAssumption DEF Smaller, ItemOf

LEMMA RepairLooksBelow ==
  ASSUME NEW s \in Schemas, NEW f, NEW g, NEW v,
         \A t \in Schemas : t.depth < s.depth => f[t] = g[t]
  PROVE  RepairedOn(f, v, s) = RepairedOn(g, v, s)
<1>1. RepairedParts(f, v[2], s) = RepairedParts(g, v[2], s)
  BY PartsBelow DEF RepairedParts
<1>2. s.items # {} => f[ItemOf(s)] = g[ItemOf(s)]
  BY PartsBelow
<1> QED
  BY <1>1, <1>2 DEF RepairedOn

LEMMA RepairedValueIs ==
  ASSUME NEW s \in Schemas, NEW v \in Readings[s]
  PROVE  RepairedValue[s][v] = RepairedOn(RepairedValue, v, s)
<1> USE SchemaAssumption
<1> DEFINE Under(n) == {t \in Schemas : t.depth < n}
           Upto(n, f) == f = [t \in Under(n) |-> [w \in Readings[t] |-> RepairedOn(f, w, t)]]
           without == {n \in Nat : ~\E f : Upto(n, f)}
<1>1. \A t \in Schemas : t.depth \in Nat /\ t.depth < Nesting + 1
  OBVIOUS
<1>2. without = {}
  <2> SUFFICES ASSUME without # {} PROVE FALSE
    OBVIOUS
  <2>1. PICK m \in without : \A k \in without : m <= k
    BY LeastNat
  <2>2. m \in Nat /\ ~\E f : Upto(m, f)
    BY <2>1
  <2>3. m # 0
    <3>1. Under(0) = {}
      BY <1>1
    <3> DEFINE none == [t \in {} |-> {}]
    <3>2. Upto(0, none)
      BY <3>1
    <3> QED
      BY <2>2, <3>2
  <2>4. m - 1 \in Nat /\ m - 1 \notin without
    <3>1. m - 1 \in Nat /\ ~(m <= m - 1)
      BY <2>2, <2>3
    <3> HIDE DEF without
    <3> QED
      BY <2>1, <3>1
  <2>5. PICK f : Upto(m - 1, f)
    BY <2>4
  <2> DEFINE g == [t \in Under(m) |-> [w \in Readings[t] |-> RepairedOn(f, w, t)]]
  <2>6. \A t \in Under(m - 1) : f[t] = g[t]
    <3>1. Under(m - 1) \subseteq Under(m)
      BY <1>1, <2>2
    <3> HIDE DEF Under
    <3> QED
      BY <2>5, <3>1
  <2>7. ASSUME NEW t \in Under(m), NEW w \in Readings[t]
        PROVE  RepairedOn(f, w, t) = RepairedOn(g, w, t)
    <3>1. \A u \in Schemas : u.depth < t.depth => u \in Under(m - 1)
      BY <1>1, <2>2
    <3>2. t \in Schemas
      OBVIOUS
    <3> HIDE DEF Under, g
    <3> QED
      BY <2>6, <3>1, <3>2, RepairLooksBelow
  <2>8. Upto(m, g)
    <3> HIDE DEF Under
    <3>1. g = [t \in Under(m) |-> [w \in Readings[t] |-> RepairedOn(g, w, t)]]
      BY <2>7
    <3> QED
      BY <3>1
  <2> QED
    BY <2>2, <2>8
<1>3. Under(Nesting + 1) = Schemas
  BY <1>1
<1>4. \E f : f = [t \in Schemas |-> [w \in Readings[t] |-> RepairedOn(f, w, t)]]
  <2>1. Nesting + 1 \in Nat
    OBVIOUS
  <2>2. \E f : Upto(Nesting + 1, f)
    <3> HIDE DEF Upto
    <3> QED
      BY <1>2, <2>1
  <2> HIDE DEF Under
  <2> QED
    BY <1>3, <2>2
<1>5. RepairedValue = [t \in Schemas |-> [w \in Readings[t] |-> RepairedOn(RepairedValue, w, t)]]
  BY <1>4 DEF RepairedValue
<1> QED
  BY <1>5

LEMMA MissingLooksBelow ==
  ASSUME NEW s \in Schemas, NEW f, NEW g, NEW v,
         \A t \in Schemas : t.depth < s.depth => f[t] = g[t]
  PROVE  MissingOn(f, v, s) = MissingOn(g, v, s)
<1>1. MissingParts(f, v[2], s) = MissingParts(g, v[2], s)
  BY PartsBelow DEF MissingParts
<1>2. s.items # {} => f[ItemOf(s)] = g[ItemOf(s)]
  BY PartsBelow
<1> QED
  BY <1>1, <1>2 DEF MissingOn

LEMMA MissingInValueIs ==
  ASSUME NEW s \in Schemas, NEW v \in Readings[s]
  PROVE  MissingInValue[s][v] = MissingOn(MissingInValue, v, s)
<1> DEFINE fs == {f \in [Schemas -> UNION {[Readings[t] -> BOOLEAN] : t \in Schemas}] : \A t \in Schemas : f[t] \in [Readings[t] -> BOOLEAN]}
           F == [t \in Schemas |-> [f \in fs |-> [w \in Readings[t] |-> MissingOn(f, w, t)]]]
<1>1. [t \in Schemas |-> [w \in Readings[t] |-> FALSE]] \in fs /\ \A f \in fs : [t \in Schemas |-> F[t][f]] \in fs
  <2>1. ASSUME NEW h, h = [t \in Schemas |-> h[t]], \A t \in Schemas : h[t] \in [Readings[t] -> BOOLEAN] PROVE h \in fs
    BY <2>1
  <2>2. \A f \in fs : \A t \in Schemas : [w \in Readings[t] |-> MissingOn(f, w, t)] \in [Readings[t] -> BOOLEAN]
    BY DEF MissingOn, MissingParts
  <2>3. [t \in Schemas |-> [w \in Readings[t] |-> FALSE]] \in fs
    <3> DEFINE h == [t \in Schemas |-> [w \in Readings[t] |-> FALSE]]
    <3>1. h = [t \in Schemas |-> h[t]] /\ \A t \in Schemas : h[t] \in [Readings[t] -> BOOLEAN]
      OBVIOUS
    <3> HIDE DEF h, fs
    <3>2. h \in fs
      BY <2>1, <3>1
    <3> QED
      BY <3>2 DEF h
  <2>4. ASSUME NEW f \in fs PROVE [t \in Schemas |-> F[t][f]] \in fs
    <3> DEFINE h == [t \in Schemas |-> F[t][f]]
    <3> HIDE DEF fs
    <3>1. \A t \in Schemas : F[t][f] = [w \in Readings[t] |-> MissingOn(f, w, t)]
      BY <2>4
    <3> HIDE DEF F
    <3>2. h = [t \in Schemas |-> h[t]] /\ \A t \in Schemas : h[t] \in [Readings[t] -> BOOLEAN]
      BY <2>2, <3>1
    <3> HIDE DEF h
    <3>3. h \in fs
      BY <2>1, <3>2
    <3> QED
      BY <3>3 DEF h
  <2> HIDE DEF fs, F
  <2> QED
    BY <2>3, <2>4
<1>2. ASSUME NEW t \in Schemas, NEW a \in fs, NEW b \in fs,
             \A u \in Schemas : u.depth < t.depth => a[u] = b[u]
      PROVE  F[t][a] = F[t][b]
  <2>1. \A w \in Readings[t] : MissingOn(a, w, t) = MissingOn(b, w, t)
    BY <1>2, MissingLooksBelow
  <2> HIDE DEF fs
  <2> QED
    BY <2>1
<1>3. \E f \in fs : \A t \in Schemas : f[t] = F[t][f]
  <2>1. \A t \in Schemas : \A a, b \in fs :
           (\A u \in Schemas : u.depth < t.depth => a[u] = b[u]) => F[t][a] = F[t][b]
    BY <1>2
  <2>2. fs # {}
    <3> HIDE DEF fs
    <3> QED
      BY <1>1
  <2> HIDE DEF fs
  <2>3. \A f \in fs : \E g \in fs : \A t \in Schemas : g[t] = F[t][f]
    <3> HIDE DEF F
    <3>1. ASSUME NEW f \in fs PROVE \A t \in Schemas : [u \in Schemas |-> F[u][f]][t] = F[t][f]
      OBVIOUS
    <3> QED
      BY <1>1, <3>1
  <2> HIDE DEF F
  <2>4. Descends(fs, F)
    BY <2>1, <2>2, <2>3 DEF Descends
  <2>5. \E f \in fs : IsMadeBy(f, F)
    BY <2>4, PredicatesDefined
  <2> QED
    BY <2>5 DEF IsMadeBy
<1>4. \E f : f = [t \in Schemas |-> [w \in Readings[t] |-> MissingOn(f, w, t)]]
  <2>1. PICK f \in fs : \A t \in Schemas : f[t] = F[t][f]
    BY <1>3
  <2>2. f = [t \in Schemas |-> f[t]]
    OBVIOUS
  <2> HIDE DEF fs
  <2>3. \A t \in Schemas : F[t][f] = [w \in Readings[t] |-> MissingOn(f, w, t)]
    OBVIOUS
  <2> HIDE DEF F
  <2>4. \A t \in Schemas : f[t] = [w \in Readings[t] |-> MissingOn(f, w, t)]
    BY <2>1, <2>3
  <2>5. f = [t \in Schemas |-> [w \in Readings[t] |-> MissingOn(f, w, t)]]
    BY <2>2, <2>4
  <2> QED
    BY <2>5
<1>5. MissingInValue = [t \in Schemas |-> [w \in Readings[t] |-> MissingOn(MissingInValue, w, t)]]
  BY <1>4 DEF MissingInValue
<1> QED
  BY <1>5

LEMMA SuppliedLooksBelow ==
  ASSUME NEW s \in Schemas, NEW f, NEW g, NEW v,
         \A t \in Schemas : t.depth < s.depth => f[t] = g[t]
  PROVE  SuppliedOn(f, v, s) = SuppliedOn(g, v, s)
<1>1. SuppliedParts(f, v[2], s) = SuppliedParts(g, v[2], s)
  BY PartsBelow DEF SuppliedParts
<1>2. s.items # {} => f[ItemOf(s)] = g[ItemOf(s)]
  BY PartsBelow
<1> QED
  BY <1>1, <1>2 DEF SuppliedOn

LEMMA SuppliedIs ==
  ASSUME NEW s \in Schemas, NEW v \in Readings[s]
  PROVE  Supplied[s][v] = SuppliedOn(Supplied, v, s)
<1> DEFINE fs == {f \in [Schemas -> UNION {[Readings[t] -> BOOLEAN] : t \in Schemas}] : \A t \in Schemas : f[t] \in [Readings[t] -> BOOLEAN]}
           F == [t \in Schemas |-> [f \in fs |-> [w \in Readings[t] |-> SuppliedOn(f, w, t)]]]
<1>1. [t \in Schemas |-> [w \in Readings[t] |-> FALSE]] \in fs /\ \A f \in fs : [t \in Schemas |-> F[t][f]] \in fs
  <2>1. ASSUME NEW h, h = [t \in Schemas |-> h[t]], \A t \in Schemas : h[t] \in [Readings[t] -> BOOLEAN] PROVE h \in fs
    BY <2>1
  <2>2. \A f \in fs : \A t \in Schemas : [w \in Readings[t] |-> SuppliedOn(f, w, t)] \in [Readings[t] -> BOOLEAN]
    BY DEF SuppliedOn
  <2>3. [t \in Schemas |-> [w \in Readings[t] |-> FALSE]] \in fs
    <3> DEFINE h == [t \in Schemas |-> [w \in Readings[t] |-> FALSE]]
    <3>1. h = [t \in Schemas |-> h[t]] /\ \A t \in Schemas : h[t] \in [Readings[t] -> BOOLEAN]
      OBVIOUS
    <3> HIDE DEF h, fs
    <3>2. h \in fs
      BY <2>1, <3>1
    <3> QED
      BY <3>2 DEF h
  <2>4. ASSUME NEW f \in fs PROVE [t \in Schemas |-> F[t][f]] \in fs
    <3> DEFINE h == [t \in Schemas |-> F[t][f]]
    <3> HIDE DEF fs
    <3>1. \A t \in Schemas : F[t][f] = [w \in Readings[t] |-> SuppliedOn(f, w, t)]
      BY <2>4
    <3> HIDE DEF F
    <3>2. h = [t \in Schemas |-> h[t]] /\ \A t \in Schemas : h[t] \in [Readings[t] -> BOOLEAN]
      BY <2>2, <3>1
    <3> HIDE DEF h
    <3>3. h \in fs
      BY <2>1, <3>2
    <3> QED
      BY <3>3 DEF h
  <2> HIDE DEF fs, F
  <2> QED
    BY <2>3, <2>4
<1>2. ASSUME NEW t \in Schemas, NEW a \in fs, NEW b \in fs,
             \A u \in Schemas : u.depth < t.depth => a[u] = b[u]
      PROVE  F[t][a] = F[t][b]
  <2>1. \A w \in Readings[t] : SuppliedOn(a, w, t) = SuppliedOn(b, w, t)
    BY <1>2, SuppliedLooksBelow
  <2> HIDE DEF fs
  <2> QED
    BY <2>1
<1>3. \E f \in fs : \A t \in Schemas : f[t] = F[t][f]
  <2>1. \A t \in Schemas : \A a, b \in fs :
           (\A u \in Schemas : u.depth < t.depth => a[u] = b[u]) => F[t][a] = F[t][b]
    BY <1>2
  <2>2. fs # {}
    <3> HIDE DEF fs
    <3> QED
      BY <1>1
  <2> HIDE DEF fs
  <2>3. \A f \in fs : \E g \in fs : \A t \in Schemas : g[t] = F[t][f]
    <3> HIDE DEF F
    <3>1. ASSUME NEW f \in fs PROVE \A t \in Schemas : [u \in Schemas |-> F[u][f]][t] = F[t][f]
      OBVIOUS
    <3> QED
      BY <1>1, <3>1
  <2> HIDE DEF F
  <2>4. Descends(fs, F)
    BY <2>1, <2>2, <2>3 DEF Descends
  <2>5. \E f \in fs : IsMadeBy(f, F)
    BY <2>4, PredicatesDefined
  <2> QED
    BY <2>5 DEF IsMadeBy
<1>4. \E f : f = [t \in Schemas |-> [w \in Readings[t] |-> SuppliedOn(f, w, t)]]
  <2>1. PICK f \in fs : \A t \in Schemas : f[t] = F[t][f]
    BY <1>3
  <2>2. f = [t \in Schemas |-> f[t]]
    OBVIOUS
  <2> HIDE DEF fs
  <2>3. \A t \in Schemas : F[t][f] = [w \in Readings[t] |-> SuppliedOn(f, w, t)]
    OBVIOUS
  <2> HIDE DEF F
  <2>4. \A t \in Schemas : f[t] = [w \in Readings[t] |-> SuppliedOn(f, w, t)]
    BY <2>1, <2>3
  <2>5. f = [t \in Schemas |-> [w \in Readings[t] |-> SuppliedOn(f, w, t)]]
    BY <2>2, <2>4
  <2> QED
    BY <2>5
<1>5. Supplied = [t \in Schemas |-> [w \in Readings[t] |-> SuppliedOn(Supplied, w, t)]]
  BY <1>4 DEF Supplied
<1> QED
  BY <1>5

LEMMA SameLooksBelow ==
  ASSUME NEW s \in Schemas, NEW f, NEW g, NEW r, NEW v,
         \A t \in Schemas : t.depth < s.depth => f[t] = g[t]
  PROVE  SameOn(f, r, v, s) = SameOn(g, r, v, s)
<1>1. SameParts(f, r[2], v[2], s) = SameParts(g, r[2], v[2], s)
  BY PartsBelow DEF SameParts
<1>2. s.items # {} => f[ItemOf(s)] = g[ItemOf(s)]
  BY PartsBelow
<1> QED
  BY <1>1, <1>2 DEF SameOn

LEMMA SaysTheSameIs ==
  ASSUME NEW s \in Schemas, NEW r \in Readings[s], NEW v \in Readings[s]
  PROVE  SaysTheSame[s][r][v] = SameOn(SaysTheSame, r, v, s)
<1> DEFINE fs == {f \in [Schemas -> UNION {[Readings[t] -> [Readings[t] -> BOOLEAN]] : t \in Schemas}] : \A t \in Schemas : f[t] \in [Readings[t] -> [Readings[t] -> BOOLEAN]]}
           F == [t \in Schemas |-> [f \in fs |-> [q \in Readings[t] |-> [w \in Readings[t] |-> SameOn(f, q, w, t)]]]]
<1>1. [t \in Schemas |-> [q \in Readings[t] |-> [w \in Readings[t] |-> FALSE]]] \in fs /\ \A f \in fs : [t \in Schemas |-> F[t][f]] \in fs
  <2>1. ASSUME NEW h, h = [t \in Schemas |-> h[t]], \A t \in Schemas : h[t] \in [Readings[t] -> [Readings[t] -> BOOLEAN]] PROVE h \in fs
    BY <2>1
  <2>2. \A f \in fs : \A t \in Schemas : [q \in Readings[t] |-> [w \in Readings[t] |-> SameOn(f, q, w, t)]] \in [Readings[t] -> [Readings[t] -> BOOLEAN]]
    BY DEF SameOn
  <2>3. [t \in Schemas |-> [q \in Readings[t] |-> [w \in Readings[t] |-> FALSE]]] \in fs
    <3> DEFINE h == [t \in Schemas |-> [q \in Readings[t] |-> [w \in Readings[t] |-> FALSE]]]
    <3>1. h = [t \in Schemas |-> h[t]] /\ \A t \in Schemas : h[t] \in [Readings[t] -> [Readings[t] -> BOOLEAN]]
      OBVIOUS
    <3> HIDE DEF h, fs
    <3>2. h \in fs
      BY <2>1, <3>1
    <3> QED
      BY <3>2 DEF h
  <2>4. ASSUME NEW f \in fs PROVE [t \in Schemas |-> F[t][f]] \in fs
    <3> DEFINE h == [t \in Schemas |-> F[t][f]]
    <3> HIDE DEF fs
    <3>1. \A t \in Schemas : F[t][f] = [q \in Readings[t] |-> [w \in Readings[t] |-> SameOn(f, q, w, t)]]
      BY <2>4
    <3> HIDE DEF F
    <3>2. h = [t \in Schemas |-> h[t]] /\ \A t \in Schemas : h[t] \in [Readings[t] -> [Readings[t] -> BOOLEAN]]
      BY <2>2, <3>1
    <3> HIDE DEF h
    <3>3. h \in fs
      BY <2>1, <3>2
    <3> QED
      BY <3>3 DEF h
  <2> HIDE DEF fs, F
  <2> QED
    BY <2>3, <2>4
<1>2. ASSUME NEW t \in Schemas, NEW a \in fs, NEW b \in fs,
             \A u \in Schemas : u.depth < t.depth => a[u] = b[u]
      PROVE  F[t][a] = F[t][b]
  <2>1. \A q, w \in Readings[t] : SameOn(a, q, w, t) = SameOn(b, q, w, t)
    BY <1>2, SameLooksBelow
  <2> HIDE DEF fs
  <2> QED
    BY <2>1
<1>3. \E f \in fs : \A t \in Schemas : f[t] = F[t][f]
  <2>1. \A t \in Schemas : \A a, b \in fs :
           (\A u \in Schemas : u.depth < t.depth => a[u] = b[u]) => F[t][a] = F[t][b]
    BY <1>2
  <2>2. fs # {}
    <3> HIDE DEF fs
    <3> QED
      BY <1>1
  <2> HIDE DEF fs
  <2>3. \A f \in fs : \E g \in fs : \A t \in Schemas : g[t] = F[t][f]
    <3> HIDE DEF F
    <3>1. ASSUME NEW f \in fs PROVE \A t \in Schemas : [u \in Schemas |-> F[u][f]][t] = F[t][f]
      OBVIOUS
    <3> QED
      BY <1>1, <3>1
  <2> HIDE DEF F
  <2>4. Descends(fs, F)
    BY <2>1, <2>2, <2>3 DEF Descends
  <2>5. \E f \in fs : IsMadeBy(f, F)
    BY <2>4, PredicatesDefined
  <2> QED
    BY <2>5 DEF IsMadeBy
<1>4. \E f : f = [t \in Schemas |-> [q \in Readings[t] |-> [w \in Readings[t] |-> SameOn(f, q, w, t)]]]
  <2>1. PICK f \in fs : \A t \in Schemas : f[t] = F[t][f]
    BY <1>3
  <2>2. f = [t \in Schemas |-> f[t]]
    OBVIOUS
  <2> HIDE DEF fs
  <2>3. \A t \in Schemas : F[t][f] = [q \in Readings[t] |-> [w \in Readings[t] |-> SameOn(f, q, w, t)]]
    OBVIOUS
  <2> HIDE DEF F
  <2>4. \A t \in Schemas : f[t] = [q \in Readings[t] |-> [w \in Readings[t] |-> SameOn(f, q, w, t)]]
    BY <2>1, <2>3
  <2>5. f = [t \in Schemas |-> [q \in Readings[t] |-> [w \in Readings[t] |-> SameOn(f, q, w, t)]]]
    BY <2>2, <2>4
  <2> QED
    BY <2>5
<1>5. SaysTheSame = [t \in Schemas |-> [q \in Readings[t] |-> [w \in Readings[t] |-> SameOn(SaysTheSame, q, w, t)]]]
  BY <1>4 DEF SaysTheSame
<1>6. SaysTheSame[s] = [q \in Readings[s] |-> [w \in Readings[s] |-> SameOn(SaysTheSame, q, w, s)]]
  BY <1>5
<1> QED
  BY <1>6

LEMMA OneTypeLooksBelow ==
  ASSUME NEW s \in Schemas, NEW f, NEW g, 
         \A t \in Schemas : t.depth < s.depth => f[t] = g[t]
  PROVE  OneTypeOn(f, s) = OneTypeOn(g, s)
BY PartsBelow DEF OneTypeOn

LEMMA OneTypeIs ==
  ASSUME NEW s \in Schemas
  PROVE  OneType[s] = OneTypeOn(OneType, s)
<1> DEFINE fs == [Schemas -> BOOLEAN]
           F == [t \in Schemas |-> [f \in fs |-> OneTypeOn(f, t)]]
<1>1. [t \in Schemas |-> FALSE] \in fs /\ \A f \in fs : [t \in Schemas |-> F[t][f]] \in fs
  <2>1. \A f \in fs : \A t \in Schemas : OneTypeOn(f, t) \in BOOLEAN
    BY DEF OneTypeOn
  <2> QED
    BY <2>1
<1>2. ASSUME NEW t \in Schemas, NEW a \in fs, NEW b \in fs,
             \A u \in Schemas : u.depth < t.depth => a[u] = b[u]
      PROVE  F[t][a] = F[t][b]
  <2>1. OneTypeOn(a, t) = OneTypeOn(b, t)
    BY <1>2, OneTypeLooksBelow
  <2> HIDE DEF fs
  <2> QED
    BY <2>1
<1>3. \E f \in fs : \A t \in Schemas : f[t] = F[t][f]
  <2>1. \A t \in Schemas : \A a, b \in fs :
           (\A u \in Schemas : u.depth < t.depth => a[u] = b[u]) => F[t][a] = F[t][b]
    BY <1>2
  <2>2. fs # {}
    <3> HIDE DEF fs
    <3> QED
      BY <1>1
  <2> HIDE DEF fs
  <2>3. \A f \in fs : \E g \in fs : \A t \in Schemas : g[t] = F[t][f]
    <3> HIDE DEF F
    <3>1. ASSUME NEW f \in fs PROVE \A t \in Schemas : [u \in Schemas |-> F[u][f]][t] = F[t][f]
      OBVIOUS
    <3> QED
      BY <1>1, <3>1
  <2> HIDE DEF F
  <2>4. Descends(fs, F)
    BY <2>1, <2>2, <2>3 DEF Descends
  <2>5. \E f \in fs : IsMadeBy(f, F)
    BY <2>4, PredicatesDefined
  <2> QED
    BY <2>5 DEF IsMadeBy
<1>4. \E f : f = [t \in Schemas |-> OneTypeOn(f, t)]
  <2>1. PICK f \in fs : \A t \in Schemas : f[t] = F[t][f]
    BY <1>3
  <2>2. f = [t \in Schemas |-> f[t]]
    OBVIOUS
  <2> HIDE DEF fs
  <2>3. \A t \in Schemas : F[t][f] = OneTypeOn(f, t)
    OBVIOUS
  <2> HIDE DEF F
  <2>4. \A t \in Schemas : f[t] = OneTypeOn(f, t)
    BY <2>1, <2>3
  <2>5. f = [t \in Schemas |-> OneTypeOn(f, t)]
    BY <2>2, <2>4
  <2> QED
    BY <2>5
<1>5. OneType = [t \in Schemas |-> OneTypeOn(OneType, t)]
  BY <1>4 DEF OneType
<1> QED
  BY <1>5

(* _coerce leaves a value, reads a scalar as another that says the same or *)
(* makes a list of what is none.                                           *)
LEMMA CoercedIs ==
  ASSUME NEW v, NEW s
  PROVE  LET c == Coerced(v, s)
         IN  \/ c = v
             \/ /\ c[1] \in {"str", "bool", "int", "float"} /\ v[1] \in {"str", "int", "float"}
                /\ Gist(c[2]) = Gist(v[2])
             \/ v[1] \notin {"list", "null"} /\ c = <<"list", <<v>>>>
<1> DEFINE e == CHOOSE w \in Entry(s, v[2]) : TRUE
<1>1. ASSUME Cardinality(Entry(s, v[2])) = 1 PROVE Gist(e) = Gist(v[2])
  <2>1. Entry(s, v[2]) # {}
    BY <1>1, FS_EmptySet
  <2>2. Lower(e) = Lower(v[2])
    <3> HIDE DEF e
    <3>1. e \in Entry(s, v[2])
      BY <2>1 DEF e
    <3> QED
      BY <3>1 DEF Entry
  <2> HIDE DEF e
  <2> QED
    BY <2>2 DEF Lower, Gist
<1> HIDE DEF e
<1>2. CASE s.enum # {} /\ ~(v[1] = "str" /\ v[2] \in s.enum)
  BY <1>1, <1>2 DEF Coerced, e
<1>3. CASE ~(s.enum # {} /\ ~(v[1] = "str" /\ v[2] \in s.enum))
  BY <1>3 DEF Coerced, Gist, Lower, Numeric, AsFloat
<1> QED
  BY <1>2, <1>3

(* Where a value has one type, what has been coerced stays as it is.       *)
LEMMA CoercedOnce ==
  ASSUME NEW v, NEW s, \A t, u \in s.types : t = u, s.enum # {} => "array" \notin s.types
  PROVE  Coerced(Coerced(v, s), s) = Coerced(v, s)
<1> DEFINE e == CHOOSE w \in Entry(s, v[2]) : TRUE
<1>1. ASSUME Cardinality(Entry(s, v[2])) = 1, v[2] \notin s.enum
      PROVE  e \in s.enum /\ e \in {"OPEN", "open"}
  <2>1. Entry(s, v[2]) # {}
    BY <1>1, FS_EmptySet
  <2>2. e \in s.enum /\ Lower(e) = Lower(v[2])
    <3> HIDE DEF e
    <3>1. e \in Entry(s, v[2])
      BY <2>1 DEF e
    <3> QED
      BY <3>1 DEF Entry
  <2> HIDE DEF e
  <2> QED
    BY <1>1, <2>2 DEF Lower
<1> HIDE DEF e
<1>2. CASE s.enum # {} /\ ~(v[1] = "str" /\ v[2] \in s.enum)
  <2>1. CASE v[1] = "str" /\ Cardinality(Entry(s, v[2])) = 1 /\ s.types # {}
    <3>1. Coerced(v, s) = <<"str", e>>
      BY <1>2, <2>1 DEF Coerced, e
    <3>2. Coerced(<<"str", e>>, s) = <<"str", e>>
      BY <1>1, <1>2, <2>1 DEF Coerced, Truths, Whole, Numeric
    <3> QED
      BY <3>1, <3>2
  <2>2. CASE ~(v[1] = "str" /\ Cardinality(Entry(s, v[2])) = 1 /\ s.types # {})
    <3>1. Coerced(v, s) = v
      BY <1>2, <2>2 DEF Coerced
    <3> QED
      BY <3>1
  <2> QED
    BY <2>1, <2>2
<1>3. CASE ~(s.enum # {} /\ ~(v[1] = "str" /\ v[2] \in s.enum)) /\ Coerced(v, s) # v
  <2>1. \/ "boolean" \in s.types /\ Coerced(v, s) = <<"bool", v[2]>>
        \/ "integer" \in s.types /\ Coerced(v, s) \in {<<"int", v[2]>>, <<"int", "1">>}
        \/ "number" \in s.types /\ Coerced(v, s) = <<"float", AsFloat(v[2])>>
        \/ "string" \in s.types /\ s.enum = {} /\ Coerced(v, s) = <<"str", v[2]>>
        \/ "array" \in s.types /\ Coerced(v, s) = <<"list", <<v>>>>
    BY <1>3 DEF Coerced
  <2>2. ASSUME NEW w, "boolean" \in s.types PROVE Coerced(<<"bool", w>>, s) = <<"bool", w>>
    BY <2>2 DEF Coerced
  <2>3. ASSUME NEW w, "integer" \in s.types PROVE Coerced(<<"int", w>>, s) = <<"int", w>>
    BY <2>3 DEF Coerced
  <2>4. ASSUME NEW w, "number" \in s.types PROVE Coerced(<<"float", w>>, s) = <<"float", w>>
    BY <2>4 DEF Coerced
  <2>5. ASSUME NEW w, "string" \in s.types, s.enum = {} PROVE Coerced(<<"str", w>>, s) = <<"str", w>>
    BY <2>5 DEF Coerced
  <2>6. Coerced(<<"list", <<v>>>>, s) = <<"list", <<v>>>>
    BY CoercedIs
  <2> QED
    BY <2>1, <2>2, <2>3, <2>4, <2>5, <2>6
<1>4. CASE Coerced(v, s) = v
  BY <1>4
<1> QED
  BY <1>2, <1>3, <1>4

(* What becomes of a value that is read under a schema.                    *)
LEMMA RepairedIs ==
  ASSUME NEW s \in Schemas, NEW v \in Readings[s]
  PROVE  LET r == RepairedValue[s][v]
             c == Coerced(v, s)
         IN  \/ /\ v[1] = "dict" /\ "object" \in s.types
                /\ r = <<"dict", RepairedParts(RepairedValue, v[2], s)>>
             \/ /\ v[1] = "list" /\ s.items # {} /\ \A i \in DOMAIN v[2] : v[2][i] \in Readings[ItemOf(s)]
                /\ r = <<"list", [i \in DOMAIN v[2] |-> RepairedValue[ItemOf(s)][v[2][i]]]>>
             \/ /\ v[1] # "list" /\ s.items # {} /\ v \in Readings[ItemOf(s)] /\ c = <<"list", <<v>>>>
                /\ ~(v[1] = "dict" /\ "object" \in s.types)
                /\ r = <<"list", [i \in {1} |-> RepairedValue[ItemOf(s)][v]]>>
             \/ /\ r = c /\ (c[1] = "list" => s.items = {})
                /\ ~(v[1] = "dict" /\ "object" \in s.types)
<1> DEFINE r == RepairedValue[s][v]
           c == Coerced(v, s)
           item == ItemOf(s)
<1>1. r = RepairedOn(RepairedValue, v, s)
  BY RepairedValueIs
<1>2. s.items # {} => IF v[1] = "list" THEN \A i \in DOMAIN v[2] : v[2][i] \in Readings[item] ELSE v \in Readings[item]
  BY ReadingAssumption
<1>3. \/ c = v
      \/ c[1] \in {"str", "bool", "int", "float"}
      \/ v[1] # "list" /\ c = <<"list", <<v>>>>
  BY CoercedIs
<1>4. CASE v[1] = "dict" /\ "object" \in s.types
  BY <1>1, <1>4 DEF RepairedOn
<1>5. CASE ~(v[1] = "dict" /\ "object" \in s.types) /\ c[1] = "list" /\ s.items # {}
  <2>1. r = <<"list", [i \in DOMAIN c[2] |-> RepairedValue[item][c[2][i]]]>>
    BY <1>1, <1>5 DEF RepairedOn
  <2>2. CASE c = v
    BY <1>2, <1>5, <2>1, <2>2
  <2>3. CASE c = <<"list", <<v>>>> /\ v[1] # "list"
    <3>1. c[2] = <<v>> /\ DOMAIN c[2] = {1} /\ c[2][1] = v
      BY <2>3
    <3>2. r = <<"list", [i \in {1} |-> RepairedValue[item][v]]>>
      BY <2>1, <3>1
    <3> QED
      BY <1>2, <1>5, <2>3, <3>2
  <2> HIDE DEF c
  <2> QED
    BY <1>3, <1>5, <2>2, <2>3
<1>6. CASE ~(v[1] = "dict" /\ "object" \in s.types) /\ ~(c[1] = "list" /\ s.items # {})
  BY <1>1, <1>6 DEF RepairedOn
<1> QED
  BY <1>4, <1>5, <1>6

(* What the repair of a value keeps to.                                    *)
Kept(s, v) ==
    LET r == RepairedValue[s][v]
    IN  /\ r \in Readings[s]
        /\ SaysTheSame[s][r][v]
        /\ ~MissingInValue[s][v] => Supplied[s][r]
        /\ OneType[s] => RepairedValue[s][r] = r
        /\ r = Null => v = Null

(* An object is repaired as its fields are: it says the same, all that is  *)
(* required is there and repairing it once more changes nothing.           *)
LEMMA ObjectKept ==
  ASSUME NEW s \in Schemas, NEW o,
         \A k \in DOMAIN o \intersect DOMAIN s.fields :
            o[k] \in Readings[s.fields[k]] /\ Kept(s.fields[k], o[k])
  PROVE  LET r == RepairedParts(RepairedValue, o, s)
         IN  /\ SameParts(SaysTheSame, r, o, s)
             /\ ~MissingParts(MissingInValue, o, s) => SuppliedParts(Supplied, r, s)
             /\ (\A k \in DOMAIN s.fields : OneType[s.fields[k]]) =>
                   RepairedParts(RepairedValue, r, s) = r
<1> DEFINE r == RepairedParts(RepairedValue, o, s)
<1>1. /\ DOMAIN r = Passed(o, s)
      /\ \A k \in Passed(o, s) :
            r[k] = IF k \in DOMAIN s.fields THEN RepairedValue[s.fields[k]][o[k]] ELSE o[k]
  BY DEF RepairedParts
<1>2. Passed(o, s) = {k \in DOMAIN o : k \in DOMAIN s.fields /\ o[k] = Null => k \in s.required}
  BY DEF Passed
<1>3. r = [k \in DOMAIN r |-> r[k]]
  BY DEF RepairedParts
<1> HIDE DEF r
<1>4. SameParts(SaysTheSame, r, o, s)
  BY <1>1, <1>2 DEF SameParts, Kept
<1>5. ASSUME ~MissingParts(MissingInValue, o, s) PROVE SuppliedParts(Supplied, r, s)
  <2>1. \A k \in s.required : k \in Passed(o, s) /\ r[k] # Null
    BY <1>5 DEF MissingParts, RepairedObject, r
  <2>2. \A k \in Passed(o, s) \intersect DOMAIN s.fields : ~MissingInValue[s.fields[k]][o[k]]
    BY <1>5 DEF MissingParts
  <2>3. ASSUME NEW k \in DOMAIN r \intersect DOMAIN s.fields PROVE Supplied[s.fields[k]][r[k]]
    BY <1>1, <1>2, <2>2 DEF Kept
  <2> QED
    BY <1>1, <2>1, <2>3 DEF SuppliedParts
<1>6. ASSUME \A k \in DOMAIN s.fields : OneType[s.fields[k]]
      PROVE  RepairedParts(RepairedValue, r, s) = r
  <2>1. ASSUME NEW k \in DOMAIN r, k \in DOMAIN s.fields, r[k] = Null PROVE k \in s.required
    <3>1. k \in DOMAIN o /\ RepairedValue[s.fields[k]][o[k]] = Null
      BY <1>1, <1>2, <2>1
    <3>2. o[k] = Null
      BY <2>1, <3>1 DEF Kept
    <3> QED
      BY <1>1, <1>2, <2>1, <3>2
  <2>2. Passed(r, s) = DOMAIN r
    BY <2>1 DEF Passed
  <2>3. ASSUME NEW k \in DOMAIN r, k \in DOMAIN s.fields PROVE RepairedValue[s.fields[k]][r[k]] = r[k]
    BY <1>1, <1>2, <1>6, <2>3 DEF Kept
  <2>4. RepairedParts(RepairedValue, r, s) = [k \in DOMAIN r |-> r[k]]
    BY <2>2, <2>3 DEF RepairedParts
  <2> QED
    BY <1>3, <2>4
<1> QED
  BY <1>4, <1>5, <1>6 DEF r

LEMMA FieldsRead ==
  ASSUME NEW s \in Schemas, NEW v \in Readings[s], v[1] = "dict"
  PROVE  \A k \in DOMAIN v[2] \intersect DOMAIN s.fields : v[2][k] \in Readings[s.fields[k]]
BY ReadingAssumption

(* A value is repaired as its parts are.                                   *)
LEMMA ValueKept ==
  ASSUME NEW s \in Schemas, NEW v \in Readings[s],
         \A t \in Schemas : t.depth < s.depth => \A w \in Readings[t] : Kept(t, w)
  PROVE  Kept(s, v)
<1> DEFINE r == RepairedValue[s][v]
           c == Coerced(v, s)
           item == ItemOf(s)
<1>1. r \in Readings[s]
  BY ReadingAssumption
<1>2. /\ SaysTheSame[s][r][v] = SameOn(SaysTheSame, r, v, s)
      /\ MissingInValue[s][v] = MissingOn(MissingInValue, v, s)
      /\ Supplied[s][r] = SuppliedOn(Supplied, r, s)
      /\ OneType[s] = OneTypeOn(OneType, s)
      /\ RepairedValue[s][r] = RepairedOn(RepairedValue, r, s)
  BY <1>1, SaysTheSameIs, MissingInValueIs, SuppliedIs, OneTypeIs, RepairedValueIs
<1>3. /\ \A k \in DOMAIN s.fields : \A w \in Readings[s.fields[k]] : Kept(s.fields[k], w)
      /\ s.items # {} => \A w \in Readings[item] : Kept(item, w)
  BY PartsBelow
<1>4. CASE /\ v[1] = "dict" /\ "object" \in s.types
           /\ r = <<"dict", RepairedParts(RepairedValue, v[2], s)>>
  <2> DEFINE p == RepairedParts(RepairedValue, v[2], s)
  <2>1. r[1] = "dict" /\ r[2] = p /\ r # Null
    BY <1>4 DEF Null
  <2>2. /\ SameParts(SaysTheSame, p, v[2], s)
        /\ ~MissingParts(MissingInValue, v[2], s) => SuppliedParts(Supplied, p, s)
        /\ (\A k \in DOMAIN s.fields : OneType[s.fields[k]]) => RepairedParts(RepairedValue, p, s) = p
    BY <1>3, <1>4, FieldsRead, ObjectKept
  <2> HIDE DEF p, r
  <2>3. SameOn(SaysTheSame, r, v, s)
    BY <1>4, <2>1, <2>2 DEF SameOn
  <2>4. ~MissingOn(MissingInValue, v, s) => SuppliedOn(Supplied, r, s)
    BY <1>4, <2>1, <2>2 DEF MissingOn, SuppliedOn
  <2>5. OneTypeOn(OneType, s) => RepairedOn(RepairedValue, r, s) = r
    BY <1>4, <2>1, <2>2 DEF OneTypeOn, RepairedOn, p
  <2> QED
    BY <1>1, <1>2, <2>1, <2>3, <2>4, <2>5 DEF Kept, r
<1>5. CASE /\ v[1] = "list" /\ s.items # {} /\ \A i \in DOMAIN v[2] : v[2][i] \in Readings[item]
           /\ r = <<"list", [i \in DOMAIN v[2] |-> RepairedValue[item][v[2][i]]]>>
  <2> DEFINE p == [i \in DOMAIN v[2] |-> RepairedValue[item][v[2][i]]]
  <2>1. r[1] = "list" /\ r[2] = p /\ r # Null /\ r = <<"list", p>>
    BY <1>5 DEF Null
  <2>2. /\ p = [i \in DOMAIN p |-> p[i]] /\ DOMAIN p = DOMAIN v[2]
        /\ \A i \in DOMAIN v[2] : p[i] = RepairedValue[item][v[2][i]] /\ Kept(item, v[2][i])
    BY <1>3, <1>5
  <2>3. Coerced(v, s) = v /\ Coerced(r, s) = r
    BY <1>5, <2>1, CoercedIs
  <2> HIDE DEF p, r, item
  <2>4. SameOn(SaysTheSame, r, v, s)
    BY <1>5, <2>1, <2>2 DEF SameOn, Kept, item
  <2>5. ~MissingOn(MissingInValue, v, s) => SuppliedOn(Supplied, r, s)
    <3> SUFFICES ASSUME ~MissingOn(MissingInValue, v, s) PROVE SuppliedOn(Supplied, r, s)
      OBVIOUS
    <3>1. \A i \in DOMAIN v[2] : ~MissingInValue[item][v[2][i]]
      BY <1>5, <2>3 DEF MissingOn, item
    <3>2. \A i \in DOMAIN p : Supplied[item][p[i]]
      BY <2>2, <3>1 DEF Kept
    <3> QED
      BY <2>1, <3>2 DEF SuppliedOn, item
  <2>6. OneTypeOn(OneType, s) => RepairedOn(RepairedValue, r, s) = r
    <3> SUFFICES ASSUME OneTypeOn(OneType, s) PROVE RepairedOn(RepairedValue, r, s) = r
      OBVIOUS
    <3>1. OneType[item]
      BY <1>5 DEF OneTypeOn, item
    <3>2. RepairedOn(RepairedValue, r, s) = <<"list", [i \in DOMAIN p |-> RepairedValue[item][p[i]]]>>
      BY <1>5, <2>1, <2>3 DEF RepairedOn, item
    <3>3. \A i \in DOMAIN p : RepairedValue[item][p[i]] = p[i]
      BY <2>2, <3>1 DEF Kept
    <3>4. [i \in DOMAIN p |-> RepairedValue[item][p[i]]] = [i \in DOMAIN p |-> p[i]]
      BY <3>3
    <3> QED
      BY <2>1, <2>2, <3>2, <3>4
  <2> QED
    BY <1>1, <1>2, <2>1, <2>4, <2>5, <2>6 DEF Kept, r
<1>6. CASE /\ v[1] # "list" /\ s.items # {} /\ v \in Readings[item] /\ c = <<"list", <<v>>>>
           /\ ~(v[1] = "dict" /\ "object" \in s.types)
           /\ r = <<"list", [i \in {1} |-> RepairedValue[item][v]]>>
  <2> DEFINE p == [i \in {1} |-> RepairedValue[item][v]]
  <2>1. r[1] = "list" /\ r[2] = p /\ r # Null /\ r = <<"list", p>>
    BY <1>6 DEF Null
  <2>2. /\ p = [i \in {1} |-> p[i]] /\ DOMAIN p = {1} /\ p[1] = RepairedValue[item][v]
        /\ Kept(item, v)
    BY <1>3, <1>6
  <2>3. Coerced(r, s) = r /\ c[1] = "list" /\ DOMAIN c[2] = {1} /\ c[2][1] = v
    BY <1>6, <2>1, CoercedIs
  <2> HIDE DEF p, r, item, c
  <2>4. SameOn(SaysTheSame, r, v, s)
    BY <1>6, <2>1, <2>2 DEF SameOn, Kept, item
  <2>5. ~MissingOn(MissingInValue, v, s) => SuppliedOn(Supplied, r, s)
    <3> SUFFICES ASSUME ~MissingOn(MissingInValue, v, s) PROVE SuppliedOn(Supplied, r, s)
      OBVIOUS
    <3>1. ~MissingInValue[item][v]
      BY <1>6, <2>3 DEF MissingOn, item, c
    <3>2. \A i \in DOMAIN p : Supplied[item][p[i]]
      BY <2>2, <3>1 DEF Kept
    <3> QED
      BY <2>1, <3>2 DEF SuppliedOn, item
  <2>6. OneTypeOn(OneType, s) => RepairedOn(RepairedValue, r, s) = r
    <3> SUFFICES ASSUME OneTypeOn(OneType, s) PROVE RepairedOn(RepairedValue, r, s) = r
      OBVIOUS
    <3>1. OneType[item]
      BY <1>6 DEF OneTypeOn, item
    <3>2. RepairedOn(RepairedValue, r, s) = <<"list", [i \in DOMAIN p |-> RepairedValue[item][p[i]]]>>
      BY <1>6, <2>1, <2>3 DEF RepairedOn, item
    <3>3. \A i \in DOMAIN p : RepairedValue[item][p[i]] = p[i]
      BY <2>2, <3>1 DEF Kept
    <3>4. [i \in DOMAIN p |-> RepairedValue[item][p[i]]] = [i \in DOMAIN p |-> p[i]]
      BY <3>3
    <3> QED
      BY <2>1, <2>2, <3>2, <3>4
  <2> QED
    BY <1>1, <1>2, <2>1, <2>4, <2>5, <2>6 DEF Kept, r
<1>7. CASE /\ r = c /\ (c[1] = "list" => s.items = {})
           /\ ~(v[1] = "dict" /\ "object" \in s.types)
  <2>1. \/ r = v
        \/ /\ r[1] \in {"str", "bool", "int", "float"} /\ v[1] \in {"str", "int", "float"}
           /\ Gist(r[2]) = Gist(v[2])
        \/ v[1] \notin {"list", "null"} /\ r = <<"list", <<v>>>>
    BY <1>7, CoercedIs
  <2>2. OneTypeOn(OneType, s) => Coerced(r, s) = r
    BY <1>7, CoercedOnce DEF OneTypeOn
  <2>7. r[1] = "list" => s.items = {}
    BY <1>7
  <2> HIDE DEF r, c
  <2>3. SameOn(SaysTheSame, r, v, s) /\ (r = Null => v = Null)
    <3>1. CASE r = v
      BY <3>1 DEF SameOn
    <3>2. CASE /\ r[1] \in {"str", "bool", "int", "float"} /\ v[1] \in {"str", "int", "float"}
               /\ Gist(r[2]) = Gist(v[2])
      <4>1. r[1] \notin Compound /\ v[1] \notin Compound
        BY <3>2 DEF Compound
      <4>2. Null[1] = "null" /\ r[1] # "null" /\ v[1] # "null"
        BY <3>2 DEF Null
      <4>3. {r[1], v[1]} \intersect Compound = {} /\ Null \notin {r, v}
        BY <4>1, <4>2
      <4> QED
        BY <3>2, <4>2, <4>3 DEF SameOn
    <3>3. CASE v[1] \notin {"list", "null"} /\ r = <<"list", <<v>>>>
      <4>1. r[1] = "list" /\ r[2] = <<v>> /\ r # Null
        BY <3>3 DEF Null
      <4> QED
        BY <3>3, <4>1 DEF SameOn
    <3> QED
      BY <2>1, <3>1, <3>2, <3>3
  <2>4. ~(r[1] = "dict" /\ "object" \in s.types)
    BY <1>7, <2>1
  <2>5. SuppliedOn(Supplied, r, s)
    BY <2>4, <2>7 DEF SuppliedOn
  <2>6. OneTypeOn(OneType, s) => RepairedOn(RepairedValue, r, s) = r
    BY <2>2, <2>4, <2>7 DEF RepairedOn
  <2> QED
    BY <1>1, <1>2, <2>3, <2>5, <2>6 DEF Kept, r
<1> HIDE DEF r, c, item
<1> QED
  BY <1>4, <1>5, <1>6, <1>7, RepairedIs DEF r, c, item

(* So is every value under every schema: by induction on its depth.        *)
LEMMA RepairsKeep == \A s \in Schemas : \A v \in Readings[s] : Kept(s, v)
<1> DEFINE fails == {n \in Nat : \E s \in Schemas : s.depth = n /\ \E v \in Readings[s] : ~Kept(s, v)}
<1>1. \A s \in Schemas : s.depth \in Nat
  BY SchemaAssumption
<1>2. fails = {}
  <2> SUFFICES ASSUME fails # {} PROVE FALSE
    OBVIOUS
  <2>1. PICK n \in fails : \A m \in fails : n <= m
    BY LeastNat
  <2>2. PICK s \in Schemas : s.depth = n /\ \E v \in Readings[s] : ~Kept(s, v)
    OBVIOUS
  <2>3. ASSUME NEW t \in Schemas, t.depth < s.depth PROVE \A w \in Readings[t] : Kept(t, w)
    <3>1. t.depth \in Nat /\ n \in Nat /\ ~(n <= t.depth)
      BY <1>1, <2>2, <2>3
    <3>2. t.depth \notin fails
      <4> HIDE DEF fails
      <4> QED
        BY <2>1, <3>1
    <3> QED
      BY <3>1, <3>2
  <2> QED
    BY <2>2, <2>3, ValueKept
<1> QED
  BY <1>1, <1>2

(* What is taken from a text is the first of its objects, or is none.      *)
LEMMA ParsedIs ==
  ASSUME NEW c, NEW s, IsCall(c, s), Parsed(c[2]) # NoObject
  PROVE  /\ Parsed(c[2]) \in Readings[s] /\ Parsed(c[2])[1] = "dict"
         /\ Parsed(c[2]) \in IF c[2][1] = "text" THEN {Empty} \union {c[2][2][i] : i \in DOMAIN c[2][2]}
                             ELSE {c[2]}
<1>1. CASE c[2][1] # "text"
  BY <1>1 DEF Parsed, IsCall
<1>2. CASE c[2][1] = "text"
  <2> DEFINE texts == c[2][2]
             objects == {i \in DOMAIN texts : texts[i][1] = "dict"}
             first == CHOOSE i \in objects : \A j \in objects : i <= j
  <2>1. /\ DOMAIN texts \subseteq Nat /\ Empty \in Readings[s] /\ Empty[1] = "dict"
        /\ \A i \in objects : texts[i] \in Readings[s]
    BY <1>2 DEF IsCall, Empty
  <2>2. Parsed(c[2]) = IF texts = <<>> THEN Empty ELSE IF objects = {} THEN NoObject ELSE texts[first]
    BY <1>2 DEF Parsed, Extracted
  <2>3. objects # {} => first \in objects
    <3> SUFFICES ASSUME objects # {} PROVE first \in objects
      OBVIOUS
    <3>1. objects \in SUBSET Nat
      BY <2>1
    <3> HIDE DEF objects
    <3>2. \E i \in objects : \A j \in objects : i <= j
      BY <3>1, LeastNat
    <3> QED
      BY <3>2
  <2>4. CASE texts = <<>>
    <3> HIDE DEF objects, first, texts
    <3>1. Parsed(c[2]) = Empty
      BY <2>2, <2>4
    <3> QED
      BY <1>2, <2>1, <3>1
  <2>5. CASE texts # <<>>
    <3>1. Parsed(c[2]) = texts[first] /\ first \in objects
      <4> HIDE DEF objects, first, texts
      <4> QED
        BY <2>2, <2>3, <2>5
    <3> HIDE DEF first
    <3> QED
      BY <1>2, <2>1, <3>1
  <2> QED
    BY <2>4, <2>5
<1> QED
  BY <1>1, <1>2

OfADeployment == \E d \in Deployments : known = d[1] /\ parameters = d[2]
ReliabilityInv == OfADeployment /\ CallsAsMeant

(* One call, whatever its name and arguments.                              *)
LEMMA InvokedAsMeant ==
  ASSUME OfADeployment, NEW c \in WrittenCalls, Invoke(c[1], c[2])
  PROVE  CallsAsMeant'
<1> DEFINE tool == Resolution(known, c[1])
           parsed == Parsed(c[2])
<1>1. known \subseteq Catalogue /\ parameters \in Schemas /\ IsCall(c, parameters)
  BY CallAssumption DEF OfADeployment
<1>2. NeverAGuess(known, c[1], tool)
  <2>1. /\ c[1] = ToolName(c[1].server, c[1].tool, c[1].written)
        /\ c[1].written \in SUBSET {"cased", "padded", "dashed"}
    BY <1>1 DEF IsCall
  <2> QED
    BY <1>1, <2>1, NeverGuessed
<1>3. known' = known /\ parameters' = parameters
  BY DEF Invoke
<1>4. CASE tool = Nameless \/ parsed = NoObject
  <2>1. invoked'.name = c[1] /\ invoked'.resolved = tool /\ ~invoked'.ok
    BY <1>4 DEF Invoke, NoInvocation
  <2> HIDE DEF tool, parsed
  <2> QED
    BY <1>2, <1>3, <2>1 DEF CallsAsMeant, NothingMadeUp
<1>5. CASE ~(tool = Nameless \/ parsed = NoObject)
  <2> DEFINE o == parsed[2]
             r == RepairedObject(o, parameters)
  <2>1. /\ invoked'.name = c[1] /\ invoked'.form = c[2] /\ invoked'.resolved = tool
        /\ invoked'.ok = ~MissingInObject(o, parameters)
        /\ invoked'.arguments = <<"dict", r>>
    BY <1>5 DEF Invoke
  <2>2. /\ parsed \in Readings[parameters] /\ parsed[1] = "dict"
        /\ parsed \in IF c[2][1] = "text" THEN {Empty} \union {c[2][2][i] : i \in DOMAIN c[2][2]}
                      ELSE {c[2]}
    BY <1>1, <1>5, ParsedIs
  <2>3. \A k \in DOMAIN o \intersect DOMAIN parameters.fields :
           o[k] \in Readings[parameters.fields[k]] /\ Kept(parameters.fields[k], o[k])
    BY <1>1, <2>2, FieldsRead, RepairsKeep, PartsBelow
  <2> HIDE DEF tool, parsed
  <2>4. /\ SameParts(SaysTheSame, r, o, parameters)
        /\ ~MissingParts(MissingInValue, o, parameters) => SuppliedParts(Supplied, r, parameters)
        /\ (\A k \in DOMAIN parameters.fields : OneType[parameters.fields[k]]) =>
              RepairedObject(r, parameters) = r
    <3> HIDE DEF o
    <3> QED
      BY <1>1, <2>3, ObjectKept DEF RepairedObject
  <2>5. OneType[parameters] => \A k \in DOMAIN parameters.fields : OneType[parameters.fields[k]]
    BY <1>1, OneTypeIs DEF OneTypeOn
  <2> HIDE DEF r
  <2>6. NothingMadeUp'
    <3> SUFFICES ASSUME invoked'.ok PROVE NothingMadeUp'
      BY DEF NothingMadeUp
    <3>1. SuppliedParts(Supplied, r, parameters)
      BY <2>1, <2>4 DEF MissingInObject
    <3>2. OneType[parameters] => RepairedObject(r, parameters) = r
      BY <2>4, <2>5
    <3>3. invoked'.arguments[2] = r
      BY <2>1
    <3> QED
      BY <1>3, <2>1, <2>2, <2>4, <3>1, <3>2, <3>3 DEF NothingMadeUp
  <2> QED
    BY <1>2, <1>3, <2>1, <2>6 DEF CallsAsMeant
<1> QED
  BY <1>4, <1>5

(* AgentRuntime._invoke, for any tools on offer, any schema of finite      *)
(* depth and anything a model writes: the name is resolved to the tool it  *)
(* is nearest to or to none, and the arguments that reach the gateway say  *)
(* what the model wrote and lack nothing that is required at any depth;    *)
(* where every declaration is of one type they are as they were when they  *)
(* are repaired again.                                                     *)
THEOREM CallsMeant == ReliabilitySpec => []CallsAsMeant
<1>1. ReliabilityInit => ReliabilityInv
  <2> SUFFICES ASSUME ReliabilityInit PROVE ReliabilityInv
    OBVIOUS
  <2>1. ~invoked.ok /\ invoked.resolved = Nameless /\ invoked.name = Nameless
    BY DEF ReliabilityInit, NoInvocation
  <2> QED
    BY <2>1 DEF ReliabilityInit, ReliabilityInv, OfADeployment, CallsAsMeant, NothingMadeUp, NeverAGuess
<1>2. ReliabilityInv /\ [ReliabilityNext]_reliabilityVars => ReliabilityInv'
  <2> SUFFICES ASSUME ReliabilityInv, [ReliabilityNext]_reliabilityVars PROVE ReliabilityInv'
    OBVIOUS
  <2>1. ASSUME NEW c \in WrittenCalls, Invoke(c[1], c[2]) PROVE ReliabilityInv'
    <3>1. CallsAsMeant'
      BY <2>1, InvokedAsMeant DEF ReliabilityInv
    <3> QED
      BY <2>1, <3>1 DEF ReliabilityInv, OfADeployment, Invoke
  <2>2. CASE UNCHANGED reliabilityVars
    BY <2>2 DEF reliabilityVars, ReliabilityInv, OfADeployment, CallsAsMeant, NothingMadeUp
  <2> QED
    BY <2>1, <2>2 DEF ReliabilityNext
<1> QED
  BY <1>1, <1>2, PTL DEF ReliabilitySpec, ReliabilityInv
=============================================================================
