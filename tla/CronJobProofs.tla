---------------------------- MODULE CronJobProofs ----------------------------
(***************************************************************************)
(* Proofs about the CronJob operator, for any period, policies, deadlines,  *)
(* numbers of operations, failures and crashes: what getNextSchedule        *)
(* answers, what conversion and admission keep (both for the input of       *)
(* CronJobFunctions), the types, and the promises of Reconcile, each under  *)
(* the conditions it needs.                                                 *)
(***************************************************************************)
EXTENDS CronJob, CronJobFunctions, TLAPS, SequenceTheorems, FiniteSetTheorems, WellFoundedInduction

-----------------------------------------------------------------------------
(* Numbers. *)

(* Induction for the provers: a set of naturals has a least element. *)
LEMMA LeastNatural ==
  ASSUME NEW T, T \subseteq Nat, T # {}
  PROVE  \E n \in T : \A m \in T : n <= m
  <1> DEFINE R == OpToRel(<, Nat)
  <1>1. IsWellFoundedOn(R, Nat)
    BY NatLessThanWellFounded
  <1>2. PICK n \in T : \A m \in T : ~(<<m, n>> \in R)
    <2> HIDE DEF R
    <2> QED
      BY <1>1, WFMin
  <1>3. ASSUME NEW m \in T, m < n PROVE <<m, n>> \in R
    <2>1. <<m, n>> \in Nat \X Nat /\ <<m, n>>[1] = m /\ <<m, n>>[2] = n
      OBVIOUS
    <2> QED
      BY <1>3, <2>1 DEF OpToRel
  <1> HIDE DEF R
  <1>4. ASSUME NEW m \in T PROVE ~(m < n)
    BY <1>2, <1>3
  <1>5. n \in Nat /\ \A m \in T : m \in Nat
    OBVIOUS
  <1> QED
    BY <1>4, <1>5

LEMMA MaxOfNaturals ==
  ASSUME NEW b \in Nat, NEW S, S \subseteq 0..b, S # {}
  PROVE  Max(S) \in S /\ \A s \in S : s <= Max(S)
  <1> DEFINE T == {b - s : s \in S}
  <1>1. T \subseteq Nat /\ T # {}
    OBVIOUS
  <1>2. PICK n \in T : \A m \in T : n <= m
    BY <1>1, LeastNatural
  <1>3. PICK top \in S : n = b - top
    OBVIOUS
  <1>4. ASSUME NEW s \in S PROVE top >= s
    <2>1. n <= b - s
      BY <1>2
    <2> QED
      BY <1>3, <2>1
  <1>5. \E x \in S : \A y \in S : x >= y
    BY <1>4
  <1>6. Max(S) \in S /\ \A s \in S : Max(S) >= s
    BY <1>5 DEF Max
  <1>7. Max(S) \in Nat /\ \A s \in S : s \in Nat
    BY <1>6
  <1> QED
    BY <1>6, <1>7

(* Multiples of the period. *)
LEMMA Quotient ==
  ASSUME NEW x \in Nat, NEW p \in Nat \ {0}
  PROVE  /\ x \div p \in Nat /\ (x \div p) * p <= x /\ x < (x \div p) * p + p
         /\ x % p = 0 => x = (x \div p) * p
  OBVIOUS

LEMMA Multiple ==
  ASSUME NEW q \in Nat, NEW p \in Nat \ {0}
  PROVE  q * p \in Nat /\ (q * p) % p = 0 /\ (q + 1) * p = q * p + p /\ (q * p) \div p = q
  OBVIOUS

LEMMA MultiplesApart ==
  ASSUME NEW a \in Nat, NEW b \in Nat, a < b, NEW p \in Nat \ {0}
  PROVE  a * p + p <= b * p
  OBVIOUS

(* Two starts of the schedule are a period apart. *)
LEMMA StartsApart ==
  ASSUME NEW p \in Nat \ {0}, NEW s \in Nat, NEW t \in Nat, s % p = 0, t % p = 0, s < t
  PROVE  s + p <= t
  <1>1. s = (s \div p) * p /\ t = (t \div p) * p /\ s \div p \in Nat /\ t \div p \in Nat
    BY Quotient
  <1>2. s \div p < t \div p
    <2>1. CASE t \div p = s \div p
      BY <1>1, <2>1
    <2>2. CASE t \div p < s \div p
      <3>1. t + p <= s
        BY <1>1, <2>2, MultiplesApart
      <3> QED
        BY <3>1
    <2> QED
      BY <1>1, <2>1, <2>2
  <1> QED
    BY <1>1, <1>2, MultiplesApart

LEMMA NextStartIsNext ==
  ASSUME NEW p \in Nat \ {0}, NEW x \in Nat
  PROVE  /\ NextStart(p, x) = (x \div p) * p + p
         /\ NextStart(p, x) \in Nat /\ NextStart(p, x) % p = 0
         /\ x < NextStart(p, x) /\ NextStart(p, x) <= x + p
         /\ \A t \in Nat : x < t /\ t % p = 0 => NextStart(p, x) <= t
  <1>1. x \div p \in Nat /\ (x \div p) * p <= x /\ x < (x \div p) * p + p
    BY Quotient
  <1>2. NextStart(p, x) = (x \div p + 1) * p
    BY DEF NextStart
  <1>3. /\ (x \div p) * p \in Nat /\ (x \div p + 1) * p = (x \div p) * p + p
        /\ (x \div p) * p % p = 0
        /\ (x \div p + 1) * p \in Nat /\ (x \div p + 1) * p % p = 0
    <2>1. x \div p + 1 \in Nat
      BY <1>1
    <2> QED
      BY <1>1, <2>1, Multiple
  <1>4. ASSUME NEW t \in Nat, x < t, t % p = 0 PROVE NextStart(p, x) <= t
    <2>1. (x \div p) * p < t
      BY <1>1, <1>3, <1>4
    <2>2. (x \div p) * p + p <= t
      BY <1>3, <1>4, <2>1, StartsApart
    <2> QED
      BY <1>2, <1>3, <2>2
  <1> QED
    BY <1>1, <1>2, <1>3, <1>4

-----------------------------------------------------------------------------
(* getNextSchedule.  Times it starts from are naturals.                     *)
(* v1 admits negative deadlines. *)
MaybeDeadline == Int \cup {NoDeadline}

LEMMA EarliestIsLater ==
  ASSUME NEW last \in Nat, NEW deadline \in MaybeDeadline, NEW t \in Nat
  PROVE  EarliestTime(last, deadline, t) \in Nat /\ EarliestTime(last, deadline, t) >= last
  <1>1. CASE deadline = NoDeadline
    BY <1>1 DEF EarliestTime
  <1>2. CASE deadline # NoDeadline
    <2>1. deadline \in Int /\ Second \in Nat /\ 2^Bits \in Nat \ {0} /\ 2^(Bits - 1) \in Nat
      BY <1>2, ScheduleAssumption DEF MaybeDeadline
    <2>2. -Second * deadline \in Int
      BY <2>1
    <2>3. Wrapped(-Second * deadline) \in Int
      BY <2>1, <2>2 DEF Wrapped
    <2> HIDE <2>1
    <2> QED
      BY <1>2, <2>3 DEF EarliestTime
  <1> QED
    BY <1>1, <1>2

(* The times the loop visits: the first and then the starts that follow it. *)
LEMMA VisitsEveryStart ==
  ASSUME NEW p \in Nat \ {0}, NEW earliest \in Nat
  PROVE  LET q == earliest \div p IN
           Visited(p, earliest) =
             [n \in 0..(TooMany + 1) |-> IF n = 0 THEN earliest ELSE (q + n) * p]
  <1> DEFINE q == earliest \div p
             D == 0..(TooMany + 1)
             closed == [n \in D |-> IF n = 0 THEN earliest ELSE (q + n) * p]
             step(f, n) == IF n = 0 THEN earliest ELSE NextStart(p, f[n - 1])
             Recursive(f) == f = [n \in D |-> step(f, n)]
             visit == CHOOSE f : Recursive(f)
  <1>1. q \in Nat /\ TooMany \in Nat
    BY Quotient, ScheduleAssumption
  <1>2. Recursive(closed)
    <2>1. ASSUME NEW n \in D PROVE closed[n] = step(closed, n)
      <3>1. CASE n = 0
        BY <3>1
      <3>2. CASE n = 1
        <4>1. closed[n - 1] = earliest /\ closed[n] = (q + 1) * p
          BY <1>1, <3>2
        <4> QED
          BY <3>2, <4>1 DEF NextStart
      <3>3. CASE n # 0 /\ n # 1
        <4>1. n - 1 \in D /\ n - 1 # 0 /\ n \in Nat
          BY <1>1, <3>3
        <4>2. closed[n - 1] = (q + (n - 1)) * p /\ closed[n] = (q + n) * p
          BY <3>3, <4>1
        <4>3. q + (n - 1) \in Nat /\ (q + (n - 1)) + 1 = q + n
          BY <1>1, <4>1
        <4> HIDE DEF closed, q, D
        <4>4. ((q + (n - 1)) * p) \div p = q + (n - 1)
          BY <4>3, Multiple
        <4>5. NextStart(p, (q + (n - 1)) * p) = (q + n) * p
          BY <4>3, <4>4 DEF NextStart
        <4> QED
          BY <3>3, <4>2, <4>5
      <3> QED
        BY <3>1, <3>2, <3>3
    <2> QED
      BY <2>1
  <1>3. ASSUME NEW f, Recursive(f) PROVE f = closed
    <2> DEFINE wrong == {n \in D : f[n] # closed[n]}
    <2>1. wrong = {}
      <3> SUFFICES ASSUME wrong # {} PROVE FALSE
        OBVIOUS
      <3>1. wrong \subseteq Nat
        BY <1>1
      <3>2. PICK n \in wrong : \A m \in wrong : n <= m
        BY <3>1, LeastNatural
      <3>3. f[n] = step(f, n) /\ closed[n] = step(closed, n)
        BY <1>2, <1>3
      <3>4. CASE n = 0
        BY <3>3, <3>4
      <3>5. CASE n # 0
        <4>1. n - 1 \in D /\ n \in Nat /\ ~(n <= n - 1)
          BY <1>1, <3>5
        <4>2. ~(n - 1 \in wrong)
          BY <3>2, <4>1
        <4>3. f[n - 1] = closed[n - 1]
          BY <4>1, <4>2
        <4>4. f[n] = closed[n]
          BY <3>3, <3>5, <4>3
        <4> QED
          BY <4>4
      <3> QED
        BY <3>4, <3>5
    <2>2. f = [n \in D |-> f[n]]
      BY <1>3
    <2>3. \A n \in D : f[n] = closed[n]
      BY <2>1
    <2> QED
      BY <2>2, <2>3
  <1>4. visit = closed
    <2> HIDE DEF closed, Recursive
    <2>1. Recursive(visit)
      BY <1>2
    <2> QED
      BY <1>3, <2>1
  <1>5. Visited(p, earliest) = visit
    BY DEF Visited
  <1> QED
    BY <1>4, <1>5

IsStart(p, s) == s \in Nat \ {0} /\ s % p = 0

(* getNextSchedule (cronjob_controller.go 208-259), for every period but    *)
(* that of a schedule that never comes due: the run it reports as missed is *)
(* the latest start since earliestTime, if there is one; the next run is    *)
(* the first start after now; and it fails only if more than TooMany starts *)
(* have passed since earliestTime.                                          *)
THEOREM NextScheduleAnswers ==
  ASSUME NEW p \in Nat \ {0}, NEW last \in Nat, NEW deadline \in MaybeDeadline, NEW t \in Nat
  PROVE  LET r        == GetNextSchedule(p, last, deadline, t)
             earliest == EarliestTime(last, deadline, t)
             IsDue(s)   == IsStart(p, s) /\ earliest < s /\ s <= t
         IN /\ r.err \in BOOLEAN
            /\ r.err => earliest + TooMany * p < t
            /\ ~r.err =>
                 /\ r.next = NextStart(p, t)
                 /\ \/ r.missed = ZeroTime /\ \A s \in Nat : ~IsDue(s)
                    \/ IsDue(r.missed) /\ t < r.missed + p
  <1> DEFINE earliest == EarliestTime(last, deadline, t)
             q        == earliest \div p
             visit    == Visited(p, earliest)
             starts   == {n \in 1..(TooMany + 1) : \A m \in 1..n : visit[m] <= t}
             r        == GetNextSchedule(p, last, deadline, t)
             IsDue(s)   == IsStart(p, s) /\ earliest < s /\ s <= t
  <1>1. earliest \in Nat /\ q \in Nat /\ TooMany \in Nat
    BY EarliestIsLater, Quotient, ScheduleAssumption
  <1>2. q * p <= earliest /\ earliest < q * p + p
    BY <1>1, Quotient
  <1>3. r = IF earliest > t
              THEN [err |-> FALSE, missed |-> ZeroTime, next |-> NextStart(p, t)]
            ELSE IF TooMany + 1 \in starts
              THEN [err |-> TRUE, missed |-> ZeroTime, next |-> ZeroTime]
            ELSE [err |-> FALSE, missed |-> IF starts = {} THEN ZeroTime ELSE visit[Max(starts)],
                  next |-> NextStart(p, t)]
    BY DEF GetNextSchedule
  <1>4. ASSUME NEW n \in 1..(TooMany + 1) PROVE visit[n] = (q + n) * p
    <2>1. visit = [m \in 0..(TooMany + 1) |-> IF m = 0 THEN earliest ELSE (q + m) * p]
      <3> HIDE DEF earliest
      <3> QED
        BY <1>1, VisitsEveryStart
    <2>2. n \in 0..(TooMany + 1) /\ n # 0
      BY <1>1
    <2> HIDE DEF visit
    <2> QED
      BY <2>1, <2>2
  <1> HIDE DEF r, starts, visit, earliest, q
  <1>5. CASE earliest > t
    <2>1. r = [err |-> FALSE, missed |-> ZeroTime, next |-> NextStart(p, t)]
      BY <1>3, <1>5
    <2>2. \A s \in Nat : ~IsDue(s)
      BY <1>1, <1>5
    <2> QED
      BY <2>1, <2>2 DEF r, earliest
  <1>6. CASE ~(earliest > t) /\ TooMany + 1 \in starts
    <2>1. r = [err |-> TRUE, missed |-> ZeroTime, next |-> ZeroTime]
      BY <1>3, <1>6
    <2>2. visit[TooMany + 1] <= t
      BY <1>1, <1>6 DEF starts
    <2>3. visit[TooMany + 1] = (q + (TooMany + 1)) * p
      BY <1>1, <1>4
    <2>4. (q + (TooMany + 1)) * p = q * p + TooMany * p + p
      BY <1>1
    <2>5. q * p \in Nat /\ TooMany * p \in Nat
      BY <1>1
    <2>6. earliest + TooMany * p < t
      BY <1>1, <1>2, <2>2, <2>3, <2>4, <2>5
    <2> QED
      BY <2>1, <2>6 DEF r, earliest
  <1>7. CASE ~(earliest > t) /\ TooMany + 1 \notin starts /\ starts = {}
    <2>1. r = [err |-> FALSE, missed |-> ZeroTime, next |-> NextStart(p, t)]
      BY <1>3, <1>7
    <2>2. 1 \in 1..(TooMany + 1)
      BY <1>1
    <2>3. ~(visit[1] <= t)
      BY <1>7, <2>2 DEF starts
    <2>4. visit[1] = NextStart(p, earliest)
      BY <1>4, <2>2 DEF NextStart, q
    <2>5. \A s \in Nat : ~IsDue(s)
      <3> SUFFICES ASSUME NEW s \in Nat, IsDue(s) PROVE FALSE
        OBVIOUS
      <3>1. NextStart(p, earliest) <= s /\ NextStart(p, earliest) \in Nat
        BY <1>1, NextStartIsNext DEF IsStart
      <3> QED
        BY <2>3, <2>4, <3>1
    <2> QED
      BY <2>1, <2>5 DEF r, earliest
  <1>8. CASE ~(earliest > t) /\ TooMany + 1 \notin starts /\ starts # {}
    <2> DEFINE n == Max(starts)
               s == visit[n]
    <2>1. r = [err |-> FALSE, missed |-> s, next |-> NextStart(p, t)]
      BY <1>3, <1>8
    <2>2. TooMany + 1 \in Nat /\ starts \subseteq 0..(TooMany + 1)
      BY <1>1 DEF starts
    <2>3. n \in starts /\ \A m \in starts : m <= n
      BY <1>8, <2>2, MaxOfNaturals
    <2> HIDE DEF n
    <2>4. n \in 1..(TooMany + 1) /\ \A m \in 1..n : visit[m] <= t
      BY <2>3 DEF starts
    <2>5. n # TooMany + 1
      BY <1>8, <2>3
    <2>6. n \in Nat \ {0} /\ n + 1 \in 1..(TooMany + 1) /\ ~(n + 1 <= n)
      BY <1>1, <2>4, <2>5
    <2>7. ~(n + 1 \in starts)
      BY <2>3, <2>6
    <2>8. ~(visit[n + 1] <= t)
      BY <2>4, <2>6, <2>7 DEF starts
    <2>9. s = (q + n) * p /\ visit[n + 1] = (q + (n + 1)) * p
      BY <1>4, <2>4, <2>6
    <2>10. /\ q + n \in Nat /\ q < q + n
           /\ q + (n + 1) = (q + n) + 1
      BY <1>1, <2>6
    <2>11. /\ s \in Nat /\ s % p = 0 /\ visit[n + 1] = s + p
           /\ q * p + p <= s
      <3>1. /\ (q + n) * p \in Nat /\ ((q + n) * p) % p = 0
            /\ ((q + n) + 1) * p = (q + n) * p + p
        BY <2>10, Multiple
      <3>2. q * p + p <= (q + n) * p
        BY <1>1, <2>10, MultiplesApart
      <3> QED
        BY <2>9, <2>10, <3>1, <3>2
    <2>12. s <= t
      <3>1. n \in 1..n
        BY <2>6
      <3> QED
        BY <2>4, <3>1
    <2>13. IsDue(s) /\ t < s + p
      BY <1>1, <1>2, <2>8, <2>11, <2>12 DEF IsStart
    <2> QED
      BY <2>1, <2>13 DEF r, earliest
  <1> QED
    BY <1>5, <1>6, <1>7, <1>8 DEF r, earliest

(* "Optional deadline in seconds for starting the job if it misses          *)
(* scheduled time for any reason" (api/v1/cronjob_types.go): with a longer  *)
(* deadline, or with none, getNextSchedule reports the very run that it     *)
(* reports with a shorter one, unless it now finds too many starts and      *)
(* fails.  Deadlines are such that EarliestTime's product does not wrap.    *)
THEOREM LongerDeadlineAdmitsTheSame ==
  ASSUME NEW p \in Nat \ {0}, NEW last \in Nat, NEW t \in Nat,
         NEW d \in Int \ {NoDeadline}, NEW e \in MaybeDeadline,
         e # NoDeadline => d < e /\ Wrapped(-Second * e) = -Second * e,
         Wrapped(-Second * d) = -Second * d
  PROVE  LET short == GetNextSchedule(p, last, d, t)
             long  == GetNextSchedule(p, last, e, t)
         IN short.missed # ZeroTime => long.err \/ long.missed = short.missed
  <1> DEFINE short  == GetNextSchedule(p, last, d, t)
             long   == GetNextSchedule(p, last, e, t)
             from   == EarliestTime(last, d, t)
             before == EarliestTime(last, e, t)
  <1>1. from \in Nat /\ before \in Nat
    BY EarliestIsLater DEF MaybeDeadline
  <1>2. before <= from
    <2>1. CASE e = NoDeadline
      BY <2>1, EarliestIsLater DEF EarliestTime, MaybeDeadline
    <2>2. CASE e # NoDeadline
      <3>1. d \in Int /\ e \in Int /\ d < e /\ Second \in Nat
        BY <2>2, ScheduleAssumption DEF MaybeDeadline
      <3>2. -Second * e <= -Second * d /\ -Second * e \in Int /\ -Second * d \in Int
        BY <3>1
      <3>3. /\ from = IF t + -Second * d > last THEN t + -Second * d ELSE last
            /\ before = IF t + -Second * e > last THEN t + -Second * e ELSE last
        BY <2>2 DEF EarliestTime
      <3> HIDE DEF from, before
      <3> QED
        BY <3>2, <3>3
    <2> QED
      BY <2>1, <2>2
  <1>3. ASSUME short.err PROVE short.missed = ZeroTime
    BY <1>3 DEF GetNextSchedule
  <1>4. /\ ~short.err => \/ short.missed = ZeroTime
                         \/ /\ IsStart(p, short.missed) /\ from < short.missed
                            /\ short.missed <= t /\ t < short.missed + p
        /\ ~long.err => \/ /\ long.missed = ZeroTime
                           /\ \A s \in Nat : ~(IsStart(p, s) /\ before < s /\ s <= t)
                        \/ /\ IsStart(p, long.missed) /\ before < long.missed
                           /\ long.missed <= t /\ t < long.missed + p
    BY NextScheduleAnswers DEF MaybeDeadline
  <1> HIDE DEF short, long, from, before
  <1> SUFFICES ASSUME short.missed # ZeroTime, ~long.err PROVE long.missed = short.missed
    BY DEF short, long
  <1>5. /\ IsStart(p, short.missed) /\ from < short.missed
        /\ short.missed <= t /\ t < short.missed + p
    BY <1>3, <1>4
  <1>6. short.missed \in Nat /\ before < short.missed
    BY <1>1, <1>2, <1>5 DEF IsStart
  <1>7. IsStart(p, long.missed) /\ long.missed <= t /\ t < long.missed + p
    BY <1>4, <1>5, <1>6
  <1>8. ~(short.missed < long.missed) /\ ~(long.missed < short.missed)
    <2>1. /\ short.missed \in Nat /\ long.missed \in Nat
          /\ short.missed % p = 0 /\ long.missed % p = 0
      BY <1>5, <1>7 DEF IsStart
    <2>2. CASE short.missed < long.missed
      <3>1. short.missed + p <= long.missed
        BY <2>1, <2>2, StartsApart
      <3> QED
        BY <1>5, <1>7, <2>1, <3>1
    <2>3. CASE long.missed < short.missed
      <3>1. long.missed + p <= short.missed
        BY <2>1, <2>3, StartsApart
      <3> QED
        BY <1>5, <1>7, <2>1, <3>1
    <2> QED
      BY <2>2, <2>3
  <1> QED
    BY <1>5, <1>7, <1>8 DEF IsStart

-----------------------------------------------------------------------------
(* getNextSchedule fails on too many starts, and on no others: the number   *)
(* of starts between two times.                                             *)
LEMMA CountStarts ==
  ASSUME NEW p \in Nat \ {0}, NEW from \in Nat, NEW t \in Nat, from <= t
  PROVE  LET due == {s \in 1..t : s % p = 0 /\ from < s}
         IN Cardinality(due) \in Nat /\ Cardinality(due) = t \div p - from \div p
  <1> DEFINE due == {s \in 1..t : s % p = 0 /\ from < s}
             q   == from \div p
             K   == t \div p - q
             f   == [n \in 1..K |-> (q + n) * p]
  <1>1. /\ q \in Nat /\ q * p <= from /\ from < q * p + p
        /\ t \div p \in Nat /\ (t \div p) * p <= t /\ t < (t \div p) * p + p
    BY Quotient
  <1>2. K \in Nat /\ t \div p = q + K
    <2>1. ~(t \div p < q)
      <3> SUFFICES ASSUME t \div p < q PROVE FALSE
        OBVIOUS
      <3>1. (t \div p) * p + p <= q * p
        BY <1>1, MultiplesApart
      <3> HIDE DEF q
      <3>2. q * p \in Nat /\ (t \div p) * p \in Nat
        BY <1>1
      <3> QED
        BY <1>1, <3>1, <3>2
    <2> HIDE DEF q
    <2> QED
      BY <1>1, <2>1
  <1> HIDE DEF q, K
  <1>3. ASSUME NEW n \in 1..K
        PROVE  (q + n) * p \in due
    <2>1. n \in Nat /\ q + n \in Nat /\ q < q + n /\ (q + n < q + K \/ n = K)
      BY <1>1, <1>2
    <2>2. (q + n) * p \in Nat /\ ((q + n) * p) % p = 0 /\ q * p + p <= (q + n) * p
      BY <1>1, <2>1, Multiple, MultiplesApart
    <2>3. (q + n) * p <= (q + K) * p
      <3>1. CASE n = K
        BY <2>2, <3>1
      <3>2. CASE q + n < q + K
        <4>1. (q + n) * p + p <= (q + K) * p /\ (q + K) * p \in Nat
          BY <1>1, <1>2, <2>1, <3>2, Multiple, MultiplesApart
        <4> QED
          BY <2>2, <4>1
      <3> QED
        BY <2>1, <3>1, <3>2
    <2>4. (q + K) * p <= t /\ (q + K) * p \in Nat /\ q * p \in Nat
      BY <1>1, <1>2, Multiple
    <2>5. from < (q + n) * p /\ (q + n) * p <= t /\ (q + n) * p # 0
      BY <1>1, <2>2, <2>3, <2>4
    <2> QED
      BY <2>2, <2>5
  <1>4. ASSUME NEW s \in due
        PROVE  \E n \in 1..K : s = (q + n) * p
    <2>1. s \in Nat /\ s % p = 0 /\ from < s /\ s <= t
      OBVIOUS
    <2>2. s = (s \div p) * p /\ s \div p \in Nat
      BY <2>1, Quotient
    <2> DEFINE m == s \div p
    <2> HIDE DEF m
    <2>3. m \in Nat /\ s = m * p
      BY <2>2 DEF m
    <2>4. ~(m <= q)
      <3> SUFFICES ASSUME m <= q PROVE FALSE
        OBVIOUS
      <3>1. CASE m = q
        BY <1>1, <2>1, <2>3, <3>1
      <3>2. CASE m < q
        <4>1. m * p + p <= q * p /\ q * p \in Nat
          BY <1>1, <2>3, <3>2, Multiple, MultiplesApart
        <4> QED
          BY <1>1, <2>1, <2>3, <4>1
      <3> QED
        BY <1>1, <2>3, <3>1, <3>2
    <2>5. ~(q + K < m)
      <3> SUFFICES ASSUME q + K < m PROVE FALSE
        OBVIOUS
      <3>1. (q + K) * p + p <= m * p /\ (q + K) * p \in Nat
        BY <1>1, <1>2, <2>3, Multiple, MultiplesApart
      <3> QED
        BY <1>1, <1>2, <2>1, <2>3, <3>1
    <2>6. m - q \in 1..K /\ q + (m - q) = m
      BY <1>1, <1>2, <2>3, <2>4, <2>5
    <2> QED
      BY <2>3, <2>6
  <1>5. ASSUME NEW n \in 1..K, NEW m \in 1..K, n < m
        PROVE  (q + n) * p # (q + m) * p
    <2>1. q + n \in Nat /\ q + m \in Nat /\ q + n < q + m
      BY <1>1, <1>2, <1>5
    <2>2. (q + n) * p + p <= (q + m) * p /\ (q + n) * p \in Nat /\ (q + m) * p \in Nat
      BY <2>1, Multiple, MultiplesApart
    <2> QED
      BY <2>2
  <1>6. f \in Bijection(1..K, due)
    <2>1. f \in [1..K -> due]
      BY <1>3
    <2>2. \A n, m \in 1..K : f[n] = f[m] => n = m
      <3> SUFFICES ASSUME NEW n \in 1..K, NEW m \in 1..K, f[n] = f[m], n # m PROVE FALSE
        OBVIOUS
      <3>1. n < m \/ m < n
        BY <1>2
      <3> QED
        BY <1>5, <3>1
    <2>3. \A s \in due : \E n \in 1..K : f[n] = s
      BY <1>4
    <2> QED
      BY <2>1, <2>2, <2>3 DEF Bijection, Injection, Surjection, IsInjective
  <1>7. Cardinality(due) = K
    <2> HIDE DEF due, f
    <2>1. ExistsBijection(1..K, due)
      BY <1>6 DEF ExistsBijection
    <2> QED
      BY <1>2, <2>1, FS_CountingElements
  <1> QED
    BY <1>2, <1>7 DEF K, q

LEMMA FailsOnTooMany ==
  ASSUME NEW p \in Nat \ {0}, NEW last \in Nat, NEW deadline \in MaybeDeadline, NEW t \in Nat
  PROVE  LET from == EarliestTime(last, deadline, t) IN
           GetNextSchedule(p, last, deadline, t).err
             <=> from <= t /\ t \div p - from \div p > TooMany
  <1> DEFINE from   == EarliestTime(last, deadline, t)
             q      == from \div p
             visit  == Visited(p, from)
             starts == {n \in 1..(TooMany + 1) : \A m \in 1..n : visit[m] <= t}
             r      == GetNextSchedule(p, last, deadline, t)
  <1>1. from \in Nat /\ TooMany \in Nat /\ TooMany + 1 \in 1..(TooMany + 1)
    BY EarliestIsLater, ScheduleAssumption
  <1>2. q \in Nat /\ t \div p \in Nat /\ (t \div p) * p <= t /\ t < (t \div p) * p + p
    BY <1>1, Quotient
  <1>3. r.err <=> ~(from > t) /\ TooMany + 1 \in starts
    BY DEF GetNextSchedule
  <1>4. ASSUME NEW n \in 1..(TooMany + 1) PROVE visit[n] = (q + n) * p
    <2>1. visit = [m \in 0..(TooMany + 1) |-> IF m = 0 THEN from ELSE (q + m) * p]
      <3> HIDE DEF from
      <3> QED
        BY <1>1, VisitsEveryStart
    <2>2. n \in 0..(TooMany + 1) /\ n # 0
      BY <1>1
    <2> HIDE DEF visit
    <2> QED
      BY <2>1, <2>2
  <1> HIDE DEF r, visit, from, q
  <1>5. ASSUME NEW n \in 1..(TooMany + 1) PROVE visit[n] <= t <=> q + n <= t \div p
    <2>1. n \in Nat /\ q + n \in Nat /\ (q + n) * p \in Nat /\ (t \div p) * p \in Nat
      BY <1>1, <1>2, Multiple
    <2>2. CASE q + n < t \div p
      <3>1. (q + n) * p + p <= (t \div p) * p
        BY <1>2, <2>1, <2>2, MultiplesApart
      <3> QED
        BY <1>2, <1>4, <2>1, <2>2, <3>1
    <2>3. CASE q + n = t \div p
      BY <1>2, <1>4, <2>1, <2>3
    <2>4. CASE t \div p < q + n
      <3>1. (t \div p) * p + p <= (q + n) * p
        BY <1>2, <2>1, <2>4, MultiplesApart
      <3> QED
        BY <1>2, <1>4, <2>1, <2>4, <3>1
    <2> QED
      BY <1>2, <2>1, <2>2, <2>3, <2>4
  <1>6. TooMany + 1 \in starts <=> q + (TooMany + 1) <= t \div p
    <2>1. ASSUME q + (TooMany + 1) <= t \div p, NEW m \in 1..(TooMany + 1) PROVE visit[m] <= t
      <3>1. q + m <= t \div p
        BY <1>1, <1>2, <2>1
      <3> QED
        BY <1>5, <3>1
    <2> QED
      BY <1>1, <1>5, <2>1
  <1>7. q + (TooMany + 1) <= t \div p <=> t \div p - q > TooMany
    BY <1>1, <1>2
  <1>8. ~(from > t) <=> from <= t
    BY <1>1
  <1> QED
    BY <1>3, <1>6, <1>7, <1>8 DEF r, from, q

(* A schedule that never comes due: the loop stands still at time zero.     *)
LEMMA NeverDue ==
  ASSUME NEW last \in Nat, NEW deadline \in MaybeDeadline, NEW t \in Nat
  PROVE  LET r    == GetNextSchedule(0, last, deadline, t)
             from == EarliestTime(last, deadline, t)
         IN /\ r.err <=> from <= t
            /\ r.missed = ZeroTime
  <1> DEFINE from   == EarliestTime(last, deadline, t)
             D      == 0..(TooMany + 1)
             visit  == Visited(0, from)
             starts == {n \in 1..(TooMany + 1) : \A m \in 1..n : visit[m] <= t}
             r      == GetNextSchedule(0, last, deadline, t)
  <1>1. from \in Nat /\ TooMany \in Nat /\ TooMany + 1 \in 1..(TooMany + 1)
    BY EarliestIsLater, ScheduleAssumption
  <1>2. visit = [n \in D |-> IF n = 0 THEN from ELSE ZeroTime]
    BY DEF Visited, NextStart
  <1>3. \A m \in 1..(TooMany + 1) : visit[m] <= t
    <2> HIDE DEF visit
    <2>1. ASSUME NEW m \in 1..(TooMany + 1) PROVE m \in D /\ m # 0
      BY <1>1
    <2> QED
      BY <1>2, <2>1 DEF ZeroTime
  <1>4. TooMany + 1 \in starts
    BY <1>1, <1>3
  <1>5. r = IF from > t THEN [err |-> FALSE, missed |-> ZeroTime, next |-> NextStart(0, t)]
            ELSE [err |-> TRUE, missed |-> ZeroTime, next |-> ZeroTime]
    BY <1>4 DEF GetNextSchedule
  <1>6. ~(from > t) <=> from <= t
    BY <1>1
  <1> HIDE DEF r
  <1> QED
    BY <1>5, <1>6 DEF r

(* The inputs of getNextSchedule: any schedule, times and deadline of which *)
(* the product with a second does not wrap around (EarliestTime).           *)
ScheduleInput == [of : {"schedule"}, period : Nat, last : Nat, now : Nat,
                  deadline : {d \in Int : Wrapped(-Second * d) = -Second * d} \cup {NoDeadline}]

LEMMA MaxIs ==
  ASSUME NEW S, S \subseteq Nat, NEW x \in S, \A y \in S : y <= x
  PROVE  Max(S) = x
  <1>1. \E z \in S : \A y \in S : z >= y
    OBVIOUS
  <1>2. Max(S) \in S /\ \A y \in S : Max(S) >= y
    BY <1>1 DEF Max
  <1>3. Max(S) >= x /\ Max(S) <= x /\ Max(S) \in Nat /\ x \in Nat
    BY <1>2
  <1> QED
    BY <1>3

(* The deadline excludes what lies before the earliest time.                *)
LEMMA DueSinceEarliest ==
  ASSUME input \in ScheduleInput
  PROVE  LET from == EarliestTime(input.last, input.deadline, input.now) IN
           /\ Due(input) = {s \in 1..input.now : input.period # 0 /\ s % input.period = 0 /\ from < s}
           /\ from <= input.now
                <=> input.last <= input.now /\ (input.deadline = NoDeadline \/ input.deadline >= 0)
  <1> DEFINE last == input.last
             d    == input.deadline
             now_ == input.now
             from == EarliestTime(last, d, now_)
  <1>1. last \in Nat /\ now_ \in Nat /\ d \in MaybeDeadline /\ from \in Nat
    <2>1. last \in Nat /\ now_ \in Nat /\ d \in MaybeDeadline
      BY DEF ScheduleInput, MaybeDeadline
    <2> QED
      BY <2>1, EarliestIsLater
  <1>2. CASE d = NoDeadline
    <2>1. from = last
      BY <1>2 DEF EarliestTime
    <2> QED
      BY <1>2, <2>1 DEF Due
  <1>3. CASE d # NoDeadline
    <2>1. d \in Int /\ Wrapped(-Second * d) = -Second * d /\ Second \in Nat \ {0}
      BY <1>3, ScheduleAssumption DEF ScheduleInput
    <2>2. from = IF now_ + -Second * d > last THEN now_ + -Second * d ELSE last
      BY <1>3, <2>1 DEF EarliestTime
    <2>3. /\ -Second * d \in Int /\ Second * d \in Int
          /\ now_ + -Second * d = now_ - Second * d
          /\ -Second * d <= 0 <=> d >= 0
      <3>1. Second * d \in Int /\ -Second * d = -(Second * d)
        BY <2>1
      <3>2. ASSUME d >= 0 PROVE Second * d >= 0
        BY <2>1, <3>2
      <3>3. ASSUME ~(d >= 0) PROVE ~(Second * d >= 0)
        BY <2>1, <3>3
      <3> QED
        BY <1>1, <2>1, <3>1, <3>2, <3>3
    <2>4. ASSUME NEW s \in 1..now_
          PROVE  from < s <=> s > last /\ s > now_ - Second * d
      <3> HIDE DEF from, now_, last, d
      <3> QED
        BY <1>1, <2>2, <2>3, <2>4
    <2>5. from <= now_ <=> last <= now_ /\ d >= 0
      <3> HIDE DEF from, now_, last, d
      <3> QED
        BY <1>1, <2>2, <2>3
    <2> QED
      BY <1>3, <2>4, <2>5 DEF Due
  <1> QED
    BY <1>2, <1>3

(* What getNextSchedule answers, for every schedule, also one that never    *)
(* comes due, every time and every deadline that does not wrap around: the  *)
(* latest start that is due, the first one after now, and an error exactly  *)
(* if more than TooMany are due or none ever will be.                       *)
THEOREM TheScheduleIsAnswered ==
  ASSUME input \in ScheduleInput
  PROVE  AnswersTheSchedule
  <1> DEFINE p    == input.period
             last == input.last
             d    == input.deadline
             t    == input.now
             from == EarliestTime(last, d, t)
             due  == Due(input)
             r    == Result(input)
  <1>1. /\ p \in Nat /\ last \in Nat /\ t \in Nat /\ d \in MaybeDeadline /\ TooMany \in Nat
        /\ r = GetNextSchedule(p, last, d, t)
    BY ScheduleAssumption DEF ScheduleInput, MaybeDeadline, Result
  <1>2. from \in Nat
    BY <1>1, EarliestIsLater
  <1>3. /\ due = {s \in 1..t : p # 0 /\ s % p = 0 /\ from < s}
        /\ from <= t <=> last <= t /\ (d = NoDeadline \/ d >= 0)
    BY DueSinceEarliest
  <1> HIDE DEF p, last, d, t, from, due, r
  <1> SUFFICES /\ r.err <=> \/ Cardinality(due) > TooMany
                            \/ p = 0 /\ last <= t /\ (d = NoDeadline \/ d >= 0)
               /\ ~r.err =>
                    /\ r.missed = IF due = {} THEN ZeroTime ELSE Max(due)
                    /\ p # 0 => /\ r.next > t /\ r.next % p = 0
                                /\ \A s \in (t + 1)..(r.next - 1) : s % p # 0
    BY DEF AnswersTheSchedule, p, last, d, t, due, r
  <1>4. CASE p = 0
    <2>1. due = {} /\ Cardinality(due) = 0
      BY <1>3, <1>4, FS_EmptySet
    <2>2. (r.err <=> from <= t) /\ r.missed = ZeroTime
      BY <1>1, <1>4, NeverDue DEF from
    <2> QED
      BY <1>1, <1>3, <1>4, <2>1, <2>2
  <1>5. CASE p # 0
    <2>1. p \in Nat \ {0} /\ due = {s \in 1..t : s % p = 0 /\ from < s}
      BY <1>1, <1>3, <1>5
    <2>2. r.err <=> Cardinality(due) > TooMany
      <3>1. r.err <=> from <= t /\ t \div p - from \div p > TooMany
        BY <1>1, <2>1, FailsOnTooMany DEF from
      <3>2. CASE from <= t
        <4>1. Cardinality(due) = t \div p - from \div p
          BY <1>1, <1>2, <2>1, <3>2, CountStarts
        <4> QED
          BY <3>1, <3>2, <4>1
      <3>3. CASE ~(from <= t)
        <4>1. due = {}
          BY <1>1, <1>2, <2>1, <3>3
        <4>2. Cardinality(due) = 0
          BY <4>1, FS_EmptySet
        <4> QED
          BY <1>1, <3>1, <3>3, <4>2
      <3> QED
        BY <3>2, <3>3
    <2>3. ASSUME ~r.err
          PROVE  /\ r.missed = IF due = {} THEN ZeroTime ELSE Max(due)
                 /\ r.next > t /\ r.next % p = 0
                 /\ \A s \in (t + 1)..(r.next - 1) : s % p # 0
      <3>1. /\ r.next = NextStart(p, t)
            /\ \/ r.missed = ZeroTime /\ \A s \in Nat : ~(IsStart(p, s) /\ from < s /\ s <= t)
               \/ /\ IsStart(p, r.missed) /\ from < r.missed /\ r.missed <= t
                  /\ t < r.missed + p
        BY <1>1, <2>1, <2>3, NextScheduleAnswers DEF from
      <3>2. /\ r.next \in Nat /\ r.next > t /\ r.next % p = 0
            /\ \A s \in Nat : t < s /\ s % p = 0 => r.next <= s
        <4> DEFINE n == NextStart(p, t)
        <4>1. /\ n \in Nat /\ n % p = 0 /\ t < n
              /\ \A s \in Nat : t < s /\ s % p = 0 => n <= s
          BY <1>1, <2>1, NextStartIsNext
        <4>2. r.next = n
          BY <3>1
        <4> HIDE DEF n
        <4> QED
          BY <1>1, <4>1, <4>2
      <3>3. ASSUME NEW s \in (t + 1)..(r.next - 1) PROVE s % p # 0
        <4>1. s \in Nat /\ t < s /\ ~(r.next <= s)
          BY <1>1, <3>2
        <4> QED
          BY <3>2, <4>1
      <3>4. CASE r.missed = ZeroTime /\ \A s \in Nat : ~(IsStart(p, s) /\ from < s /\ s <= t)
        <4>1. due = {}
          BY <1>1, <2>1, <3>4 DEF IsStart
        <4> QED
          BY <3>2, <3>3, <3>4, <4>1
      <3>5. CASE /\ IsStart(p, r.missed) /\ from < r.missed /\ r.missed <= t
                 /\ t < r.missed + p
        <4>1. r.missed \in due /\ due \subseteq Nat
          BY <1>1, <2>1, <3>5 DEF IsStart
        <4>2. ASSUME NEW s \in due PROVE s <= r.missed
          <5>1. s \in Nat /\ s % p = 0 /\ s <= t /\ r.missed \in Nat /\ r.missed % p = 0
            BY <2>1, <3>5 DEF IsStart
          <5>2. CASE r.missed < s
            <6>1. r.missed + p <= s
              BY <2>1, <5>1, <5>2, StartsApart
            <6> QED
              BY <1>1, <2>1, <3>5, <5>1, <6>1
          <5> QED
            BY <5>1, <5>2
        <4>3. Max(due) = r.missed
          BY <4>1, <4>2, MaxIs
        <4> QED
          BY <3>2, <3>3, <4>1, <4>3
      <3> QED
        BY <3>1, <3>4, <3>5
    <2> QED
      BY <1>5, <2>2, <2>3
  <1> QED
    BY <1>4, <1>5

(* A product that does not wrap around for a deadline does not for a        *)
(* shorter one.                                                             *)
LEMMA ShorterDoesNotWrap ==
  ASSUME NEW e \in Int, Wrapped(-Second * e) = -Second * e, NEW d \in 0..(e - 1)
  PROVE  Wrapped(-Second * d) = -Second * d
  <1> DEFINE half == 2^(Bits - 1)
             M    == 2^Bits
             long == -Second * e
             x    == -Second * d
  <1>1. half \in Nat \ {0} /\ M = 2 * half /\ Second \in Nat \ {0} /\ d \in Nat /\ d < e
    BY ScheduleAssumption
  <1>2. /\ Wrapped(long) = ((long + half) % M) - half
        /\ Wrapped(x) = ((x + half) % M) - half
    BY DEF Wrapped
  <1>3. long \in Int /\ x \in Int /\ long <= x /\ x <= 0
    BY <1>1
  <1>4. Wrapped(long) = long
    OBVIOUS
  <1> HIDE DEF half, M, long, x
  <1>5. long + half >= 0
    <2>1. (long + half) % M \in Nat
      BY <1>1, <1>3
    <2> QED
      BY <1>1, <1>2, <1>3, <1>4, <2>1
  <1>6. 0 <= x + half /\ x + half < M
    BY <1>1, <1>3, <1>5
  <1>7. (x + half) % M = x + half
    BY <1>1, <1>3, <1>6
  <1> QED
    BY <1>1, <1>2, <1>3, <1>7 DEF x

(* "Optional deadline in seconds for starting the job if it misses          *)
(* scheduled time for any reason" (api/v1/cronjob_types.go): a longer       *)
(* deadline admits what any shorter one admits.                             *)
THEOREM DeadlinesAreMonotone ==
  ASSUME input \in ScheduleInput
  PROVE  LongerDeadlineAdmitsMore
  <1> DEFINE e == input.deadline
  <1> SUFFICES ASSUME e # NoDeadline, NEW d \in 0..(e - 1),
                      Result([input EXCEPT !.deadline = d]).missed # ZeroTime
               PROVE  Result(input).err \/ Result(input).missed # ZeroTime
    BY DEF LongerDeadlineAdmitsMore
  <1>1. /\ input.period \in Nat /\ input.last \in Nat /\ input.now \in Nat
        /\ e \in Int /\ Wrapped(-Second * e) = -Second * e
        /\ Result(input) = GetNextSchedule(input.period, input.last, e, input.now)
        /\ Result([input EXCEPT !.deadline = d])
             = GetNextSchedule(input.period, input.last, d, input.now)
    BY DEF ScheduleInput, Result
  <1> HIDE DEF e
  <1>2. d \in Int \ {NoDeadline} /\ d < e /\ e \in MaybeDeadline /\ d \in MaybeDeadline
    BY <1>1, ScheduleAssumption DEF MaybeDeadline
  <1>3. Wrapped(-Second * d) = -Second * d
    BY <1>1, ShorterDoesNotWrap
  <1>4. input.period \in Nat \ {0}
    <2> SUFFICES ASSUME input.period = 0 PROVE FALSE
      BY <1>1
    <2>1. GetNextSchedule(0, input.last, d, input.now).missed = ZeroTime
      BY <1>1, <1>2, NeverDue
    <2> QED
      BY <1>1, <2>1
  <1> QED
    BY <1>1, <1>2, <1>3, <1>4, LongerDeadlineAdmitsTheSame

-----------------------------------------------------------------------------
(* Conversion and admission.  A schedule of v1 is a string, so it has a     *)
(* word; a field of v2 is one too, or is not given.                         *)
Schedules  == Seq(Words) \ {<< >>}
FieldNames == {"Minute", "Hour", "DayOfMonth", "Month", "DayOfWeek"}

CronJobInput(version, schedules) ==
  [of : {version}, schedule : schedules, nameLength : Nat,
   policy : {"", "Allow", "Forbid", "Replace"},
   suspend : BOOLEAN \cup {NoValue}, successLimit : Nat \cup {NoValue},
   failLimit : Nat \cup {NoValue}, deadline : Int \cup {NoValue}]

V1Input == CronJobInput("v1", Schedules)
V2Input == CronJobInput("v2", [FieldNames -> Schedules \cup {NoValue}])

Word(c, f) == IF c.schedule[f] = NoValue THEN Star ELSE c.schedule[f]

LEMMA TheFields ==
  /\ ToSet(Fields) = FieldNames
  /\ Fields[1] = "Minute" /\ Fields[2] = "Hour" /\ Fields[3] = "DayOfMonth"
  /\ Fields[4] = "Month" /\ Fields[5] = "DayOfWeek"
  <1>1. /\ Fields[1] = "Minute" /\ Fields[2] = "Hour" /\ Fields[3] = "DayOfMonth"
        /\ Fields[4] = "Month" /\ Fields[5] = "DayOfWeek" /\ DOMAIN Fields = 1..5
    BY DEF Fields
  <1>2. 1..5 = {1, 2, 3, 4, 5}
    OBVIOUS
  <1>3. ToSet(Fields) = {Fields[i] : i \in 1..5}
    BY <1>1 DEF ToSet
  <1> HIDE DEF Fields
  <1> QED
    BY <1>1, <1>2, <1>3 DEF FieldNames

LEMMA FieldsAreNames == \A n \in 1..5 : Fields[n] \in FieldNames
  <1>1. 1..5 = {1, 2, 3, 4, 5}
    OBVIOUS
  <1> QED
    BY <1>1, TheFields DEF FieldNames

LEMMA FieldIndex ==
  ASSUME NEW n \in 1..5
  PROVE  (CHOOSE i \in 1..5 : Fields[i] = Fields[n]) = n
  <1>1. \A i, j \in 1..5 : Fields[i] = Fields[j] => i = j
    <2>1. 1..5 = {1, 2, 3, 4, 5}
      OBVIOUS
    <2> QED
      BY <2>1, TheFields
  <1> QED
    BY <1>1

LEMMA FiveOnes ==
  ASSUME NEW u \in Nat \ {0}, NEW v \in Nat \ {0}, NEW w \in Nat \ {0}, NEW x \in Nat \ {0},
         NEW y \in Nat \ {0}, u + v + w + x + y = 5
  PROVE  u = 1 /\ v = 1 /\ w = 1 /\ x = 1 /\ y = 1
  OBVIOUS

(* Five words joined. *)
Join(W) == W[1] \o W[2] \o W[3] \o W[4] \o W[5]

LEMMA Joined ==
  ASSUME NEW W \in [1..5 -> Schedules]
  PROVE  /\ Join(W) \in Schedules
         /\ Len(Join(W)) = 5 => \A n \in 1..5 : W[n] = <<Join(W)[n]>>
  <1> DEFINE a == W[1]  b == W[2]  c == W[3]  d == W[4]  e == W[5]
             s == a \o b \o c \o d \o e
  <1>0. /\ a \in Schedules /\ b \in Schedules /\ c \in Schedules /\ d \in Schedules
        /\ e \in Schedules /\ Join(W) = s
    BY DEF Join
  <1> HIDE DEF a, b, c, d, e
  <1>1. /\ a \in Seq(Words) /\ b \in Seq(Words) /\ c \in Seq(Words)
        /\ d \in Seq(Words) /\ e \in Seq(Words)
        /\ Len(a) \in Nat \ {0} /\ Len(b) \in Nat \ {0} /\ Len(c) \in Nat \ {0}
        /\ Len(d) \in Nat \ {0} /\ Len(e) \in Nat \ {0}
    BY <1>0, EmptySeq, LenProperties DEF Schedules
  <1>2. /\ a \o b \in Seq(Words) /\ Len(a \o b) = Len(a) + Len(b)
        /\ a \o b \o c \in Seq(Words) /\ Len(a \o b \o c) = Len(a) + Len(b) + Len(c)
        /\ a \o b \o c \o d \in Seq(Words)
        /\ Len(a \o b \o c \o d) = Len(a) + Len(b) + Len(c) + Len(d)
        /\ s \in Seq(Words) /\ Len(s) = Len(a) + Len(b) + Len(c) + Len(d) + Len(e)
    BY <1>1, ConcatProperties
  <1>3. s \in Schedules
    BY <1>1, <1>2, EmptySeq DEF Schedules
  <1>4. ASSUME Len(s) = 5
        PROVE  a = <<s[1]>> /\ b = <<s[2]>> /\ c = <<s[3]>> /\ d = <<s[4]>> /\ e = <<s[5]>>
    <2>1. Len(a) = 1 /\ Len(b) = 1 /\ Len(c) = 1 /\ Len(d) = 1 /\ Len(e) = 1
      <3> DEFINE u == Len(a)  v == Len(b)  w == Len(c)  x == Len(d)  y == Len(e)
      <3>1. u + v + w + x + y = 5
        BY <1>2, <1>4
      <3>2. /\ u \in Nat \ {0} /\ v \in Nat \ {0} /\ w \in Nat \ {0}
            /\ x \in Nat \ {0} /\ y \in Nat \ {0}
        BY <1>1
      <3> HIDE DEF u, v, w, x, y
      <3>3. u = 1 /\ v = 1 /\ w = 1 /\ x = 1 /\ y = 1
        BY <3>1, <3>2, FiveOnes
      <3> QED
        BY <3>3 DEF u, v, w, x, y
    <2>2. s[1] = a[1] /\ s[2] = b[1] /\ s[3] = c[1] /\ s[4] = d[1] /\ s[5] = e[1]
      BY <1>1, <1>2, <2>1, ConcatProperties
    <2>3. ASSUME NEW x \in Seq(Words), Len(x) = 1 PROVE x = <<x[1]>>
      BY <2>3
    <2> QED
      BY <1>1, <2>1, <2>2, <2>3
  <1>5. ASSUME Len(s) = 5, NEW n \in 1..5 PROVE W[n] = <<s[n]>>
    <2>1. n = 1 \/ n = 2 \/ n = 3 \/ n = 4 \/ n = 5
      OBVIOUS
    <2> QED
      BY <1>4, <1>5, <2>1 DEF a, b, c, d, e
  <1> HIDE DEF s
  <1> QED
    BY <1>0, <1>3, <1>5

LEMMA OneWord ==
  ASSUME NEW w \in Words
  PROVE  <<w>> \in Schedules
  <1>1. <<w>> \in Seq(Words)
    BY SeqDef
  <1>2. <<w>> # << >>
    <2>1. Len(<<w>>) = 1 /\ Len(<< >>) = 0
      OBVIOUS
    <2> QED
      BY <2>1
  <1> QED
    BY <1>1, <1>2 DEF Schedules

LEMMA StarIsSchedule == Star \in Schedules
  BY APIAssumption, OneWord DEF Star

LEMMA FiveWords ==
  ASSUME NEW s \in Seq(Words), Len(s) = 5
  PROVE  <<s[1]>> \o <<s[2]>> \o <<s[3]>> \o <<s[4]>> \o <<s[5]>> = s
  OBVIOUS

(* A schedule that is accepted has five words with one blank between them   *)
(* if no word is empty and none is a descriptor.                            *)
LEMMA AcceptedWords ==
  ASSUME NEW s \in Schedules, ParseStandard(s)
  PROVE  Len(s) = 5 <=> "" \notin ToSet(s) /\ ToSet(s) \cap Descriptors = {}
  <1>1. s \in Seq(Words) /\ Len(s) \in Nat \ {0} /\ DOMAIN s = 1..Len(s)
    BY EmptySeq, LenProperties DEF Schedules
  <1>2. ToSet(s) = {s[i] : i \in 1..Len(s)} /\ 1 \in 1..Len(s)
    BY <1>1 DEF ToSet
  <1>3. CASE s[1] \in Descriptors
    <2>1. Len(s) = 1
      BY <1>3 DEF ParseStandard
    <2>2. s[1] \in ToSet(s)
      BY <1>2
    <2>3. ToSet(s) \cap Descriptors # {}
      BY <1>3, <2>2
    <2>4. ~(Len(s) = 5)
      BY <2>1
    <2> QED
      BY <2>3, <2>4
  <1>4. CASE s[1] \notin Descriptors
    <2> DEFINE N == {i \in DOMAIN s : s[i] # ""}
    <2>1. Cardinality(N) = 5 /\ ToSet(s) \cap Descriptors = {}
      BY <1>4 DEF ParseStandard
    <2>2. IsFiniteSet(1..Len(s)) /\ Cardinality(1..Len(s)) = Len(s)
      BY <1>1, FS_Interval
    <2>3. N \in SUBSET (1..Len(s))
      BY <1>1
    <2>4. "" \notin ToSet(s) <=> N = 1..Len(s)
      BY <1>1, <1>2
    <2> HIDE DEF N
    <2>5. Len(s) = 5 => N = 1..Len(s)
      BY <2>1, <2>2, <2>3, FS_Subset
    <2>6. N = 1..Len(s) => Len(s) = 5
      BY <2>1, <2>2
    <2> QED
      BY <2>1, <2>4, <2>5, <2>6
  <1> QED
    BY <1>3, <1>4

(* What a v2 user wrote, field by field, becomes the words of v1. *)
LEMMA WrittenInV2 ==
  ASSUME NEW c \in V2Input
  PROVE  LET s == ToV1(c).schedule IN
           /\ DOMAIN c.schedule = FieldNames
           /\ s \in Schedules
           /\ ToV1(c) = [c EXCEPT !.schedule = s]
           /\ Len(s) = 5 => \A n \in 1..5 : Word(c, Fields[n]) = <<s[n]>>
  <1> DEFINE W == [n \in 1..5 |-> Word(c, Fields[n])]
             s == ToV1(c).schedule
  <1>1. c.of = "v2" /\ c.schedule \in [FieldNames -> Schedules \cup {NoValue}]
        /\ "schedule" \in DOMAIN c
    BY DEF V2Input, CronJobInput
  <1>2. \A f \in FieldNames : Word(c, f) \in Schedules
    BY <1>1, StarIsSchedule DEF Word
  <1>3. W \in [1..5 -> Schedules]
    BY <1>2, FieldsAreNames
  <1>4. ToV1(c) = [c EXCEPT !.schedule = Join(W)]
    <2>1. ToV1(c) = [c EXCEPT !.schedule = Word(c, "Minute") \o Word(c, "Hour")
                      \o Word(c, "DayOfMonth") \o Word(c, "Month") \o Word(c, "DayOfWeek")]
      BY <1>1 DEF ToV1, ConvertTo, Word
    <2>2. /\ W[1] = Word(c, "Minute") /\ W[2] = Word(c, "Hour") /\ W[3] = Word(c, "DayOfMonth")
          /\ W[4] = Word(c, "Month") /\ W[5] = Word(c, "DayOfWeek")
      BY TheFields
    <2> HIDE DEF W
    <2> QED
      BY <2>1, <2>2 DEF Join
  <1>5. s = Join(W)
    BY <1>1, <1>4
  <1> HIDE DEF W, s
  <1>6. s \in Schedules /\ (Len(s) = 5 => \A n \in 1..5 : W[n] = <<s[n]>>)
    BY <1>3, <1>5, Joined
  <1> QED
    BY <1>1, <1>4, <1>5, <1>6 DEF W, s

(* What reaches the API server as v1.  *)
LEMMA StoredVersion ==
  ASSUME NEW c \in V1Input \cup V2Input
  PROVE  LET stored == Stored(c) IN
           /\ stored.schedule \in Schedules
           /\ stored = [c EXCEPT !.schedule = stored.schedule, !.policy = stored.policy,
                                 !.suspend = stored.suspend, !.successLimit = stored.successLimit,
                                 !.failLimit = stored.failLimit]
           /\ Default(stored) = stored
           /\ stored.schedule = ToV1(c).schedule /\ stored.nameLength = c.nameLength
           /\ stored = [x \in DOMAIN stored |-> stored[x]]
           /\ "schedule" \in DOMAIN stored
  <1> DEFINE one    == ToV1(c)
             stored == Default(one)
  <1>1. one = [c EXCEPT !.schedule = one.schedule] /\ one.schedule \in Schedules
    <2>1. CASE c \in V1Input
      BY <2>1 DEF ToV1, V1Input, CronJobInput
    <2>2. CASE c \in V2Input
      BY <2>2, WrittenInV2
    <2> QED
      BY <2>1, <2>2
  <1> HIDE DEF one
  <1>2. DOMAIN c = {"of", "schedule", "nameLength", "policy", "suspend", "successLimit",
                    "failLimit", "deadline"}
    BY DEF V1Input, V2Input, CronJobInput
  <1>3. stored = [c EXCEPT !.schedule     = one.schedule,
                           !.policy       = IF c.policy = "" THEN "Allow" ELSE c.policy,
                           !.suspend      = IF c.suspend = NoValue THEN FALSE ELSE c.suspend,
                           !.successLimit = IF c.successLimit = NoValue THEN 3 ELSE c.successLimit,
                           !.failLimit    = IF c.failLimit = NoValue THEN 1 ELSE c.failLimit]
    BY <1>1, <1>2 DEF Default
  <1>4. /\ stored.schedule = one.schedule /\ stored.nameLength = c.nameLength
        /\ stored.policy = IF c.policy = "" THEN "Allow" ELSE c.policy
        /\ stored.suspend = IF c.suspend = NoValue THEN FALSE ELSE c.suspend
        /\ stored.successLimit = IF c.successLimit = NoValue THEN 3 ELSE c.successLimit
        /\ stored.failLimit = IF c.failLimit = NoValue THEN 1 ELSE c.failLimit
        /\ DOMAIN stored = DOMAIN c
        /\ stored = [x \in DOMAIN stored |-> stored[x]]
    BY <1>2, <1>3
  <1> HIDE DEF stored
  <1>5. Default(stored) = [stored EXCEPT !.policy = stored.policy, !.suspend = stored.suspend,
                                         !.successLimit = stored.successLimit,
                                         !.failLimit = stored.failLimit]
    <2>1. stored.policy # ""
      BY <1>4
    <2>2. (IF stored.suspend = NoValue THEN FALSE ELSE stored.suspend) = stored.suspend
      BY <1>4
    <2>3. (IF stored.successLimit = NoValue THEN 3 ELSE stored.successLimit) = stored.successLimit
      BY <1>4
    <2>4. (IF stored.failLimit = NoValue THEN 1 ELSE stored.failLimit) = stored.failLimit
      BY <1>4
    <2> QED
      BY <1>2, <1>4, <2>1, <2>2, <2>3, <2>4 DEF Default
  <1>6. Default(stored) = stored
    BY <1>2, <1>4, <1>5
  <1>7. stored = [c EXCEPT !.schedule = stored.schedule, !.policy = stored.policy,
                           !.suspend = stored.suspend, !.successLimit = stored.successLimit,
                           !.failLimit = stored.failLimit]
    BY <1>3, <1>4
  <1> QED
    BY <1>1, <1>2, <1>4, <1>6, <1>7 DEF stored, one, Stored

(* Reading a stored CronJob in v2 and writing it back. *)
LEMMA RoundTrip ==
  ASSUME NEW c, c = [x \in DOMAIN c |-> c[x]], "schedule" \in DOMAIN c,
         c.schedule \in Schedules, Len(c.schedule) = 5
  PROVE  LET read == ConvertFrom(c) IN
           /\ ConvertTo(read) = c
           /\ DOMAIN read.schedule = FieldNames
           /\ \A n \in 1..5 : Word(read, Fields[n]) = <<c.schedule[n]>>
  <1> DEFINE s    == c.schedule
             read == ConvertFrom(c)
             field(i) == IF <<s[i]>> = Star THEN NoValue ELSE <<s[i]>>
  <1>1. s \in Seq(Words) /\ Len(s) = 5
    BY DEF Schedules
  <1>2. \A n \in 1..5 : <<s[n]>> \in Seq(Words) /\ <<s[n]>> # NoValue
    <2> HIDE DEF s
    <2>1. \A n \in 1..5 : s[n] \in Words
      BY <1>1, ElementOfSeq
    <2>2. \A n \in 1..5 : <<s[n]>> \in Seq(Words)
      BY <2>1, OneWord DEF Schedules
    <2> QED
      BY <2>2, APIAssumption
  <1>3. /\ read = [c EXCEPT !.schedule = read.schedule]
        /\ read.schedule = [f \in FieldNames |-> field(CHOOSE i \in 1..5 : Fields[i] = f)]
    BY TheFields DEF ConvertFrom
  <1> HIDE DEF read
  <1>4. \A n \in 1..5 : Fields[n] \in FieldNames
    BY FieldsAreNames
  <1>5. \A n \in 1..5 : read.schedule[Fields[n]] = field(n)
    BY <1>3, <1>4, FieldIndex
  <1>6. \A n \in 1..5 : Word(read, Fields[n]) = <<s[n]>>
    BY <1>2, <1>5 DEF Word
  <1>7. ConvertTo(read) = [read EXCEPT !.schedule = <<s[1]>> \o <<s[2]>> \o <<s[3]>>
                                                     \o <<s[4]>> \o <<s[5]>>]
    <2>1. /\ Word(read, "Minute") = <<s[1]>> /\ Word(read, "Hour") = <<s[2]>>
          /\ Word(read, "DayOfMonth") = <<s[3]>> /\ Word(read, "Month") = <<s[4]>>
          /\ Word(read, "DayOfWeek") = <<s[5]>>
      BY <1>6, TheFields
    <2> HIDE DEF s
    <2> QED
      BY <2>1 DEF ConvertTo, Word
  <1>8. ConvertTo(read) = [read EXCEPT !.schedule = s]
    BY <1>1, <1>7, FiveWords
  <1>9. ConvertTo(read) = c
    BY <1>3, <1>8
  <1> QED
    BY <1>3, <1>6, <1>9 DEF read

(* A CronJob that is admitted, in whichever version it was written, stays   *)
(* what it is: it can be read in v2 if and only if its schedule has five    *)
(* words with one blank between them, reading it there and writing it back  *)
(* changes nothing, v2 users read what they wrote, and its jobs have names  *)
(* that the API server takes (cronjob_conversion.go, cronjob_webhook.go).   *)
(* Schedules of any number of words, names of any length.                   *)
THEOREM AdmissionKeepsWhatItAdmits ==
  ASSUME input \in V1Input \cup V2Input
  PROVE  AdmittedIsKept
  <1> DEFINE stored == Stored(input)
             s      == stored.schedule
             read   == ConvertFrom(stored)
  <1> SUFFICES ASSUME Admitted(input)
      PROVE  /\ Convertible(stored) <=> "" \notin ToSet(s) /\ ToSet(s) \cap Descriptors = {}
             /\ Convertible(stored) =>
                  /\ Default(ConvertTo(read)) = stored
                  /\ input.of = "v2" => Given(read.schedule) = Given(input.schedule)
             /\ JobNameLength(stored) <= LabelMaxLength
    BY DEF AdmittedIsKept
  <1>1. /\ s \in Schedules /\ Default(stored) = stored
        /\ s = ToV1(input).schedule /\ stored.nameLength = input.nameLength
        /\ "schedule" \in DOMAIN stored
        /\ stored = [x \in DOMAIN stored |-> stored[x]]
    BY StoredVersion
  <1>2. ParseStandard(s) /\ stored.nameLength <= LabelMaxLength - 11
    BY DEF Admitted, Stored, Validate, ValidateName, ValidateSchedule
  <1> HIDE DEF stored
  <1>3. Convertible(stored) <=> "" \notin ToSet(s) /\ ToSet(s) \cap Descriptors = {}
    BY <1>1, <1>2, AcceptedWords DEF Convertible
  <1>4. ASSUME Convertible(stored) PROVE Default(ConvertTo(read)) = stored
    BY <1>1, <1>4, RoundTrip DEF Convertible
  <1>5. ASSUME Convertible(stored), input.of = "v2"
        PROVE  Given(read.schedule) = Given(input.schedule)
    <2>1. input \in V2Input /\ Len(s) = 5
      BY <1>5 DEF V1Input, CronJobInput, Convertible
    <2>2. /\ DOMAIN input.schedule = FieldNames
          /\ \A n \in 1..5 : Word(input, Fields[n]) = <<s[n]>>
      BY <1>1, <2>1, WrittenInV2
    <2>3. /\ DOMAIN read.schedule = FieldNames
          /\ \A n \in 1..5 : Word(read, Fields[n]) = <<s[n]>>
      BY <1>1, <2>1, RoundTrip
    <2>4. \A f \in FieldNames : \E n \in 1..5 : f = Fields[n]
      BY TheFields DEF FieldNames
    <2>5. \A f \in FieldNames : Word(input, f) = Word(read, f)
      BY <2>2, <2>3, <2>4
    <2> HIDE DEF read
    <2> QED
      BY <2>2, <2>3, <2>5 DEF Given, Word
  <1>6. JobNameLength(stored) <= LabelMaxLength
    <2>1. stored.nameLength \in Nat
      BY <1>1 DEF V1Input, V2Input, CronJobInput
    <2> QED
      BY <1>2, <2>1 DEF JobNameLength, LabelMaxLength
  <1> QED
    BY <1>3, <1>4, <1>5, <1>6

-----------------------------------------------------------------------------
(* The inductive invariant.                                                 *)
Known    == CronJobs \cup {Absent}
KnownJob == Jobs \cup {Absent}
PCs      == {"idle", "get", "list", "status", "history", "schedule", "requeue", "replace", "create"}
States   == [pc : PCs, cj : Known, children : [Times -> KnownJob],
             missed : Times \cup {ZeroTime}, next : 0..Never, requeueAfter : 0..Period]
Endings  == {"settled", "error", "overtaken", "tooMany"}
EventsOf(O) == [obj : O, tombstone : BOOLEAN]

(* One key of an informer: the object stored, the events on their way, the  *)
(* object cached, and whether the informer is there.                        *)
InChannel(s, w, c) == {s, c} \cup {w[n].obj : n \in 1..Len(w)}

CaughtUp(s, w, c) == IF Len(w) = 0 THEN c = s ELSE w[Len(w)].obj = s

Channel(s, w, c, up) == IF up THEN CaughtUp(s, w, c) ELSE w = << >> /\ c = Absent

(* How a step changes the key. *)
ChannelStep(s, w, c, up, sNew, wNew, cNew, upNew) ==
  \/ upNew = up /\ sNew = s /\ wNew = w /\ cNew = c
  \/ /\ upNew = up /\ cNew = c
     /\ wNew = IF up THEN Append(w, [obj |-> sNew, tombstone |-> FALSE]) ELSE w
  \/ up /\ upNew /\ w # << >> /\ sNew = s /\ cNew = Head(w).obj /\ wNew = Tail(w)
  \/ ~upNew /\ sNew = s /\ wNew = << >> /\ cNew = Absent
  \/ ~up /\ upNew /\ sNew = s /\ cNew = s /\ wNew = w

CronJobsSeen == InChannel(cronJob[Cj], cronJobWatch[Cj], cronJobCache[Cj]) \cup {reconcile.cj}
JobsSeen(t)  == InChannel(jobs[t], jobsWatch[t], jobsCache[t]) \cup {reconcile.children[t]}

ChannelsCatchUp ==
  /\ Channel(cronJob[Cj], cronJobWatch[Cj], cronJobCache[Cj], running)
  /\ \A t \in Times : Channel(jobs[t], jobsWatch[t], jobsCache[t], running)

(* A state the CronJob was in: uids are given in the order of the           *)
(* operations, and the policy of a CronJob never changes.                   *)
IsPast(m, stored, ops) ==
  m # Absent => m.uid <= ops /\ (stored # Absent /\ stored.uid = m.uid => m.policy = stored.policy)

(* A job starts no earlier than at its nominal time, for a CronJob of then. *)
JobIsPast(t, j, ops, time) == j # Absent => j.owner <= ops /\ t <= time

Past ==
  /\ \A m \in CronJobsSeen : IsPast(m, cronJob[Cj], used.ops)
  /\ \A t \in Times : \A j \in JobsSeen(t) : JobIsPast(t, j, used.ops, now)
  /\ \A u \in Uids : \A t \in Times : runs[u][t] >= 1 => u <= used.ops

Stopped == ~running => reconcile = Idle /\ ~requested /\ wakeAt = Never

(* What Reconcile knows at each of its steps: the run it missed is later    *)
(* than every job it listed.                                                *)
Sound(r, time) ==
  /\ r.pc \notin {"idle", "get"} => r.cj # Absent
  /\ r.pc \in {"replace", "create"} => r.missed # ZeroTime
  /\ r.pc = "replace" => r.cj.policy = "Replace"
  /\ r.pc \notin {"requeue", "replace", "create"} => r.missed = ZeroTime
  /\ r.missed # ZeroTime =>
       r.missed <= time /\ \A t \in Times : r.children[t] # Absent => t < r.missed
  /\ r.pc \in {"history", "schedule"} => r.cj.last = LastRun(r.children)
  /\ r.pc = "requeue" => r.next <= time + Period

Inv == TypeOK /\ ChannelsCatchUp /\ Past /\ Stopped /\ Sound(reconcile, now)

-----------------------------------------------------------------------------
(* One key of an informer. *)
LEMMA ZeroOrMore == \A n \in Nat : n > 0 \/ n = 0
  OBVIOUS

LEMMA Appended ==
  ASSUME NEW O, NEW w \in Seq(EventsOf(O)), NEW obj \in O,
         NEW v, v = Append(w, [obj |-> obj, tombstone |-> FALSE])
  PROVE  /\ v \in Seq(EventsOf(O)) /\ Len(w) \in Nat /\ Len(v) = Len(w) + 1
         /\ \A n \in 1..Len(w) : v[n] = w[n]
         /\ v[Len(w) + 1].obj = obj
  <1>1. [obj |-> obj, tombstone |-> FALSE] \in EventsOf(O)
    BY DEF EventsOf
  <1> QED
    BY <1>1, AppendProperties, LenProperties

LEMMA Shifted ==
  ASSUME NEW O, NEW w \in Seq(EventsOf(O)), w # << >>, NEW v, v = Tail(w)
  PROVE  /\ v \in Seq(EventsOf(O)) /\ Len(w) \in Nat \ {0} /\ Len(v) = Len(w) - 1
         /\ \A n \in 1..Len(v) : v[n] = w[n + 1]
         /\ Head(w) = w[1] /\ Head(w).obj \in O
  <1>1. Head(w) \in EventsOf(O)
    BY HeadTailProperties, EmptySeq
  <1>2. Head(w).obj \in O
    BY <1>1 DEF EventsOf
  <1> QED
    BY <1>2, HeadTailProperties, EmptySeq

(* Nothing gets into a channel but what is stored, and the cache catches up. *)
LEMMA ChannelKept ==
  ASSUME NEW O, Absent \in O, NEW s \in O, NEW c \in O, NEW w \in Seq(EventsOf(O)), NEW up,
         NEW sNew \in O, NEW cNew, NEW wNew, NEW upNew,
         Channel(s, w, c, up), ChannelStep(s, w, c, up, sNew, wNew, cNew, upNew)
  PROVE  /\ cNew \in O /\ wNew \in Seq(EventsOf(O))
         /\ Channel(sNew, wNew, cNew, upNew)
         /\ InChannel(sNew, wNew, cNew) \subseteq InChannel(s, w, c) \cup {sNew, Absent}
  <1> DEFINE Goal == /\ cNew \in O /\ wNew \in Seq(EventsOf(O))
                     /\ Channel(sNew, wNew, cNew, upNew)
                     /\ InChannel(sNew, wNew, cNew) \subseteq InChannel(s, w, c) \cup {sNew, Absent}
  <1>0. Len(w) \in Nat /\ << >> \in Seq(EventsOf(O)) /\ Len(<< >>) = 0
    BY LenProperties, EmptySeq
  <1>1. CASE upNew = up /\ sNew = s /\ wNew = w /\ cNew = c
    BY <1>1
  <1>2. CASE up /\ upNew = up /\ cNew = c /\ wNew = Append(w, [obj |-> sNew, tombstone |-> FALSE])
    <2>1. /\ wNew \in Seq(EventsOf(O)) /\ Len(wNew) = Len(w) + 1
          /\ \A n \in 1..Len(w) : wNew[n] = w[n]
          /\ wNew[Len(w) + 1].obj = sNew
      BY <1>2, Appended
    <2>2. Channel(sNew, wNew, cNew, upNew)
      BY <1>0, <1>2, <2>1 DEF Channel, CaughtUp
    <2>3. ASSUME NEW n \in 1..Len(wNew)
          PROVE  wNew[n].obj \in {w[m].obj : m \in 1..Len(w)} \cup {sNew}
      <3>1. n \in 1..Len(w) \/ n = Len(w) + 1
        BY <1>0, <2>1
      <3> QED
        BY <2>1, <3>1
    <2>4. InChannel(sNew, wNew, cNew) \subseteq InChannel(s, w, c) \cup {sNew, Absent}
      BY <1>2, <2>3 DEF InChannel
    <2> QED
      BY <1>2, <2>1, <2>2, <2>4
  <1>3. CASE ~up /\ upNew = up /\ cNew = c /\ wNew = w
    BY <1>3 DEF Channel, InChannel
  <1>4. CASE up /\ upNew /\ w # << >> /\ sNew = s /\ cNew = Head(w).obj /\ wNew = Tail(w)
    <2>1. /\ wNew \in Seq(EventsOf(O)) /\ Len(w) \in Nat \ {0} /\ Len(wNew) = Len(w) - 1
          /\ \A n \in 1..Len(wNew) : wNew[n] = w[n + 1]
          /\ cNew = w[1].obj /\ cNew \in O
      BY <1>4, Shifted
    <2> HIDE <1>4
    <2>2. w[Len(w)].obj = s /\ sNew = s /\ upNew
      <3>1. up /\ sNew = s /\ upNew
        BY <1>4
      <3> QED
        BY <2>1, <3>1 DEF Channel, CaughtUp
    <2>3. CaughtUp(sNew, wNew, cNew)
      <3>1. CASE Len(wNew) = 0
        <4>1. Len(w) = 1
          BY <2>1, <3>1
        <4>2. cNew = s
          BY <2>1, <2>2, <4>1
        <4> QED
          BY <2>2, <3>1, <4>2 DEF CaughtUp
      <3>2. CASE Len(wNew) > 0
        <4>1. Len(wNew) \in 1..Len(wNew) /\ Len(wNew) + 1 = Len(w)
          BY <2>1, <3>2
        <4> QED
          BY <2>1, <2>2, <3>2, <4>1 DEF CaughtUp
      <3>3. Len(wNew) \in Nat
        BY <2>1
      <3> QED
        BY <3>1, <3>2, <3>3, ZeroOrMore
    <2>4. ASSUME NEW n \in 1..Len(wNew) PROVE wNew[n].obj \in {w[m].obj : m \in 1..Len(w)}
      <3>1. n + 1 \in 1..Len(w)
        BY <2>1
      <3> QED
        BY <2>1, <3>1
    <2>5. cNew \in {w[m].obj : m \in 1..Len(w)}
      <3>1. 1 \in 1..Len(w)
        BY <2>1
      <3> QED
        BY <2>1, <3>1
    <2>6. InChannel(sNew, wNew, cNew) \subseteq InChannel(s, w, c) \cup {sNew, Absent}
      BY <2>4, <2>5 DEF InChannel
    <2> QED
      BY <2>1, <2>2, <2>3, <2>6 DEF Channel
  <1>5. CASE ~upNew /\ sNew = s /\ wNew = << >> /\ cNew = Absent
    BY <1>0, <1>5 DEF Channel, InChannel
  <1>6. CASE ~up /\ upNew /\ sNew = s /\ cNew = s /\ wNew = w
    <2>1. w = << >>
      BY <1>6 DEF Channel
    <2> QED
      BY <1>0, <1>6, <2>1 DEF Channel, CaughtUp, InChannel
  <1> QED
    BY <1>1, <1>2, <1>3, <1>4, <1>5, <1>6 DEF ChannelStep

-----------------------------------------------------------------------------
(* Types. *)
LEMMA Constants ==
  /\ Period \in Nat \ {0} /\ MaxTime \in Nat /\ Never \in Nat /\ MaxTime < Never
  /\ MaxOps \in Nat /\ MaxFaults \in Nat /\ MaxCrashes \in Nat
  /\ Times \subseteq Nat \ {0} /\ Times \subseteq 0..MaxTime /\ ZeroTime \notin Times
  /\ \A t \in Times : t % Period = 0 /\ t <= MaxTime
  BY CronJobAssumption DEF Never, Times, ZeroTime

LEMMA TimesAreNaturals ==
  /\ \A t \in Times : t \in Nat
  /\ \A t \in Times \cup {ZeroTime} : t \in Nat
  /\ \A t \in 0..Never : t \in Nat
  /\ \A t \in 0..MaxTime : t \in Nat
  <1>1. \A t \in Times : t \in Nat
    BY Constants
  <1> QED
    BY <1>1 DEF ZeroTime

LEMMA Types ==
  ASSUME Inv
  PROVE  /\ cronJob \in [{Cj} -> Known] /\ cronJobCache \in [{Cj} -> Known]
         /\ cronJobWatch \in [{Cj} -> Seq(EventsOf(Known))]
         /\ jobs \in [Times -> KnownJob] /\ jobsCache \in [Times -> KnownJob]
         /\ jobsWatch \in [Times -> Seq(EventsOf(KnownJob))]
         /\ reconcile \in States
         /\ now \in 0..MaxTime /\ now \in Nat
         /\ requested \in BOOLEAN /\ running \in BOOLEAN
         /\ wakeAt \in 0..Never /\ wakeAt \in Nat
         /\ used \in [ops : 0..MaxOps, faults : 0..MaxFaults, crashes : 0..MaxCrashes]
         /\ used.ops \in 0..MaxOps /\ used.ops \in Nat
         /\ runs \in [Uids -> [Times -> Nat]]
         /\ ended \in Endings /\ onTime \in BOOLEAN
  <1>1. TypeOK
    BY DEF Inv
  <1>2. /\ cronJob \in [{Cj} -> Known] /\ cronJobCache \in [{Cj} -> Known]
        /\ cronJobWatch \in [{Cj} -> Seq(EventsOf(Known))]
    BY <1>1 DEF TypeOK, CJ!TypeOK, CJ!MaybeObject, CJ!Events, Known, EventsOf
  <1>3. /\ jobs \in [Times -> KnownJob] /\ jobsCache \in [Times -> KnownJob]
        /\ jobsWatch \in [Times -> Seq(EventsOf(KnownJob))]
    BY <1>1 DEF TypeOK, Job!TypeOK, Job!MaybeObject, Job!Events, KnownJob, EventsOf
  <1>4. /\ reconcile \in States
        /\ now \in 0..MaxTime
        /\ requested \in BOOLEAN /\ running \in BOOLEAN
        /\ wakeAt \in 0..Never
        /\ used \in [ops : 0..MaxOps, faults : 0..MaxFaults, crashes : 0..MaxCrashes]
        /\ runs \in [Uids -> [Times -> Nat]]
        /\ ended \in Endings /\ onTime \in BOOLEAN
    BY <1>1 DEF TypeOK, States, PCs, Known, KnownJob, Endings
  <1>5. now \in Nat /\ wakeAt \in Nat /\ used.ops \in 0..MaxOps /\ used.ops \in Nat
    BY <1>4, Constants
  <1> QED
    BY <1>2, <1>3, <1>4, <1>5

LEMMA CronJobTypes ==
  ASSUME NEW m \in CronJobs
  PROVE  /\ m # Absent /\ m.uid \in Uids /\ m.uid \in Nat /\ m.created \in Nat
         /\ m.deadline \in Deadlines
         /\ m.policy \in Policies /\ m.suspend \in BOOLEAN
         /\ m.last \in Times \cup {Nil} /\ m.last \in Nat
         /\ m.active \in SUBSET Times /\ m.version \in Nat /\ m.version + 1 \in Nat
  <1>1. /\ m.uid \in Uids /\ m.created \in 0..MaxTime /\ m.deadline \in Deadlines
        /\ m.policy \in Policies /\ m.suspend \in BOOLEAN
        /\ m.last \in Times \cup {Nil} /\ m.active \in SUBSET Times /\ m.version \in Nat
    BY DEF CronJobs
  <1>2. m # Absent
    BY AbsentAssumption
  <1>3. m.uid \in Nat /\ m.created \in Nat /\ m.last \in Nat /\ m.version + 1 \in Nat
    BY <1>1, TimesAreNaturals DEF Uids, Nil
  <1> QED
    BY <1>1, <1>2, <1>3

LEMMA SuspendTypes ==
  ASSUME NEW m \in CronJobs, NEW new, new = [m EXCEPT !.suspend = ~@, !.version = @ + 1]
  PROVE  new \in CronJobs /\ new.uid = m.uid /\ new.policy = m.policy /\ new.last = m.last
  <1> DEFINE b == ~m.suspend
             v == m.version + 1
  <1>1. b \in BOOLEAN /\ v \in Nat
    BY CronJobTypes
  <1>2. new = [m EXCEPT !.suspend = b, !.version = v]
    BY DEF CronJobs
  <1> HIDE DEF b, v
  <1> QED
    BY <1>1, <1>2 DEF CronJobs

WithStatus(m, last, active) == [m EXCEPT !.last = last, !.active = active]
Newer(m)                    == [m EXCEPT !.version = @ + 1]

LEMMA StatusTypes ==
  ASSUME NEW m \in CronJobs, NEW last \in Times \cup {Nil}, NEW active \in SUBSET Times
  PROVE  LET new   == WithStatus(m, last, active)
             newer == Newer(new)
         IN
         /\ new \in CronJobs /\ new.last = last /\ new.uid = m.uid /\ new.policy = m.policy
         /\ newer \in CronJobs /\ newer.last = last /\ newer.uid = m.uid
         /\ newer.policy = m.policy
  <1> DEFINE v == m.version + 1
             new   == WithStatus(m, last, active)
             newer == Newer(new)
  <1>1. /\ new \in CronJobs /\ new.version = m.version /\ new.last = last
        /\ new.uid = m.uid /\ new.policy = m.policy
    BY DEF CronJobs, WithStatus
  <1>2. newer = [new EXCEPT !.version = v]
    BY <1>1 DEF Newer
  <1>3. v \in Nat
    BY CronJobTypes
  <1> HIDE DEF v, new, newer
  <1>4. /\ newer \in CronJobs /\ newer.last = new.last
        /\ newer.uid = new.uid /\ newer.policy = new.policy
    BY <1>1, <1>2, <1>3 DEF CronJobs
  <1> QED
    BY <1>1, <1>4 DEF new, newer

(* What Reconcile has in hand. *)
LEMMA HandTypes ==
  ASSUME Inv
  PROVE  /\ reconcile.pc \in PCs /\ reconcile.cj \in Known
         /\ reconcile.children \in [Times -> KnownJob]
         /\ reconcile.missed \in Times \cup {ZeroTime} /\ reconcile.missed \in Nat
         /\ reconcile.next \in 0..Never /\ reconcile.next \in Nat
         /\ reconcile.requeueAfter \in 0..Period /\ reconcile.requeueAfter \in Nat
         /\ Sound(reconcile, now)
         /\ reconcile.pc \notin {"idle", "get"} => reconcile.cj \in CronJobs
         /\ reconcile.pc \in {"replace", "create"} => reconcile.missed \in Times
         /\ reconcile.pc # "idle" => running
         /\ ActiveJobs \in SUBSET Times
  <1>1. /\ reconcile.pc \in PCs /\ reconcile.cj \in Known
        /\ reconcile.children \in [Times -> KnownJob]
        /\ reconcile.missed \in Times \cup {ZeroTime} /\ reconcile.next \in 0..Never
        /\ reconcile.requeueAfter \in 0..Period
    BY Types DEF States
  <1>2. Sound(reconcile, now) /\ Stopped /\ running \in BOOLEAN
    BY Types DEF Inv
  <1>3. reconcile.missed \in Nat /\ reconcile.next \in Nat /\ reconcile.requeueAfter \in Nat
    <2>1. \A n \in 0..Period : n \in Nat
      OBVIOUS
    <2> QED
      BY <1>1, <2>1, TimesAreNaturals
  <1>4. reconcile.pc # "idle" => running
    BY <1>2 DEF Stopped, Idle
  <1>5. ActiveJobs \in SUBSET Times
    BY DEF ActiveJobs, In
  <1>6. reconcile.pc \notin {"idle", "get"} => reconcile.cj \in CronJobs
    BY <1>1, <1>2 DEF Sound, Known
  <1>7. reconcile.pc \in {"replace", "create"} => reconcile.missed \in Times
    BY <1>1, <1>2 DEF Sound
  <1> QED
    BY <1>1, <1>2, <1>3, <1>4, <1>5, <1>6, <1>7, Zenon

LEMMA LastRunIsTime ==
  ASSUME NEW children \in [Times -> KnownJob]
  PROVE  /\ LastRun(children) \in Times \cup {Nil} /\ LastRun(children) \in Nat
         /\ \A t \in Times : children[t] # Absent =>
              t <= LastRun(children) /\ LastRun(children) # Nil
         /\ LastRun(children) # Nil => children[LastRun(children)] # Absent
  <1> DEFINE S == {t \in Times : children[t] # Absent}
  <1>1. LastRun(children) = IF S = {} THEN Nil ELSE Max(S)
    BY DEF LastRun, LatestOf
  <1>2. S \subseteq 0..MaxTime /\ MaxTime \in Nat
    BY Constants
  <1>3. CASE S = {}
    BY <1>1, <1>3 DEF Nil, ZeroTime
  <1>4. CASE S # {}
    <2>1. Max(S) \in S /\ \A s \in S : s <= Max(S)
      BY <1>2, <1>4, MaxOfNaturals
    <2>2. LastRun(children) = Max(S)
      BY <1>1, <1>4
    <2> HIDE DEF S
    <2>3. LastRun(children) \in S /\ \A s \in S : s <= LastRun(children)
      BY <2>1, <2>2
    <2> QED
      BY <2>3, Constants DEF Nil, S
  <1> QED
    BY <1>3, <1>4

-----------------------------------------------------------------------------
(* What each step does to the counters. *)
LEMMA SetsOfTimes ==
  ASSUME NEW S \in SUBSET Times
  PROVE  IsFiniteSet(S) /\ Cardinality(S) \in Nat
  <1>1. IsFiniteSet(0..MaxTime)
    BY Constants, FS_Interval
  <1>2. IsFiniteSet(S)
    BY <1>1, Constants, FS_Subset
  <1> QED
    BY <1>2, FS_CardinalityType

(* The finished jobs that the history limits let go: the oldest where jobs  *)
(* start in order, or else any of them.                                     *)
Finishing(children) == In(children, "failed") \cup In(children, "complete")
Old(children)       == Oldest(In(children, "failed"), FailLimit)
                         \cup Oldest(In(children, "complete"), SuccessLimit)

LEMMA HistoryCleaned ==
  ASSUME CleanUpHistory
  PROVE  \E S \in SUBSET Times :
           /\ S \subseteq Finishing(reconcile.children)
           /\ JobsStartInOrder => S = Old(reconcile.children)
           /\ \E kept \in SUBSET S :
                /\ DeleteJobs(S \ kept) /\ Fault(Cardinality(kept))
                /\ now' = now /\ running' = running /\ onTime' = onTime
  <1> DEFINE F == In(reconcile.children, "failed")
             C == In(reconcile.children, "complete")
  <1>1. PICK failed \in Surplus(F, FailLimit), complete \in Surplus(C, SuccessLimit) :
          \E kept \in SUBSET (failed \cup complete) :
            DeleteJobs((failed \cup complete) \ kept) /\ Fault(Cardinality(kept))
    BY DEF CleanUpHistory
  <1>2. now' = now /\ running' = running /\ onTime' = onTime
    BY DEF CleanUpHistory
  <1>3. F \subseteq Times /\ C \subseteq Times
    BY DEF In
  <1>4. \A T, limit : \A some \in Surplus(T, limit) :
          some \subseteq T /\ (JobsStartInOrder => some = Oldest(T, limit))
    BY DEF Surplus, Oldest
  <1> DEFINE S == failed \cup complete
  <1>5. /\ S \subseteq F \cup C
        /\ JobsStartInOrder => S = Oldest(F, FailLimit) \cup Oldest(C, SuccessLimit)
    BY <1>4
  <1>6. S \in SUBSET Times /\ S \subseteq Finishing(reconcile.children)
        /\ (JobsStartInOrder => S = Old(reconcile.children))
    BY <1>3, <1>5 DEF Finishing, Old
  <1>7. \E kept \in SUBSET S : DeleteJobs(S \ kept) /\ Fault(Cardinality(kept))
    BY <1>1
  <1> HIDE DEF S
  <1> QED
    BY <1>2, <1>6, <1>7

CountersMove ==
  /\ used' \in [ops : 0..MaxOps, faults : 0..MaxFaults, crashes : 0..MaxCrashes]
  /\ used.ops <= used'.ops /\ used'.ops \in Nat
  /\ now' \in 0..MaxTime /\ now' \in Nat /\ now <= now'
  /\ now' = now \/ Tick
  /\ running' = running \/ Crash \/ Restart
  /\ onTime' \in BOOLEAN /\ (onTime' => onTime)

LEMMA EveryStepMovesCounters ==
  ASSUME Inv, [Next]_vars
  PROVE  CountersMove
  <1> DEFINE UsedTypes == [ops : 0..MaxOps, faults : 0..MaxFaults, crashes : 0..MaxCrashes]
             Faults(n) == used' = [used EXCEPT !.faults = @ + n] /\ used.faults + n <= MaxFaults
  <1>1. /\ used \in UsedTypes /\ now \in 0..MaxTime
        /\ used.ops \in Nat /\ now \in Nat
        /\ MaxOps \in Nat /\ MaxFaults \in Nat /\ MaxCrashes \in Nat /\ MaxTime \in Nat
        /\ onTime \in BOOLEAN
    BY Types, Constants
  <1>2. ASSUME used' = used, now' = now, running' = running, onTime' = onTime PROVE CountersMove
    BY <1>1, <1>2 DEF CountersMove
  <1>3. ASSUME NEW n \in Nat, Faults(n), now' = now, running' = running, onTime' = onTime
        PROVE  CountersMove
    <2>1. used' \in UsedTypes /\ used'.ops = used.ops
      BY <1>1, <1>3
    <2> QED
      BY <1>1, <1>3, <2>1 DEF CountersMove
  <1>4. ASSUME UserOp PROVE CountersMove
    <2>1. used' \in UsedTypes /\ used'.ops = used.ops + 1 /\ now' = now /\ running' = running
          /\ onTime' = onTime
      BY <1>1, <1>4 DEF UserOp
    <2> QED
      BY <1>1, <2>1 DEF CountersMove
  <1>5. CASE Tick
    <2>1. used' = used /\ running' = running /\ now' = now + 1 /\ now' \in 0..MaxTime
          /\ onTime' \in BOOLEAN /\ (onTime' => onTime)
      BY <1>1, <1>5 DEF Tick
    <2> QED
      BY <1>1, <1>5, <2>1 DEF CountersMove
  <1>6. CASE Crash
    <2>1. used' \in UsedTypes /\ used'.ops = used.ops /\ now' = now /\ onTime' = onTime
      BY <1>1, <1>6 DEF Crash
    <2> QED
      BY <1>1, <1>6, <2>1 DEF CountersMove
  <1>7. CASE Restart
    <2>1. used' = used /\ now' = now /\ onTime' = onTime
      BY <1>7 DEF Restart
    <2> QED
      BY <1>1, <1>7, <2>1 DEF CountersMove
  <1>8. CASE CreateCronJob \/ SuspendOrResume \/ DeleteCronJob \/ \E t \in Times : DeleteJob(t)
    BY <1>4, <1>8 DEF CreateCronJob, SuspendOrResume, DeleteCronJob, DeleteJob
  <1>9. ASSUME NEW t \in Times, JobFinishes(t) \/ Collect(t) PROVE CountersMove
    BY <1>2, <1>9 DEF JobFinishes, Collect
  <1>10. CASE Receive \/ WakeUp \/ BeginReconcile \/ GetCronJob \/ ListJobs \/ Schedule \/ DecideRun
    BY <1>2, <1>10 DEF Receive, WakeUp, BeginReconcile, GetCronJob, ListJobs, Schedule, DecideRun
  <1>11. CASE UpdateStatus
    BY <1>2, <1>3, <1>11 DEF UpdateStatus, Fault
  <1>12. CASE ReplaceActive
    BY <1>2, <1>3, <1>12 DEF ReplaceActive, Fault
  <1>13. CASE CreateJob
    BY <1>2, <1>3, <1>13 DEF CreateJob, Fault
  <1>14. CASE CleanUpHistory
    <2>1. PICK S \in SUBSET Times : \E kept \in SUBSET S :
            /\ Fault(Cardinality(kept))
            /\ now' = now /\ running' = running /\ onTime' = onTime
      BY <1>14, HistoryCleaned
    <2>2. PICK kept \in SUBSET S :
            /\ Fault(Cardinality(kept))
            /\ now' = now /\ running' = running /\ onTime' = onTime
      BY <2>1
    <2>3. Cardinality(kept) \in Nat
      BY SetsOfTimes
    <2> QED
      BY <1>3, <2>2, <2>3 DEF Fault
  <1>15. CASE UNCHANGED vars
    BY <1>2, <1>15 DEF vars
  <1> QED
    BY <1>5, <1>6, <1>7, <1>8, <1>9, <1>10, <1>11, <1>12, <1>13, <1>14, <1>15 DEF Next, Reconcile

-----------------------------------------------------------------------------
(* What each step does to the CronJob: it stores a newer state of the same  *)
(* CronJob, nothing, or a CronJob with a new uid.                           *)
CronJobFollows(old, new, ops, opsAfter) ==
  \/ new = Absent
  \/ old = Absent /\ ops < new.uid /\ new.uid <= opsAfter
  \/ old # Absent /\ new.uid = old.uid /\ new.policy = old.policy

CronJobMoves ==
  /\ cronJob' = [k \in {Cj} |-> cronJob'[k]]
  /\ cronJobWatch' = [k \in {Cj} |-> cronJobWatch'[k]]
  /\ cronJobCache' = [k \in {Cj} |-> cronJobCache'[k]]
  /\ cronJob'[Cj] \in Known
  /\ cronJob'[Cj] = cronJob[Cj]
       \/ CronJobFollows(cronJob[Cj], cronJob'[Cj], used.ops, used'.ops)
  /\ cronJob'[Cj] = Absent => cronJob[Cj] = Absent \/ DeleteCronJob
  /\ ChannelStep(cronJob[Cj], cronJobWatch[Cj], cronJobCache[Cj], running,
                 cronJob'[Cj], cronJobWatch'[Cj], cronJobCache'[Cj], running')

LEMMA CronJobUntouched ==
  ASSUME \/ \E t \in Times : DeleteJob(t) \/ JobFinishes(t) \/ Collect(t)
         \/ Tick \/ WakeUp \/ BeginReconcile
         \/ GetCronJob \/ ListJobs \/ CleanUpHistory \/ Schedule \/ DecideRun
         \/ ReplaceActive \/ CreateJob
         \/ UNCHANGED vars
  PROVE  UNCHANGED <<cronJob, cronJobWatch, cronJobCache, running>>
  <1>1. CASE \E t \in Times : DeleteJob(t) \/ JobFinishes(t) \/ Collect(t)
    BY <1>1 DEF DeleteJob, JobFinishes, Collect, UserOp, cronJobVars
  <1>2. CASE Tick \/ WakeUp \/ BeginReconcile \/ GetCronJob \/ ListJobs
    BY <1>2 DEF Tick, WakeUp, BeginReconcile, GetCronJob, ListJobs, clusterVars, cronJobVars
  <1>3. CASE CleanUpHistory \/ ReplaceActive
    BY <1>3 DEF CleanUpHistory, ReplaceActive, DeleteJobs, cronJobVars
  <1>4. CASE Schedule \/ DecideRun \/ CreateJob
    BY <1>4 DEF Schedule, DecideRun, CreateJob, clusterVars, cronJobVars
  <1>5. CASE UNCHANGED vars
    BY <1>5 DEF vars, clusterVars, cronJobVars
  <1> QED
    BY <1>1, <1>2, <1>3, <1>4, <1>5

(* What UpdateStatus writes. *)
LEMMA StatusUpdate ==
  ASSUME Inv, UpdateStatus
  PROVE  \E updated \in CronJobs :
           /\ updated.uid = reconcile.cj.uid /\ updated.policy = reconcile.cj.policy
           /\ updated.last = LastRun(reconcile.children)
           /\ \/ UNCHANGED cronJobVars /\ (reconcile'.pc = "history" => updated = reconcile.cj)
              \/ CJ!Write(Cj, updated, TRUE)
           /\ \/ UNCHANGED cronJobVars
              \/ cronJob[Cj] # Absent /\ cronJob[Cj].uid = reconcile.cj.uid
           /\ \/ reconcile' = [reconcile EXCEPT !.pc = "history", !.cj = updated]
                 /\ wakeAt' = wakeAt /\ ended' = ended
                 /\ cronJob[Cj] # Absent /\ cronJob[Cj].uid = reconcile.cj.uid
              \/ ReturnError
  <1>1. /\ reconcile.cj \in CronJobs /\ LastRun(reconcile.children) \in Times \cup {Nil}
        /\ ActiveJobs \in SUBSET Times
    BY HandTypes, LastRunIsTime DEF UpdateStatus, At
  <1> DEFINE read    == reconcile.cj
             current == cronJob[Cj]
             status  == [read EXCEPT !.last = LastRun(reconcile.children), !.active = ActiveJobs]
             updated == IF status = read THEN read ELSE [status EXCEPT !.version = @ + 1]
             fresh   == current # Absent /\ current.uid = read.uid /\ current.version = read.version
             write   == /\ IF updated = read THEN UNCHANGED cronJobVars
                           ELSE CJ!Write(Cj, updated, TRUE)
                        /\ UNCHANGED jobVars
  <1>2. \/ fresh /\ write /\ Proceed([reconcile EXCEPT !.pc = "history", !.cj = updated])
        \/ ~fresh /\ ReturnError /\ UNCHANGED clusterVars
        \/ fresh /\ write /\ ReturnError
        \/ ReturnError /\ UNCHANGED clusterVars
    BY DEF UpdateStatus
  <1>3. /\ status \in CronJobs /\ status.last = LastRun(reconcile.children)
        /\ [status EXCEPT !.version = @ + 1] \in CronJobs
        /\ [status EXCEPT !.version = @ + 1].last = LastRun(reconcile.children)
        /\ [status EXCEPT !.version = @ + 1].uid = read.uid
        /\ [status EXCEPT !.version = @ + 1].policy = read.policy
    <2> DEFINE newer == [status EXCEPT !.version = @ + 1]
               last  == LastRun(reconcile.children)
    <2>1. status = WithStatus(read, last, ActiveJobs)
      BY DEF WithStatus
    <2>4. last \in Times \cup {Nil} /\ ActiveJobs \in SUBSET Times /\ read \in CronJobs
      BY <1>1
    <2> HIDE DEF status, last, read
    <2>2. newer = Newer(status)
      BY DEF Newer
    <2> HIDE DEF newer
    <2>3. /\ status \in CronJobs /\ status.last = last
          /\ newer \in CronJobs /\ newer.last = last /\ newer.uid = read.uid
          /\ newer.policy = read.policy
      BY <2>1, <2>2, <2>4, StatusTypes
    <2> QED
      BY <2>3 DEF newer, last, read
  <1>4. /\ updated \in CronJobs /\ updated.uid = read.uid /\ updated.policy = read.policy
        /\ updated.last = LastRun(reconcile.children)
    BY <1>1, <1>3
  <1>5. ReturnError => reconcile'.pc # "history"
    BY DEF ReturnError, Idle
  <1> HIDE DEF updated, ReturnError, fresh
  <1>6. fresh => cronJob[Cj] # Absent /\ cronJob[Cj].uid = reconcile.cj.uid
    BY DEF fresh
  <1>7. /\ \/ UNCHANGED cronJobVars /\ (reconcile'.pc = "history" => updated = reconcile.cj)
           \/ CJ!Write(Cj, updated, TRUE)
        /\ \/ UNCHANGED cronJobVars
           \/ cronJob[Cj] # Absent /\ cronJob[Cj].uid = reconcile.cj.uid
        /\ \/ reconcile' = [reconcile EXCEPT !.pc = "history", !.cj = updated]
              /\ wakeAt' = wakeAt /\ ended' = ended
              /\ cronJob[Cj] # Absent /\ cronJob[Cj].uid = reconcile.cj.uid
           \/ ReturnError
    BY <1>2, <1>5, <1>6 DEF clusterVars, Proceed
  <1> QED
    BY <1>4, <1>7

LEMMA EveryStepMovesCronJob ==
  ASSUME Inv, [Next]_vars
  PROVE  CronJobMoves
  <1>1. /\ cronJob \in [{Cj} -> Known] /\ cronJobCache \in [{Cj} -> Known]
        /\ cronJobWatch \in [{Cj} -> Seq(EventsOf(Known))] /\ Absent \in Known
        /\ used.ops \in Nat /\ cronJob[Cj] \in Known
    BY Types DEF Known
  <1>2. ASSUME UNCHANGED <<cronJob, cronJobWatch, cronJobCache, running>> PROVE CronJobMoves
    BY <1>1, <1>2 DEF CronJobMoves, ChannelStep
  <1>3. ASSUME NEW obj \in Known, CJ!Write(Cj, obj, running), running' = running,
               CronJobFollows(cronJob[Cj], obj, used.ops, used'.ops),
               obj # Absent \/ DeleteCronJob
        PROVE  CronJobMoves
    <2>1. /\ cronJob' = [cronJob EXCEPT ![Cj] = obj]
          /\ cronJobWatch' = IF running
               THEN [cronJobWatch EXCEPT ![Cj] = Append(@, [obj |-> obj, tombstone |-> FALSE])]
               ELSE cronJobWatch
          /\ cronJobCache' = cronJobCache
      BY <1>3 DEF CJ!Write, CJ!Event
    <2>2. /\ cronJob' = [k \in {Cj} |-> cronJob'[k]]
          /\ cronJobWatch' = [k \in {Cj} |-> cronJobWatch'[k]]
          /\ cronJobCache' = [k \in {Cj} |-> cronJobCache'[k]]
      BY <1>1, <2>1
    <2>3. /\ cronJob'[Cj] = obj /\ cronJobCache'[Cj] = cronJobCache[Cj]
          /\ cronJobWatch'[Cj] = IF running
               THEN Append(cronJobWatch[Cj], [obj |-> obj, tombstone |-> FALSE])
               ELSE cronJobWatch[Cj]
      BY <1>1, <2>1
    <2> QED
      BY <1>3, <2>2, <2>3 DEF CronJobMoves, ChannelStep
  <1>4. CASE CreateCronJob
    <2>1. /\ cronJob[Cj] = Absent /\ used' = [used EXCEPT !.ops = @ + 1] /\ running' = running
          /\ used.ops < MaxOps
      BY <1>4 DEF CreateCronJob, UserOp
    <2>2. PICK d \in Deadlines, p \in Policies :
            CJ!Write(Cj, [uid |-> used.ops + 1, created |-> now, deadline |-> d, policy |-> p,
                          suspend |-> FALSE, last |-> Nil, active |-> {}, version |-> 1], running)
      BY <1>4 DEF CreateCronJob
    <2> DEFINE obj == [uid |-> used.ops + 1, created |-> now, deadline |-> d, policy |-> p,
                       suspend |-> FALSE, last |-> Nil, active |-> {}, version |-> 1]
    <2>3. used'.ops = used.ops + 1 /\ used.ops + 1 \in Uids
      BY <2>1, Types, Constants DEF Uids
    <2>4. obj \in CronJobs /\ obj.uid = used.ops + 1
      BY <2>3, Types DEF CronJobs
    <2>5. used.ops < obj.uid /\ obj.uid <= used'.ops
      BY <1>1, <2>3, <2>4
    <2> HIDE DEF obj
    <2>6. CJ!Write(Cj, obj, running)
      BY <2>2 DEF obj
    <2> QED
      BY <1>3, <2>1, <2>4, <2>5, <2>6, CronJobTypes DEF CronJobFollows, Known
  <1>5. CASE SuspendOrResume
    <2> DEFINE obj == [cronJob[Cj] EXCEPT !.suspend = ~@, !.version = @ + 1]
    <2>1. cronJob[Cj] # Absent /\ CJ!Write(Cj, obj, running) /\ running' = running
      BY <1>5 DEF SuspendOrResume, UserOp
    <2>2. cronJob[Cj] \in CronJobs
      BY <1>1, <2>1 DEF Known
    <2>3. obj \in CronJobs /\ obj.uid = cronJob[Cj].uid /\ obj.policy = cronJob[Cj].policy
      BY <2>2, SuspendTypes
    <2> HIDE DEF obj
    <2> QED
      BY <1>3, <2>1, <2>3, CronJobTypes DEF CronJobFollows, Known
  <1>6. CASE DeleteCronJob
    <2>1. CJ!Write(Cj, Absent, running) /\ running' = running
      BY <1>6 DEF DeleteCronJob, UserOp
    <2> QED
      BY <1>1, <1>3, <1>6, <2>1 DEF CronJobFollows
  <1>7. CASE Receive
    <2>1. running /\ running' = running
      BY <1>7 DEF Receive
    <2>2. CASE CJ!Receive(Cj)
      <3>1. /\ cronJobWatch[Cj] # << >> /\ cronJob' = cronJob
            /\ cronJobCache' = [cronJobCache EXCEPT ![Cj] = Head(cronJobWatch[Cj]).obj]
            /\ cronJobWatch' = [cronJobWatch EXCEPT ![Cj] = Tail(@)]
        BY <2>2 DEF CJ!Receive
      <3>2. /\ cronJob' = [k \in {Cj} |-> cronJob'[k]]
            /\ cronJobWatch' = [k \in {Cj} |-> cronJobWatch'[k]]
            /\ cronJobCache' = [k \in {Cj} |-> cronJobCache'[k]]
            /\ cronJobWatch'[Cj] = Tail(cronJobWatch[Cj])
            /\ cronJobCache'[Cj] = Head(cronJobWatch[Cj]).obj
        BY <1>1, <3>1
      <3> QED
        BY <1>1, <2>1, <3>1, <3>2 DEF CronJobMoves, ChannelStep
    <2>3. CASE UNCHANGED cronJobVars
      BY <1>2, <2>1, <2>3 DEF cronJobVars
    <2> QED
      BY <1>7, <2>2, <2>3 DEF Receive
  <1>8. CASE Crash
    <2>1. /\ ~running' /\ cronJob' = cronJob /\ cronJobCache' = [k \in {Cj} |-> Absent]
          /\ cronJobWatch' = [k \in {Cj} |-> << >>]
      BY <1>8 DEF Crash, CJ!Stop, CJ!Empty
    <2> QED
      BY <1>1, <2>1 DEF CronJobMoves, ChannelStep
  <1>9. CASE Restart
    <2>1. /\ ~running /\ running' /\ cronJob' = cronJob /\ cronJobCache' = cronJob
          /\ cronJobWatch' = cronJobWatch
      BY <1>9 DEF Restart, CJ!Start
    <2> QED
      BY <1>1, <2>1 DEF CronJobMoves, ChannelStep
  <1>10. CASE UpdateStatus
    <2>1. running /\ running' = running
      BY <1>10, HandTypes DEF UpdateStatus, At
    <2>2. PICK updated \in CronJobs :
            /\ updated.uid = reconcile.cj.uid /\ updated.policy = reconcile.cj.policy
            /\ UNCHANGED cronJobVars \/ CJ!Write(Cj, updated, TRUE)
            /\ \/ UNCHANGED cronJobVars
               \/ cronJob[Cj] # Absent /\ cronJob[Cj].uid = reconcile.cj.uid
      BY <1>10, StatusUpdate
    <2>3. CASE UNCHANGED cronJobVars
      BY <1>2, <2>1, <2>3 DEF cronJobVars
    <2>4. CASE ~UNCHANGED cronJobVars
      <3>1. CJ!Write(Cj, updated, running)
        BY <2>1, <2>2, <2>4 DEF CJ!Write
      <3>2. reconcile.cj.policy = cronJob[Cj].policy
        <4>1. IsPast(reconcile.cj, cronJob[Cj], used.ops)
          BY DEF Inv, Past, CronJobsSeen
        <4>2. reconcile.cj # Absent
          BY <1>10, HandTypes, CronJobTypes DEF UpdateStatus, At
        <4> QED
          BY <2>2, <2>4, <4>1, <4>2 DEF IsPast
      <3> QED
        BY <1>3, <2>1, <2>2, <2>4, <3>1, <3>2, CronJobTypes DEF CronJobFollows, Known
    <2> QED
      BY <2>3, <2>4
  <1> QED
    BY <1>2, <1>4, <1>5, <1>6, <1>7, <1>8, <1>9, <1>10, CronJobUntouched DEF Next, Reconcile

(* What Reconcile has in hand of the CronJob comes from the cache, or is    *)
(* what it stored.                                                          *)
LEMMA CronJobInHand ==
  ASSUME Inv, [Next]_vars
  PROVE  reconcile'.cj \in {Absent, reconcile.cj, cronJobCache[Cj], cronJob'[Cj]}
  <1>1. reconcile \in States /\ cronJob \in [{Cj} -> Known]
    BY Types
  <1>2. Idle.cj = Absent
    BY DEF Idle
  <1>3. CASE \/ CreateCronJob \/ SuspendOrResume \/ DeleteCronJob
             \/ \E t \in Times : DeleteJob(t) \/ JobFinishes(t) \/ Collect(t)
             \/ Tick \/ Receive \/ WakeUp \/ Restart \/ UNCHANGED vars
    <2>1. reconcile' = reconcile
      BY <1>3 DEF CreateCronJob, SuspendOrResume, DeleteCronJob, DeleteJob, JobFinishes, Collect,
                  Tick, Receive, WakeUp, Restart, UserOp, vars
    <2> QED
      BY <2>1
  <1>4. CASE BeginReconcile \/ Crash
    <2>1. reconcile' = [Idle EXCEPT !.pc = "get"] \/ reconcile' = Idle
      BY <1>4 DEF BeginReconcile, Crash
    <2> QED
      BY <2>1 DEF Idle
  <1>5. CASE GetCronJob
    <2>1. reconcile' = Idle \/ reconcile' = [reconcile EXCEPT !.pc = "list", !.cj = cronJobCache[Cj]]
      BY <1>5 DEF GetCronJob, Return, Proceed
    <2> QED
      BY <1>1, <1>2, <2>1 DEF States
  <1>6. CASE UpdateStatus
    <2>1. PICK updated \in CronJobs :
            /\ \/ UNCHANGED cronJobVars /\ (reconcile'.pc = "history" => updated = reconcile.cj)
               \/ CJ!Write(Cj, updated, TRUE)
            /\ \/ reconcile' = [reconcile EXCEPT !.pc = "history", !.cj = updated]
               \/ ReturnError
      BY <1>6, StatusUpdate
    <2>2. CASE ReturnError
      BY <1>2, <2>2 DEF ReturnError
    <2>3. CASE reconcile' = [reconcile EXCEPT !.pc = "history", !.cj = updated]
      <3>1. reconcile'.pc = "history" /\ reconcile'.cj = updated
        BY <1>1, <2>3 DEF States
      <3>2. CJ!Write(Cj, updated, TRUE) => cronJob'[Cj] = updated
        BY <1>1 DEF CJ!Write
      <3> QED
        BY <2>1, <3>1, <3>2
    <2> QED
      BY <2>1, <2>2, <2>3
  <1>7. CASE ListJobs \/ CleanUpHistory \/ Schedule \/ DecideRun \/ ReplaceActive \/ CreateJob
    <2>1. ASSUME ListJobs \/ CleanUpHistory \/ Schedule \/ ReplaceActive \/ CreateJob
          PROVE  reconcile' = Idle \/ reconcile'.cj = reconcile.cj
      BY <1>1, <2>1 DEF ListJobs, CleanUpHistory, Schedule, ReplaceActive, CreateJob,
                        Return, ReturnError, GiveUp, Proceed, States
    <2>2. ASSUME DecideRun
          PROVE  reconcile' = Idle \/ reconcile'.cj = reconcile.cj
      BY <1>1, <2>2 DEF DecideRun, EndSettled, ProceedTo, Return, GiveUp, Proceed, States
    <2>3. reconcile' = Idle \/ reconcile'.cj = reconcile.cj
      BY <1>7, <2>1, <2>2
    <2> QED
      BY <1>2, <2>3
  <1> QED
    BY <1>3, <1>4, <1>5, <1>6, <1>7 DEF Next, Reconcile

LEMMA CronJobsPreserved ==
  ASSUME Inv, [Next]_vars
  PROVE  /\ cronJob' \in [{Cj} -> Known] /\ cronJobCache' \in [{Cj} -> Known]
         /\ cronJobWatch' \in [{Cj} -> Seq(EventsOf(Known))]
         /\ Channel(cronJob[Cj], cronJobWatch[Cj], cronJobCache[Cj], running)'
         /\ CronJobsSeen' \subseteq CronJobsSeen \cup {cronJob'[Cj], Absent}
         /\ \A m \in CronJobsSeen' : IsPast(m, cronJob'[Cj], used'.ops)
  <1>1. CronJobMoves /\ CountersMove
    BY EveryStepMovesCronJob, EveryStepMovesCounters
  <1>2. /\ cronJob[Cj] \in Known /\ cronJobCache[Cj] \in Known /\ cronJob'[Cj] \in Known
        /\ cronJobWatch[Cj] \in Seq(EventsOf(Known)) /\ Absent \in Known
    BY <1>1, Types DEF CronJobMoves, Known
  <1>3. /\ cronJobCache'[Cj] \in Known /\ cronJobWatch'[Cj] \in Seq(EventsOf(Known))
        /\ Channel(cronJob'[Cj], cronJobWatch'[Cj], cronJobCache'[Cj], running')
        /\ InChannel(cronJob'[Cj], cronJobWatch'[Cj], cronJobCache'[Cj])
             \subseteq InChannel(cronJob[Cj], cronJobWatch[Cj], cronJobCache[Cj])
                         \cup {cronJob'[Cj], Absent}
    BY <1>1, <1>2, ChannelKept DEF CronJobMoves, Inv, ChannelsCatchUp
  <1>4. CronJobsSeen' \subseteq CronJobsSeen \cup {cronJob'[Cj], Absent}
    BY <1>3, CronJobInHand DEF CronJobsSeen, InChannel
  <1>5. ASSUME NEW m \in CronJobsSeen' PROVE IsPast(m, cronJob'[Cj], used'.ops)
    <2> DEFINE old == cronJob[Cj]
               new == cronJob'[Cj]
    <2>1. CASE m = Absent
      BY <2>1 DEF IsPast
    <2>2. CASE m # Absent /\ m \in CronJobsSeen
      <3>1. IsPast(m, old, used.ops) /\ IsPast(old, old, used.ops)
        BY <2>2 DEF Inv, Past, CronJobsSeen, InChannel
      <3>2. m \in Known
        <4>1. CASE m = reconcile.cj
          BY <4>1, HandTypes
        <4>2. CASE m \in {old, cronJobCache[Cj]}
          BY <1>2, <4>2
        <4>3. ASSUME NEW n \in 1..Len(cronJobWatch[Cj]), m = cronJobWatch[Cj][n].obj
              PROVE  m \in Known
          <5>1. cronJobWatch[Cj][n] \in EventsOf(Known)
            BY <1>2, ElementOfSeq
          <5> QED
            BY <4>3, <5>1 DEF EventsOf
        <4> QED
          BY <2>2, <4>1, <4>2, <4>3 DEF CronJobsSeen, InChannel
      <3>3. m.uid \in Nat /\ m.uid <= used.ops /\ used.ops <= used'.ops
            /\ used.ops \in Nat /\ used'.ops \in Nat
        BY <1>1, <2>2, <3>1, <3>2, CronJobTypes, Types DEF IsPast, Known, CountersMove
      <3>4. new # Absent /\ new.uid = m.uid => m.policy = new.policy
        <4>1. CASE new = old
          BY <2>2, <3>1, <4>1 DEF IsPast
        <4>2. CASE new # Absent /\ CronJobFollows(old, new, used.ops, used'.ops)
          <5>1. new.uid \in Nat
            BY <1>2, <4>2, CronJobTypes DEF Known
          <5> QED
            BY <2>2, <3>1, <3>3, <4>2, <5>1 DEF CronJobFollows, IsPast
        <4> QED
          BY <1>1, <4>1, <4>2 DEF CronJobMoves
      <3> QED
        BY <3>3, <3>4 DEF IsPast
    <2>3. CASE m # Absent /\ m = new
      <3>1. new.uid <= used'.ops
        <4>1. old # Absent => old.uid <= used.ops
          BY DEF Inv, Past, CronJobsSeen, InChannel, IsPast
        <4>2. /\ old # Absent => old.uid \in Nat
              /\ used.ops \in Nat /\ used'.ops \in Nat /\ used.ops <= used'.ops
          BY <1>1, <1>2, Types, CronJobTypes DEF Known, CountersMove
        <4> QED
          BY <1>1, <2>3, <4>1, <4>2 DEF CronJobMoves, CronJobFollows
      <3> QED
        BY <2>3, <3>1 DEF IsPast
    <2> QED
      BY <1>4, <2>1, <2>2, <2>3
  <1>6. /\ cronJob' \in [{Cj} -> Known] /\ cronJobCache' \in [{Cj} -> Known]
        /\ cronJobWatch' \in [{Cj} -> Seq(EventsOf(Known))]
    BY <1>1, <1>2, <1>3 DEF CronJobMoves
  <1> QED
    BY <1>3, <1>4, <1>5, <1>6

-----------------------------------------------------------------------------
(* What each step does to the job of a nominal time. *)
Deleted(t) ==
  /\ jobs[t] # Absent /\ jobs'[t] = Absent
  /\ \/ UserDeletesJobs
     \/ ~Live(jobs[t].owner)
     \/ /\ At("history") /\ t \in Finishing(reconcile.children)
        /\ JobsStartInOrder => t \in Old(reconcile.children)
     \/ At("replace") /\ t \in ActiveJobs

Finished(t) ==
  /\ jobs[t] # Absent /\ jobs'[t] \in Jobs
  /\ jobs'[t].owner = jobs[t].owner /\ jobs'[t].state # "active"

Created(t) ==
  /\ At("create") /\ t = reconcile.missed /\ reconcile' = Idle
  /\ jobs[t] = Absent /\ jobs'[t] = [owner |-> reconcile.cj.uid, state |-> "active"]
  /\ runs' = [runs EXCEPT ![reconcile.cj.uid][t] = @ + 1]
  /\ cronJob' = cronJob /\ now' = now /\ used'.ops = used.ops

JobMoves(t) ==
  /\ jobs'[t] \in KnownJob
  /\ jobs'[t] = jobs[t] \/ Deleted(t) \/ Finished(t) \/ Created(t)
  /\ ChannelStep(jobs[t], jobsWatch[t], jobsCache[t], running,
                 jobs'[t], jobsWatch'[t], jobsCache'[t], running')
  /\ jobs'[t] = jobs[t] /\ jobsWatch[t] = << >> /\ running /\ running' =>
       jobsWatch'[t] = << >> /\ jobsCache'[t] = jobsCache[t]

JobsMove ==
  /\ jobs' = [t \in Times |-> jobs'[t]]
  /\ jobsWatch' = [t \in Times |-> jobsWatch'[t]]
  /\ jobsCache' = [t \in Times |-> jobsCache'[t]]
  /\ \A t \in Times : JobMoves(t)
  /\ runs' = runs \/ Created(reconcile.missed)

LEMMA JobsUntouched ==
  ASSUME \/ CreateCronJob \/ SuspendOrResume \/ DeleteCronJob
         \/ Tick \/ WakeUp \/ BeginReconcile
         \/ GetCronJob \/ ListJobs \/ UpdateStatus \/ Schedule \/ DecideRun
         \/ UNCHANGED vars
  PROVE  UNCHANGED <<jobs, jobsWatch, jobsCache, running, runs>>
  <1>1. CASE CreateCronJob \/ SuspendOrResume \/ DeleteCronJob
    BY <1>1 DEF CreateCronJob, SuspendOrResume, DeleteCronJob, UserOp, jobVars
  <1>2. CASE Tick \/ WakeUp \/ BeginReconcile \/ GetCronJob \/ ListJobs
    BY <1>2 DEF Tick, WakeUp, BeginReconcile, GetCronJob, ListJobs, clusterVars, jobVars
  <1>3. CASE Schedule \/ DecideRun
    BY <1>3 DEF Schedule, DecideRun, clusterVars, jobVars
  <1>4. CASE UpdateStatus
    BY <1>4 DEF UpdateStatus, clusterVars, jobVars
  <1>5. CASE UNCHANGED vars
    BY <1>5 DEF vars, clusterVars, jobVars
  <1> QED
    BY <1>1, <1>2, <1>3, <1>4, <1>5

LEMMA JobWritten ==
  ASSUME Inv, NEW t \in Times, NEW obj \in KnownJob, obj # jobs[t], Job!Write(t, obj, running),
         running' = running, obj = jobs'[t] => Deleted(t) \/ Finished(t) \/ Created(t),
         runs' = runs \/ Created(reconcile.missed)
  PROVE  JobsMove
  <1>1. /\ jobs \in [Times -> KnownJob] /\ jobsCache \in [Times -> KnownJob]
        /\ jobsWatch \in [Times -> Seq(EventsOf(KnownJob))]
    BY Types
  <1>2. /\ jobs' = [jobs EXCEPT ![t] = obj]
        /\ jobsWatch' = IF running
             THEN [jobsWatch EXCEPT ![t] = Append(@, [obj |-> obj, tombstone |-> FALSE])]
             ELSE jobsWatch
        /\ jobsCache' = jobsCache
    BY DEF Job!Write, Job!Event
  <1>3. /\ jobs' = [s \in Times |-> jobs'[s]]
        /\ jobsWatch' = [s \in Times |-> jobsWatch'[s]]
        /\ jobsCache' = [s \in Times |-> jobsCache'[s]]
    BY <1>1, <1>2
  <1>4. JobMoves(t)
    <2>1. /\ jobs'[t] = obj /\ jobsCache'[t] = jobsCache[t]
          /\ jobsWatch'[t] = IF running
               THEN Append(jobsWatch[t], [obj |-> obj, tombstone |-> FALSE])
               ELSE jobsWatch[t]
      BY <1>1, <1>2
    <2> QED
      BY <2>1 DEF JobMoves, ChannelStep
  <1>5. ASSUME NEW s \in Times \ {t} PROVE JobMoves(s)
    <2>1. jobs'[s] = jobs[s] /\ jobsCache'[s] = jobsCache[s] /\ jobsWatch'[s] = jobsWatch[s]
      BY <1>1, <1>2
    <2> QED
      BY <1>1, <2>1 DEF JobMoves, ChannelStep
  <1> QED
    BY <1>3, <1>4, <1>5 DEF JobsMove

LEMMA JobsDeleted ==
  ASSUME Inv, NEW S \in SUBSET Times, DeleteJobs(S), running, running' = running, runs' = runs,
         \/ /\ At("history") /\ S \subseteq Finishing(reconcile.children)
            /\ JobsStartInOrder => S \subseteq Old(reconcile.children)
         \/ At("replace") /\ S \subseteq ActiveJobs
  PROVE  JobsMove
  <1>1. /\ jobs \in [Times -> KnownJob] /\ jobsCache \in [Times -> KnownJob]
        /\ jobsWatch \in [Times -> Seq(EventsOf(KnownJob))]
    BY Types
  <1>2. /\ jobs' = [t \in Times |-> IF t \in S /\ jobs[t] # Absent THEN Absent ELSE jobs[t]]
        /\ jobsWatch' = [t \in Times |->
             IF t \in S /\ jobs[t] # Absent
             THEN Append(jobsWatch[t], [obj |-> Absent, tombstone |-> FALSE]) ELSE jobsWatch[t]]
        /\ jobsCache' = jobsCache
    BY DEF DeleteJobs, Job!Event
  <1>3. ASSUME NEW t \in Times PROVE JobMoves(t)
    <2>1. CASE t \in S /\ jobs[t] # Absent
      <3>1. /\ jobs'[t] = Absent /\ jobsCache'[t] = jobsCache[t]
            /\ jobsWatch'[t] = Append(jobsWatch[t], [obj |-> Absent, tombstone |-> FALSE])
        BY <1>2, <2>1
      <3>2. Deleted(t)
        BY <2>1, <3>1 DEF Deleted
      <3> QED
        BY <2>1, <3>1, <3>2 DEF JobMoves, ChannelStep, KnownJob
    <2>2. CASE ~(t \in S /\ jobs[t] # Absent)
      <3>1. jobs'[t] = jobs[t] /\ jobsCache'[t] = jobsCache[t] /\ jobsWatch'[t] = jobsWatch[t]
        BY <1>2, <2>2
      <3> QED
        BY <1>1, <3>1 DEF JobMoves, ChannelStep
    <2> QED
      BY <2>1, <2>2
  <1> QED
    BY <1>1, <1>2, <1>3 DEF JobsMove

LEMMA EveryStepMovesJobs ==
  ASSUME Inv, [Next]_vars
  PROVE  JobsMove
  <1>1. /\ jobs \in [Times -> KnownJob] /\ jobsCache \in [Times -> KnownJob]
        /\ jobsWatch \in [Times -> Seq(EventsOf(KnownJob))] /\ Absent \in KnownJob
        /\ \A t \in Times : jobs[t] # Absent => jobs[t] \in Jobs
    BY Types DEF KnownJob
  <1>2. ASSUME UNCHANGED <<jobs, jobsWatch, jobsCache, running, runs>> PROVE JobsMove
    BY <1>1, <1>2 DEF JobsMove, JobMoves, ChannelStep
  <1>3. ASSUME NEW t \in Times, DeleteJob(t) \/ Collect(t) PROVE JobsMove
    <2>1. /\ jobs[t] # Absent /\ Job!Write(t, Absent, running) /\ running' = running /\ runs' = runs
          /\ UserDeletesJobs \/ ~Live(jobs[t].owner)
      BY <1>3 DEF DeleteJob, Collect, UserOp
    <2>2. Absent = jobs'[t] => Deleted(t)
      BY <2>1 DEF Deleted
    <2> QED
      BY <1>1, <2>1, <2>2, JobWritten
  <1>4. ASSUME NEW t \in Times, JobFinishes(t) PROVE JobsMove
    <2>1. jobs[t] # Absent /\ jobs[t].state = "active" /\ running' = running /\ runs' = runs
      BY <1>4 DEF JobFinishes
    <2>2. PICK s \in {"complete", "failed"} : Job!Write(t, [jobs[t] EXCEPT !.state = s], running)
      BY <1>4 DEF JobFinishes
    <2> DEFINE obj == [jobs[t] EXCEPT !.state = s]
    <2>3. obj \in Jobs /\ obj.owner = jobs[t].owner /\ obj.state # "active" /\ obj # jobs[t]
      BY <1>1, <2>1 DEF Jobs
    <2> HIDE DEF obj
    <2>4. obj = jobs'[t] => Finished(t)
      BY <2>1, <2>3 DEF Finished
    <2>5. Job!Write(t, obj, running)
      BY <2>2 DEF obj
    <2> QED
      BY <2>1, <2>3, <2>4, <2>5, JobWritten DEF KnownJob
  <1>5. CASE Receive
    <2>1. running /\ running' = running /\ runs' = runs
      BY <1>5 DEF Receive
    <2>2. ASSUME NEW t \in Times, Job!Receive(t) PROVE JobsMove
      <3>1. /\ jobsWatch[t] # << >> /\ jobs' = jobs
            /\ jobsCache' = [jobsCache EXCEPT ![t] = Head(jobsWatch[t]).obj]
            /\ jobsWatch' = [jobsWatch EXCEPT ![t] = Tail(@)]
        BY <2>2 DEF Job!Receive
      <3>2. JobMoves(t)
        <4>1. /\ jobsWatch'[t] = Tail(jobsWatch[t]) /\ jobsCache'[t] = Head(jobsWatch[t]).obj
              /\ jobs'[t] = jobs[t]
          BY <1>1, <3>1
        <4> QED
          BY <1>1, <2>1, <3>1, <4>1 DEF JobMoves, ChannelStep
      <3>3. ASSUME NEW s \in Times \ {t} PROVE JobMoves(s)
        <4>1. jobs'[s] = jobs[s] /\ jobsCache'[s] = jobsCache[s] /\ jobsWatch'[s] = jobsWatch[s]
          BY <1>1, <3>1
        <4> QED
          BY <1>1, <2>1, <4>1 DEF JobMoves, ChannelStep
      <3> QED
        BY <1>1, <2>1, <3>1, <3>2, <3>3 DEF JobsMove
    <2>3. CASE UNCHANGED jobVars
      BY <1>2, <2>1, <2>3 DEF jobVars
    <2> QED
      BY <1>5, <2>2, <2>3 DEF Receive
  <1>6. CASE Crash
    <2>1. /\ ~running' /\ jobs' = jobs /\ jobsCache' = [t \in Times |-> Absent]
          /\ jobsWatch' = [t \in Times |-> << >>] /\ runs' = runs
      BY <1>6 DEF Crash, Job!Stop, Job!Empty
    <2> QED
      BY <1>1, <2>1 DEF JobsMove, JobMoves, ChannelStep
  <1>7. CASE Restart
    <2>1. /\ ~running /\ running' /\ jobs' = jobs /\ jobsCache' = jobs
          /\ jobsWatch' = jobsWatch /\ runs' = runs
      BY <1>7 DEF Restart, Job!Start
    <2> QED
      BY <1>1, <2>1 DEF JobsMove, JobMoves, ChannelStep
  <1>8. CASE CleanUpHistory
    <2>1. running /\ running' = running /\ runs' = runs /\ At("history")
      BY <1>8, HandTypes DEF CleanUpHistory, At
    <2>2. PICK S \in SUBSET Times :
            /\ S \subseteq Finishing(reconcile.children)
            /\ JobsStartInOrder => S = Old(reconcile.children)
            /\ \E kept \in SUBSET S : DeleteJobs(S \ kept)
      BY <1>8, HistoryCleaned
    <2>3. PICK kept \in SUBSET S : DeleteJobs(S \ kept)
      BY <2>2
    <2>4. S \ kept \in SUBSET Times /\ S \ kept \subseteq Finishing(reconcile.children)
          /\ (JobsStartInOrder => S \ kept \subseteq Old(reconcile.children))
      BY <2>2
    <2> QED
      BY <2>1, <2>3, <2>4, JobsDeleted
  <1>9. CASE ReplaceActive
    <2>1. running /\ running' = running /\ runs' = runs /\ At("replace")
      BY <1>9, HandTypes DEF ReplaceActive, At
    <2>2. PICK some \in SUBSET ActiveJobs : DeleteJobs(some)
      BY <1>9 DEF ReplaceActive
    <2>3. ActiveJobs \in SUBSET Times
      BY HandTypes
    <2> QED
      BY <2>1, <2>2, <2>3, JobsDeleted
  <1>10. CASE CreateJob
    <2> DEFINE t   == reconcile.missed
               uid == reconcile.cj.uid
               obj == [owner |-> uid, state |-> "active"]
    <2>1. running /\ running' = running /\ At("create") /\ t \in Times
      BY <1>10, HandTypes DEF CreateJob, At
    <2>2. /\ \/ /\ jobs[t] = Absent /\ Job!Write(t, obj, TRUE)
                /\ runs' = [runs EXCEPT ![uid][t] = @ + 1]
             \/ UNCHANGED <<jobVars, runs>>
          /\ reconcile' = Idle
          /\ cronJob' = cronJob /\ now' = now
          /\ used' = used \/ Fault(1)
      BY <1>10 DEF CreateJob, Return, ReturnError, cronJobVars
    <2>3. CASE UNCHANGED <<jobVars, runs>>
      BY <1>2, <2>1, <2>3 DEF jobVars
    <2>4. CASE jobs[t] = Absent /\ Job!Write(t, obj, TRUE) /\ runs' = [runs EXCEPT ![uid][t] = @ + 1]
      <3>1. obj \in Jobs
        <4>1. uid \in Uids
          BY <2>1, HandTypes, CronJobTypes DEF At
        <4> QED
          BY <4>1 DEF Jobs
      <3>2. used'.ops = used.ops
        BY <2>2, Types DEF Fault
      <3>3. obj = jobs'[t] => Created(t)
        BY <2>1, <2>2, <2>4, <3>2 DEF Created
      <3>4. jobs'[t] = obj
        BY <1>1, <2>1, <2>4 DEF Job!Write
      <3>5. obj # jobs[t] /\ Job!Write(t, obj, running)
        BY <2>1, <2>4, <3>1, AbsentAssumption DEF Job!Write
      <3> HIDE DEF obj
      <3> QED
        BY <2>1, <3>1, <3>3, <3>4, <3>5, JobWritten DEF KnownJob
    <2> QED
      BY <2>2, <2>3, <2>4
  <1> QED
    BY <1>2, <1>3, <1>4, <1>5, <1>6, <1>7, <1>8, <1>9, <1>10, JobsUntouched DEF Next, Reconcile

-----------------------------------------------------------------------------
(* What each step does to what Reconcile has in hand. *)
LEMMA IdleIsSound ==
  /\ Idle \in States /\ Idle.pc = "idle" /\ Idle.missed = ZeroTime /\ Idle.cj = Absent
  /\ [Idle EXCEPT !.pc = "get"] \in States
  /\ \A time : Sound(Idle, time) /\ Sound([Idle EXCEPT !.pc = "get"], time)
  /\ \A t \in Times : Idle.children[t] = Absent
  <1>1. Never \in 0..Never /\ 0 \in 0..Period
    BY Constants
  <1>2. Idle \in States /\ [Idle EXCEPT !.pc = "get"] \in States
    BY <1>1 DEF Idle, States, PCs, Known, KnownJob, NoJobs
  <1> QED
    BY <1>2 DEF Idle, Sound, NoJobs

LEMMA EarlierIsEarlier ==
  ASSUME NEW s \in 0..Never, NEW t \in 0..Never
  PROVE  Earlier(s, t) \in 0..Never /\ Earlier(s, t) <= s /\ Earlier(s, t) <= t
  <1>1. s \in Nat /\ t \in Nat
    BY TimesAreNaturals
  <1> QED
    BY <1>1 DEF Earlier

LEMMA Returns ==
  ASSUME Inv
  PROVE  /\ \A after \in 0..Period : Return(after) =>
              /\ reconcile' = Idle /\ wakeAt' \in 0..Never /\ ended' = "settled"
              /\ after > 0 => wakeAt' <= now + after
         /\ ReturnError =>
              reconcile' = Idle /\ wakeAt' \in 0..Never /\ wakeAt' # Never /\ ended' = "error"
         /\ \A why : GiveUp(why) =>
              reconcile' = Idle /\ wakeAt' \in 0..Never /\ wakeAt' = wakeAt /\ ended' = why
  <1>1. ASSUME NEW after \in 0..Period, Return(after)
        PROVE  /\ reconcile' = Idle /\ wakeAt' \in 0..Never /\ ended' = "settled"
               /\ after > 0 => wakeAt' <= now + after
    <2>1. now + after \in 0..Never /\ wakeAt \in 0..Never
      BY Types, Constants DEF Never
    <2>2. /\ Earlier(wakeAt, now + after) \in 0..Never
          /\ Earlier(wakeAt, now + after) <= now + after
      BY <2>1, EarlierIsEarlier
    <2> QED
      BY <1>1, <2>1, <2>2, Constants DEF Return
  <1>2. ASSUME ReturnError
        PROVE  reconcile' = Idle /\ wakeAt' \in 0..Never /\ wakeAt' # Never /\ ended' = "error"
    <2>1. PICK time \in now..MaxTime : wakeAt' = Earlier(wakeAt, time)
      BY <1>2 DEF ReturnError
    <2>2. time \in 0..Never /\ time < Never
      BY Types, Constants
    <2>3. wakeAt' \in 0..Never /\ wakeAt' <= time
      BY <2>1, <2>2, Types, EarlierIsEarlier
    <2>4. wakeAt' # Never
      BY <2>2, <2>3, Constants
    <2> QED
      BY <1>2, <2>3, <2>4 DEF ReturnError
  <1>3. ASSUME NEW why, GiveUp(why)
        PROVE  reconcile' = Idle /\ wakeAt' \in 0..Never /\ wakeAt' = wakeAt /\ ended' = why
    BY <1>3, Types DEF GiveUp
  <1> QED
    BY <1>1, <1>2, <1>3

(* How the run is decided: Reconcile ends, with the next start to come or   *)
(* over, or goes on to replace or to create.                                *)
LEMMA Decides ==
  ASSUME Inv, DecideRun
  PROVE  /\ At("requeue") /\ UNCHANGED <<now, clusterVars, requested, running>>
         /\ RequeueAfter \in 0..Period
         /\ RequeueAfter > 0 => now + RequeueAfter = reconcile.next
         /\ \/ RequeueAfter > 0 /\ Return(RequeueAfter)
            \/ GiveUp("overtaken")
            \/ /\ reconcile.missed # ZeroTime /\ wakeAt' = wakeAt /\ ended' = ended
               /\ \E pc \in {"replace", "create"} :
                    /\ reconcile' = [reconcile EXCEPT !.pc = pc, !.next = Never,
                                                      !.requeueAfter = RequeueAfter]
                    /\ pc = "replace" => reconcile.cj.policy = "Replace"
                    /\ pc = "create" => reconcile.cj.policy # "Replace"
                         /\ (reconcile.cj.policy = "Forbid" => ActiveJobs = {})
  <1>1. At("requeue") /\ UNCHANGED <<now, clusterVars, requested, running>>
    BY DEF DecideRun
  <1>2. /\ reconcile.next <= now + Period /\ reconcile.next \in Nat /\ now \in Nat
        /\ Period \in Nat \ {0}
    BY <1>1, HandTypes, Types, Constants DEF Sound, At
  <1>3. RequeueAfter \in 0..Period /\ (RequeueAfter > 0 => now + RequeueAfter = reconcile.next)
    BY <1>2 DEF RequeueAfter
  <1>4. \/ EndSettled
        \/ /\ reconcile.missed # ZeroTime
           /\ reconcile.cj.policy = "Forbid" => ActiveJobs = {}
           /\ ProceedTo(IF reconcile.cj.policy = "Replace" THEN "replace" ELSE "create")
    BY DEF DecideRun
  <1>5. CASE EndSettled
    BY <1>1, <1>3, <1>5 DEF EndSettled
  <1>6. ASSUME reconcile.missed # ZeroTime,
               reconcile.cj.policy = "Forbid" => ActiveJobs = {},
               ProceedTo(IF reconcile.cj.policy = "Replace" THEN "replace" ELSE "create")
        PROVE  /\ wakeAt' = wakeAt /\ ended' = ended
               /\ \E pc \in {"replace", "create"} :
                    /\ reconcile' = [reconcile EXCEPT !.pc = pc, !.next = Never,
                                                      !.requeueAfter = RequeueAfter]
                    /\ pc = "replace" => reconcile.cj.policy = "Replace"
                    /\ pc = "create" => reconcile.cj.policy # "Replace"
                         /\ (reconcile.cj.policy = "Forbid" => ActiveJobs = {})
    <2> DEFINE pc == IF reconcile.cj.policy = "Replace" THEN "replace" ELSE "create"
               after == RequeueAfter
    <2>1. /\ reconcile' = [reconcile EXCEPT !.pc = pc, !.next = Never, !.requeueAfter = after]
          /\ wakeAt' = wakeAt /\ ended' = ended
      BY <1>6 DEF ProceedTo, Proceed
    <2>2. pc \in {"replace", "create"} /\ (pc = "replace" <=> reconcile.cj.policy = "Replace")
      OBVIOUS
    <2> HIDE DEF pc, after
    <2>3. pc = "create" => reconcile.cj.policy # "Replace"
      BY <2>2
    <2> QED
      BY <1>6, <2>1, <2>2, <2>3 DEF after
  <1> QED
    BY <1>1, <1>3, <1>4, <1>5, <1>6

(* What getNextSchedule answers to Reconcile. *)
LEMMA ScheduleFinds ==
  ASSUME Inv, At("schedule"),
         NEW r, r = GetNextSchedule(Period,
                      IF reconcile.cj.last # Nil THEN reconcile.cj.last ELSE reconcile.cj.created,
                      reconcile.cj.deadline, now)
  PROVE  /\ r.err \in BOOLEAN
         /\ r.err => TooMany * Period < now
         /\ ~r.err =>
              /\ r.next = NextStart(Period, now) /\ r.next \in 0..Never
              /\ r.next <= now + Period
              /\ \/ r.missed = ZeroTime
                 \/ /\ r.missed \in Times /\ r.missed <= now /\ now < r.missed + Period
                    /\ \A t \in Times : reconcile.children[t] # Absent => t < r.missed
  <1> DEFINE last     == IF reconcile.cj.last # Nil THEN reconcile.cj.last ELSE reconcile.cj.created
             earliest == EarliestTime(last, reconcile.cj.deadline, now)
  <1>1. /\ reconcile.cj \in CronJobs /\ reconcile.children \in [Times -> KnownJob]
        /\ reconcile.cj.last = LastRun(reconcile.children)
    BY HandTypes DEF At, Sound
  <1>2. /\ last \in Nat /\ reconcile.cj.deadline \in MaybeDeadline
        /\ now \in Nat /\ now \in 0..MaxTime /\ now <= MaxTime
        /\ Period \in Nat \ {0} /\ TooMany \in Nat
    <2>1. now \in Nat /\ now \in 0..MaxTime /\ now <= MaxTime
      BY Types, Constants
    <2>2. Period \in Nat \ {0} /\ TooMany \in Nat
      BY ScheduleAssumption, CronJobAssumption
    <2>3. last \in Nat /\ reconcile.cj.deadline \in MaybeDeadline
      BY <1>1, CronJobTypes, Constants, CronJobAssumption DEF MaybeDeadline
    <2> QED
      BY <2>1, <2>2, <2>3
  <1>3. earliest \in Nat /\ earliest >= last
    BY <1>2, EarliestIsLater
  <1>4. /\ r.err \in BOOLEAN
        /\ r.err => earliest + TooMany * Period < now
        /\ ~r.err =>
             /\ r.next = NextStart(Period, now)
             /\ \/ r.missed = ZeroTime
                \/ /\ r.missed \in Nat \ {0} /\ r.missed % Period = 0
                   /\ earliest < r.missed /\ r.missed <= now /\ now < r.missed + Period
    <2> HIDE DEF last
    <2>1. r = GetNextSchedule(Period, last, reconcile.cj.deadline, now)
      BY DEF last
    <2> QED
      BY <1>2, <2>1, NextScheduleAnswers DEF IsStart
  <1>5. r.err => TooMany * Period < now
    <2>1. TooMany * Period \in Nat
      BY <1>2
    <2> QED
      BY <1>2, <1>3, <1>4, <2>1
  <1>6. ~r.err => r.next \in 0..Never /\ r.next <= now + Period
    <2>1. NextStart(Period, now) \in Nat /\ NextStart(Period, now) <= now + Period
      BY <1>2, NextStartIsNext
    <2>2. NextStart(Period, now) <= Never /\ Never \in Nat
      BY <1>2, <2>1, Constants DEF Never
    <2> QED
      BY <1>4, <2>1, <2>2
  <1>7. ASSUME ~r.err, r.missed # ZeroTime
        PROVE  /\ r.missed \in Times
               /\ \A t \in Times : reconcile.children[t] # Absent => t < r.missed
    <2>1. /\ r.missed \in Nat \ {0} /\ r.missed % Period = 0
          /\ earliest < r.missed /\ r.missed <= now /\ now < r.missed + Period
      BY <1>4, <1>7
    <2>2. r.missed \in Times
      <3>1. r.missed \in 1..MaxTime
        BY <1>2, <2>1, Constants
      <3> QED
        BY <2>1, <3>1 DEF Times
    <2>3. ASSUME NEW t \in Times, reconcile.children[t] # Absent PROVE t < r.missed
      <3>1. t <= reconcile.cj.last /\ reconcile.cj.last # Nil /\ t \in Nat
        BY <1>1, <2>3, LastRunIsTime, TimesAreNaturals
      <3>2. t <= last
        BY <3>1
      <3> HIDE DEF last, earliest
      <3> QED
        BY <1>2, <1>3, <2>1, <3>1, <3>2
    <2> QED
      BY <2>2, <2>3
  <1> QED
    BY <1>4, <1>5, <1>6, <1>7

HandMoves ==
  /\ reconcile' \in States /\ Sound(reconcile', now')
  /\ requested' \in BOOLEAN /\ running' \in BOOLEAN /\ wakeAt' \in 0..Never
  /\ Stopped' /\ ended' \in Endings
  /\ reconcile'.children \in {Idle.children, reconcile.children, jobsCache}

LEMMA EveryStepMovesHand ==
  ASSUME Inv, [Next]_vars
  PROVE  HandMoves
  <1>1. /\ reconcile \in States /\ Sound(reconcile, now)
        /\ requested \in BOOLEAN /\ running \in BOOLEAN /\ wakeAt \in 0..Never
        /\ now \in Nat /\ Never \in 0..Never
        /\ reconcile.pc # "idle" => running
        /\ jobsCache \in [Times -> KnownJob] /\ cronJobCache[Cj] \in Known
        /\ ended \in Endings
    BY Types, HandTypes, Constants
  <1>2. CountersMove
    BY EveryStepMovesCounters
  <1>3. Sound(reconcile, now')
    <2>1. now' \in Nat /\ now <= now' /\ now \in Nat /\ reconcile.missed \in Nat
      BY <1>1, <1>2, HandTypes DEF CountersMove
    <2>2. reconcile.missed <= now => reconcile.missed <= now'
      BY <2>1
    <2>3. reconcile.next <= now + Period => reconcile.next <= now' + Period
      BY <2>1, HandTypes, Constants
    <2> QED
      BY <1>1, <2>2, <2>3 DEF Sound
  <1>4. ASSUME reconcile' = reconcile, requested' \in BOOLEAN, running' = running,
               wakeAt' \in 0..Never, ~running => ~requested' /\ wakeAt' = wakeAt,
               ended' = ended
        PROVE  HandMoves
    BY <1>1, <1>3, <1>4 DEF HandMoves, Stopped, Inv
  <1>5. ASSUME reconcile' = Idle \/ reconcile' = [Idle EXCEPT !.pc = "get"],
               requested' \in BOOLEAN, running, running' = running, wakeAt' \in 0..Never,
               ended' \in Endings
        PROVE  HandMoves
    <2>1. reconcile'.children = Idle.children
      BY <1>5, IdleIsSound DEF States
    <2> QED
      BY <1>1, <1>5, <2>1, IdleIsSound DEF HandMoves, Stopped
  <1>6. ASSUME reconcile' \in States, Sound(reconcile', now'),
               requested' = requested, running, running' = running, wakeAt' = wakeAt,
               ended' = ended, reconcile'.children \in {reconcile.children, jobsCache}
        PROVE  HandMoves
    BY <1>1, <1>6 DEF HandMoves, Stopped
  <1>7. CASE \/ CreateCronJob \/ SuspendOrResume \/ DeleteCronJob
             \/ \E t \in Times : DeleteJob(t) \/ JobFinishes(t) \/ Collect(t)
             \/ Tick \/ UNCHANGED vars
    <2>1. UNCHANGED <<reconcile, requested, wakeAt, ended, running>>
      BY <1>7 DEF CreateCronJob, SuspendOrResume, DeleteCronJob, DeleteJob, JobFinishes, Collect,
                  Tick, UserOp, vars, queueVars
    <2> QED
      BY <1>1, <1>4, <2>1 DEF Stopped, Inv
  <1>8. CASE Receive
    BY <1>1, <1>4, <1>8 DEF Receive
  <1>9. CASE WakeUp
    <2>1. reconcile' = reconcile /\ requested' = TRUE /\ running' = running /\ wakeAt' = Never
          /\ wakeAt <= now /\ ended' = ended
      BY <1>9 DEF WakeUp
    <2>2. running
      BY <1>1, <2>1, Types, Constants DEF Stopped, Inv
    <2> QED
      BY <1>1, <1>4, <2>1, <2>2
  <1>10. CASE BeginReconcile
    BY <1>1, <1>5, <1>10 DEF BeginReconcile, Endings
  <1>11. CASE Crash
    <2>1. reconcile' = Idle /\ ~requested' /\ requested' \in BOOLEAN
          /\ running' = FALSE /\ wakeAt' = Never /\ ended' = "settled"
      BY <1>11 DEF Crash
    <2> QED
      BY <1>1, <2>1, IdleIsSound DEF HandMoves, Stopped, Endings
  <1>12. CASE Restart
    <2>1. reconcile' = reconcile /\ requested' \in BOOLEAN /\ running' = TRUE /\ wakeAt' = wakeAt
          /\ ended' = ended
      BY <1>12 DEF Restart
    <2> QED
      BY <1>1, <1>3, <2>1 DEF HandMoves, Stopped
  <1>13. CASE GetCronJob
    <2>1. /\ At("get") /\ running' = running /\ requested' = requested
          /\ \/ Return(0)
             \/ /\ cronJobCache[Cj] # Absent /\ wakeAt' = wakeAt /\ ended' = ended
                /\ reconcile' = [reconcile EXCEPT !.pc = "list", !.cj = cronJobCache[Cj]]
      BY <1>13 DEF GetCronJob, Proceed
    <2>2. running /\ reconcile.missed = ZeroTime
      BY <1>1, <2>1 DEF At, Sound
    <2>3. CASE Return(0)
      BY <1>1, <1>5, <2>1, <2>2, <2>3, Returns, Constants DEF Endings
    <2>4. CASE /\ cronJobCache[Cj] # Absent /\ wakeAt' = wakeAt /\ ended' = ended
               /\ reconcile' = [reconcile EXCEPT !.pc = "list", !.cj = cronJobCache[Cj]]
      <3>1. /\ reconcile' \in States /\ reconcile'.pc = "list" /\ reconcile'.cj = cronJobCache[Cj]
            /\ reconcile'.children = reconcile.children /\ reconcile'.missed = ZeroTime
        BY <1>1, <2>2, <2>4 DEF States, PCs
      <3>2. Sound(reconcile', now')
        BY <2>4, <3>1 DEF Sound
      <3> QED
        BY <1>6, <2>1, <2>2, <2>4, <3>1, <3>2
    <2> QED
      BY <2>1, <2>3, <2>4
  <1>14. CASE ListJobs
    <2>1. /\ At("list") /\ running' = running /\ requested' = requested
          /\ wakeAt' = wakeAt /\ ended' = ended
          /\ reconcile' = [reconcile EXCEPT !.pc = "status", !.children = jobsCache]
      BY <1>14 DEF ListJobs, Proceed
    <2>2. running /\ reconcile.missed = ZeroTime /\ reconcile.cj # Absent
      BY <1>1, <2>1 DEF At, Sound
    <2>3. /\ reconcile' \in States /\ reconcile'.pc = "status" /\ reconcile'.cj = reconcile.cj
          /\ reconcile'.children = jobsCache /\ reconcile'.missed = ZeroTime
      BY <1>1, <2>1, <2>2 DEF States, PCs
    <2>4. Sound(reconcile', now')
      BY <2>2, <2>3 DEF Sound
    <2> QED
      BY <1>6, <2>1, <2>2, <2>3, <2>4
  <1>15. CASE UpdateStatus
    <2>1. At("status") /\ running' = running /\ requested' = requested
      BY <1>15 DEF UpdateStatus
    <2>2. running /\ reconcile.missed = ZeroTime
      BY <1>1, <2>1 DEF At, Sound
    <2>3. PICK updated \in CronJobs :
            /\ updated.last = LastRun(reconcile.children)
            /\ \/ reconcile' = [reconcile EXCEPT !.pc = "history", !.cj = updated]
                  /\ wakeAt' = wakeAt /\ ended' = ended
               \/ ReturnError
      BY <1>15, StatusUpdate
    <2>4. CASE ReturnError
      BY <1>1, <1>5, <2>1, <2>2, <2>4, Returns DEF Endings
    <2>5. CASE /\ reconcile' = [reconcile EXCEPT !.pc = "history", !.cj = updated]
               /\ wakeAt' = wakeAt /\ ended' = ended
      <3>1. /\ reconcile' \in States /\ reconcile'.pc = "history" /\ reconcile'.cj = updated
            /\ reconcile'.children = reconcile.children /\ reconcile'.missed = ZeroTime
        BY <1>1, <2>2, <2>5 DEF States, PCs, Known
      <3>2. Sound(reconcile', now')
        BY <2>3, <3>1, CronJobTypes DEF Sound
      <3> QED
        BY <1>6, <2>1, <2>2, <2>5, <3>1, <3>2
    <2> QED
      BY <2>3, <2>4, <2>5
  <1>16. CASE CleanUpHistory
    <2>1. /\ At("history") /\ running' = running /\ requested' = requested
          /\ \/ Return(0)
             \/ /\ reconcile' = [reconcile EXCEPT !.pc = "schedule"]
                /\ wakeAt' = wakeAt /\ ended' = ended
      BY <1>16 DEF CleanUpHistory, Proceed
    <2>2. /\ running /\ reconcile.missed = ZeroTime /\ reconcile.cj # Absent
          /\ reconcile.cj.last = LastRun(reconcile.children)
      BY <1>1, <2>1 DEF At, Sound
    <2>3. CASE Return(0)
      BY <1>1, <1>5, <2>1, <2>2, <2>3, Returns, Constants DEF Endings
    <2>4. CASE /\ reconcile' = [reconcile EXCEPT !.pc = "schedule"]
               /\ wakeAt' = wakeAt /\ ended' = ended
      <3>1. /\ reconcile' \in States /\ reconcile'.pc = "schedule" /\ reconcile'.cj = reconcile.cj
            /\ reconcile'.children = reconcile.children /\ reconcile'.missed = ZeroTime
        BY <1>1, <2>2, <2>4 DEF States, PCs
      <3>2. Sound(reconcile', now')
        BY <2>2, <3>1 DEF Sound
      <3> QED
        BY <1>6, <2>1, <2>2, <2>4, <3>1, <3>2
    <2> QED
      BY <2>1, <2>3, <2>4
  <1>17. CASE Schedule
    <2> DEFINE r == GetNextSchedule(Period,
                      IF reconcile.cj.last # Nil THEN reconcile.cj.last ELSE reconcile.cj.created,
                      reconcile.cj.deadline, now)
    <2>1. /\ At("schedule") /\ running' = running /\ requested' = requested /\ now' = now
          /\ \/ GiveUp("tooMany")
             \/ /\ ~r.err /\ wakeAt' = wakeAt /\ ended' = ended
                /\ reconcile' = [reconcile EXCEPT !.pc = "requeue", !.missed = r.missed,
                                                  !.next = r.next]
      BY <1>17 DEF Schedule, Proceed
    <2>2. running /\ reconcile.cj # Absent
      BY <1>1, <2>1 DEF At, Sound
    <2>3. CASE GiveUp("tooMany")
      BY <1>1, <1>5, <2>1, <2>2, <2>3, Returns DEF Endings
    <2>4. ASSUME ~r.err, wakeAt' = wakeAt, ended' = ended,
                 reconcile' = [reconcile EXCEPT !.pc = "requeue", !.missed = r.missed,
                                                !.next = r.next]
          PROVE  HandMoves
      <3> HIDE DEF r
      <3>1. /\ r.next \in 0..Never /\ r.next <= now + Period
            /\ \/ r.missed = ZeroTime
               \/ /\ r.missed \in Times /\ r.missed <= now
                  /\ \A t \in Times : reconcile.children[t] # Absent => t < r.missed
        BY <2>1, <2>4, ScheduleFinds DEF r
      <3>2. /\ reconcile' \in States /\ reconcile'.pc = "requeue" /\ reconcile'.cj = reconcile.cj
            /\ reconcile'.children = reconcile.children /\ reconcile'.missed = r.missed
            /\ reconcile'.next = r.next
        BY <1>1, <2>4, <3>1 DEF States, PCs
      <3>3. Sound(reconcile', now')
        BY <2>1, <2>2, <3>1, <3>2 DEF Sound
      <3> QED
        BY <1>6, <2>1, <2>2, <2>4, <3>2, <3>3
    <2> QED
      BY <2>1, <2>3, <2>4
  <1>18. CASE DecideRun
    <2>1. /\ At("requeue") /\ running' = running /\ requested' = requested
          /\ RequeueAfter \in 0..Period
          /\ \/ Return(RequeueAfter) \/ GiveUp("overtaken")
             \/ /\ reconcile.missed # ZeroTime /\ wakeAt' = wakeAt /\ ended' = ended
                /\ \E pc \in {"replace", "create"} :
                     /\ reconcile' = [reconcile EXCEPT !.pc = pc, !.next = Never,
                                                       !.requeueAfter = RequeueAfter]
                     /\ pc = "replace" => reconcile.cj.policy = "Replace"
      BY <1>18, Decides
    <2>2. running /\ reconcile.cj # Absent
      BY <1>1, <2>1 DEF At, Sound
    <2>3. CASE Return(RequeueAfter) \/ GiveUp("overtaken")
      BY <1>1, <1>5, <2>1, <2>2, <2>3, Returns DEF Endings
    <2>4. ASSUME reconcile.missed # ZeroTime, wakeAt' = wakeAt, ended' = ended,
                 NEW pc \in {"replace", "create"},
                 reconcile' = [reconcile EXCEPT !.pc = pc, !.next = Never,
                                                !.requeueAfter = RequeueAfter],
                 pc = "replace" => reconcile.cj.policy = "Replace"
          PROVE  HandMoves
      <3>1. /\ reconcile' \in States /\ reconcile'.pc = pc /\ reconcile'.cj = reconcile.cj
            /\ reconcile'.children = reconcile.children /\ reconcile'.missed = reconcile.missed
        BY <1>1, <2>1, <2>4 DEF States, PCs
      <3>2. Sound(reconcile', now')
        BY <1>3, <2>2, <2>4, <3>1 DEF Sound
      <3> QED
        BY <1>6, <2>1, <2>2, <2>4, <3>1, <3>2
    <2> QED
      BY <2>1, <2>3, <2>4
  <1>19. CASE ReplaceActive
    <2>1. /\ At("replace") /\ running' = running /\ requested' = requested
          /\ \/ ReturnError
             \/ /\ reconcile' = [reconcile EXCEPT !.pc = "create"]
                /\ wakeAt' = wakeAt /\ ended' = ended
      BY <1>19 DEF ReplaceActive, Proceed
    <2>2. running /\ reconcile.missed # ZeroTime /\ reconcile.cj # Absent
      BY <1>1, <2>1 DEF At, Sound
    <2>3. CASE ReturnError
      BY <1>1, <1>5, <2>1, <2>2, <2>3, Returns DEF Endings
    <2>4. CASE reconcile' = [reconcile EXCEPT !.pc = "create"] /\ wakeAt' = wakeAt /\ ended' = ended
      <3>1. /\ reconcile' \in States /\ reconcile'.pc = "create" /\ reconcile'.cj = reconcile.cj
            /\ reconcile'.children = reconcile.children /\ reconcile'.missed = reconcile.missed
        BY <1>1, <2>4 DEF States, PCs
      <3>2. Sound(reconcile', now')
        BY <1>3, <2>2, <3>1 DEF Sound
      <3> QED
        BY <1>6, <2>1, <2>2, <2>4, <3>1, <3>2
    <2> QED
      BY <2>1, <2>3, <2>4
  <1>20. CASE CreateJob
    <2>1. /\ At("create") /\ running' = running /\ requested' = requested
          /\ ReturnError \/ Return(reconcile.requeueAfter)
      BY <1>20 DEF CreateJob
    <2>2. running /\ reconcile.requeueAfter \in 0..Period
      BY <1>1, <2>1, HandTypes DEF At
    <2> QED
      BY <1>1, <1>5, <2>1, <2>2, Returns DEF Endings
  <1> QED
    BY <1>7, <1>8, <1>9, <1>10, <1>11, <1>12, <1>13, <1>14, <1>15, <1>16, <1>17, <1>18, <1>19, <1>20
       DEF Next, Reconcile

-----------------------------------------------------------------------------
(* The invariant is inductive. *)
LEMMA JobsSeenAre ==
  ASSUME Inv, NEW t \in Times, NEW j \in JobsSeen(t), j # Absent
  PROVE  j \in Jobs /\ j.owner \in Nat /\ j.owner <= used.ops /\ t <= now
  <1>1. /\ jobs[t] \in KnownJob /\ jobsCache[t] \in KnownJob /\ reconcile.children[t] \in KnownJob
        /\ jobsWatch[t] \in Seq(EventsOf(KnownJob))
    BY Types, HandTypes
  <1>2. ASSUME NEW n \in 1..Len(jobsWatch[t]) PROVE jobsWatch[t][n].obj \in KnownJob
    <2>1. jobsWatch[t][n] \in EventsOf(KnownJob)
      BY <1>1, ElementOfSeq
    <2> QED
      BY <2>1 DEF EventsOf
  <1>3. j \in Jobs
    BY <1>1, <1>2 DEF JobsSeen, InChannel, KnownJob
  <1>4. j.owner \in Nat
    <2>1. j.owner \in Uids
      BY <1>3 DEF Jobs
    <2> QED
      BY <2>1 DEF Uids
  <1>5. JobIsPast(t, j, used.ops, now)
    BY DEF Inv, Past
  <1> QED
    BY <1>3, <1>4, <1>5 DEF JobIsPast

LEMMA JobsPreserved ==
  ASSUME Inv, [Next]_vars
  PROVE  /\ jobs' \in [Times -> KnownJob] /\ jobsCache' \in [Times -> KnownJob]
         /\ jobsWatch' \in [Times -> Seq(EventsOf(KnownJob))]
         /\ \A t \in Times :
              /\ Channel(jobs[t], jobsWatch[t], jobsCache[t], running)'
              /\ JobsSeen(t)' \subseteq JobsSeen(t) \cup {jobs'[t], Absent}
              /\ \A j \in JobsSeen(t)' : JobIsPast(t, j, used'.ops, now')
  <1>1. JobsMove /\ CountersMove /\ HandMoves
    BY EveryStepMovesJobs, EveryStepMovesCounters, EveryStepMovesHand
  <1>2. /\ used.ops \in Nat /\ used'.ops \in Nat /\ used.ops <= used'.ops
        /\ now \in Nat /\ now' \in Nat /\ now <= now' /\ Absent \in KnownJob
    BY <1>1, Types DEF CountersMove, KnownJob
  <1>3. ASSUME NEW t \in Times
        PROVE  /\ jobs'[t] \in KnownJob /\ jobsCache'[t] \in KnownJob
               /\ jobsWatch'[t] \in Seq(EventsOf(KnownJob))
               /\ Channel(jobs[t], jobsWatch[t], jobsCache[t], running)'
               /\ JobsSeen(t)' \subseteq JobsSeen(t) \cup {jobs'[t], Absent}
               /\ \A j \in JobsSeen(t)' : JobIsPast(t, j, used'.ops, now')
    <2>1. /\ jobs[t] \in KnownJob /\ jobsCache[t] \in KnownJob /\ jobs'[t] \in KnownJob
          /\ jobsWatch[t] \in Seq(EventsOf(KnownJob))
          /\ Channel(jobs[t], jobsWatch[t], jobsCache[t], running)
          /\ ChannelStep(jobs[t], jobsWatch[t], jobsCache[t], running,
                         jobs'[t], jobsWatch'[t], jobsCache'[t], running')
      BY <1>1, Types DEF JobsMove, JobMoves, Inv, ChannelsCatchUp
    <2>2. /\ jobsCache'[t] \in KnownJob /\ jobsWatch'[t] \in Seq(EventsOf(KnownJob))
          /\ Channel(jobs'[t], jobsWatch'[t], jobsCache'[t], running')
          /\ InChannel(jobs'[t], jobsWatch'[t], jobsCache'[t])
               \subseteq InChannel(jobs[t], jobsWatch[t], jobsCache[t]) \cup {jobs'[t], Absent}
      BY <1>2, <2>1, ChannelKept
    <2>3. reconcile'.children[t] \in {Absent, reconcile.children[t], jobsCache[t]}
      BY <1>1, IdleIsSound DEF HandMoves
    <2>4. JobsSeen(t)' \subseteq JobsSeen(t) \cup {jobs'[t], Absent}
      BY <2>2, <2>3 DEF JobsSeen, InChannel
    <2>5. ASSUME NEW j \in JobsSeen(t)' PROVE JobIsPast(t, j, used'.ops, now')
      <3>1. t \in Nat
        BY TimesAreNaturals
      <3>2. CASE j = Absent
        BY <3>2 DEF JobIsPast
      <3>3. CASE j # Absent /\ j \in JobsSeen(t)
        BY <1>2, <3>1, <3>3, JobsSeenAre DEF JobIsPast
      <3>4. CASE j # Absent /\ j = jobs'[t]
        <4>1. CASE jobs'[t] = jobs[t]
          BY <3>3, <3>4, <4>1 DEF JobsSeen, InChannel
        <4>2. CASE Deleted(t)
          BY <3>4, <4>2 DEF Deleted
        <4>3. CASE Finished(t)
          <5>1. jobs[t] \in JobsSeen(t) /\ jobs[t] # Absent /\ j.owner = jobs[t].owner
            BY <3>4, <4>3 DEF Finished, JobsSeen, InChannel
          <5>2. jobs[t].owner \in Nat /\ jobs[t].owner <= used.ops /\ t <= now
            BY <5>1, JobsSeenAre
          <5> QED
            BY <1>2, <3>1, <5>1, <5>2 DEF JobIsPast
        <4>4. CASE Created(t)
          <5>1. j.owner = reconcile.cj.uid /\ t = reconcile.missed /\ At("create")
            BY <3>4, <4>4 DEF Created
          <5>2. t <= now
            BY <5>1, HandTypes DEF Sound, At
          <5>3. reconcile.cj.uid \in Nat /\ reconcile.cj.uid <= used.ops
            <6>1. reconcile.cj \in CronJobs
              BY <5>1, HandTypes DEF At
            <6>2. IsPast(reconcile.cj, cronJob[Cj], used.ops)
              BY DEF Inv, Past, CronJobsSeen
            <6> QED
              BY <6>1, <6>2, CronJobTypes DEF IsPast
          <5> QED
            BY <1>2, <3>1, <5>1, <5>2, <5>3 DEF JobIsPast
        <4> QED
          BY <1>1, <4>1, <4>2, <4>3, <4>4 DEF JobsMove, JobMoves
      <3> QED
        BY <2>4, <3>2, <3>3, <3>4
    <2> QED
      BY <2>1, <2>2, <2>4, <2>5
  <1>4. /\ jobs' \in [Times -> KnownJob] /\ jobsCache' \in [Times -> KnownJob]
        /\ jobsWatch' \in [Times -> Seq(EventsOf(KnownJob))]
    BY <1>1, <1>3 DEF JobsMove
  <1> QED
    BY <1>3, <1>4

LEMMA RunsPreserved ==
  ASSUME Inv, [Next]_vars
  PROVE  /\ runs' \in [Uids -> [Times -> Nat]]
         /\ \A u \in Uids : \A t \in Times : runs'[u][t] >= 1 => u <= used'.ops
  <1>1. JobsMove /\ CountersMove
    BY EveryStepMovesJobs, EveryStepMovesCounters
  <1>2. /\ used.ops \in Nat /\ used'.ops \in Nat /\ used.ops <= used'.ops
        /\ runs \in [Uids -> [Times -> Nat]]
        /\ \A u \in Uids : \A t \in Times : runs[u][t] >= 1 => u <= used.ops
        /\ \A u \in Uids : u \in Nat
    BY <1>1, Types DEF CountersMove, Inv, Past, Uids
  <1>3. CASE runs' = runs
    BY <1>2, <1>3
  <1>4. CASE Created(reconcile.missed)
    <2> DEFINE uid == reconcile.cj.uid
               t   == reconcile.missed
               n   == runs[uid][t] + 1
    <2>1. runs' = [runs EXCEPT ![uid][t] = @ + 1] /\ At("create")
      BY <1>4 DEF Created
    <2>2. t \in Times /\ uid \in Uids /\ uid <= used.ops
      <3>1. reconcile.cj \in CronJobs /\ t \in Times
        BY <2>1, HandTypes DEF At
      <3>2. IsPast(reconcile.cj, cronJob[Cj], used.ops)
        BY DEF Inv, Past, CronJobsSeen
      <3> QED
        BY <3>1, <3>2, CronJobTypes DEF IsPast
    <2>3. n \in Nat /\ runs' = [runs EXCEPT ![uid][t] = n]
      BY <1>2, <2>1, <2>2
    <2> HIDE DEF n, uid, t
    <2>4. runs' \in [Uids -> [Times -> Nat]]
      BY <1>2, <2>2, <2>3
    <2>5. ASSUME NEW u \in Uids, NEW s \in Times, runs'[u][s] >= 1 PROVE u <= used'.ops
      <3>1. u = uid \/ runs'[u][s] = runs[u][s]
        BY <1>2, <2>2, <2>3
      <3>2. u <= used.ops
        BY <1>2, <2>2, <2>5, <3>1
      <3> QED
        BY <1>2, <3>2
    <2> QED
      BY <2>4, <2>5
  <1> QED
    BY <1>1, <1>3, <1>4 DEF JobsMove

LEMMA InvPreserved ==
  ASSUME Inv, [Next]_vars
  PROVE  Inv'
  <1>1. /\ CountersMove /\ HandMoves
        /\ cronJob' \in [{Cj} -> Known] /\ cronJobCache' \in [{Cj} -> Known]
        /\ cronJobWatch' \in [{Cj} -> Seq(EventsOf(Known))]
        /\ Channel(cronJob[Cj], cronJobWatch[Cj], cronJobCache[Cj], running)'
        /\ \A m \in CronJobsSeen' : IsPast(m, cronJob'[Cj], used'.ops)
        /\ jobs' \in [Times -> KnownJob] /\ jobsCache' \in [Times -> KnownJob]
        /\ jobsWatch' \in [Times -> Seq(EventsOf(KnownJob))]
        /\ \A t \in Times :
             /\ Channel(jobs[t], jobsWatch[t], jobsCache[t], running)'
             /\ \A j \in JobsSeen(t)' : JobIsPast(t, j, used'.ops, now')
        /\ runs' \in [Uids -> [Times -> Nat]]
        /\ \A u \in Uids : \A t \in Times : runs'[u][t] >= 1 => u <= used'.ops
    BY EveryStepMovesCounters, EveryStepMovesHand, CronJobsPreserved, JobsPreserved, RunsPreserved
  <1>2. CJ!TypeOK'
    <2>1. [k \in {Cj} |-> << >>] \in [{Cj} -> Seq(CJ!Notes)]
      BY EmptySeq
    <2> QED
      BY <1>1, <2>1 DEF CJ!TypeOK, CJ!MaybeObject, CJ!Events, Known, EventsOf
  <1>3. Job!TypeOK'
    <2>1. [t \in Times |-> << >>] \in [Times -> Seq(Job!Notes)]
      BY EmptySeq
    <2> QED
      BY <1>1, <2>1 DEF Job!TypeOK, Job!MaybeObject, Job!Events, KnownJob, EventsOf
  <1>4. TypeOK'
    BY <1>1, <1>2, <1>3 DEF TypeOK, HandMoves, CountersMove, States, PCs, Known, KnownJob,
                    Endings
  <1>5. ChannelsCatchUp' /\ Past'
    BY <1>1 DEF ChannelsCatchUp, Past
  <1>6. Stopped' /\ Sound(reconcile, now)'
    BY <1>1 DEF HandMoves
  <1> QED
    BY <1>4, <1>5, <1>6 DEF Inv

LEMMA InitInv == Init => Inv
  <1> SUFFICES ASSUME Init PROVE Inv
    OBVIOUS
  <1>1. /\ cronJob = [k \in {Cj} |-> Absent] /\ cronJobCache = [k \in {Cj} |-> Absent]
        /\ cronJobWatch = [k \in {Cj} |-> << >>]
        /\ jobs = [t \in Times |-> Absent] /\ jobsCache = [t \in Times |-> Absent]
        /\ jobsWatch = [t \in Times |-> << >>]
    BY DEF Init, CJ!Init, CJ!Empty, Job!Init, Job!Empty
  <1>2. /\ now = 0 /\ requested = FALSE /\ wakeAt = Never /\ reconcile = Idle /\ running = TRUE
        /\ used = [ops |-> 0, faults |-> 0, crashes |-> 0]
        /\ runs = [u \in Uids |-> [t \in Times |-> 0]]
        /\ ended = "settled" /\ onTime = TRUE
    BY DEF Init
  <1>3. \A S : << >> \in Seq(S) /\ Len(<< >>) = 0
    BY EmptySeq
  <1>4. CJ!TypeOK /\ Job!TypeOK
    BY <1>1, <1>3 DEF CJ!TypeOK, CJ!MaybeObject, Job!TypeOK, Job!MaybeObject
  <1>5. TypeOK
    <2>1. /\ now \in 0..MaxTime /\ wakeAt \in 0..Never
          /\ used \in [ops : 0..MaxOps, faults : 0..MaxFaults, crashes : 0..MaxCrashes]
          /\ runs \in [Uids -> [Times -> Nat]]
      BY <1>2, Constants
    <2>2. reconcile \in States
      BY <1>2, IdleIsSound
    <2> QED
      BY <1>2, <1>4, <2>1, <2>2 DEF TypeOK, States, PCs, Known, KnownJob
  <1>6. ChannelsCatchUp
    BY <1>1, <1>2, <1>3 DEF ChannelsCatchUp, Channel, CaughtUp
  <1>7. Past
    <2>1. ASSUME NEW m \in CronJobsSeen PROVE m = Absent
      BY <1>1, <1>2, <1>3, IdleIsSound DEF CronJobsSeen, InChannel
    <2>2. ASSUME NEW t \in Times, NEW j \in JobsSeen(t) PROVE j = Absent
      BY <1>1, <1>2, <1>3, IdleIsSound DEF JobsSeen, InChannel
    <2>3. \A u \in Uids : \A t \in Times : ~(runs[u][t] >= 1)
      BY <1>2
    <2> QED
      BY <2>1, <2>2, <2>3 DEF Past, IsPast, JobIsPast
  <1>8. Stopped /\ Sound(reconcile, now)
    BY <1>2, IdleIsSound DEF Stopped
  <1> QED
    BY <1>5, <1>6, <1>7, <1>8 DEF Inv

THEOREM Invariant == Spec => []Inv
  <1>1. Inv /\ [Next]_vars => Inv'
    BY InvPreserved
  <1> QED
    BY <1>1, InitInv, PTL DEF Spec

(* The types of the API server's objects, of the caches and events, of what *)
(* Reconcile has in hand at each of its steps, and of the delaying queue's  *)
(* one entry: what is asked of it (cronjob_controller.go 270) is a period   *)
(* at most, whatever the two readings of the clock.                         *)
THEOREM TypeCorrect == Spec => []TypeOK
  <1>1. Inv => TypeOK
    BY DEF Inv
  <1> QED
    BY <1>1, Invariant, PTL

-----------------------------------------------------------------------------
(* Reconcile, step by step: what all the promises need to know.             *)
PastStatus    == reconcile.pc \notin {"idle", "get", "list", "status"}
Superseded(t) == t + Period <= now
HasJob(u, t)  == jobs[t] # Absent /\ jobs[t].owner = u

(* The step before. *)
LEMMA StepBefore ==
  ASSUME Inv, [Next]_vars
  PROVE  /\ PastStatus' =>
              \/ PastStatus /\ reconcile'.cj = reconcile.cj
              \/ At("status") /\ Live(reconcile.cj.uid) /\ reconcile'.cj.uid = reconcile.cj.uid
         /\ reconcile'.missed # ZeroTime =>
              \/ reconcile'.missed = reconcile.missed /\ reconcile'.cj = reconcile.cj
              \/ /\ At("schedule") /\ Schedule
                 /\ reconcile'.missed <= now /\ now < reconcile'.missed + Period
  <1> DEFINE Goal == /\ PastStatus' =>
                          \/ PastStatus /\ reconcile'.cj = reconcile.cj
                          \/ /\ At("status") /\ Live(reconcile.cj.uid)
                             /\ reconcile'.cj.uid = reconcile.cj.uid
                     /\ reconcile'.missed # ZeroTime =>
                          \/ reconcile'.missed = reconcile.missed /\ reconcile'.cj = reconcile.cj
                          \/ /\ At("schedule") /\ Schedule
                             /\ reconcile'.missed <= now /\ now < reconcile'.missed + Period
  <1>1. reconcile \in States /\ Sound(reconcile, now)
    BY Types, HandTypes
  <1>2. CASE reconcile' = reconcile
    BY <1>2 DEF PastStatus
  <1>3. CASE reconcile' = Idle
    BY <1>3, IdleIsSound DEF PastStatus
  <1>4. CASE reconcile'.pc \in {"get", "list", "status"} /\ reconcile'.missed = ZeroTime
    BY <1>4 DEF PastStatus
  <1>5. CASE \/ CreateCronJob \/ SuspendOrResume \/ DeleteCronJob
             \/ \E t \in Times : DeleteJob(t) \/ JobFinishes(t) \/ Collect(t)
             \/ Tick \/ Receive \/ WakeUp \/ Restart \/ UNCHANGED vars
    <2>1. reconcile' = reconcile
      BY <1>5 DEF CreateCronJob, SuspendOrResume, DeleteCronJob, DeleteJob, JobFinishes, Collect,
                  Tick, Receive, WakeUp, Restart, UserOp, vars
    <2> QED
      BY <1>2, <2>1
  <1>6. CASE BeginReconcile \/ Crash
    <2>1. reconcile' = [Idle EXCEPT !.pc = "get"] \/ reconcile' = Idle
      BY <1>6 DEF BeginReconcile, Crash
    <2> QED
      BY <1>3, <1>4, <2>1 DEF Idle
  <1>7. CASE GetCronJob \/ ListJobs
    <2>1. /\ At("get") \/ At("list")
          /\ \/ reconcile' = Idle
             \/ reconcile' = [reconcile EXCEPT !.pc = "list", !.cj = cronJobCache[Cj]]
             \/ reconcile' = [reconcile EXCEPT !.pc = "status", !.children = jobsCache]
      BY <1>7 DEF GetCronJob, ListJobs, Return, Proceed
    <2>2. reconcile.missed = ZeroTime
      BY <1>1, <2>1 DEF Sound, At
    <2> QED
      BY <1>1, <1>3, <1>4, <2>1, <2>2 DEF States
  <1>8. CASE UpdateStatus
    <2>1. PICK updated \in CronJobs :
            /\ updated.uid = reconcile.cj.uid
            /\ \/ /\ reconcile' = [reconcile EXCEPT !.pc = "history", !.cj = updated]
                  /\ cronJob[Cj] # Absent /\ cronJob[Cj].uid = reconcile.cj.uid
               \/ ReturnError
      BY <1>8, StatusUpdate
    <2>2. CASE ReturnError
      BY <1>3, <2>2 DEF ReturnError
    <2>3. CASE /\ reconcile' = [reconcile EXCEPT !.pc = "history", !.cj = updated]
               /\ cronJob[Cj] # Absent /\ cronJob[Cj].uid = reconcile.cj.uid
      <3>1. /\ reconcile'.cj = updated /\ reconcile'.missed = reconcile.missed
            /\ reconcile.missed = ZeroTime
        BY <1>1, <1>8, <2>3 DEF States, UpdateStatus, Sound, At
      <3> QED
        BY <1>8, <2>1, <2>3, <3>1 DEF Live, UpdateStatus
    <2> QED
      BY <2>1, <2>2, <2>3
  <1>9. CASE CleanUpHistory \/ DecideRun \/ ReplaceActive \/ CreateJob
    <2>1. ASSUME CleanUpHistory \/ ReplaceActive \/ CreateJob
          PROVE  /\ PastStatus
                 /\ \/ reconcile' = Idle
                    \/ reconcile'.cj = reconcile.cj /\ reconcile'.missed = reconcile.missed
      BY <1>1, <2>1 DEF CleanUpHistory, ReplaceActive, CreateJob, Return, ReturnError,
                        Proceed, PastStatus, At, States
    <2>2. ASSUME DecideRun
          PROVE  /\ PastStatus
                 /\ \/ reconcile' = Idle
                    \/ reconcile'.cj = reconcile.cj /\ reconcile'.missed = reconcile.missed
      BY <1>1, <2>2 DEF DecideRun, EndSettled, ProceedTo, Return, GiveUp, Proceed, PastStatus, At,
                        States
    <2> QED
      BY <1>3, <1>9, <2>1, <2>2
  <1>10. CASE Schedule
    <2> DEFINE r == GetNextSchedule(Period,
                      IF reconcile.cj.last # Nil THEN reconcile.cj.last ELSE reconcile.cj.created,
                      reconcile.cj.deadline, now)
    <2>1. /\ At("schedule")
          /\ \/ reconcile' = Idle
             \/ /\ ~r.err
                /\ reconcile' = [reconcile EXCEPT !.pc = "requeue", !.missed = r.missed,
                                                  !.next = r.next]
      BY <1>10 DEF Schedule, GiveUp, Proceed
    <2>2. ASSUME ~r.err,
                 reconcile' = [reconcile EXCEPT !.pc = "requeue", !.missed = r.missed,
                                                !.next = r.next]
          PROVE  Goal
      <3> HIDE DEF r
      <3>1. r.missed = ZeroTime \/ (r.missed <= now /\ now < r.missed + Period)
        BY <2>1, <2>2, ScheduleFinds DEF r
      <3>2. reconcile'.cj = reconcile.cj /\ reconcile'.missed = r.missed /\ PastStatus
        BY <1>1, <2>1, <2>2 DEF States, PastStatus, At
      <3> QED
        BY <1>10, <2>1, <3>1, <3>2
    <2> QED
      BY <1>3, <2>1, <2>2
  <1> QED
    BY <1>5, <1>6, <1>7, <1>8, <1>9, <1>10 DEF Next, Reconcile

(* A live CronJob was live, or is new; it stays live if no one deletes it.  *)
LEMMA LiveBefore ==
  ASSUME Inv, [Next]_vars, NEW u \in Uids
  PROVE  /\ Live(u)' => Live(u) \/ used.ops < u
         /\ Live(u) /\ ~DeleteCronJob => Live(u)'
  <1>1. CronJobMoves
    BY EveryStepMovesCronJob
  <1> QED
    BY <1>1, AbsentAssumption DEF CronJobMoves, CronJobFollows, Live, Known

LEMMA UidsAreNaturals == \A u \in Uids : u \in Nat
  BY DEF Uids

(* The limits keep the newest of the finished jobs. *)
LEMMA OldHasSuccessor ==
  ASSUME Inv, SuccessLimit >= 1, FailLimit >= 1, NEW t \in Old(reconcile.children)
  PROVE  /\ t \in Times /\ reconcile.children[t] # Absent
         /\ \E s \in Times : s > t /\ reconcile.children[s] # Absent
  <1>1. ASSUME NEW state, NEW limit \in Nat, limit >= 1,
               t \in Oldest(In(reconcile.children, state), limit)
        PROVE  /\ t \in Times /\ reconcile.children[t] # Absent
               /\ \E s \in Times : s > t /\ reconcile.children[s] # Absent
    <2> DEFINE S == {s \in In(reconcile.children, state) : s > t}
    <2>1. t \in In(reconcile.children, state) /\ Cardinality(S) >= limit
      BY <1>1 DEF Oldest
    <2>2. S # {}
      BY <1>1, <2>1, FS_EmptySet
    <2> QED
      BY <2>1, <2>2 DEF In
  <1>2. SuccessLimit \in Nat /\ FailLimit \in Nat
    BY CronJobAssumption
  <1> QED
    BY <1>1, <1>2 DEF Old

(* Where no user deletes jobs, a job of a live CronJob is deleted when it   *)
(* is superseded only, and never one of the time that is to be run.         *)
LEMMA DeletedIsSuperseded ==
  ASSUME Inv, SuccessLimit >= 1, FailLimit >= 1, JobsStartInOrder, ~UserDeletesJobs,
         NEW t \in Times, Deleted(t), Live(jobs[t].owner)
  PROVE  Superseded(t) /\ (reconcile.missed # ZeroTime => t < reconcile.missed)
  <1>1. \/ At("history") /\ t \in Old(reconcile.children)
        \/ At("replace") /\ t \in ActiveJobs
    BY DEF Deleted
  <1>2. t \in Nat /\ t % Period = 0 /\ Period \in Nat \ {0} /\ now \in Nat
    BY Types, Constants, TimesAreNaturals
  <1>3. ASSUME NEW s \in Times, t < s, s <= now PROVE Superseded(t)
    <2>1. s \in Nat /\ s % Period = 0
      BY Constants, TimesAreNaturals
    <2>2. t + Period <= s
      BY <1>2, <1>3, <2>1, StartsApart
    <2> QED
      BY <1>2, <1>3, <2>1, <2>2 DEF Superseded
  <1>4. CASE At("history") /\ t \in Old(reconcile.children)
    <2>1. PICK s \in Times : s > t /\ reconcile.children[s] # Absent
      BY <1>4, OldHasSuccessor
    <2>2. s <= now
      BY <2>1, JobsSeenAre DEF JobsSeen
    <2>3. reconcile.missed = ZeroTime
      BY <1>4, HandTypes DEF Sound, At
    <2>4. t < s
      BY <1>2, <2>1, TimesAreNaturals
    <2> QED
      BY <1>3, <2>2, <2>3, <2>4
  <1>5. CASE At("replace") /\ t \in ActiveJobs
    <2>1. reconcile.children[t] # Absent /\ reconcile.missed \in Times
      BY <1>5, HandTypes DEF At, ActiveJobs, In
    <2>2. reconcile.missed <= now /\ t < reconcile.missed
      BY <2>1, HandTypes, Constants DEF Sound
    <2> QED
      BY <1>3, <2>1, <2>2
  <1> QED
    BY <1>1, <1>4, <1>5

-----------------------------------------------------------------------------
(* No nominal time runs twice: a run that was created is there as a job, or *)
(* a later start has come, and only the latest start is run.                *)
DeletesBetweenReconciles == DeleteCronJob => ~PastStatus

Started(u, t) == runs[u][t] >= 1

OnceInv ==
  /\ PastStatus => Live(reconcile.cj.uid)
  /\ \A u \in Uids : \A t \in Times :
       Live(u) /\ Started(u, t) => HasJob(u, t) \/ Superseded(t)
  /\ reconcile.missed # ZeroTime =>
       \A u \in Uids : Live(u) /\ Started(u, reconcile.missed) => HasJob(u, reconcile.missed)
  /\ RunsOnce

LEMMA RunsMove ==
  ASSUME Inv, JobsMove, NEW u \in Uids, NEW t \in Times
  PROVE  \/ runs'[u][t] = runs[u][t]
         \/ /\ Created(reconcile.missed) /\ u = reconcile.cj.uid /\ t = reconcile.missed
            /\ runs'[u][t] = runs[u][t] + 1
  <1>1. runs \in [Uids -> [Times -> Nat]]
    BY Types
  <1>2. CASE runs' = runs
    BY <1>2
  <1>3. CASE Created(reconcile.missed)
    <2>1. /\ runs' = [runs EXCEPT ![reconcile.cj.uid][reconcile.missed] = @ + 1]
          /\ reconcile.cj.uid \in Uids /\ reconcile.missed \in Times
      BY <1>3, HandTypes, CronJobTypes DEF Created, At
    <2> QED
      BY <1>1, <1>3, <2>1
  <1> QED
    BY <1>2, <1>3 DEF JobsMove

LEMMA SupersededStays ==
  ASSUME Inv, CountersMove, NEW t \in Times, Superseded(t)
  PROVE  Superseded(t)'
  <1>1. t + Period \in Nat /\ now \in Nat /\ now' \in Nat /\ now <= now'
    BY Types, Constants, TimesAreNaturals DEF CountersMove
  <1> QED
    BY <1>1 DEF Superseded

LEMMA OnceStep ==
  ASSUME Inv, OnceInv, [Next]_vars, DeletesBetweenReconciles,
         SuccessLimit >= 1, FailLimit >= 1, JobsStartInOrder, ~UserDeletesJobs
  PROVE  OnceInv'
  <1>1. CountersMove /\ JobsMove /\ HandMoves
    BY EveryStepMovesCounters, EveryStepMovesJobs, EveryStepMovesHand
  <1>2. /\ runs \in [Uids -> [Times -> Nat]]
        /\ \A u \in Uids : \A t \in Times : runs[u][t] \in Nat
        /\ used.ops \in Nat
    BY Types
  <1>3. ASSUME NEW u \in Uids, NEW t \in Times, Live(u)', Started(u, t) PROVE Live(u)
    <2>1. u <= used.ops /\ u \in Nat
      BY <1>3, UidsAreNaturals DEF Inv, Past, Started
    <2> QED
      BY <1>2, <1>3, <2>1, LiveBefore
  <1>4. ASSUME NEW u \in Uids, NEW t \in Times, HasJob(u, t)
        PROVE  HasJob(u, t)' \/ (Deleted(t) /\ jobs[t].owner = u)
    <2>1. \/ jobs'[t] = jobs[t]
          \/ Deleted(t)
          \/ Finished(t)
          \/ Created(t)
      BY <1>1 DEF JobsMove, JobMoves
    <2>2. Absent \notin Jobs
      BY AbsentAssumption
    <2> QED
      BY <1>4, <2>1, <2>2 DEF HasJob, Finished, Created
  <1>5. Created(reconcile.missed) =>
           /\ PastStatus /\ reconcile.cj.uid \in Uids /\ reconcile.missed \in Times
           /\ reconcile' = Idle /\ reconcile.missed # ZeroTime
    BY HandTypes, CronJobTypes, Constants DEF Created, At, PastStatus
  <1>6. (PastStatus => Live(reconcile.cj.uid))'
    <2> SUFFICES ASSUME PastStatus' PROVE Live(reconcile.cj.uid)'
      OBVIOUS
    <2>1. /\ Live(reconcile.cj.uid) /\ reconcile'.cj.uid = reconcile.cj.uid
          /\ reconcile.cj \in CronJobs
          /\ PastStatus \/ At("status")
      BY StepBefore, HandTypes DEF OnceInv, PastStatus, At
    <2>2. ~DeleteCronJob
      <3>1. DeleteCronJob => reconcile' = reconcile
        BY DEF DeleteCronJob, UserOp
      <3>2. At("status") => ~PastStatus
        BY DEF At, PastStatus
      <3>3. reconcile' = reconcile => PastStatus
        BY DEF PastStatus
      <3> QED
        BY <2>1, <3>1, <3>3 DEF DeletesBetweenReconciles
    <2>3. PICK u \in Uids : u = reconcile.cj.uid
      BY <2>1, CronJobTypes
    <2>4. Live(u) /\ reconcile'.cj.uid = u
      BY <2>1, <2>3
    <2>5. Live(u)'
      BY <2>2, <2>4, LiveBefore
    <2> QED
      BY <2>4, <2>5 DEF Live
  <1>7. ASSUME NEW u \in Uids, NEW t \in Times, Live(u)', Started(u, t)'
        PROVE  HasJob(u, t)' \/ Superseded(t)'
    <2>1. CASE Created(reconcile.missed) /\ u = reconcile.cj.uid /\ t = reconcile.missed
      BY <2>1, AbsentAssumption DEF Created, HasJob, Jobs
    <2>2. CASE runs'[u][t] = runs[u][t]
      <3>1. Started(u, t) /\ Live(u)
        BY <1>3, <1>7, <2>2 DEF Started
      <3>2. HasJob(u, t) \/ Superseded(t)
        BY <3>1 DEF OnceInv
      <3>3. Deleted(t) /\ jobs[t].owner = u => Superseded(t)
        BY <3>1, DeletedIsSuperseded
      <3> QED
        BY <1>1, <1>4, <3>2, <3>3, SupersededStays
    <2> QED
      BY <1>1, <2>1, <2>2, RunsMove
  <1>8. ASSUME reconcile'.missed # ZeroTime, NEW u \in Uids, Live(u)',
               Started(u, reconcile.missed)'
        PROVE  HasJob(u, reconcile.missed)'
    <2> DEFINE t == reconcile'.missed
    <2>1. t \in Times /\ runs'[u][t] >= 1
      BY <1>1, <1>8 DEF HandMoves, States, Started
    <2> HIDE DEF t
    <2>6. t \in Nat /\ now \in Nat /\ t + Period \in Nat
      BY <2>1, Types, Constants, TimesAreNaturals
    <2>2. runs'[u][t] = runs[u][t]
      BY <1>1, <1>5, <1>8, <2>1, RunsMove, IdleIsSound DEF t
    <2>3. Started(u, t) /\ Live(u)
      BY <1>3, <1>8, <2>1, <2>2 DEF Started
    <2>4. CASE reconcile'.missed = reconcile.missed
      <3>1. HasJob(u, t)
        BY <1>8, <2>3, <2>4 DEF OnceInv, t
      <3>2. ~(t < t)
        BY <2>6
      <3>3. ~(Deleted(t) /\ jobs[t].owner = u)
        BY <1>8, <2>1, <2>3, <2>4, <3>2, DeletedIsSuperseded DEF t
      <3> QED
        BY <1>4, <2>1, <3>1, <3>3 DEF HasJob, t
    <2>5. CASE Schedule /\ t <= now /\ now < t + Period
      <3>1. ~Superseded(t)
        BY <2>5, <2>6 DEF Superseded
      <3>2. HasJob(u, t)
        BY <2>1, <2>3, <3>1 DEF OnceInv
      <3> QED
        BY <2>5, <3>2, JobsUntouched DEF HasJob, t
    <2> QED
      BY <1>8, <2>4, <2>5, StepBefore DEF t
  <1>9. ASSUME NEW u \in Uids, NEW t \in Times PROVE runs'[u][t] <= 1
    <2>1. runs[u][t] <= 1 /\ runs[u][t] \in Nat
      BY <1>2 DEF OnceInv, RunsOnce
    <2>2. CASE Created(reconcile.missed) /\ u = reconcile.cj.uid /\ t = reconcile.missed
      <3>1. ~HasJob(u, t)
        BY <2>2 DEF Created, HasJob
      <3>2. ~Started(u, t)
        BY <1>5, <2>2, <3>1 DEF OnceInv
      <3>3. runs[u][t] = 0
        BY <2>1, <3>2 DEF Started
      <3> QED
        BY <1>1, <2>1, <3>3, RunsMove
    <2> QED
      BY <1>1, <2>1, <2>2, RunsMove
  <1> QED
    BY <1>6, <1>7, <1>8, <1>9 DEF OnceInv, RunsOnce, Live, HasJob, Started

(* No nominal time of a CronJob runs twice (a job is named after its        *)
(* nominal time, cronjob_controller.go 308-309), however the caches lag,    *)
(* calls fail and processes crash: provided that the history keeps a job of *)
(* each kind, the newest where jobs start in order, and users delete no     *)
(* jobs, for a run is remembered by its job alone; and that the CronJob is  *)
(* not deleted between the update of its status and the end of the          *)
(* Reconcile, for then its job is collected and can be made again.          *)
THEOREM NoRunTwice ==
  ASSUME SuccessLimit >= 1, FailLimit >= 1, JobsStartInOrder, ~UserDeletesJobs
  PROVE  Spec /\ [][DeletesBetweenReconciles]_vars => []RunsOnce
  <1>1. Init => OnceInv
    <2> SUFFICES ASSUME Init PROVE OnceInv
      OBVIOUS
    <2>1. \A u \in Uids : \A t \in Times : runs[u][t] = 0
      BY DEF Init
    <2> QED
      BY <2>1, IdleIsSound DEF Init, OnceInv, RunsOnce, Started, PastStatus
  <1>2. Inv /\ OnceInv /\ [Next]_vars /\ [DeletesBetweenReconciles]_vars => OnceInv'
    <2>1. Inv /\ UNCHANGED vars => DeletesBetweenReconciles
      <3> SUFFICES ASSUME Inv, UNCHANGED vars, DeleteCronJob PROVE FALSE
        BY DEF DeletesBetweenReconciles
      <3>1. used' = used /\ used' = [used EXCEPT !.ops = @ + 1]
        BY DEF vars, DeleteCronJob, UserOp
      <3>2. used.ops = used.ops + 1 /\ used.ops \in Nat
        BY <3>1, Types
      <3> QED
        BY <3>2
    <2> QED
      BY <2>1, OnceStep
  <1>3. OnceInv => RunsOnce
    BY DEF OnceInv
  <1> QED
    BY <1>1, <1>2, <1>3, Invariant, PTL DEF Spec

-----------------------------------------------------------------------------
(* The controller is woken for the next start.                              *)
(* Nothing about the CronJob is on its way to the controller. *)
Quiet == running /\ ~requested /\ cronJobWatch[Cj] = << >>

InTime(time, clock) == time <= NextStart(Period, clock)

(* How the queue rests after a Reconcile that ended like this. *)
Rests ==
  \/ ended = "settled" /\ InTime(wakeAt, now)
  \/ ended = "error" /\ wakeAt # Never
  \/ ended \in {"tooMany", "overtaken"}

WakeInv ==
  /\ Quiet /\ CachesUpToDate /\ At("idle") /\ cronJob[Cj] # Absent /\ ~cronJob[Cj].suspend => Rests
  /\ Quiet /\ reconcile.pc \notin {"idle", "get"} => reconcile.cj = cronJob[Cj]
  /\ At("requeue") => InTime(reconcile.next, now)

LEMMA StaysInTime ==
  ASSUME NEW clock \in Nat, NEW later \in Nat, clock <= later
  PROVE  /\ \A time \in Nat : InTime(time, clock) => InTime(time, later)
         /\ InTime(NextStart(Period, clock), clock)
  <1>1. Period \in Nat \ {0}
    BY Constants
  <1>2. /\ NextStart(Period, clock) \in Nat /\ clock < NextStart(Period, clock)
        /\ NextStart(Period, later) \in Nat /\ later < NextStart(Period, later)
        /\ NextStart(Period, later) % Period = 0
    BY <1>1, NextStartIsNext
  <1>3. clock < NextStart(Period, later)
    BY <1>2
  <1>4. NextStart(Period, clock) <= NextStart(Period, later)
    BY <1>1, <1>2, <1>3, NextStartIsNext
  <1> QED
    BY <1>2, <1>4 DEF InTime

(* A CronJob or a job that is written is on its way to the controller. *)
LEMMA JobWrittenIsOnItsWay ==
  ASSUME Inv, NEW t \in Times, NEW j, Job!Write(t, j, TRUE)
  PROVE  ~CachesUpToDate'
  <1>1. jobsWatch \in [Times -> Seq(EventsOf(KnownJob))]
    BY Types
  <1> DEFINE w == jobsWatch[t]
             v == Append(w, Job!Event(j))
  <1>2. jobsWatch'[t] = v
    BY <1>1 DEF Job!Write
  <1>3. w \in Seq(EventsOf(KnownJob))
    BY <1>1
  <1> HIDE DEF w
  <1>4. Len(v) = Len(w) + 1 /\ Len(w) \in Nat
    BY <1>3
  <1> HIDE DEF v
  <1>5. v # << >>
    BY <1>4, EmptySeq
  <1> QED
    BY <1>2, <1>5 DEF CachesUpToDate

LEMMA WrittenIsOnItsWay ==
  ASSUME Inv, running, NEW m, CJ!Write(Cj, m, TRUE)
  PROVE  cronJobWatch'[Cj] # << >>
  <1>1. cronJobWatch \in [{Cj} -> Seq(EventsOf(Known))]
    BY Types
  <1> DEFINE w == cronJobWatch[Cj]
             v == Append(w, CJ!Event(m))
  <1>2. cronJobWatch'[Cj] = v
    BY <1>1 DEF CJ!Write
  <1>3. w \in Seq(EventsOf(Known))
    BY <1>1
  <1> HIDE DEF w
  <1>4. Len(v) = Len(w) + 1 /\ Len(w) \in Nat
    BY <1>3
  <1> HIDE DEF v
  <1>5. v # << >>
    BY <1>4, EmptySeq
  <1> QED
    BY <1>2, <1>5

(* Reconcile goes on with the CronJob it has in hand, or ends. *)
LEMMA WakeAtReturn ==
  ASSUME reconcile' = Idle,
         Quiet' /\ CachesUpToDate' /\ cronJob'[Cj] # Absent /\ ~cronJob'[Cj].suspend => Rests'
  PROVE  WakeInv'
  BY IdleIsSound DEF WakeInv, At

LEMMA WakeStep ==
  ASSUME Inv, WakeInv, [Next]_vars
  PROVE  WakeInv'
  <1>1. /\ CountersMove /\ reconcile \in States
        /\ reconcile.next \in Nat /\ wakeAt \in Nat /\ now \in Nat
        /\ now' \in Nat /\ now <= now'
        /\ cronJob \in [{Cj} -> Known] /\ cronJobCache \in [{Cj} -> Known]
        /\ reconcile.pc # "idle" => running
    BY EveryStepMovesCounters, Types, HandTypes DEF CountersMove
  <1>2. InTime(reconcile.next, now) => InTime(reconcile.next, now')
    BY <1>1, StaysInTime
  <1>3. InTime(wakeAt, now) => InTime(wakeAt, now')
    BY <1>1, StaysInTime
  <1>4. ASSUME reconcile' = reconcile, ~Quiet', now' = now PROVE WakeInv'
    BY <1>4 DEF WakeInv, At
  <1>5. ASSUME ReturnError PROVE WakeInv'
    BY <1>5, Returns, WakeAtReturn DEF Rests
  <1>6. ASSUME UNCHANGED <<cronJob, cronJobWatch, requested, running, reconcile, wakeAt, ended>>,
               running /\ CachesUpToDate' => CachesUpToDate
        PROVE  WakeInv'
    BY <1>2, <1>3, <1>6 DEF WakeInv, Rests, Quiet, At
  <1>20. CASE \E t \in Times : DeleteJob(t) \/ JobFinishes(t) \/ Collect(t)
    <2>1. /\ UNCHANGED <<cronJob, cronJobWatch, requested, running, reconcile, wakeAt, ended>>
          /\ \E t \in Times : \E j : Job!Write(t, j, running)
      BY <1>20 DEF DeleteJob, JobFinishes, Collect, UserOp, cronJobVars, queueVars
    <2>2. running => \E t \in Times : \E j : Job!Write(t, j, TRUE)
      BY <2>1 DEF Job!Write
    <2> QED
      BY <1>6, <2>1, <2>2, JobWrittenIsOnItsWay
  <1>21. CASE Tick \/ UNCHANGED vars
    BY <1>6, <1>21 DEF Tick, vars, clusterVars, cronJobVars, jobVars, queueVars, CachesUpToDate
  <1>7. CASE CreateCronJob \/ SuspendOrResume \/ DeleteCronJob
    <2>1. /\ \E m : CJ!Write(Cj, m, running)
          /\ UNCHANGED <<now, reconcile, running>>
      BY <1>7 DEF CreateCronJob, SuspendOrResume, DeleteCronJob, UserOp
    <2>2. running => \E m : CJ!Write(Cj, m, TRUE)
      BY <2>1 DEF CJ!Write
    <2>3. ~Quiet'
      BY <2>1, <2>2, WrittenIsOnItsWay DEF Quiet
    <2> QED
      BY <1>4, <2>1, <2>3
  <1>8. CASE Receive \/ WakeUp
    BY <1>4, <1>8 DEF Receive, WakeUp, Quiet
  <1>9. CASE Crash
    BY <1>9, IdleIsSound DEF Crash, Quiet, WakeInv, At
  <1>10. CASE Restart
    <2>1. reconcile = Idle /\ reconcile' = reconcile /\ cronJob' = cronJob
      BY <1>10 DEF Restart, Inv, Stopped, CJ!Start
    <2>2. cronJob'[Cj] # Absent => requested'
      BY <1>10, <2>1 DEF Restart
    <2> QED
      BY <2>1, <2>2, IdleIsSound DEF WakeInv, Quiet, At
  <1>11. CASE BeginReconcile
    <2>1. reconcile'.pc = "get"
      BY <1>11 DEF BeginReconcile, Proceed, Idle
    <2> QED
      BY <2>1 DEF WakeInv, At
  <1>12. CASE GetCronJob
    <2>1. /\ UNCHANGED <<cronJob, cronJobWatch, requested, running, now>> /\ At("get")
          /\ \/ reconcile' = Idle /\ cronJobCache[Cj] = Absent
             \/ reconcile' = [reconcile EXCEPT !.pc = "list", !.cj = cronJobCache[Cj]]
      BY <1>12 DEF GetCronJob, Return, Proceed, clusterVars, cronJobVars
    <2>2. Quiet => cronJobCache[Cj] = cronJob[Cj]
      BY EmptySeq DEF Quiet, Inv, ChannelsCatchUp, Channel, CaughtUp
    <2>3. CASE reconcile' = Idle /\ cronJobCache[Cj] = Absent
      BY <2>1, <2>2, <2>3, WakeAtReturn DEF Quiet
    <2>4. CASE reconcile' = [reconcile EXCEPT !.pc = "list", !.cj = cronJobCache[Cj]]
      <3>1. reconcile'.pc = "list" /\ reconcile'.cj = cronJobCache[Cj]
        BY <1>1, <2>4 DEF States
      <3> QED
        BY <2>1, <2>2, <3>1 DEF WakeInv, Quiet, At
    <2> QED
      BY <2>1, <2>3, <2>4
  <1>13. CASE ListJobs
    <2>1. /\ UNCHANGED <<cronJob, cronJobWatch, requested, running, now>> /\ At("list")
          /\ reconcile'.pc = "status" /\ reconcile'.cj = reconcile.cj
      BY <1>1, <1>13 DEF ListJobs, Proceed, clusterVars, cronJobVars, States
    <2> QED
      BY <2>1 DEF WakeInv, Quiet, At
  <1>14. CASE UpdateStatus
    <2>1. PICK updated \in CronJobs :
            /\ \/ UNCHANGED cronJobVars /\ (reconcile'.pc = "history" => updated = reconcile.cj)
               \/ CJ!Write(Cj, updated, TRUE)
            /\ \/ reconcile' = [reconcile EXCEPT !.pc = "history", !.cj = updated]
               \/ ReturnError
      BY <1>14, StatusUpdate
    <2>2. UNCHANGED <<requested, running, now>> /\ At("status") /\ running
      BY <1>1, <1>14 DEF UpdateStatus, At
    <2>3. CASE ReturnError
      BY <1>5, <2>3
    <2>4. CASE reconcile' = [reconcile EXCEPT !.pc = "history", !.cj = updated]
      <3>1. reconcile'.pc = "history" /\ reconcile'.cj = updated
        BY <1>1, <2>4 DEF States
      <3>2. CJ!Write(Cj, updated, TRUE) => ~Quiet'
        BY <2>2, WrittenIsOnItsWay DEF Quiet
      <3>3. ~Quiet' \/ (UNCHANGED cronJobVars /\ updated = reconcile.cj)
        BY <2>1, <3>1, <3>2
      <3> QED
        BY <2>2, <3>1, <3>3 DEF WakeInv, Quiet, At, cronJobVars
    <2> QED
      BY <2>1, <2>3, <2>4
  <1>15. CASE CleanUpHistory
    <2>1. /\ UNCHANGED <<cronJob, cronJobWatch, requested, running, now>> /\ At("history")
          /\ \/ reconcile' = Idle /\ reconcile.cj.suspend
             \/ reconcile' = [reconcile EXCEPT !.pc = "schedule"]
      BY <1>15 DEF CleanUpHistory, Return, Proceed, DeleteJobs, cronJobVars
    <2>2. Quiet => reconcile.cj = cronJob[Cj]
      BY <2>1 DEF WakeInv, At
    <2>3. CASE reconcile' = Idle /\ reconcile.cj.suspend
      BY <2>1, <2>2, <2>3, WakeAtReturn DEF Quiet
    <2>4. CASE reconcile' = [reconcile EXCEPT !.pc = "schedule"]
      <3>1. reconcile'.pc = "schedule" /\ reconcile'.cj = reconcile.cj
        BY <1>1, <2>4 DEF States
      <3> QED
        BY <2>1, <2>2, <3>1 DEF WakeInv, Quiet, At
    <2> QED
      BY <2>1, <2>3, <2>4
  <1>16. CASE Schedule
    <2> DEFINE r == GetNextSchedule(Period,
                      IF reconcile.cj.last # Nil THEN reconcile.cj.last ELSE reconcile.cj.created,
                      reconcile.cj.deadline, now)
    <2>1. /\ UNCHANGED <<cronJob, cronJobWatch, requested, running, now>> /\ At("schedule")
          /\ \/ GiveUp("tooMany")
             \/ /\ ~r.err
                /\ reconcile' = [reconcile EXCEPT !.pc = "requeue", !.missed = r.missed,
                                                  !.next = r.next]
      BY <1>16 DEF Schedule, Proceed, clusterVars, cronJobVars
    <2>2. ~r.err => r.next = NextStart(Period, now)
      BY <2>1, ScheduleFinds
    <2> HIDE DEF r
    <2>3. CASE GiveUp("tooMany")
      BY <2>3, Returns, WakeAtReturn DEF Rests
    <2>4. CASE /\ ~r.err
               /\ reconcile' = [reconcile EXCEPT !.pc = "requeue", !.missed = r.missed,
                                                 !.next = r.next]
      <3>1. /\ reconcile'.pc = "requeue" /\ reconcile'.cj = reconcile.cj
            /\ reconcile'.next = r.next
        BY <1>1, <2>4 DEF States
      <3>2. InTime(r.next, now)
        BY <1>1, <2>2, <2>4, StaysInTime
      <3> QED
        BY <2>1, <3>1, <3>2 DEF WakeInv, Quiet, At
    <2> QED
      BY <2>1, <2>3, <2>4
  <1>17. CASE DecideRun
    <2>1. /\ UNCHANGED <<cronJob, cronJobWatch, requested, running, now>> /\ At("requeue")
          /\ RequeueAfter \in 0..Period
          /\ RequeueAfter > 0 => now + RequeueAfter = reconcile.next
          /\ \/ RequeueAfter > 0 /\ Return(RequeueAfter)
             \/ GiveUp("overtaken")
             \/ \E pc \in {"replace", "create"} :
                  reconcile' = [reconcile EXCEPT !.pc = pc, !.next = Never,
                                                 !.requeueAfter = RequeueAfter]
      BY <1>17, Decides DEF clusterVars, cronJobVars
    <2>2. InTime(reconcile.next, now)
      BY <2>1 DEF WakeInv, At
    <2>3. CASE RequeueAfter > 0 /\ Return(RequeueAfter)
      <3>1. /\ reconcile' = Idle /\ wakeAt' \in Nat /\ wakeAt' <= reconcile.next
            /\ ended' = "settled"
        BY <2>1, <2>3, Returns, TimesAreNaturals
      <3>2. NextStart(Period, now) \in Nat
        BY <1>1, NextStartIsNext, Constants
      <3>3. InTime(wakeAt', now')
        BY <1>1, <2>1, <2>2, <3>1, <3>2 DEF InTime
      <3> QED
        BY <3>1, <3>3, WakeAtReturn DEF Rests
    <2>4. CASE GiveUp("overtaken")
      BY <2>4, Returns, WakeAtReturn DEF Rests
    <2>5. ASSUME NEW pc \in {"replace", "create"},
                 reconcile' = [reconcile EXCEPT !.pc = pc, !.next = Never,
                                                !.requeueAfter = RequeueAfter]
          PROVE  WakeInv'
      <3>1. reconcile'.pc = pc /\ reconcile'.cj = reconcile.cj
        BY <1>1, <2>5 DEF States
      <3> QED
        BY <2>1, <3>1 DEF WakeInv, Quiet, At
    <2> QED
      BY <2>1, <2>3, <2>4, <2>5
  <1>18. CASE ReplaceActive
    <2>1. /\ UNCHANGED <<cronJob, cronJobWatch, requested, running, now>> /\ At("replace")
          /\ ReturnError \/ reconcile' = [reconcile EXCEPT !.pc = "create"]
      BY <1>18 DEF ReplaceActive, Proceed, DeleteJobs, cronJobVars
    <2>2. CASE ReturnError
      BY <1>5, <2>2
    <2>3. CASE reconcile' = [reconcile EXCEPT !.pc = "create"]
      <3>1. reconcile'.pc = "create" /\ reconcile'.cj = reconcile.cj
        BY <1>1, <2>3 DEF States
      <3> QED
        BY <2>1, <3>1 DEF WakeInv, Quiet, At
    <2> QED
      BY <2>1, <2>2, <2>3
  <1>19. CASE CreateJob
    <2>1. reconcile.missed \in Times
      BY <1>19, HandTypes DEF CreateJob, At
    <2>2. \/ ReturnError
          \/ /\ Return(reconcile.requeueAfter)
             /\ Job!Write(reconcile.missed, [owner |-> reconcile.cj.uid, state |-> "active"], TRUE)
      BY <1>19 DEF CreateJob
    <2>3. CASE ReturnError
      BY <1>5, <2>3
    <2>4. CASE /\ Return(reconcile.requeueAfter)
               /\ Job!Write(reconcile.missed, [owner |-> reconcile.cj.uid, state |-> "active"], TRUE)
      <3>1. ~CachesUpToDate'
        BY <2>1, <2>4, JobWrittenIsOnItsWay
      <3> QED
        BY <2>4, <3>1, WakeAtReturn DEF Return
    <2> QED
      BY <2>2, <2>3, <2>4
  <1> QED
    BY <1>7, <1>8, <1>9, <1>10, <1>11, <1>12, <1>13, <1>14, <1>15, <1>16, <1>17, <1>18,
       <1>19, <1>20, <1>21 DEF Next, Reconcile

(* "sleeping until next" (cronjob_controller.go 273): when nothing is under *)
(* way for a CronJob that is not suspended, after any failures, crashes and *)
(* changes of it and its jobs, the queue wakes the controller by the next   *)
(* start; after an error it wakes it, after whatever delay; and it sleeps   *)
(* on after a Reconcile that gave up on too many missed starts, or had its  *)
(* next start come between its two readings of the clock, and after no      *)
(* other.                                                                   *)
THEOREM WakesInTime == Spec => []WakesForNextStart
  <1>1. Init => WakeInv
    <2> SUFFICES ASSUME Init PROVE WakeInv
      OBVIOUS
    <2>1. cronJob[Cj] = Absent
      BY DEF Init, CJ!Init
    <2> QED
      BY <2>1, IdleIsSound DEF Init, WakeInv, At
  <1>2. Inv /\ WakeInv /\ [Next]_vars => WakeInv'
    BY WakeStep
  <1>3. WakeInv => WakesForNextStart
    BY DEF WakeInv, WakesForNextStart, Rests, Quiet, CachesUpToDate, InTime
  <1> QED
    BY <1>1, <1>2, <1>3, Invariant, PTL DEF Spec

-----------------------------------------------------------------------------
(* Runs do not overlap: at the time of a start, Reconcile knows every run   *)
(* of an earlier start that is still active.                                *)
Active(t) == jobs[t] # Absent /\ jobs[t].state = "active"
PastList  == reconcile.pc \notin {"idle", "get", "list"}

OverlapInv ==
  /\ \A s \in Times : Superseded(s) /\ Active(s) /\ running =>
       jobsCache[s] = jobs[s] /\ jobsWatch[s] = << >>
  /\ reconcile.missed # ZeroTime => now < reconcile.missed + Period
  /\ PastList => \A s \in Times : Superseded(s) /\ Active(s) => s \in ActiveJobs
  /\ At("create") /\ reconcile.cj.policy # "Allow" =>
       \A s \in Times : ~(Superseded(s) /\ Active(s))
  /\ cronJob[Cj] # Absent /\ cronJob[Cj].policy # "Allow" =>
       \A s \in Times : \A t \in Times :
         Active(s) /\ Active(t) /\ Live(jobs[s].owner) /\ Live(jobs[t].owner) => s = t

LEMMA NewlySuperseded ==
  ASSUME Inv, [Next]_vars, NEW s \in Times, Superseded(s)', ~Superseded(s)
  PROVE  Tick /\ (now + 1) % Period = 0
  <1>1. now \in Nat /\ s \in Nat /\ s % Period = 0 /\ Period \in Nat \ {0}
    BY Types, Constants, TimesAreNaturals
  <1>2. now' # now
    BY DEF Superseded
  <1>3. Tick /\ now' = now + 1
    BY <1>2, EveryStepMovesCounters DEF CountersMove, Tick
  <1>4. now + 1 = s + Period
    BY <1>1, <1>3 DEF Superseded
  <1>5. s = (s \div Period) * Period /\ s \div Period \in Nat
    BY <1>1, Quotient
  <1> DEFINE q == s \div Period
  <1>6. q + 1 \in Nat /\ (q + 1) * Period = q * Period + Period
    BY <1>1, <1>5, Multiple
  <1> HIDE DEF q
  <1>7. ((q + 1) * Period) % Period = 0
    BY <1>1, <1>6, Multiple
  <1>8. now + 1 = (q + 1) * Period
    BY <1>4, <1>5, <1>6 DEF q
  <1> QED
    BY <1>3, <1>7, <1>8

(* No start falls into a Reconcile. *)
LEMMA SupersededBefore ==
  ASSUME Inv, [Next]_vars, onTime', reconcile.pc # "idle", NEW s \in Times, Superseded(s)'
  PROVE  Superseded(s)
  BY NewlySuperseded DEF Tick

LEMMA ActiveBefore ==
  ASSUME Inv, [Next]_vars, NEW s \in Times, Active(s)'
  PROVE  \/ Active(s) /\ jobs'[s] = jobs[s]
         \/ Created(s) /\ jobs'[s].owner = reconcile.cj.uid
  <1>1. jobs'[s] = jobs[s] \/ Deleted(s) \/ Finished(s) \/ Created(s)
    BY EveryStepMovesJobs DEF JobsMove, JobMoves
  <1> QED
    BY <1>1 DEF Active, Deleted, Finished, Created

(* The step before, of what was listed and of the creation of the job. *)
LEMMA ListedBefore ==
  ASSUME Inv, [Next]_vars, PastList'
  PROVE  \/ PastList /\ reconcile'.children = reconcile.children
               /\ (reconcile'.pc = "status" => At("status"))
         \/ ListJobs /\ reconcile'.children = jobsCache
  <1>1. reconcile \in States
    BY Types
  <1>2. CASE reconcile' = reconcile
    BY <1>2 DEF PastList, At
  <1>3. CASE \/ CreateCronJob \/ SuspendOrResume \/ DeleteCronJob
             \/ \E t \in Times : DeleteJob(t) \/ JobFinishes(t) \/ Collect(t)
             \/ Tick \/ Receive \/ WakeUp \/ Restart \/ UNCHANGED vars
    <2>1. reconcile' = reconcile
      BY <1>3 DEF CreateCronJob, SuspendOrResume, DeleteCronJob, DeleteJob, JobFinishes, Collect,
                  Tick, Receive, WakeUp, Restart, UserOp, vars
    <2> QED
      BY <1>2, <2>1
  <1>4. CASE BeginReconcile \/ Crash \/ GetCronJob
    <2>1. \/ reconcile' = [Idle EXCEPT !.pc = "get"] \/ reconcile' = Idle
          \/ reconcile' = [reconcile EXCEPT !.pc = "list", !.cj = cronJobCache[Cj]]
      BY <1>4 DEF BeginReconcile, Crash, GetCronJob, Proceed, Return
    <2>2. reconcile'.pc \in {"idle", "get", "list"}
      BY <1>1, <2>1, IdleIsSound DEF States, Idle
    <2> QED
      BY <2>2 DEF PastList
  <1>5. CASE ListJobs
    <2>1. reconcile' = [reconcile EXCEPT !.pc = "status", !.children = jobsCache]
      BY <1>5 DEF ListJobs, Proceed
    <2> QED
      BY <1>1, <1>5, <2>1 DEF States
  <1>6. CASE UpdateStatus
    <2>1. PICK updated \in CronJobs :
            \/ reconcile' = [reconcile EXCEPT !.pc = "history", !.cj = updated]
            \/ ReturnError
      BY <1>6, StatusUpdate
    <2>2. At("status") /\ reconcile' # Idle
      BY <1>6, IdleIsSound DEF UpdateStatus, PastList
    <2> QED
      BY <1>1, <2>1, <2>2 DEF ReturnError, States, PastList, At
  <1>7. CASE CleanUpHistory \/ Schedule \/ DecideRun \/ ReplaceActive \/ CreateJob
    <2>1. ASSUME CleanUpHistory \/ Schedule \/ ReplaceActive \/ CreateJob
          PROVE  /\ PastList
                 /\ \/ reconcile' = Idle
                    \/ reconcile'.children = reconcile.children /\ reconcile'.pc # "status"
      BY <1>1, <2>1 DEF CleanUpHistory, Schedule, ReplaceActive, CreateJob, Return,
                        ReturnError, GiveUp, Proceed, States, PastList, At
    <2>2. ASSUME DecideRun
          PROVE  /\ PastList
                 /\ \/ reconcile' = Idle
                    \/ reconcile'.children = reconcile.children /\ reconcile'.pc # "status"
      BY <1>1, <2>2 DEF DecideRun, EndSettled, ProceedTo, Return, GiveUp, Proceed, States,
                        PastList, At
    <2> QED
      BY <1>7, <2>1, <2>2, IdleIsSound DEF PastList
  <1> QED
    BY <1>3, <1>4, <1>5, <1>6, <1>7 DEF Next, Reconcile

LEMMA CreateBefore ==
  ASSUME Inv, [Next]_vars, reconcile'.pc = "create"
  PROVE  /\ reconcile'.cj = reconcile.cj /\ reconcile.cj \in CronJobs
         /\ \/ At("create")
            \/ At("requeue") /\ reconcile.cj.policy # "Replace"
               /\ (reconcile.cj.policy = "Forbid" => ActiveJobs = {})
            \/ At("replace") /\ \A s \in ActiveJobs : jobs'[s] = Absent
  <1>1. reconcile \in States
    BY Types
  <1>2. CASE reconcile' = reconcile
    BY <1>2, HandTypes DEF At
  <1>3. CASE \/ CreateCronJob \/ SuspendOrResume \/ DeleteCronJob
             \/ \E t \in Times : DeleteJob(t) \/ JobFinishes(t) \/ Collect(t)
             \/ Tick \/ Receive \/ WakeUp \/ Restart \/ UNCHANGED vars
    <2>1. reconcile' = reconcile
      BY <1>3 DEF CreateCronJob, SuspendOrResume, DeleteCronJob, DeleteJob, JobFinishes, Collect,
                  Tick, Receive, WakeUp, Restart, UserOp, vars
    <2> QED
      BY <1>2, <2>1
  <1>4. CASE BeginReconcile \/ Crash \/ GetCronJob \/ ListJobs
    <2>1. \/ reconcile' = [Idle EXCEPT !.pc = "get"] \/ reconcile' = Idle
          \/ reconcile' = [reconcile EXCEPT !.pc = "list", !.cj = cronJobCache[Cj]]
          \/ reconcile' = [reconcile EXCEPT !.pc = "status", !.children = jobsCache]
      BY <1>4 DEF BeginReconcile, Crash, GetCronJob, ListJobs, Proceed, Return
    <2>2. reconcile'.pc \in {"idle", "get", "list", "status"}
      BY <1>1, <2>1, IdleIsSound DEF States, Idle
    <2> QED
      BY <2>2
  <1>5. CASE UpdateStatus
    <2>1. PICK updated \in CronJobs :
            \/ reconcile' = [reconcile EXCEPT !.pc = "history", !.cj = updated]
            \/ ReturnError
      BY <1>5, StatusUpdate
    <2> QED
      BY <1>1, <2>1, IdleIsSound DEF ReturnError, States
  <1>6. CASE CleanUpHistory \/ Schedule \/ CreateJob
    <2>1. reconcile'.pc \in {"idle", "schedule", "requeue"}
      BY <1>1, <1>6, IdleIsSound DEF CleanUpHistory, Schedule, CreateJob, Return, ReturnError,
                                     GiveUp, Proceed, States
    <2> QED
      BY <2>1
  <1>7. CASE DecideRun
    <2>1. reconcile' # Idle
      BY IdleIsSound
    <2>2. PICK pc \in {"replace", "create"} :
            /\ reconcile' = [reconcile EXCEPT !.pc = pc, !.next = Never,
                                              !.requeueAfter = RequeueAfter]
            /\ pc = "create" => reconcile.cj.policy # "Replace"
                 /\ (reconcile.cj.policy = "Forbid" => ActiveJobs = {})
      BY <1>7, <2>1, Decides DEF Return, GiveUp
    <2>3. pc = "create" /\ reconcile'.cj = reconcile.cj /\ At("requeue")
      BY <1>1, <1>7, <2>2 DEF States, DecideRun
    <2> QED
      BY <2>2, <2>3, HandTypes DEF At
  <1>8. CASE ReplaceActive
    <2>1. reconcile' # Idle
      BY IdleIsSound
    <2>2. At("replace") /\ DeleteJobs(ActiveJobs) /\ reconcile' = [reconcile EXCEPT !.pc = "create"]
      BY <1>8, <2>1 DEF ReplaceActive, ReturnError, Proceed
    <2>3. \A s \in ActiveJobs : jobs'[s] = Absent
      BY <2>2, HandTypes DEF DeleteJobs
    <2> QED
      BY <1>1, <2>2, <2>3, HandTypes DEF At, States
  <1> QED
    BY <1>3, <1>4, <1>5, <1>6, <1>7, <1>8 DEF Next, Reconcile

LEMMA OverlapStep ==
  ASSUME Inv, OverlapInv, [Next]_vars, onTime'
  PROVE  OverlapInv'
  <1>1. CountersMove /\ JobsMove /\ HandMoves /\ CronJobMoves
    BY EveryStepMovesCounters, EveryStepMovesJobs, EveryStepMovesHand, EveryStepMovesCronJob
  <1>2. /\ now \in Nat /\ now' \in Nat /\ Period \in Nat \ {0}
        /\ used.ops \in Nat /\ Absent \notin Jobs
        /\ jobs \in [Times -> KnownJob] /\ reconcile \in States
    BY <1>1, Types, Constants, AbsentAssumption DEF CountersMove
  <1>3. ASSUME NEW s \in Times, Created(s)
        PROVE  /\ s = reconcile.missed /\ s <= now /\ now < s + Period /\ now' = now
               /\ ~Superseded(s) /\ ~Superseded(s)' /\ At("create") /\ reconcile' = Idle
               /\ cronJob' = cronJob
    <2>1. /\ s = reconcile.missed /\ At("create") /\ now' = now /\ reconcile' = Idle
          /\ cronJob' = cronJob
      BY <1>3 DEF Created
    <2>2. s # ZeroTime /\ s <= now
      BY <2>1, HandTypes, Constants DEF At, Sound
    <2>3. now < s + Period
      BY <2>1, <2>2 DEF OverlapInv
    <2>4. s \in Nat
      BY TimesAreNaturals
    <2> QED
      BY <1>2, <2>1, <2>2, <2>3, <2>4 DEF Superseded
  <1>4. ASSUME NEW s \in Times, Superseded(s)', Active(s)', running'
        PROVE  jobsCache'[s] = jobs'[s] /\ jobsWatch'[s] = << >>
    <2>1. Active(s) /\ jobs'[s] = jobs[s]
      BY <1>3, <1>4, ActiveBefore
    <2>2. /\ jobsWatch[s] = << >> /\ running /\ running' =>
               jobsWatch'[s] = << >> /\ jobsCache'[s] = jobsCache[s]
          /\ ChannelStep(jobs[s], jobsWatch[s], jobsCache[s], running,
                         jobs'[s], jobsWatch'[s], jobsCache'[s], running')
      BY <1>1, <2>1 DEF JobsMove, JobMoves
    <2>3. Channel(jobs[s], jobsWatch[s], jobsCache[s], running)
      BY DEF Inv, ChannelsCatchUp
    <2>4. CASE ~running
      <3>1. jobsCache'[s] = jobs'[s] /\ jobsWatch'[s] = jobsWatch[s]
        BY <1>4, <2>2, <2>4, Types DEF ChannelStep
      <3> QED
        BY <2>3, <2>4, <3>1 DEF Channel
    <2>5. CASE running /\ Superseded(s)
      BY <1>4, <2>1, <2>2, <2>5 DEF OverlapInv
    <2>6. CASE running /\ ~Superseded(s)
      <3>1. jobsWatch[s] = << >>
        BY <1>4, <2>6, NewlySuperseded DEF Tick, CachesUpToDate
      <3>2. jobsCache[s] = jobs[s]
        BY <2>3, <2>6, <3>1, EmptySeq DEF Channel, CaughtUp
      <3> QED
        BY <1>4, <2>1, <2>2, <2>6, <3>1, <3>2
    <2> QED
      BY <2>4, <2>5, <2>6
  <1>5. ASSUME reconcile'.missed # ZeroTime PROVE now' < reconcile'.missed + Period
    <2> DEFINE t == reconcile'.missed
    <2>1. t \in Times
      BY <1>1, <1>5 DEF HandMoves, States
    <2>2. now < t + Period /\ reconcile.pc # "idle"
      <3>1. CASE t = reconcile.missed
        BY <1>5, <3>1, HandTypes DEF OverlapInv, Sound
      <3>2. CASE At("schedule") /\ now < t + Period
        BY <3>2 DEF At
      <3> QED
        BY <1>5, <3>1, <3>2, StepBefore
    <2> HIDE DEF t
    <2>3. t \in Nat
      BY <2>1, TimesAreNaturals
    <2>4. ~Superseded(t)
      BY <1>2, <2>2, <2>3 DEF Superseded
    <2>5. PICK s \in Times : s = t
      BY <2>1
    <2>6. ~Superseded(s)'
      BY <2>2, <2>4, <2>5, SupersededBefore
    <2>7. now' < t + Period
      BY <1>2, <2>3, <2>5, <2>6 DEF Superseded
    <2> QED
      BY <2>7 DEF t
  <1>6. ASSUME PastList', NEW s \in Times, Superseded(s)', Active(s)' PROVE s \in ActiveJobs'
    <2>1. Active(s) /\ jobs'[s] = jobs[s]
      BY <1>3, <1>6, ActiveBefore
    <2>2. reconcile.pc # "idle" /\ running
      BY <1>6, ListedBefore, HandTypes DEF PastList, ListJobs, At
    <2>3. Superseded(s)
      BY <1>6, <2>2, SupersededBefore
    <2>4. CASE PastList /\ reconcile'.children = reconcile.children
      BY <2>1, <2>3, <2>4 DEF OverlapInv, ActiveJobs, In
    <2>5. CASE reconcile'.children = jobsCache
      <3>1. jobsCache[s] = jobs[s]
        BY <2>1, <2>2, <2>3 DEF OverlapInv
      <3> QED
        BY <2>1, <2>5, <3>1 DEF Active, ActiveJobs, In
    <2> QED
      BY <1>6, <2>4, <2>5, ListedBefore
  <1>7. ASSUME reconcile'.pc = "create", reconcile'.cj.policy # "Allow",
               NEW s \in Times, Superseded(s)', Active(s)'
        PROVE  FALSE
    <2>1. Active(s) /\ jobs'[s] = jobs[s] /\ jobs'[s] # Absent
      BY <1>3, <1>7, ActiveBefore DEF Active
    <2>2. /\ reconcile.cj.policy # "Allow"
          /\ reconcile.cj.policy \in {"Allow", "Forbid", "Replace"}
          /\ reconcile.pc \in {"create", "requeue", "replace"}
      BY <1>7, CreateBefore, CronJobTypes, CronJobAssumption DEF At
    <2>3. Superseded(s)
      BY <1>7, <2>2, SupersededBefore
    <2>4. PastList
      BY <2>2 DEF PastList
    <2>5. s \in ActiveJobs
      BY <2>1, <2>3, <2>4 DEF OverlapInv
    <2> QED
      BY <1>7, <2>1, <2>2, <2>3, <2>5, CreateBefore DEF OverlapInv
  <1>8. ASSUME NEW s \in Times, Active(s)', Live(jobs[s].owner)'
        PROVE  \/ Active(s) /\ jobs'[s] = jobs[s] /\ Live(jobs[s].owner)
               \/ Created(s) /\ jobs'[s].owner = reconcile.cj.uid
    <2>1. CASE Active(s) /\ jobs'[s] = jobs[s]
      <3>1. PICK u \in Uids : u = jobs[s].owner
        BY <1>2, <2>1 DEF Active, KnownJob, Jobs
      <3>2. u \in Nat /\ u <= used.ops
        <4>1. jobs[s] \in JobsSeen(s)
          BY DEF JobsSeen, InChannel
        <4> QED
          BY <2>1, <3>1, <4>1, JobsSeenAre DEF Active
      <3>3. Live(u)'
        BY <1>8, <2>1, <3>1 DEF Live
      <3>4. Live(u)
        BY <1>2, <3>2, <3>3, LiveBefore
      <3> QED
        BY <2>1, <3>1, <3>4 DEF Live
    <2> QED
      BY <1>8, <2>1, ActiveBefore
  <1>9. ASSUME NEW s \in Times, NEW t \in Times, Active(s), Created(t),
               cronJob'[Cj] # Absent, cronJob'[Cj].policy # "Allow", Live(jobs[t].owner)',
               jobs'[t].owner = reconcile.cj.uid
        PROVE  s = t
    <2>1. /\ t <= now /\ now < t + Period /\ At("create") /\ cronJob' = cronJob
      BY <1>3, <1>9
    <2>2. reconcile.cj # Absent /\ reconcile.cj.uid = cronJob[Cj].uid /\ cronJob[Cj] # Absent
      BY <1>9, <2>1, HandTypes, CronJobTypes DEF At, Live
    <2>3. reconcile.cj.policy = cronJob[Cj].policy
      BY <2>2 DEF Inv, Past, CronJobsSeen, IsPast
    <2>4. ~Superseded(s)
      BY <1>9, <2>1, <2>3 DEF OverlapInv
    <2>5. s <= now
      <3>1. jobs[s] \in JobsSeen(s)
        BY DEF JobsSeen, InChannel
      <3> QED
        BY <1>9, <3>1, JobsSeenAre DEF Active
    <2>6. s \in Nat /\ t \in Nat /\ s % Period = 0 /\ t % Period = 0
      BY TimesAreNaturals, Constants
    <2>7. ~(s < t)
      <3>1. s < t => s + Period <= t
        BY <1>2, <2>6, StartsApart
      <3> QED
        BY <1>2, <2>1, <2>4, <2>6, <3>1 DEF Superseded
    <2>8. ~(t < s)
      <3>1. t < s => t + Period <= s
        BY <1>2, <2>6, StartsApart
      <3> QED
        BY <1>2, <2>1, <2>5, <2>6, <3>1
    <2> QED
      BY <2>6, <2>7, <2>8
  <1>10. ASSUME cronJob'[Cj] # Absent, cronJob'[Cj].policy # "Allow",
                NEW s \in Times, NEW t \in Times, Active(s)', Active(t)',
                Live(jobs[s].owner)', Live(jobs[t].owner)'
         PROVE  s = t
    <2>1. CASE /\ Active(s) /\ jobs'[s] = jobs[s] /\ Live(jobs[s].owner)
               /\ Active(t) /\ jobs'[t] = jobs[t] /\ Live(jobs[t].owner)
      <3>1. /\ cronJob[Cj] # Absent /\ cronJob'[Cj].uid = cronJob[Cj].uid
        BY <1>10, <2>1 DEF Live
      <3>2. cronJob'[Cj].policy = cronJob[Cj].policy
        BY <1>1, <1>10, <3>1 DEF CronJobMoves, CronJobFollows
      <3> QED
        BY <1>10, <2>1, <3>1, <3>2 DEF OverlapInv
    <2>2. CASE Created(s) /\ Created(t)
      BY <1>3, <2>2
    <2>3. CASE Active(s) /\ Created(t) /\ jobs'[t].owner = reconcile.cj.uid
      BY <1>9, <1>10, <2>3
    <2>4. CASE Created(s) /\ jobs'[s].owner = reconcile.cj.uid /\ Active(t)
      BY <1>9, <1>10, <2>4
    <2> QED
      BY <1>8, <1>10, <2>1, <2>2, <2>3, <2>4
  <1> QED
    BY <1>4, <1>5, <1>6, <1>7, <1>10 DEF OverlapInv, Active, Superseded, At

(* "Forbid: forbids concurrent runs", "Replace: cancels currently running   *)
(* job and replaces it with a new one" (cronjob_types.go 64-65): two jobs   *)
(* of such a CronJob never run at the same time, as long as the caches had  *)
(* caught up whenever time passed and no start fell into a Reconcile, which *)
(* goes by what it listed.  Crashes, failed calls, deletions, history       *)
(* limits and the order in which jobs start do not matter.                  *)
THEOREM OneRunAtATime == Spec => []RunsDoNotOverlap
  <1>1. Init => OverlapInv
    <2> SUFFICES ASSUME Init PROVE OverlapInv
      OBVIOUS
    <2>1. \A t \in Times : jobs[t] = Absent
      BY DEF Init, Job!Init
    <2> QED
      BY <2>1, IdleIsSound DEF Init, OverlapInv, Active, PastList, At
  <1>2. Inv /\ (onTime => OverlapInv) /\ [Next]_vars => (onTime => OverlapInv)'
    <2>1. Inv /\ [Next]_vars /\ onTime' => onTime
      BY EveryStepMovesCounters DEF CountersMove
    <2> QED
      BY <2>1, OverlapStep
  <1>3. (onTime => OverlapInv) => RunsDoNotOverlap
    <2> SUFFICES ASSUME OverlapInv, cronJob[Cj] # Absent, cronJob[Cj].policy # "Allow"
                 PROVE  Cardinality({t \in Times : jobs[t] # Absent /\ jobs[t].state = "active"
                                                    /\ Live(jobs[t].owner)}) <= 1
      BY DEF RunsDoNotOverlap
    <2> DEFINE S == {t \in Times : jobs[t] # Absent /\ jobs[t].state = "active"
                                    /\ Live(jobs[t].owner)}
    <2>1. CASE S = {}
      BY <2>1, FS_EmptySet
    <2>2. CASE S # {}
      <3>1. PICK s \in S : TRUE
        BY <2>2
      <3>2. \A t \in S : t = s
        BY <3>1 DEF OverlapInv, Active
      <3>3. S = {s}
        BY <3>1, <3>2
      <3> HIDE DEF S
      <3>4. Cardinality(S) = 1
        BY <3>3, FS_Singleton
      <3> QED
        BY <3>4 DEF S
    <2> QED
      BY <2>1, <2>2
  <1> QED
    BY <1>1, <1>2, <1>3, Invariant, PTL DEF Spec

-----------------------------------------------------------------------------
(* The time in the status never goes back: the latest job is not deleted,   *)
(* and what is listed later than it is later.                               *)
AllExist(w)     == \A n \in 1..Len(w) : w[n].obj # Absent
Remains(t)      == jobs[t] # Absent /\ (running => jobsCache[t] # Absent /\ AllExist(jobsWatch[t]))
RemainsFrom(x)  == \E t \in Times : t >= x /\ Remains(t)
Undisturbed(t)  == jobs[t] # Absent /\ AllExist(jobsWatch[t])
Unknown(t)      == jobs[t] = Absent /\ jobsCache[t] = Absent /\ jobsWatch[t] = << >>

NotReplaced     == cronJob[Cj] # Absent => cronJob[Cj].policy # "Replace"

AdvanceInv ==
  /\ \A m \in CronJobsSeen : m # Absent => Live(m.uid)
  /\ \A t \in Times : jobs[t] # Absent => Live(jobs[t].owner)
  /\ \A t \in Times : Unknown(t) \/ Undisturbed(t) \/ RemainsFrom(t + 1)
  /\ \A t \in Times : reconcile.children[t] # Absent => RemainsFrom(t)
  /\ cronJob[Cj] # Absent /\ cronJob[Cj].last # Nil =>
       /\ RemainsFrom(cronJob[Cj].last)
       /\ At("status") =>
            \E t \in Times : t >= cronJob[Cj].last /\ reconcile.children[t] # Absent

(* What the status says of the last run is what was listed, or as before. *)
LEMMA LastMoves ==
  ASSUME Inv, [Next]_vars
  PROVE  \/ cronJob'[Cj] = Absent
         \/ cronJob'[Cj].last = Nil /\ cronJob[Cj] = Absent
         \/ cronJob'[Cj].last = cronJob[Cj].last /\ cronJob[Cj] # Absent
         \/ At("status") /\ cronJob'[Cj].last = LastRun(reconcile.children)
  <1>1. cronJob \in [{Cj} -> Known] /\ cronJob[Cj] \in Known
    BY Types
  <1>2. CASE cronJob' = cronJob
    BY <1>2
  <1>3. CASE CreateCronJob
    <2>1. PICK d \in Deadlines, p \in Policies :
            CJ!Write(Cj, [uid |-> used.ops + 1, created |-> now, deadline |-> d, policy |-> p,
                          suspend |-> FALSE, last |-> Nil, active |-> {}, version |-> 1], running)
      BY <1>3 DEF CreateCronJob
    <2> DEFINE obj == [uid |-> used.ops + 1, created |-> now, deadline |-> d, policy |-> p,
                       suspend |-> FALSE, last |-> Nil, active |-> {}, version |-> 1]
    <2>2. cronJob'[Cj] = obj /\ obj.last = Nil
      BY <1>1, <2>1 DEF CJ!Write
    <2> QED
      BY <1>3, <2>2 DEF CreateCronJob
  <1>4. CASE SuspendOrResume
    <2> DEFINE obj == [cronJob[Cj] EXCEPT !.suspend = ~@, !.version = @ + 1]
    <2>1. cronJob[Cj] \in CronJobs /\ CJ!Write(Cj, obj, running)
      BY <1>1, <1>4 DEF SuspendOrResume, Known
    <2>2. obj.last = cronJob[Cj].last
      BY <2>1, SuspendTypes
    <2> HIDE DEF obj
    <2>3. cronJob'[Cj] = obj
      BY <1>1, <2>1 DEF CJ!Write
    <2> QED
      BY <2>1, <2>2, <2>3, CronJobTypes
  <1>5. CASE DeleteCronJob
    BY <1>1, <1>5 DEF DeleteCronJob, CJ!Write
  <1>6. CASE UpdateStatus
    <2>1. PICK updated \in CronJobs :
            /\ updated.last = LastRun(reconcile.children)
            /\ UNCHANGED cronJobVars \/ CJ!Write(Cj, updated, TRUE)
      BY <1>6, StatusUpdate
    <2>2. CJ!Write(Cj, updated, TRUE) => cronJob'[Cj] = updated
      BY <1>1 DEF CJ!Write
    <2> QED
      BY <1>2, <1>6, <2>1, <2>2 DEF UpdateStatus, cronJobVars
  <1>7. CASE Receive
    BY <1>2, <1>7 DEF Receive, CJ!Receive, cronJobVars
  <1>8. CASE Crash \/ Restart
    BY <1>2, <1>8 DEF Crash, Restart, CJ!Stop, CJ!Start
  <1> QED
    BY <1>2, <1>3, <1>4, <1>5, <1>6, <1>7, <1>8, CronJobUntouched DEF Next, Reconcile

(* An object that is not deleted stays in the events and in the cache. *)
LEMMA ChannelStaysClean ==
  ASSUME NEW O, NEW s \in O, NEW c, NEW w \in Seq(EventsOf(O)), NEW up,
         NEW sNew \in O, NEW cNew, NEW wNew, NEW upNew,
         ChannelStep(s, w, c, up, sNew, wNew, cNew, upNew),
         s # Absent, sNew # Absent, AllExist(w)
  PROVE  AllExist(wNew) /\ ((up => c # Absent) /\ upNew => cNew # Absent)
  <1>0. Len(<< >>) = 0
    BY EmptySeq
  <1>1. CASE upNew = up /\ sNew = s /\ wNew = w /\ cNew = c
    BY <1>1
  <1>2. CASE up /\ upNew = up /\ cNew = c /\ wNew = Append(w, [obj |-> sNew, tombstone |-> FALSE])
    <2>1. /\ Len(w) \in Nat /\ Len(wNew) = Len(w) + 1
          /\ \A n \in 1..Len(w) : wNew[n] = w[n]
          /\ wNew[Len(w) + 1].obj = sNew
      BY <1>2, Appended
    <2>2. ASSUME NEW n \in 1..Len(wNew) PROVE wNew[n].obj # Absent
      <3>1. n \in 1..Len(w) \/ n = Len(w) + 1
        BY <2>1
      <3> QED
        BY <2>1, <3>1 DEF AllExist
    <2> QED
      BY <1>2, <2>2 DEF AllExist
  <1>3. CASE ~up /\ upNew = up /\ cNew = c /\ wNew = w
    BY <1>3
  <1>4. CASE upNew /\ w # << >> /\ cNew = Head(w).obj /\ wNew = Tail(w)
    <2>1. /\ Len(w) \in Nat \ {0} /\ Len(wNew) = Len(w) - 1
          /\ \A n \in 1..Len(wNew) : wNew[n] = w[n + 1]
          /\ Head(w) = w[1]
      BY <1>4, Shifted
    <2> HIDE <1>4
    <2>2. ASSUME NEW n \in 1..Len(wNew) PROVE wNew[n].obj # Absent
      <3>1. n + 1 \in 1..Len(w)
        BY <2>1
      <3> QED
        BY <2>1, <3>1 DEF AllExist
    <2>3. w[1].obj # Absent
      <3>1. 1 \in 1..Len(w)
        BY <2>1
      <3> QED
        BY <3>1 DEF AllExist
    <2>4. cNew # Absent
      BY <1>4, <2>1, <2>3
    <2> QED
      BY <2>2, <2>4 DEF AllExist
  <1>5. CASE ~upNew /\ wNew = << >>
    BY <1>0, <1>5 DEF AllExist
  <1>6. CASE ~up /\ cNew = s /\ wNew = w
    BY <1>6
  <1> QED
    BY <1>1, <1>2, <1>3, <1>4, <1>5, <1>6 DEF ChannelStep

(* The policy of a CronJob never changes, and Reconcile acts on it.         *)
LEMMA NoReplace ==
  ASSUME Inv, AdvanceInv, NotReplaced
  PROVE  ~At("replace")
  <1> SUFFICES ASSUME At("replace") PROVE FALSE
    OBVIOUS
  <1>1. /\ reconcile.cj # Absent /\ reconcile.cj.policy = "Replace"
        /\ reconcile.cj \in CronJobsSeen
    BY HandTypes, CronJobTypes DEF At, Sound, CronJobsSeen
  <1>2. cronJob[Cj] # Absent /\ cronJob[Cj].uid = reconcile.cj.uid
    BY <1>1 DEF AdvanceInv, Live
  <1>3. cronJob[Cj].policy = "Replace"
    BY <1>1, <1>2 DEF Inv, Past, IsPast
  <1> QED
    BY <1>2, <1>3 DEF NotReplaced

LEMMA NotReplacedBefore ==
  ASSUME Inv, [Next]_vars, ~DeleteCronJob, NotReplaced'
  PROVE  NotReplaced
  <1>1. CronJobMoves
    BY EveryStepMovesCronJob
  <1> QED
    BY <1>1 DEF CronJobMoves, CronJobFollows, NotReplaced

(* A job is deleted when it is old, and then the latest remains. *)
LEMMA DeletedHasSuccessor ==
  ASSUME Inv, AdvanceInv, SuccessLimit >= 1, FailLimit >= 1, JobsStartInOrder,
         ~UserDeletesJobs, NotReplaced, NEW t \in Times, Deleted(t)
  PROVE  RemainsFrom(t + 1)
  <1>1. At("history") /\ t \in Old(reconcile.children)
    BY NoReplace DEF Deleted, AdvanceInv
  <1>2. PICK s \in Times : s > t /\ reconcile.children[s] # Absent
    BY <1>1, OldHasSuccessor
  <1>3. PICK m \in Times : m >= s /\ Remains(m)
    BY <1>2 DEF AdvanceInv, RemainsFrom
  <1>4. m >= t + 1
    BY <1>2, <1>3, TimesAreNaturals
  <1> QED
    BY <1>3, <1>4 DEF RemainsFrom

LEMMA RemainsOn ==
  ASSUME Inv, AdvanceInv, SuccessLimit >= 1, FailLimit >= 1, JobsStartInOrder,
         ~UserDeletesJobs, NotReplaced, [Next]_vars, NEW x \in Nat, RemainsFrom(x)
  PROVE  RemainsFrom(x)'
  <1> DEFINE S   == {t \in Times : t >= x /\ Remains(t)}
             top == Max(S)
  <1>1. S # {} /\ S \subseteq 0..MaxTime /\ MaxTime \in Nat
    BY Constants DEF RemainsFrom
  <1>2. top \in S /\ \A s \in S : s <= top
    BY <1>1, MaxOfNaturals
  <1> HIDE DEF top
  <1>3. top \in Times /\ top \in Nat /\ top >= x /\ Remains(top)
    BY <1>2, TimesAreNaturals
  <1>4. ~RemainsFrom(top + 1)
    <2> SUFFICES ASSUME NEW m \in Times, m >= top + 1, Remains(m) PROVE FALSE
      BY DEF RemainsFrom
    <2>1. m \in Nat /\ m >= x
      BY <1>3, TimesAreNaturals
    <2>2. m <= top
      BY <1>2, <2>1
    <2> QED
      BY <1>3, <2>1, <2>2
  <1>5. ~Deleted(top)
    BY <1>3, <1>4, DeletedHasSuccessor
  <1>6. JobMoves(top)
    BY <1>3, EveryStepMovesJobs DEF JobsMove
  <1>7. jobs'[top] # Absent /\ jobs'[top] \in KnownJob
    BY <1>3, <1>5, <1>6, AbsentAssumption DEF JobMoves, Finished, Created, Remains
  <1>8. /\ jobs[top] \in KnownJob /\ jobsWatch[top] \in Seq(EventsOf(KnownJob))
        /\ Channel(jobs[top], jobsWatch[top], jobsCache[top], running)
    BY <1>3, Types DEF Inv, ChannelsCatchUp
  <1>9. AllExist(jobsWatch[top])
    BY <1>3, <1>8, EmptySeq DEF Remains, Channel, AllExist
  <1>10. AllExist(jobsWatch'[top]) /\ (running' => jobsCache'[top] # Absent)
    BY <1>3, <1>6, <1>7, <1>8, <1>9, ChannelStaysClean DEF JobMoves, Remains
  <1> QED
    BY <1>3, <1>7, <1>10 DEF RemainsFrom, Remains, AllExist

LEMMA AdvanceStep ==
  ASSUME Inv, AdvanceInv, NotReplaced, [Next]_vars, ~DeleteCronJob,
         SuccessLimit >= 1, FailLimit >= 1, JobsStartInOrder, ~UserDeletesJobs
  PROVE  AdvanceInv'
  <1>1. JobsMove /\ HandMoves /\ CronJobMoves /\ cronJob'[Cj] \in Known
    BY EveryStepMovesJobs, EveryStepMovesHand, EveryStepMovesCronJob DEF CronJobMoves
  <1>2. \A x \in Nat : RemainsFrom(x) => RemainsFrom(x)'
    BY RemainsOn
  <1>3. ASSUME NEW m \in CronJobsSeen', m # Absent PROVE cronJob'[Cj] # Absent /\ cronJob'[Cj].uid = m.uid
    <2>1. m \in CronJobsSeen \/ m = cronJob'[Cj]
      BY <1>3, CronJobsPreserved
    <2>2. CASE m = cronJob'[Cj]
      BY <1>3, <2>2
    <2>3. CASE m \in CronJobsSeen
      <3>1. Live(m.uid)
        BY <1>3, <2>3 DEF AdvanceInv
      <3>2. cronJob[Cj].uid \in Uids
        BY <3>1, Types, CronJobTypes DEF Live, Known
      <3>3. PICK u \in Uids : u = m.uid
        BY <3>1, <3>2 DEF Live
      <3>4. Live(u)'
        BY <3>1, <3>3, LiveBefore
      <3> QED
        BY <3>3, <3>4 DEF Live
    <2> QED
      BY <2>1, <2>2, <2>3
  <1>4. ASSUME NEW t \in Times, jobs'[t] # Absent PROVE Live(jobs[t].owner)'
    <2>1. CASE Created(t)
      <3>1. reconcile.cj # Absent /\ Live(reconcile.cj.uid)
        BY <2>1, HandTypes, CronJobTypes DEF AdvanceInv, CronJobsSeen, Created, At
      <3>2. cronJob' = cronJob /\ jobs'[t].owner = reconcile.cj.uid
        BY <2>1 DEF Created
      <3> QED
        BY <3>1, <3>2 DEF Live
    <2>2. CASE jobs[t] # Absent /\ jobs'[t].owner = jobs[t].owner
      <3>1. Live(jobs[t].owner) /\ jobs[t].owner \in Uids
        BY <2>2, Types DEF AdvanceInv, KnownJob, Jobs
      <3>2. PICK u \in Uids : u = jobs[t].owner
        BY <3>1
      <3>3. Live(u)'
        BY <3>1, <3>2, LiveBefore
      <3> QED
        BY <2>2, <3>2, <3>3 DEF Live
    <2> QED
      BY <1>1, <1>4, <2>1, <2>2 DEF JobsMove, JobMoves, Deleted, Finished
  <1>5. ASSUME NEW t \in Times PROVE Unknown(t)' \/ Undisturbed(t)' \/ RemainsFrom(t + 1)'
    <2>1. /\ jobs[t] \in KnownJob /\ jobsWatch[t] \in Seq(EventsOf(KnownJob))
          /\ Channel(jobs[t], jobsWatch[t], jobsCache[t], running) /\ t + 1 \in Nat
      BY Types, TimesAreNaturals DEF Inv, ChannelsCatchUp
    <2>2. JobMoves(t)
      BY <1>1 DEF JobsMove
    <2>3. CASE RemainsFrom(t + 1) \/ Deleted(t)
      BY <1>2, <2>1, <2>3, DeletedHasSuccessor
    <2>4. CASE Undisturbed(t) /\ ~Deleted(t)
      <3>1. jobs'[t] # Absent /\ jobs'[t] \in KnownJob
        BY <2>2, <2>4, AbsentAssumption DEF JobMoves, Finished, Created, Undisturbed
      <3>2. AllExist(jobsWatch'[t])
        BY <2>1, <2>2, <2>4, <3>1, ChannelStaysClean DEF JobMoves, Undisturbed
      <3> QED
        BY <3>1, <3>2 DEF Undisturbed, AllExist
    <2>5. CASE Unknown(t) /\ jobs'[t] = jobs[t]
      <3>1. jobsCache'[t] = Absent /\ jobsWatch'[t] = << >>
        BY <2>2, <2>5, Types DEF JobMoves, ChannelStep, Unknown
      <3> QED
        BY <2>5, <3>1 DEF Unknown
    <2>6. CASE Unknown(t) /\ jobs'[t] # jobs[t]
      <3>1. jobs'[t] # Absent /\ jobs'[t] \in KnownJob
        BY <2>2, <2>6 DEF Unknown, JobMoves
      <3>2. jobsWatch'[t] = << >>
            \/ jobsWatch'[t] = Append(<< >>, [obj |-> jobs'[t], tombstone |-> FALSE])
        BY <2>2, <2>6 DEF JobMoves, ChannelStep, Unknown
      <3>3. AllExist(jobsWatch'[t])
        <4>1. /\ << >> \in Seq(EventsOf(KnownJob)) /\ Len(<< >>) = 0
          BY EmptySeq
        <4>2. CASE jobsWatch'[t] = Append(<< >>, [obj |-> jobs'[t], tombstone |-> FALSE])
          <5>1. Len(jobsWatch'[t]) = 1 /\ jobsWatch'[t][1].obj = jobs'[t]
            BY <4>2
          <5> QED
            BY <3>1, <5>1 DEF AllExist
        <4> QED
          BY <3>2, <4>1, <4>2 DEF AllExist
      <3> QED
        BY <3>1, <3>3 DEF Undisturbed, AllExist
    <2> QED
      BY <2>3, <2>4, <2>5, <2>6 DEF AdvanceInv
  <1>6. ASSUME NEW t \in Times, jobsCache[t] # Absent, running PROVE RemainsFrom(t)
    <2>1. t \in Nat /\ t >= t
      BY TimesAreNaturals
    <2>2. CASE Undisturbed(t)
      BY <1>6, <2>1, <2>2 DEF RemainsFrom, Remains, Undisturbed
    <2>3. CASE RemainsFrom(t + 1)
      <3>1. PICK m \in Times : m >= t + 1 /\ Remains(m)
        BY <2>3 DEF RemainsFrom
      <3>2. m >= t
        BY <2>1, <3>1, TimesAreNaturals
      <3> QED
        BY <3>1, <3>2 DEF RemainsFrom
    <2> QED
      BY <1>6, <2>2, <2>3 DEF AdvanceInv, Unknown
  <1>7. ASSUME NEW t \in Times, reconcile'.children[t] # Absent PROVE RemainsFrom(t)'
    <2>1. t \in Nat
      BY TimesAreNaturals
    <2>2. RemainsFrom(t)
      <3>1. CASE reconcile'.children = reconcile.children
        BY <1>7, <3>1 DEF AdvanceInv
      <3>2. CASE reconcile'.children = Idle.children
        BY <1>7, <3>2, IdleIsSound
      <3>3. CASE reconcile'.children = jobsCache
        <4>1. running
          <5>1. ~running => jobsCache[t] = Absent
            BY Types DEF Inv, ChannelsCatchUp, Channel
          <5> QED
            BY <1>7, <3>3, <5>1, Types
        <4> QED
          BY <1>6, <1>7, <3>3, <4>1
      <3> QED
        BY <1>1, <3>1, <3>2, <3>3 DEF HandMoves
    <2> QED
      BY <1>2, <2>1, <2>2
  <1>8. ASSUME cronJob'[Cj] # Absent, cronJob'[Cj].last # Nil
        PROVE  /\ RemainsFrom(cronJob[Cj].last)'
               /\ reconcile'.pc = "status" =>
                    \E t \in Times : t >= cronJob'[Cj].last /\ reconcile'.children[t] # Absent
    <2> DEFINE last == cronJob'[Cj].last
    <2>1. last \in Times /\ last \in Nat
      BY <1>1, <1>8, CronJobTypes, TimesAreNaturals DEF Known
    <2>2. \/ last = cronJob[Cj].last /\ cronJob[Cj] # Absent
          \/ At("status") /\ last = LastRun(reconcile.children)
      BY <1>8, LastMoves
    <2>3. PICK x \in Times : x = last
      BY <2>1
    <2>4. At("status") /\ last = LastRun(reconcile.children) =>
            reconcile.children[x] # Absent
      BY <1>8, <2>3, HandTypes, LastRunIsTime
    <2> HIDE DEF last
    <2>5. x \in Nat /\ x >= x
      BY <2>1, <2>3
    <2>6. RemainsFrom(x)
      <3>1. CASE last = cronJob[Cj].last /\ cronJob[Cj] # Absent
        BY <1>8, <2>3, <3>1 DEF AdvanceInv, last
      <3>2. CASE At("status") /\ last = LastRun(reconcile.children)
        BY <2>4, <3>2 DEF AdvanceInv
      <3> QED
        BY <2>2, <3>1, <3>2
    <2>7. RemainsFrom(x)'
      BY <1>2, <2>5, <2>6
    <2>8. RemainsFrom(cronJob[Cj].last)'
      BY <2>3, <2>7 DEF RemainsFrom, last
    <2>9. ASSUME reconcile'.pc = "status"
          PROVE  \E t \in Times : t >= x /\ reconcile'.children[t] # Absent
      <3>1. \/ At("status") /\ reconcile'.children = reconcile.children
            \/ ListJobs /\ reconcile'.children = jobsCache
        BY <2>9, ListedBefore DEF PastList
      <3>2. CASE ListJobs /\ reconcile'.children = jobsCache
        <4>1. PICK t \in Times : t >= x /\ Remains(t)
          BY <2>6 DEF RemainsFrom
        <4>2. running
          BY <3>2, HandTypes DEF ListJobs, At
        <4> QED
          BY <3>2, <4>1, <4>2 DEF Remains
      <3>3. CASE At("status") /\ reconcile'.children = reconcile.children
        <4>1. CASE last = cronJob[Cj].last /\ cronJob[Cj] # Absent
          BY <1>8, <2>3, <3>3, <4>1 DEF AdvanceInv, last
        <4>2. CASE At("status") /\ last = LastRun(reconcile.children)
          BY <2>4, <2>5, <3>3, <4>2
        <4> QED
          BY <2>2, <4>1, <4>2
      <3> QED
        BY <3>1, <3>2, <3>3
    <2> QED
      BY <2>3, <2>8, <2>9 DEF last
  <1> QED
    BY <1>3, <1>4, <1>5, <1>7, <1>8 DEF AdvanceInv, Live, At

(* LastScheduleTime, "when was the last time the job was successfully       *)
(* scheduled" (cronjob_types.go 98), is computed from the jobs that are     *)
(* left (cronjob_controller.go 97-147) and never goes back, however the     *)
(* caches lag, calls fail and processes crash: provided that the history    *)
(* keeps the newest job of each kind, that users do not delete jobs, and    *)
(* that the CronJob is not deleted.                                         *)
THEOREM LastTimeAdvances ==
  ASSUME SuccessLimit >= 1, FailLimit >= 1, JobsStartInOrder, ~UserDeletesJobs
  PROVE  Spec /\ [][~DeleteCronJob]_vars => LastScheduleTimeAdvances
  <1>1. Init => (NotReplaced => AdvanceInv)
    <2> SUFFICES ASSUME Init PROVE AdvanceInv
      OBVIOUS
    <2>1. /\ cronJob[Cj] = Absent /\ cronJobCache[Cj] = Absent /\ cronJobWatch[Cj] = << >>
          /\ \A t \in Times : jobs[t] = Absent /\ jobsCache[t] = Absent /\ jobsWatch[t] = << >>
      BY DEF Init, CJ!Init, CJ!Empty, Job!Init, Job!Empty
    <2>2. reconcile = Idle
      BY DEF Init
    <2>3. \A m \in CronJobsSeen : m = Absent
      BY <2>1, <2>2, IdleIsSound, EmptySeq DEF CronJobsSeen, InChannel
    <2> QED
      BY <2>1, <2>2, <2>3, IdleIsSound DEF AdvanceInv, Unknown
  <1>2. Inv /\ (NotReplaced => AdvanceInv) /\ [Next]_vars /\ [~DeleteCronJob]_vars
          => (NotReplaced => AdvanceInv)'
    <2>1. Inv /\ UNCHANGED vars => ~DeleteCronJob
      <3> SUFFICES ASSUME Inv, UNCHANGED vars, DeleteCronJob PROVE FALSE
        OBVIOUS
      <3>1. used' = used /\ used' = [used EXCEPT !.ops = @ + 1]
        BY DEF vars, DeleteCronJob, UserOp
      <3>2. used.ops = used.ops + 1 /\ used.ops \in Nat
        BY <3>1, Types
      <3> QED
        BY <3>2
    <2> QED
      BY <2>1, NotReplacedBefore, AdvanceStep
  <1>3. Inv /\ (NotReplaced => AdvanceInv) /\ [Next]_vars =>
          [ (/\ cronJob[Cj] # Absent /\ cronJob[Cj].policy # "Replace"
             /\ cronJob'[Cj] # Absent /\ cronJob[Cj].uid = cronJob'[Cj].uid)
            => cronJob'[Cj].last >= cronJob[Cj].last ]_vars
    <2> SUFFICES ASSUME Inv, AdvanceInv, [Next]_vars, cronJob[Cj] # Absent, cronJob'[Cj] # Absent
                 PROVE  cronJob'[Cj].last >= cronJob[Cj].last
      BY DEF NotReplaced
    <2>1. cronJob[Cj].last \in Nat
      BY Types, CronJobTypes DEF Known
    <2>2. CASE cronJob'[Cj].last = cronJob[Cj].last
      BY <2>1, <2>2
    <2>3. CASE At("status") /\ cronJob'[Cj].last = LastRun(reconcile.children)
      <3>1. CASE cronJob[Cj].last = Nil
        BY <2>3, <3>1, HandTypes, LastRunIsTime DEF Nil, ZeroTime
      <3>2. CASE cronJob[Cj].last # Nil
        <4>1. PICK t \in Times : t >= cronJob[Cj].last /\ reconcile.children[t] # Absent
          BY <2>3, <3>2 DEF AdvanceInv
        <4>2. t <= LastRun(reconcile.children) /\ LastRun(reconcile.children) \in Nat /\ t \in Nat
          BY <4>1, HandTypes, LastRunIsTime, TimesAreNaturals
        <4> QED
          BY <2>1, <2>3, <4>1, <4>2
      <3> QED
        BY <3>1, <3>2
    <2> QED
      BY <2>2, <2>3, LastMoves
  <1> QED
    BY <1>1, <1>2, <1>3, Invariant, PTL DEF Spec, LastScheduleTimeAdvances
=============================================================================
