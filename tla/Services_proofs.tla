-------------------------- MODULE Services_proofs ---------------------------
(***************************************************************************)
(* Theorems about the CLI runner, generation and the channel, and about    *)
(* the six parts of MCServices together, for every value of the constants. *)
(***************************************************************************)
EXTENDS MCServices, Scenes_proofs, Workspace_proofs, SequenceTheorems, TLAPS

---------------------------------------------------------------------------
(* CliRunner: the circuit breaker keeps its word                           *)

Breaker ==
  /\ failures \in Seq(0..FailureWindow + 1)
  /\ past \in Seq(0..FailureWindow + BreakDuration)
  /\ pause \in 0..BreakDuration
  /\ Falling(failures) /\ Falling(past) /\ Matching /\ Pausing

LEMMA LenNat == ASSUME NEW S, NEW s \in Seq(S)
                PROVE  Len(s) \in Nat /\ DOMAIN s = 1..Len(s) /\ \A i \in 1..Len(s) : s[i] \in S
<1> QED BY LenProperties, ElementOfSeq

\* Numbers of the module.
LEMMA CliNumbers ==
  /\ FailureWindow \in Nat /\ BreakDuration \in Nat /\ BreakDuration > 0
  /\ FailureThreshold \in Nat /\ FailureThreshold > 0
  /\ CliAttempts \in Nat /\ CliAttempts > 0
BY CliConstants

\* What shift() and push() leave.
LEMMA ShiftedElements ==
  ASSUME NEW S, NEW s \in Seq(S), NEW k \in 0..Len(s), NEW x \in S, NEW t,
         t = Append(SubSeq(s, k + 1, Len(s)), x)
  PROVE  /\ t \in Seq(S) /\ Len(t) = Len(s) - k + 1
         /\ \A i \in 1..(Len(s) - k) : t[i] = s[i + k]
         /\ t[Len(s) - k + 1] = x
<1> DEFINE u == SubSeq(s, k + 1, Len(s))
<1>1. Len(s) \in Nat /\ k \in Nat /\ k + 1 \in Int /\ Len(s) \in Int /\ k <= Len(s) BY LenNat
<1>2. \A i \in (k + 1)..Len(s) : s[i] \in S BY <1>1, LenNat
<1>3. /\ u \in Seq(S)
      /\ Len(u) = IF k + 1 <= Len(s) THEN Len(s) - (k + 1) + 1 ELSE 0
      /\ \A i \in 1..(Len(s) - (k + 1) + 1) : u[i] = s[(k + 1) + i - 1]
  BY <1>1, <1>2, SubSeqProperties
<1>4. Len(u) = Len(s) - k BY <1>1, <1>3
<1>5. \A i \in 1..(Len(s) - k) : u[i] = s[i + k]
  <2> SUFFICES ASSUME NEW i \in 1..(Len(s) - k) PROVE u[i] = s[i + k]
    OBVIOUS
  <2>1. i \in 1..(Len(s) - (k + 1) + 1) /\ (k + 1) + i - 1 = i + k BY <1>1
  <2> QED BY <1>3, <2>1
<1> HIDE DEF u
<1>6. /\ Append(u, x) \in Seq(S) /\ Len(Append(u, x)) = Len(u) + 1
      /\ \A i \in 1..Len(u) : Append(u, x)[i] = u[i]
      /\ Append(u, x)[Len(u) + 1] = x
  BY <1>3, AppendProperties
<1>7. t = Append(u, x) BY DEF u
<1> QED BY <1>4, <1>5, <1>6, <1>7

\* One more failure: the breaker's list and the history.
LEMMA FailureRecorded ==
  ASSUME Breaker, RecordFailure
  PROVE  Breaker'
<1> DEFINE W == FailureWindow
           T == FailureThreshold
           m == Len(failures)
           n == Len(past)
<1>1. /\ W \in Nat /\ BreakDuration \in Nat /\ T \in Nat /\ T > 0 /\ BreakDuration > 0
      /\ m \in Nat /\ DOMAIN failures = 1..m /\ \A i \in 1..m : failures[i] \in Nat
      /\ n \in Nat /\ DOMAIN past = 1..n /\ \A i \in 1..n : past[i] \in Nat
      /\ pause \in Nat /\ pause <= BreakDuration
  BY CliNumbers, LenNat DEF Breaker
<1>2. PICK k \in 0..m : /\ Shifts(failures, k, W)
                        /\ failures' = Append(SubSeq(failures, k + 1, m), 0)
  BY DEF RecordFailure
<1>3. k \in Nat /\ k <= m /\ m - k + 1 \in Nat BY <1>1, <1>2
<1>4. /\ failures' \in Seq(0..W + 1) /\ Len(failures') = m - k + 1
      /\ \A i \in 1..(m - k) : failures'[i] = failures[i + k]
      /\ failures'[m - k + 1] = 0
  <2> DEFINE S == 0..W + 1
             s == failures
             t == failures'
  <2>1. 0 \in S /\ s \in Seq(S) BY <1>1 DEF Breaker
  <2>2. k \in 0..Len(s) /\ t = Append(SubSeq(s, k + 1, Len(s)), 0) BY <1>2
  <2> HIDE DEF S, s, t
  <2>3. /\ t \in Seq(S) /\ Len(t) = Len(s) - k + 1
        /\ \A i \in 1..(Len(s) - k) : t[i] = s[i + k]
        /\ t[Len(s) - k + 1] = 0
    BY <2>1, <2>2, ShiftedElements
  <2> QED BY <2>3 DEF S, s, t
<1>5. /\ past' \in Seq(0..W + BreakDuration) /\ Len(past') = n + 1
      /\ \A i \in 1..n : past'[i] = past[i]
      /\ past'[n + 1] = 0
  <2>1. 0 \in 0..W + BreakDuration BY <1>1
  <2>2. past' = Append(past, 0) BY DEF RecordFailure
  <2> QED BY <2>1, <2>2, AppendProperties DEF Breaker
<1>6. DOMAIN failures' = 1..(m - k + 1) /\ DOMAIN past' = 1..(n + 1)
  BY <1>4, <1>5, LenNat
<1>7. pause' = IF m - k + 1 >= T THEN BreakDuration ELSE pause BY <1>4 DEF RecordFailure
<1>8. pause' \in 0..BreakDuration /\ pause <= pause' BY <1>1, <1>7
<1>9. /\ \A i \in 1..k : failures[i] > W
      /\ k < m => failures[k + 1] <= W
  BY <1>2 DEF Shifts
<1>10. /\ \A i, j \in 1..m : i < j => failures[i] >= failures[j]
       /\ \A i, j \in 1..n : i < j => past[i] >= past[j]
  BY <1>1 DEF Breaker, Falling
<1>11. \A j \in Nat : /\ m - j > 0 /\ n - j > 0 => failures[m - j] = Clipped(past[n - j])
                      /\ m - j > 0 /\ n - j <= 0 => failures[m - j] > W
                      /\ m - j <= 0 /\ n - j > 0 => past[n - j] > W
  BY DEF Breaker, Matching
<1> HIDE DEF W, T, m, n
<1>12. Falling(failures')
  <2> SUFFICES ASSUME NEW i \in 1..(m - k + 1), NEW j \in 1..(m - k + 1), i < j
               PROVE  failures'[i] >= failures'[j]
    BY <1>6 DEF Falling
  <2>1. i \in 1..(m - k) /\ i + k \in 1..m /\ failures'[i] = failures[i + k] BY <1>1, <1>3, <1>4
  <2>2. CASE j = m - k + 1
    <3>1. failures'[j] = 0 BY <1>4, <2>2
    <3>2. failures[i + k] \in Nat BY <1>1, <2>1
    <3> QED BY <2>1, <3>1, <3>2
  <2>3. CASE j # m - k + 1
    <3>1. j \in 1..(m - k) /\ j + k \in 1..m /\ failures'[j] = failures[j + k] /\ i + k < j + k
      BY <1>1, <1>3, <1>4, <2>3
    <3> QED BY <1>10, <2>1, <3>1
  <2> QED BY <2>2, <2>3
<1>13. Falling(past')
  <2> SUFFICES ASSUME NEW i \in 1..(n + 1), NEW j \in 1..(n + 1), i < j
               PROVE  past'[i] >= past'[j]
    BY <1>6 DEF Falling
  <2>1. i \in 1..n /\ past'[i] = past[i] BY <1>1, <1>5
  <2>2. CASE j = n + 1 BY <1>1, <1>5, <2>1, <2>2
  <2>3. CASE j # n + 1
    <3>1. j \in 1..n /\ past'[j] = past[j] BY <1>1, <1>5, <2>3
    <3> QED BY <1>10, <2>1, <3>1
  <2> QED BY <2>2, <2>3
\* What the breaker has kept of the failures before is what is recent.
<1>14. ASSUME NEW j \in Nat
       PROVE  /\ j < m - k /\ j < n => failures[m - j] = Clipped(past[n - j])
              /\ j < m - k => j < n /\ past[n - j] <= W
              /\ j >= m - k /\ j < n => past[n - j] > W
  <2>1. /\ j < m /\ j < n => failures[m - j] = Clipped(past[n - j])
        /\ j < m /\ j >= n => failures[m - j] > W
        /\ j >= m /\ j < n => past[n - j] > W
    BY <1>1, <1>11
  <2>2. j < m - k => failures[m - j] <= W
    <3> SUFFICES ASSUME j < m - k PROVE failures[m - j] <= W
      OBVIOUS
    <3>1. k < m /\ k + 1 \in 1..m /\ m - j \in 1..m /\ k + 1 <= m - j BY <1>1, <1>3
    <3>2. failures[k + 1] >= failures[m - j] BY <1>1, <1>10, <3>1
    <3> QED BY <1>1, <1>9, <3>1, <3>2
  <2>3. j >= m - k /\ j < m => failures[m - j] > W
    <3> SUFFICES ASSUME j >= m - k, j < m PROVE failures[m - j] > W
      OBVIOUS
    <3>1. m - j \in 1..k BY <1>1, <1>3
    <3> QED BY <1>9, <3>1
  <2>4. j < n => past[n - j] \in Nat BY <1>1
  <2>5. j < n /\ Clipped(past[n - j]) > W => past[n - j] > W BY <1>1, <2>4 DEF Clipped, W
  <2>6. j < n /\ Clipped(past[n - j]) <= W => past[n - j] <= W BY <1>1, <2>4 DEF Clipped, W
  <2>7. j < m - k => j < m /\ j < n BY <1>1, <1>3, <2>1, <2>2
  <2> QED BY <1>1, <2>1, <2>2, <2>3, <2>5, <2>6, <2>7
<1>15. Matching'
  <2> SUFFICES ASSUME NEW j \in Nat
               PROVE  /\ m - k + 1 - j > 0 /\ n + 1 - j > 0
                            => failures'[m - k + 1 - j] = Clipped(past'[n + 1 - j])
                      /\ m - k + 1 - j > 0 /\ n + 1 - j <= 0 => failures'[m - k + 1 - j] > W
                      /\ m - k + 1 - j <= 0 /\ n + 1 - j > 0 => past'[n + 1 - j] > W
    <3>1. SUFFICES ASSUME NEW j \in Nat
                   PROVE  /\ Len(failures') - j > 0 /\ Len(past') - j > 0
                               => failures'[Len(failures') - j] = Clipped(past'[Len(past') - j])
                          /\ Len(failures') - j > 0 /\ Len(past') - j <= 0
                               => failures'[Len(failures') - j] > W
                          /\ Len(failures') - j <= 0 /\ Len(past') - j > 0
                               => past'[Len(past') - j] > W
      BY DEF Matching, W, Clipped
    <3> DEFINE a == Len(failures') - j
               b == Len(past') - j
    <3>2. a = m - k + 1 - j /\ b = n + 1 - j
      <4>1. Len(failures') = m - k + 1 BY <1>4
      <4>2. Len(past') = n + 1 BY <1>5
      <4>3. (m - k + 1) - j = m - k + 1 - j /\ (n + 1) - j = n + 1 - j BY <1>1, <1>3
      <4> QED BY <4>1, <4>2, <4>3, Zenon
    <3> HIDE DEF a, b
    <3>3. /\ a > 0 /\ b > 0 => failures'[a] = Clipped(past'[b])
          /\ a > 0 /\ b <= 0 => failures'[a] > W
          /\ a <= 0 /\ b > 0 => past'[b] > W
      BY <3>2
    <3> QED BY <3>3 DEF a, b
  <2>1. CASE j = 0
    <3>1. Clipped(0) = 0 BY <1>1 DEF Clipped, W
    <3> QED BY <1>1, <1>3, <1>4, <1>5, <2>1, <3>1
  <2>2. CASE j # 0
    <3> DEFINE h == j - 1
    <3>1. h \in Nat /\ m - k + 1 - j = m - k - h /\ n + 1 - j = n - h BY <1>1, <1>3, <2>2
    <3> HIDE DEF h
    <3>2. /\ h < m - k /\ h < n => failures[m - h] = Clipped(past[n - h])
          /\ h < m - k => h < n /\ past[n - h] <= W
          /\ h >= m - k /\ h < n => past[n - h] > W
      BY <1>14, <3>1
    <3>3. h < m - k => failures'[m - k - h] = failures[m - h]
      <4> SUFFICES ASSUME h < m - k PROVE failures'[m - k - h] = failures[m - h]
        OBVIOUS
      <4>1. m - k - h \in 1..(m - k) /\ (m - k - h) + k = m - h BY <1>1, <1>3, <3>1
      <4> QED BY <1>4, <4>1
    <3>4. h < n => past'[n - h] = past[n - h]
      <4>1. h < n => n - h \in 1..n BY <1>1, <3>1
      <4> QED BY <1>5, <4>1
    <3>5. m - k + 1 - j > 0 <=> h < m - k BY <1>1, <1>3, <3>1
    <3>6. n + 1 - j > 0 <=> h < n BY <1>1, <3>1
    <3>7. (m - k + 1 - j <= 0 <=> h >= m - k) /\ (n + 1 - j <= 0 <=> ~(h < n))
      BY <1>1, <1>3, <3>1
    <3>8. h < m - k => failures'[m - k + 1 - j] = failures[m - h] BY <3>1, <3>3
    <3>9. h < n => past'[n + 1 - j] = past[n - h] BY <3>1, <3>4
    <3> QED BY <3>2, <3>5, <3>6, <3>7, <3>8, <3>9
  <2> QED BY <2>1, <2>2
\* The last failures are rapid if the breaker counts enough of them.
<1>16. m - k + 1 >= T <=> n + 2 - T \in 1..(n + 1) /\ past'[n + 2 - T] <= W
  <2>1. CASE T = 1 BY <1>1, <1>3, <1>5, <2>1
  <2>2. CASE T # 1
    <3> DEFINE h == T - 2
    <3>1. h \in Nat /\ n + 2 - T = n - h /\ (m - k + 1 >= T <=> h < m - k) BY <1>1, <1>3, <2>2
    <3> HIDE DEF h
    <3>2. /\ h < m - k => h < n /\ past[n - h] <= W
          /\ h >= m - k /\ h < n => past[n - h] > W
      BY <1>14, <3>1
    <3>3. h < n => n - h \in 1..n /\ past'[n - h] = past[n - h] /\ past[n - h] \in Nat
      BY <1>1, <1>5, <3>1
    <3>4. n - h \in 1..(n + 1) <=> h < n BY <1>1, <3>1
    <3> QED BY <1>1, <1>3, <3>1, <3>2, <3>3, <3>4
  <2> QED BY <2>1, <2>2
<1>17. \A i \in 1..(n + 1) :
         Rapid(i)' <=> /\ i + T - 1 \in 1..(n + 1)
                       /\ past'[i] <= past'[i + T - 1] + W
  BY <1>6 DEF Rapid, T, W
<1>18. \A i \in 1..n : i + T - 1 \in 1..n =>
         /\ past'[i] = past[i] /\ past'[i + T - 1] = past[i + T - 1]
         /\ (Rapid(i) <=> past[i] <= past[i + T - 1] + W)
  BY <1>1, <1>5 DEF Rapid, T, W
<1>19. /\ \A i \in 1..n : Rapid(i) => past[i + T - 1] + pause >= BreakDuration
       /\ pause > 0 => \E i \in 1..n : Rapid(i) /\ past[i + T - 1] + pause = BreakDuration
  BY <1>1 DEF Breaker, Pausing, T
<1>20. ASSUME NEW i \in 1..(n + 1), Rapid(i)' PROVE past'[i + T - 1] + pause' >= BreakDuration
  <2>1. i + T - 1 \in 1..(n + 1) /\ past'[i] <= past'[i + T - 1] + W BY <1>17, <1>20
  <2>2. CASE i + T - 1 = n + 1
    <3>1. i = n + 2 - T BY <1>1, <2>2
    <3>2. past'[i + T - 1] = 0 BY <1>5, <2>2
    <3>3. past'[i] <= W BY <1>1, <2>1, <3>2
    <3>4. pause' = BreakDuration BY <1>7, <1>16, <3>1, <3>3
    <3> QED BY <1>1, <3>2, <3>4
  <2>3. CASE i + T - 1 # n + 1
    <3>1. i \in 1..n /\ i + T - 1 \in 1..n BY <1>1, <2>1, <2>3
    <3>2. Rapid(i) /\ past'[i + T - 1] = past[i + T - 1] BY <1>18, <2>1, <3>1
    <3>3. past[i + T - 1] + pause >= BreakDuration BY <1>19, <3>1, <3>2
    <3> QED BY <1>1, <1>8, <3>1, <3>2, <3>3
  <2> QED BY <2>2, <2>3
<1>21. ASSUME pause' > 0
       PROVE  \E i \in 1..(n + 1) : Rapid(i)' /\ past'[i + T - 1] + pause' = BreakDuration
  <2>1. CASE m - k + 1 >= T
    <3>1. PICK i \in 1..(n + 1) : i = n + 2 - T /\ past'[i] <= W BY <1>16, <2>1
    <3>2. i + T - 1 = n + 1 BY <1>1, <3>1
    <3>5. past'[i + T - 1] = 0 BY <1>5, <3>2
    <3>3. pause' = BreakDuration BY <1>7, <2>1
    <3>6. past'[i] <= past'[i + T - 1] + W /\ i + T - 1 \in 1..(n + 1)
      BY <1>1, <3>1, <3>2, <3>5
    <3>4. Rapid(i)' BY <1>17, <3>1, <3>6
    <3>7. past'[i + T - 1] + pause' = BreakDuration BY <1>1, <3>3, <3>5
    <3> QED BY <3>1, <3>4, <3>7
  <2>2. CASE ~(m - k + 1 >= T)
    <3>1. pause' = pause BY <1>7, <2>2
    <3>2. PICK i \in 1..n : Rapid(i) /\ past[i + T - 1] + pause = BreakDuration
      BY <1>19, <1>21, <3>1
    <3>3. i + T - 1 \in 1..n BY <1>1, <3>2 DEF Rapid, T
    <3>4. i \in 1..(n + 1) /\ i + T - 1 \in 1..(n + 1) BY <1>1, <3>3
    <3>5. past'[i] = past[i] /\ past'[i + T - 1] = past[i + T - 1] /\ past[i] <= past[i + T - 1] + W
      BY <1>18, <3>2, <3>3
    <3>6. Rapid(i)' BY <1>17, <3>4, <3>5
    <3> QED BY <3>1, <3>2, <3>4, <3>5, <3>6
  <2> QED BY <2>1, <2>2
<1>22. Pausing' BY <1>6, <1>20, <1>21 DEF Pausing, T
<1> QED BY <1>4, <1>5, <1>8, <1>12, <1>13, <1>15, <1>22 DEF Breaker, W

\* Time passes: all grow older, and the pause shorter.
LEMMA TimePasses ==
  ASSUME Breaker, Tick
  PROVE  Breaker'
<1> DEFINE W == FailureWindow
           B == BreakDuration
           T == FailureThreshold
           m == Len(failures)
           n == Len(past)
<1>1. /\ W \in Nat /\ B \in Nat /\ B > 0 /\ T \in Nat /\ T > 0
      /\ m \in Nat /\ DOMAIN failures = 1..m /\ \A i \in 1..m : failures[i] \in 0..W + 1
      /\ n \in Nat /\ DOMAIN past = 1..n /\ \A i \in 1..n : past[i] \in 0..W + B
      /\ pause \in Nat /\ pause <= B
  BY CliNumbers, LenNat DEF Breaker
<1>2. PICK k \in 0..n : /\ Shifts(past, k, W + B - 1)
                        /\ past' = [i \in 1..(n - k) |-> past[i + k] + 1]
  BY DEF Tick
<1>3. k \in Nat /\ k <= n /\ n - k \in Nat BY <1>1, <1>2
<1>4. /\ \A i, j \in 1..m : i < j => failures[i] >= failures[j]
      /\ \A i, j \in 1..n : i < j => past[i] >= past[j]
  BY <1>1 DEF Breaker, Falling
<1>5. /\ \A i \in 1..k : past[i] >= W + B
      /\ \A i \in (k + 1)..n : past[i] < W + B
  <2>1. (\A i \in 1..k : past[i] > W + B - 1) /\ (k < n => past[k + 1] <= W + B - 1)
    BY <1>2 DEF Shifts
  <2>2. ASSUME NEW i \in 1..k PROVE past[i] >= W + B
    <3>1. i \in 1..n /\ past[i] \in Nat /\ W + B \in Nat BY <1>1, <1>3
    <3>2. past[i] > W + B - 1 BY <2>1
    <3> HIDE DEF W, B
    <3> QED BY <1>1, <3>1, <3>2
  <2>3. ASSUME NEW i \in (k + 1)..n PROVE past[i] < W + B
    <3>1. k < n /\ k + 1 \in 1..n /\ i \in 1..n BY <1>1, <1>3
    <3>2. past[k + 1] \in Nat /\ past[i] \in Nat BY <1>1, <3>1
    <3>3. past[k + 1] >= past[i]
      <4>1. CASE i = k + 1 BY <3>2, <4>1
      <4>2. CASE i # k + 1 BY <1>3, <1>4, <3>1, <4>2
      <4> QED BY <4>1, <4>2
    <3>4. past[k + 1] <= W + B - 1 BY <2>1, <3>1
    <3> HIDE DEF W, B
    <3> QED BY <1>1, <3>2, <3>3, <3>4
  <2> QED BY <2>2, <2>3
<1>6. \A j \in Nat : /\ m - j > 0 /\ n - j > 0 => failures[m - j] = Clipped(past[n - j])
                     /\ m - j > 0 /\ n - j <= 0 => failures[m - j] > W
                     /\ m - j <= 0 /\ n - j > 0 => past[n - j] > W
  BY DEF Breaker, Matching
<1>7. /\ failures' = [i \in 1..m |-> IF failures[i] <= W THEN failures[i] + 1 ELSE failures[i]]
      /\ pause' = IF pause > 0 THEN pause - 1 ELSE 0
  BY <1>1 DEF Tick
<1> HIDE DEF W, B, T, m, n
<1>8. /\ Len(failures') = m /\ DOMAIN failures' = 1..m
      /\ \A i \in 1..m : failures'[i] = IF failures[i] <= W THEN failures[i] + 1 ELSE failures[i]
      /\ failures' \in Seq(0..W + 1)
  <2>1. \A i \in 1..m : (IF failures[i] <= W THEN failures[i] + 1 ELSE failures[i]) \in 0..W + 1
    BY <1>1
  <2>2. failures' \in [1..m -> 0..W + 1] BY <1>7, <2>1
  <2>3. failures' \in Seq(0..W + 1) BY <1>1, <2>2, SeqDef
  <2> QED BY <1>1, <1>7, <2>3
<1>9. /\ Len(past') = n - k /\ DOMAIN past' = 1..(n - k)
      /\ \A i \in 1..(n - k) : past'[i] = past[i + k] + 1 /\ i + k \in (k + 1)..n
      /\ past' \in Seq(0..W + B)
  <2>1. ASSUME NEW i \in 1..(n - k) PROVE i + k \in (k + 1)..n /\ past[i + k] + 1 \in 0..W + B
    <3>1. i + k \in (k + 1)..n /\ i + k \in 1..n BY <1>1, <1>3
    <3>2. past[i + k] < W + B /\ past[i + k] \in 0..W + B BY <1>1, <1>5, <3>1
    <3> QED BY <1>1, <3>1, <3>2
  <2>2. past' \in [1..(n - k) -> 0..W + B] BY <1>2, <2>1
  <2>3. past' \in Seq(0..W + B) BY <1>3, <2>2, SeqDef
  <2> QED BY <1>2, <1>3, <2>1, <2>3
<1>10. pause' \in 0..B BY <1>1, <1>7
<1>11. Falling(failures')
  <2> SUFFICES ASSUME NEW i \in 1..m, NEW j \in 1..m, i < j
               PROVE  failures'[i] >= failures'[j]
    BY <1>8 DEF Falling
  <2>1. failures[i] >= failures[j] /\ failures[i] \in 0..W + 1 /\ failures[j] \in 0..W + 1
    BY <1>1, <1>4
  <2>2. /\ failures'[i] = IF failures[i] <= W THEN failures[i] + 1 ELSE failures[i]
        /\ failures'[j] = IF failures[j] <= W THEN failures[j] + 1 ELSE failures[j]
    BY <1>8
  <2>3. CASE failures[i] <= W BY <1>1, <2>1, <2>2, <2>3
  <2>4. CASE ~(failures[i] <= W) BY <1>1, <2>1, <2>2, <2>4
  <2> QED BY <2>3, <2>4
<1>12. Falling(past')
  <2> SUFFICES ASSUME NEW i \in 1..(n - k), NEW j \in 1..(n - k), i < j
               PROVE  past'[i] >= past'[j]
    BY <1>9 DEF Falling
  <2>1. i + k \in 1..n /\ j + k \in 1..n /\ i + k < j + k BY <1>1, <1>3
  <2>2. past[i + k] >= past[j + k] /\ past[i + k] \in Nat /\ past[j + k] \in Nat
    BY <1>1, <1>4, <2>1
  <2> QED BY <1>9, <2>2
<1>13. Matching'
  <2> SUFFICES ASSUME NEW j \in Nat
               PROVE  /\ m - j > 0 /\ (n - k) - j > 0 => failures'[m - j] = Clipped(past'[(n - k) - j])
                      /\ m - j > 0 /\ (n - k) - j <= 0 => failures'[m - j] > W
                      /\ m - j <= 0 /\ (n - k) - j > 0 => past'[(n - k) - j] > W
    <3>1. SUFFICES ASSUME NEW j \in Nat
                   PROVE  /\ Len(failures') - j > 0 /\ Len(past') - j > 0
                               => failures'[Len(failures') - j] = Clipped(past'[Len(past') - j])
                          /\ Len(failures') - j > 0 /\ Len(past') - j <= 0
                               => failures'[Len(failures') - j] > W
                          /\ Len(failures') - j <= 0 /\ Len(past') - j > 0
                               => past'[Len(past') - j] > W
      BY DEF Matching, W, Clipped
    <3> DEFINE a == Len(failures') - j
               b == Len(past') - j
    <3>2. a = m - j /\ b = (n - k) - j BY <1>8, <1>9, Zenon
    <3> HIDE DEF a, b
    <3>3. /\ a > 0 /\ b > 0 => failures'[a] = Clipped(past'[b])
          /\ a > 0 /\ b <= 0 => failures'[a] > W
          /\ a <= 0 /\ b > 0 => past'[b] > W
      BY <3>2
    <3> QED BY <3>3 DEF a, b
  <2>1. /\ m - j > 0 /\ n - j > 0 => failures[m - j] = Clipped(past[n - j])
        /\ m - j > 0 /\ n - j <= 0 => failures[m - j] > W
        /\ m - j <= 0 /\ n - j > 0 => past[n - j] > W
    BY <1>6
  <2>2. CASE (n - k) - j > 0
    <3>1. (n - k) - j \in 1..(n - k) /\ ((n - k) - j) + k = n - j /\ n - j \in 1..n /\ n - j > 0
      BY <1>1, <1>3, <2>2
    <3>2. past'[(n - k) - j] = past[n - j] + 1 /\ past[n - j] \in Nat BY <1>1, <1>9, <3>1
    <3>3. CASE m - j > 0
      <4>1. m - j \in 1..m BY <1>1, <3>3
      <4>2. failures[m - j] = Clipped(past[n - j]) BY <2>1, <3>1, <3>3
      <4>3. failures'[m - j] = IF failures[m - j] <= W THEN failures[m - j] + 1 ELSE failures[m - j]
        BY <1>8, <4>1
      <4>4. failures'[m - j] = Clipped(past[n - j] + 1)
        BY <1>1, <3>2, <4>2, <4>3 DEF Clipped, W
      <4> QED BY <1>1, <2>2, <3>2, <3>3, <4>4
    <3>4. CASE ~(m - j > 0)
      <4>1. past[n - j] > W BY <1>1, <2>1, <3>1, <3>4
      <4> QED BY <1>1, <3>2, <3>4, <4>1
    <3> QED BY <3>3, <3>4
  <2>3. CASE ~((n - k) - j > 0)
    <3> SUFFICES ASSUME m - j > 0 PROVE failures'[m - j] > W
      BY <1>1, <1>3, <2>3
    <3>1. m - j \in 1..m BY <1>1
    <3>2. failures[m - j] > W
      <4>1. CASE n - j > 0
        <5>1. n - j \in 1..k /\ n - j \in 1..n BY <1>1, <1>3, <2>3, <4>1
        <5>2. past[n - j] >= W + B /\ past[n - j] \in Nat BY <1>1, <1>5, <5>1
        <5>3. failures[m - j] = Clipped(past[n - j]) BY <2>1, <4>1
        <5>4. ~(past[n - j] <= W) BY <1>1, <5>2
        <5>5. failures[m - j] = W + 1 BY <5>3, <5>4 DEF Clipped, W
        <5> QED BY <1>1, <5>5
      <4>2. CASE ~(n - j > 0) BY <1>1, <2>1, <4>2
      <4> QED BY <4>1, <4>2
    <3>3. failures'[m - j] = failures[m - j] BY <1>1, <1>8, <3>1, <3>2
    <3> QED BY <3>2, <3>3
  <2> QED BY <2>2, <2>3
<1>14. /\ \A i \in 1..n : Rapid(i) => past[i + T - 1] + pause >= B
       /\ pause > 0 => \E i \in 1..n : Rapid(i) /\ past[i + T - 1] + pause = B
  BY <1>1 DEF Breaker, Pausing, T, B
<1>15. /\ \A i \in 1..n : Rapid(i) <=> i + T - 1 \in 1..n /\ past[i] <= past[i + T - 1] + W
       /\ \A i \in 1..(n - k) :
            Rapid(i)' <=> i + T - 1 \in 1..(n - k) /\ past'[i] <= past'[i + T - 1] + W
  BY <1>1, <1>9 DEF Rapid, T, W
<1>16. ASSUME NEW i \in 1..(n - k), i + T - 1 \in 1..(n - k)
       PROVE  /\ (i + k) \in 1..n /\ (i + k) + T - 1 \in 1..n
              /\ past'[i] = past[i + k] + 1 /\ past'[i + T - 1] = past[(i + k) + T - 1] + 1
              /\ past[i + k] \in Nat /\ past[(i + k) + T - 1] \in Nat
  <2>1. i + k \in 1..n /\ (i + k) + T - 1 \in 1..n /\ (i + T - 1) + k = (i + k) + T - 1
    BY <1>1, <1>3, <1>16
  <2>2. past'[i] = past[i + k] + 1 /\ past'[i + T - 1] = past[(i + T - 1) + k] + 1 BY <1>9, <1>16
  <2> QED BY <1>1, <2>1, <2>2
<1>17. ASSUME NEW i \in 1..(n - k), Rapid(i)' PROVE past'[i + T - 1] + pause' >= B
  <2>1. i + T - 1 \in 1..(n - k) /\ past'[i] <= past'[i + T - 1] + W BY <1>15, <1>17
  <2> DEFINE g == i + k
             e == (i + k) + T - 1
  <2>2. /\ g \in 1..n /\ e \in 1..n /\ e = g + T - 1
        /\ past'[i] = past[g] + 1 /\ past'[i + T - 1] = past[e] + 1
        /\ past[g] \in Nat /\ past[e] \in Nat
    BY <1>16, <2>1
  <2> HIDE DEF g, e
  <2>3. past[g] <= past[e] + W BY <1>1, <2>1, <2>2
  <2>4. past[e] + pause >= B
    <3>1. \A x \in 1..n : Rapid(x) => past[x + T - 1] + pause >= B BY <1>14
    <3>2. PICK x \in 1..n : x = g BY <2>2
    <3>3. x + T - 1 = e BY <2>2, <3>2
    <3>4. Rapid(x) BY <1>15, <2>2, <2>3, <3>2, <3>3
    <3> QED BY <3>1, <3>3, <3>4
  <2> QED BY <1>1, <1>7, <2>2, <2>4
<1>18. ASSUME pause' > 0
       PROVE  \E i \in 1..(n - k) : Rapid(i)' /\ past'[i + T - 1] + pause' = B
  <2>1. pause > 0 /\ pause' = pause - 1 BY <1>1, <1>7, <1>18
  <2>2. PICK g \in 1..n : Rapid(g) /\ past[g + T - 1] + pause = B BY <1>14, <2>1
  <2>3. g + T - 1 \in 1..n /\ past[g] <= past[g + T - 1] + W BY <1>15, <2>2
  <2>4. past[g] \in Nat /\ past[g + T - 1] \in Nat BY <1>1, <2>3
  <2>5. past[g] < W + B BY <1>1, <2>1, <2>2, <2>3, <2>4
  <2>6. g > k
    <3>1. g <= k => past[g] >= W + B BY <1>1, <1>5
    <3> QED BY <1>1, <1>3, <2>4, <2>5, <3>1
  <2>7. PICK i \in 1..(n - k) : i + k = g
    <3>1. g - k \in 1..(n - k) /\ (g - k) + k = g BY <1>1, <1>3, <2>6
    <3> QED BY <3>1
  <2>8. i + T - 1 \in 1..(n - k) /\ (i + k) + T - 1 = g + T - 1 BY <1>1, <1>3, <2>3, <2>7
  <2>9. past'[i] = past[g] + 1 /\ past'[i + T - 1] = past[g + T - 1] + 1 BY <1>16, <2>7, <2>8
  <2>10. past'[i] <= past'[i + T - 1] + W BY <1>1, <2>3, <2>4, <2>9
  <2>11. Rapid(i)' BY <1>15, <2>8, <2>10
  <2>12. past'[i + T - 1] + pause' = B BY <1>1, <2>1, <2>2, <2>4, <2>9
  <2> QED BY <2>11, <2>12
<1>19. Pausing' BY <1>9, <1>17, <1>18 DEF Pausing, T, B
<1> QED BY <1>8, <1>9, <1>10, <1>11, <1>12, <1>13, <1>19 DEF Breaker, W, B

NoFailure == failures = <<>> /\ past = <<>> /\ pause = 0

LEMMA BreakerStarts == NoFailure => Breaker
<1> SUFFICES ASSUME failures = <<>>, past = <<>>, pause = 0 PROVE Breaker
  BY DEF NoFailure
<1>1. /\ failures \in Seq(0..FailureWindow + 1) /\ past \in Seq(0..FailureWindow + BreakDuration)
      /\ DOMAIN failures = {} /\ DOMAIN past = {} /\ Len(failures) = 0 /\ Len(past) = 0
  BY EmptySeq
<1>2. pause \in 0..BreakDuration BY CliNumbers
<1>3. Falling(failures) /\ Falling(past) BY <1>1 DEF Falling
<1>4. Matching BY <1>1 DEF Matching
<1>5. Pausing BY <1>1 DEF Pausing
<1> QED BY <1>1, <1>2, <1>3, <1>4, <1>5 DEF Breaker

LEMMA BreakerClears == ASSUME BreakerCleared PROVE Breaker'
<1>1. NoFailure' BY DEF BreakerCleared, NoFailure
<1>2. NoFailure' => Breaker' BY BreakerStarts, PTL
<1> QED BY <1>1, <1>2

LEMMA BreakerStays == ASSUME Breaker, UNCHANGED <<failures, past, pause>> PROVE Breaker'
<1>1. Falling(failures)' /\ Falling(past)' BY DEF Breaker, Falling
<1>2. Matching' BY DEF Breaker, Matching
<1>3. Pausing'
  <2>1. \A i \in DOMAIN past : Rapid(i)' = Rapid(i) BY DEF Rapid
  <2> QED BY <2>1 DEF Breaker, Pausing
<1> QED BY <1>1, <1>2, <1>3 DEF Breaker

\* A break is on exactly when the last failures were rapid.
LEMMA PauseIsBreak == ASSUME Breaker PROVE pause > 0 <=> Broken
<1> DEFINE n == Len(past)
<1>1. /\ FailureWindow \in Nat /\ BreakDuration \in Nat
      /\ FailureThreshold \in Nat /\ FailureThreshold > 0
      /\ n \in Nat /\ DOMAIN past = 1..n /\ \A i \in 1..n : past[i] \in Nat
      /\ pause \in Nat
  BY CliNumbers, LenNat DEF Breaker
<1>2. /\ \A i \in 1..n : Rapid(i) => past[i + FailureThreshold - 1] + pause >= BreakDuration
      /\ pause > 0 => \E i \in 1..n : /\ Rapid(i)
                                      /\ past[i + FailureThreshold - 1] + pause = BreakDuration
  BY <1>1 DEF Breaker, Pausing
<1>3. \A i \in 1..n : Rapid(i) <=>
         /\ i + FailureThreshold - 1 \in 1..n
         /\ past[i] <= past[i + FailureThreshold - 1] + FailureWindow
  BY <1>1 DEF Rapid
<1>4. Broken <=> \E i \in 1..n : /\ i + FailureThreshold - 1 \in 1..n
                                /\ past[i] - past[i + FailureThreshold - 1] <= FailureWindow
                                /\ past[i + FailureThreshold - 1] < BreakDuration
  BY <1>1 DEF Broken
<1> HIDE DEF n
<1>5. ASSUME NEW i \in 1..n, i + FailureThreshold - 1 \in 1..n
      PROVE  past[i] - past[i + FailureThreshold - 1] <= FailureWindow
               <=> past[i] <= past[i + FailureThreshold - 1] + FailureWindow
  <2>1. past[i] \in Nat /\ past[i + FailureThreshold - 1] \in Nat BY <1>1, <1>5
  <2> QED BY <1>1, <2>1
<1>6. ASSUME pause > 0 PROVE Broken
  <2>1. PICK i \in 1..n : Rapid(i) /\ past[i + FailureThreshold - 1] + pause = BreakDuration
    BY <1>2, <1>6
  <2>2. i + FailureThreshold - 1 \in 1..n /\ past[i + FailureThreshold - 1] \in Nat
    BY <1>1, <1>3, <2>1
  <2>3. past[i + FailureThreshold - 1] < BreakDuration BY <1>1, <1>6, <2>1, <2>2
  <2> QED BY <1>3, <1>4, <1>5, <2>1, <2>2, <2>3
<1>7. ASSUME Broken PROVE pause > 0
  <2>1. PICK i \in 1..n : /\ i + FailureThreshold - 1 \in 1..n
                          /\ past[i] - past[i + FailureThreshold - 1] <= FailureWindow
                          /\ past[i + FailureThreshold - 1] < BreakDuration
    BY <1>4, <1>7
  <2>2. Rapid(i) /\ past[i + FailureThreshold - 1] \in Nat BY <1>1, <1>3, <1>5, <2>1
  <2>3. past[i + FailureThreshold - 1] + pause >= BreakDuration BY <1>2, <2>2
  <2> QED BY <1>1, <2>1, <2>2, <2>3
<1> QED BY <1>6, <1>7

\* The calls.
CallsOK ==
  /\ cpc \in [Calls -> {"idle", "child", "backoff"} \cup Result]
  /\ attempt \in [Calls -> 0..CliAttempts]
  /\ spoiled \subseteq Calls /\ dying \subseteq Calls /\ strays \subseteq Calls
  /\ shim \in BOOLEAN /\ stopping \in BOOLEAN

LEMMA CliInvMeans == CliInv <=> Breaker /\ CallsOK /\ Counted
<1> QED BY DEF CliInv, CliTypeOK, Breaker, CallsOK

LEMMA CliInvInit == CliInit => CliInv
<1> SUFFICES ASSUME CliInit PROVE CliInv
  OBVIOUS
<1>1. Breaker BY BreakerStarts DEF CliInit, NoFailure
<1>2. 0 \in 0..CliAttempts BY CliNumbers
<1>3. cpc = [c \in Calls |-> "idle"] /\ attempt = [c \in Calls |-> 0] BY DEF CliInit
<1>4. /\ cpc \in [Calls -> {"idle", "child", "backoff"} \cup Result]
      /\ attempt \in [Calls -> 0..CliAttempts]
  BY <1>2, <1>3
<1>5. CallsOK BY <1>4 DEF CliInit, CallsOK
<1>6. Counted BY <1>3 DEF Counted
<1> QED BY <1>1, <1>5, <1>6, CliInvMeans

LEMMA SpawnedOrRefused ==
  ASSUME CallsOK, Counted, NEW c \in Calls, cpc[c] \in {"idle", "backoff"}, Spawns(c) \/ Refuses(c),
         UNCHANGED <<spoiled, dying, shim, strays, stopping>>
  PROVE  CallsOK' /\ Counted'
<1>1. attempt[c] + 1 \in 0..CliAttempts BY CliNumbers DEF CallsOK, Counted
<1>2. /\ cpc' \in [Calls -> {"idle", "child", "backoff"} \cup Result]
      /\ attempt' \in [Calls -> 0..CliAttempts]
      /\ cpc'[c] \in {"child", "refused"}
      /\ \A d \in Calls : d # c => cpc'[d] = cpc[d] /\ attempt'[d] = attempt[d]
  BY <1>1 DEF Spawns, Refuses, CallsOK, Result
<1>3. CallsOK' BY <1>2 DEF CallsOK
<1>4. Counted' BY <1>2 DEF Counted
<1> QED BY <1>3, <1>4

LEMMA FailsKeeps == ASSUME CliInv, NEW c \in Calls, Fails(c) PROVE CliInv'
<1>1. Breaker' BY FailureRecorded, CliInvMeans DEF Fails
<1>2. CallsOK /\ Counted BY CliInvMeans
<1>3. /\ cpc' = [cpc EXCEPT ![c] = IF attempt[c] < CliAttempts THEN "backoff" ELSE "failed"]
      /\ attempt' = attempt
      /\ spoiled' = spoiled \ {c} /\ dying' = dying \ {c} /\ strays' = strays \ {c}
      /\ UNCHANGED <<shim, stopping>>
  BY DEF Fails, Settled
<1>4. CallsOK' BY <1>2, <1>3 DEF CallsOK, Result
<1>5. Counted' BY <1>2, <1>3 DEF Counted, CallsOK
<1> QED BY <1>1, <1>4, <1>5, CliInvMeans, PTL

LEMMA SucceedsKeeps == ASSUME CliInv, NEW c \in Calls, Succeeds(c) PROVE CliInv'
<1>1. Breaker' BY BreakerClears DEF Succeeds
<1>2. CallsOK /\ Counted BY CliInvMeans
<1>3. /\ cpc' = [cpc EXCEPT ![c] = "answered"] /\ attempt' = attempt
      /\ spoiled' = spoiled \ {c} /\ dying' = dying \ {c} /\ strays' = strays \ {c}
      /\ UNCHANGED <<shim, stopping>>
  BY DEF Succeeds, Settled
<1>4. CallsOK' BY <1>2, <1>3 DEF CallsOK, Result
<1>5. Counted' BY <1>2, <1>3 DEF Counted, CallsOK
<1> QED BY <1>1, <1>4, <1>5, CliInvMeans, PTL

LEMMA CliInvStep == ASSUME CliInv, [CliNext]_cliVars PROVE CliInv'
<1>1. Breaker /\ CallsOK /\ Counted BY CliInvMeans
<1>2. Breaker' /\ CallsOK' /\ Counted' => CliInv' BY CliInvMeans, PTL
<1>3. ASSUME NEW c \in Calls, RunCli(c) \/ Retry(c) PROVE CliInv'
  <2>1. /\ cpc[c] \in {"idle", "backoff"} /\ (Spawns(c) \/ Refuses(c))
        /\ UNCHANGED <<failures, pause, past, spoiled, dying, shim, strays, stopping>>
    BY <1>3 DEF RunCli, Retry
  <2>2. CallsOK' /\ Counted'
    BY <1>1, <1>3, <2>1, SpawnedOrRefused DEF RunCli, Retry
  <2> QED BY <1>1, <1>2, <2>1, <2>2, BreakerStays
<1>4. ASSUME NEW c \in Calls, Taken(c) PROVE CliInv'
  <2>1. /\ cpc' = [cpc EXCEPT ![c] = "idle"] /\ attempt' = [attempt EXCEPT ![c] = 0]
        /\ UNCHANGED <<failures, pause, past, spoiled, dying, shim, strays, stopping>>
    BY <1>4 DEF Taken
  <2>2. CallsOK' BY <1>1, <2>1, CliNumbers DEF CallsOK
  <2>3. Counted' BY <1>1, <2>1 DEF Counted, CallsOK
  <2> QED BY <1>1, <1>2, <2>1, <2>2, <2>3, BreakerStays
<1>5. ASSUME NEW c \in Calls, ExitsCleanly(c) \/ ExitsBadly(c) PROVE CliInv'
  BY <1>5, FailsKeeps, SucceedsKeeps DEF ExitsCleanly, ExitsBadly
<1>6. ASSUME NEW c \in Calls, RunsOut(c) PROVE CliInv'
  <2>1. /\ spoiled' = spoiled \cup {c} /\ dying' = dying \cup {c}
        /\ UNCHANGED <<failures, pause, past, cpc, attempt, shim, strays, stopping>>
    BY <1>6 DEF RunsOut
  <2>2. CallsOK' /\ Counted' BY <1>1, <2>1 DEF CallsOK, Counted
  <2> QED BY <1>1, <1>2, <2>1, <2>2, BreakerStays
<1>7. ASSUME NEW c \in Calls, Dies(c) PROVE CliInv'
  <2>1. CASE Fails(c) BY <2>1, FailsKeeps
  <2>2. CASE /\ strays' = strays \cup {c}
             /\ UNCHANGED <<failures, pause, past, cpc, attempt, spoiled, dying, shim, stopping>>
    <3>1. CallsOK' /\ Counted' BY <1>1, <2>2 DEF CallsOK, Counted
    <3> QED BY <1>1, <1>2, <2>2, <3>1, BreakerStays
  <2> QED BY <1>7, <2>1, <2>2 DEF Dies
<1>8. CASE KillAllInflight
  <2>1. /\ stopping' = TRUE /\ dying' = dying \cup {c \in Calls : Child(c)}
        /\ UNCHANGED <<failures, pause, past, cpc, attempt, spoiled, shim, strays>>
    BY <1>8 DEF KillAllInflight
  <2>2. CallsOK' /\ Counted' BY <1>1, <2>1 DEF CallsOK, Counted
  <2> QED BY <1>1, <1>2, <2>1, <2>2, BreakerStays
<1>9. CASE ProcessExits
  <2>1. /\ cpc' = [c \in Calls |-> "idle"] /\ attempt' = [c \in Calls |-> 0]
        /\ spoiled' = {} /\ dying' = {} /\ strays' = {} /\ stopping' = FALSE
        /\ UNCHANGED shim
    BY <1>9 DEF ProcessExits
  <2>3. 0 \in 0..CliAttempts BY CliNumbers
  <2>4. /\ cpc' \in [Calls -> {"idle", "child", "backoff"} \cup Result]
        /\ attempt' \in [Calls -> 0..CliAttempts]
    BY <2>1, <2>3
  <2>5. CallsOK' BY <1>1, <2>1, <2>4 DEF CallsOK
  <2>6. Counted' BY <2>1 DEF Counted
  <2>2. CallsOK' /\ Counted' BY <2>5, <2>6
  <2> QED BY <1>2, <1>9, <2>2, BreakerClears DEF ProcessExits
<1>10. CASE Tick
  <2>1. CallsOK' /\ Counted' BY <1>1, <1>10 DEF Tick, CallsOK, Counted
  <2> QED BY <1>1, <1>2, <1>10, <2>1, TimePasses
<1>11. CASE UNCHANGED cliVars
  <2>1. CallsOK' /\ Counted' BY <1>1, <1>11 DEF cliVars, CallsOK, Counted
  <2>2. UNCHANGED <<failures, past, pause>> BY <1>11 DEF cliVars
  <2> QED BY <1>1, <1>2, <2>1, <2>2, BreakerStays
<1> QED BY <1>3, <1>4, <1>5, <1>6, <1>7, <1>8, <1>9, <1>10, <1>11 DEF CliNext, CliStep

\* Who spawns has seen the breaker closed, who is refused has seen it open.
LEMMA BreakerStep ==
  ASSUME CliInv, CliNext, NEW c \in Calls, cpc[c] \in {"idle", "backoff"}
  PROVE  /\ cpc'[c] = "child" => ~Broken
         /\ cpc'[c] = "refused" => Broken
<1> DEFINE Goal == /\ cpc'[c] = "child" => ~Broken
                   /\ cpc'[c] = "refused" => Broken
<1>1. pause > 0 <=> Broken BY PauseIsBreak, CliInvMeans
<1>2. cpc \in [Calls -> {"idle", "child", "backoff"} \cup Result] BY CliInvMeans DEF CallsOK
<1>3. cpc[c] \notin {"child", "refused"} OBVIOUS
<1>4. ASSUME NEW d \in Calls, RunCli(d) \/ Retry(d) PROVE Goal
  <2>1. CASE d = c
    <3>1. IF CircuitOpen THEN Refuses(c) ELSE Spawns(c) BY <1>4, <2>1 DEF RunCli, Retry
    <3>2. CASE pause > 0
      <4>1. cpc'[c] = "refused" BY <1>2, <3>1, <3>2 DEF CircuitOpen, Refuses
      <4> QED BY <1>1, <3>2, <4>1
    <3>3. CASE ~(pause > 0)
      <4>1. cpc'[c] = "child" BY <1>2, <3>1, <3>3 DEF CircuitOpen, Spawns
      <4> QED BY <1>1, <3>3, <4>1
    <3> QED BY <3>2, <3>3
  <2>2. CASE d # c
    <3>1. cpc'[c] = cpc[c] BY <1>2, <1>4, <2>2 DEF RunCli, Retry, Spawns, Refuses
    <3> QED BY <1>3, <3>1
  <2> QED BY <2>1, <2>2
<1>5. ASSUME NEW d \in Calls, Taken(d) \/ ExitsCleanly(d) \/ ExitsBadly(d) \/ RunsOut(d) \/ Dies(d)
      PROVE  Goal
  <2>1. cpc'[c] = cpc[c] \/ cpc'[c] = "idle" \/ cpc'[c] \in {"backoff", "failed", "answered"}
    BY <1>2, <1>5 DEF Taken, ExitsCleanly, ExitsBadly, RunsOut, Dies, Fails, Succeeds
  <2> QED BY <1>3, <2>1
<1>6. CASE KillAllInflight \/ ProcessExits \/ Tick
  <2>1. cpc'[c] = cpc[c] \/ cpc'[c] = "idle" BY <1>6 DEF KillAllInflight, ProcessExits, Tick
  <2> QED BY <1>3, <2>1
<1> QED BY <1>4, <1>5, <1>6 DEF CliNext, CliStep

\* "3 failures in 60s opens a 60s break": for any number of concurrent calls,
\* any threshold, window and break, no child is spawned during a break and no
\* call refused outside one (src/providers/cli-runner.ts).
THEOREM BreakerAlwaysKeepsWord == CliSpec => BreakerKeepsWord
<1>1. CliInv /\ [CliNext]_cliVars =>
        [\A c \in Calls :
           /\ cpc[c] \in {"idle", "backoff"} /\ cpc'[c] = "child" => ~Broken
           /\ cpc[c] \in {"idle", "backoff"} /\ cpc'[c] = "refused" => Broken]_cliVars
  BY BreakerStep
<1> QED BY CliInvInit, CliInvStep, <1>1, PTL DEF CliSpec, BreakerKeepsWord

---------------------------------------------------------------------------
(* Generation: what is stored fits the scenes                              *)

Whys == {"none", "form", "content", "count", "beats"}
Jobs == [step : Steps \cup {NoStep}, pc : {"idle", "ask", "store"}, seen : SUBSET Names,
         tries : 0 .. 2, why : Whys, kept : [of : SUBSET Entry, n : Nat]]

\* What a step asks for and what it saves belong together.
LEMMA StepFacts ==
  ASSUME NEW s \in Steps
  PROVE  /\ s.op # "none" /\ s # NoStep
         /\ s.op \in {"requirements", "episodePlan", "match", "scenesV1", "scenesV2", "scripts", "hooks",
                      "shots", "titles", "thumbs", "shorts", "metadata", "score", "transform",
                      "critique", "revise", "research"}
         /\ s.saves = "scripts" <=> s.op = "scripts"
         /\ s.saves = "shots" <=> s.op = "shots"
         /\ s.saves = "candidates" <=> s.op = "shorts"
         /\ s.saves = "metadata" <=> s.op = "metadata"
         /\ s.saves = "advice" <=> s.op \in {"critique", "revise"}
         /\ s.saves = "scenes" <=> s.op \in {"scenesV1", "scenesV2"}
         /\ s.op = "scenesV2" <=> s = GenerateScenesV2
BY DEF Steps, Step, NoStep, DetectRequirementsCoverLetter, DetectRequirementsYoutubeAdvanced,
       MatchProjects, GenerateScenesV1, GenerateScenesV2, WriteScripts, GenerateHookVariants,
       GenerateShotList, GenerateTitleVariants, GenerateThumbnailConcepts, ExtractShortsCandidates,
       GeneratePublishMetadata, ScoreBriefViaLLM, TransformBrief, CritiquePlan, RevisePlan,
       RunResearch

\* An answer is Garbage, or names a few things.
LEMMA AnswerEntries ==
  ASSUME NEW a \in Answers
  PROVE  Entries(a) \subseteq Entry /\ Len(a) \in Nat
<1>1. MaxEntries \in Nat \/ 0 .. MaxEntries = {} \/ TRUE OBVIOUS
<1>2. PICK n \in 0 .. MaxEntries : a \in [1 .. n -> Entry] BY DEF Answers, Entry
<1>3. Entries(a) \subseteq Entry BY <1>2 DEF Entries
<1>4. n \in Nat BY <1>2
<1>5. a \in Seq(Entry) BY <1>2, <1>4, SeqDef
<1>6. Len(a) \in Nat BY <1>5
<1> QED BY <1>3, <1>6

LEMMA NothingAsked ==
  /\ NoJob \in Jobs /\ NoJob.pc = "idle" /\ NoStep \in {NoStep}
  /\ NoLast.op = "none" /\ NoLast.why = "none" /\ NoLast.of = {} /\ NoLast.n = 0
BY DEF NoJob, NoStep, Jobs, Whys, NoLast

LEMMA TypeMeans ==
  GenTypeOK <=> /\ spent \in 0 .. MaxNames /\ present \subseteq 1 .. spent
                /\ job \in Jobs
                /\ last \in [op : {s.op : s \in Steps} \cup {"none"}, why : Whys,
                             of : SUBSET Entry, n : Nat]
BY DEF GenTypeOK, Jobs, Whys

LEMMA GenInvInit == GenInit => GenInv
<1> SUFFICES ASSUME GenInit PROVE GenInv
  OBVIOUS
<1>1. present = {} /\ spent = 0 /\ job = NoJob /\ last = NoLast BY DEF GenInit
<1>2. last \in [op : {s.op : s \in Steps} \cup {"none"}, why : Whys, of : SUBSET Entry, n : Nat]
  BY <1>1 DEF NoLast, Whys
<1>3. GenTypeOK BY <1>1, <1>2, NothingAsked, NamesAssumption, TypeMeans
<1>4. Accepted BY <1>1, NothingAsked DEF Accepted
<1>5. AnswersFit BY <1>1, NothingAsked DEF AnswersFit
<1> QED BY <1>3, <1>4, <1>5 DEF GenInv

\* What was accepted fits what was read, once only what cites something
\* known is taken over.
LEMMA AcceptedFits ==
  ASSUME NEW s \in Steps, NEW a \in Answers, NEW seen, NEW of,
         of = TakenOver(s, a, seen),
         Accepts(s, a, seen) \/ s = GenerateScenesV2
  PROVE  /\ of \subseteq Entry
         /\ s.op = "scripts"  => of = seen
         /\ s.op = "shots"    => seen \subseteq of
         /\ s.op = "shorts"   => of \subseteq seen /\ Len(a) \in Sizes
         /\ s.op = "metadata" => Len(a) = Cardinality(seen)
         /\ s.op \in {"critique", "revise"} => of \subseteq Names
         /\ s.op = "scenesV2" /\ Accepts(s, a, seen) => Len(a) \in Sizes
<1>1. Entries(a) \subseteq Entry BY AnswerEntries
<1>2. /\ s.op = "scripts"  => of = Entries(a) \cap seen
      /\ s.op = "critique" => of = Entries(a) \cap Names
      /\ s.op = "revise"   => of = Entries(a) \cap Names
      /\ s.op \notin {"scripts", "critique", "revise"} => of = Entries(a)
  BY StepFacts DEF TakenOver, KnownReferences, Coverage
<1>3. s.op # "scenesV2" => Accepts(s, a, seen) BY StepFacts
<1>4. Accepts(s, a, seen) =>
        /\ s.op = "scripts"  => Scripts(a, seen)
        /\ s.op = "shots"    => ShotList(a, seen)
        /\ s.op = "shorts"   => Candidates(a, seen)
        /\ s.op = "metadata" => Metadata(a, seen)
        /\ s.op = "scenesV2" => SceneCount(a)
  BY DEF Accepts
<1>5. of \subseteq Entry BY <1>1, <1>2
<1>6. s.op = "scripts" => of = seen BY <1>2, <1>3, <1>4 DEF Scripts
<1>7. s.op = "shots" => seen \subseteq of BY <1>2, <1>3, <1>4 DEF ShotList
<1>8. s.op = "shorts" => of \subseteq seen /\ Len(a) \in Sizes BY <1>2, <1>3, <1>4 DEF Candidates
<1>9. s.op = "metadata" => Len(a) = Cardinality(seen) BY <1>3, <1>4 DEF Metadata
<1>10. s.op \in {"critique", "revise"} => of \subseteq Names BY <1>2
<1>11. s.op = "scenesV2" /\ Accepts(s, a, seen) => Len(a) \in Sizes BY <1>4 DEF SceneCount
<1> QED BY <1>5, <1>6, <1>7, <1>8, <1>9, <1>10, <1>11

\* An answer is kept: nothing of it is stored yet.
LEMMA KeepFits ==
  ASSUME GenInv, job.pc # "idle", NEW a \in Answers, Keep(a),
         \/ Accepts(job.step, a, job.seen)
         \/ job.step = GenerateScenesV2 /\ job.why = "beats",
         UNCHANGED <<present, spent, last>>
  PROVE  GenInv'
<1> DEFINE of == TakenOver(job.step, a, job.seen)
<1>1. job.step \in Steps /\ GenTypeOK /\ job \in Jobs BY TypeMeans DEF GenInv, Accepted
<1>2. CASE job.step.saves = "text"
  <2>1. job' = NoJob BY <1>2 DEF Keep
  <2>2. GenTypeOK' BY <1>1, <2>1, NothingAsked, TypeMeans DEF GenTypeOK, Jobs, Whys
  <2>3. Accepted' BY <2>1, NothingAsked DEF Accepted
  <2>4. AnswersFit' BY DEF GenInv, AnswersFit
  <2> QED BY <2>2, <2>3, <2>4 DEF GenInv
<1>3. CASE job.step.saves # "text"
  <2>1. job' = [job EXCEPT !.pc = "store", !.kept = [of |-> of, n |-> Len(a)]]
    BY <1>3 DEF Keep
  <2>2. /\ job'.step = job.step /\ job'.seen = job.seen /\ job'.why = job.why
        /\ job'.pc = "store" /\ job'.kept.of = of /\ job'.kept.n = Len(a)
    BY <1>1, <2>1 DEF Jobs
  <2>3. Len(a) \in Nat BY AnswerEntries
  <2>4. /\ of \subseteq Entry
        /\ job.step.op = "scripts"  => of = job.seen
        /\ job.step.op = "shots"    => job.seen \subseteq of
        /\ job.step.op = "shorts"   => of \subseteq job.seen /\ Len(a) \in Sizes
        /\ job.step.op = "metadata" => Len(a) = Cardinality(job.seen)
        /\ job.step.op \in {"critique", "revise"} => of \subseteq Names
        /\ job.step.op = "scenesV2" /\ job.why # "beats" => Len(a) \in Sizes
    <3>1. job.step \in Steps /\ of = TakenOver(job.step, a, job.seen) BY <1>1
    <3> HIDE DEF of
    <3>2. Accepts(job.step, a, job.seen) \/ job.step = GenerateScenesV2
      OBVIOUS
    <3>3. /\ of \subseteq Entry
          /\ job.step.op = "scripts"  => of = job.seen
          /\ job.step.op = "shots"    => job.seen \subseteq of
          /\ job.step.op = "shorts"   => of \subseteq job.seen /\ Len(a) \in Sizes
          /\ job.step.op = "metadata" => Len(a) = Cardinality(job.seen)
          /\ job.step.op \in {"critique", "revise"} => of \subseteq Names
          /\ job.step.op = "scenesV2" /\ Accepts(job.step, a, job.seen) => Len(a) \in Sizes
      BY <3>1, <3>2, AcceptedFits
    <3> QED BY <3>3
  <2> HIDE DEF of
  <2>5. job' \in Jobs BY <1>1, <2>1, <2>3, <2>4 DEF Jobs
  <2>6. GenTypeOK' BY <1>1, <2>5 DEF GenTypeOK, Jobs, Whys
  <2>7. Accepted' BY <1>1, <2>2, <2>4 DEF Accepted
  <2>8. AnswersFit' BY DEF GenInv, AnswersFit
  <2> QED BY <2>6, <2>7, <2>8 DEF GenInv
<1> QED BY <1>2, <1>3

\* It is given up, or asked for once more.
LEMMA NotKept ==
  ASSUME GenInv, UNCHANGED <<present, spent, last>>,
         \/ GiveUp
         \/ /\ job.pc = "ask" /\ job.tries < 2
            /\ \E why \in Whys : AskAgain(why)
  PROVE  GenInv'
<1>1. GenTypeOK /\ job \in Jobs BY TypeMeans DEF GenInv
<1>2. /\ job' \in Jobs
      /\ job'.pc # "idle" => job'.pc = "ask" /\ job'.step = job.step /\ job.pc # "idle"
  <2>1. CASE GiveUp BY <2>1, NothingAsked DEF GiveUp
  <2>2. CASE /\ job.pc = "ask" /\ job.tries < 2
             /\ \E why \in Whys : AskAgain(why)
    <3>1. PICK why \in Whys : job' = [job EXCEPT !.tries = @ + 1, !.why = why]
      BY <2>2 DEF AskAgain
    <3>2. job.tries + 1 \in 0 .. 2 BY <1>1, <2>2 DEF Jobs
    <3> QED BY <1>1, <2>2, <3>1, <3>2 DEF Jobs
  <2> QED BY <2>1, <2>2
<1>3. GenTypeOK' BY <1>1, <1>2 DEF GenTypeOK, Jobs, Whys
<1>4. Accepted' BY <1>2 DEF GenInv, Accepted
<1>5. AnswersFit' BY DEF GenInv, AnswersFit
<1> QED BY <1>3, <1>4, <1>5 DEF GenInv

LEMMA RefusalIsWhy == ASSUME NEW s, NEW a PROVE Refusal(s, a) \in Whys
<1> QED BY DEF Refusal, Whys

\* Something is stored, and the step is over.
LEMMA StoredFits ==
  ASSUME GenInv, job' = NoJob, spent' \in 0 .. MaxNames, present' \subseteq 1 .. spent',
         \/ UNCHANGED <<present, last>>
         \/ /\ last' \in [op : {s.op : s \in Steps} \cup {"none"}, why : Whys, of : SUBSET Entry, n : Nat]
            /\ AnswersFit'
  PROVE  GenInv'
<1>1. Accepted' BY NothingAsked DEF Accepted
<1>2. last' \in [op : {s.op : s \in Steps} \cup {"none"}, why : Whys, of : SUBSET Entry, n : Nat]
  BY TypeMeans DEF GenInv
<1>3. GenTypeOK' BY <1>2, NothingAsked DEF GenTypeOK, Jobs, Whys
<1>4. AnswersFit' BY DEF GenInv, AnswersFit
<1> QED BY <1>1, <1>3, <1>4 DEF GenInv

LEMMA Patched ==
  ASSUME GenInv, NEW of, NEW n, Done(of, n), UNCHANGED <<present, spent>>,
         of \subseteq Entry, n \in Nat, job.step \in Steps,
         job.seen = present =>
           /\ job.step.op \in {"scripts", "shots"} => of = present
           /\ job.step.op = "shorts"   => of \subseteq present /\ n \in Sizes
           /\ job.step.op = "metadata" => n = Cardinality(present)
           /\ job.step.op \in {"critique", "revise"} => of \subseteq Names
           /\ job.step.op # "scenesV2"
  PROVE  GenInv'
<1>1. GenTypeOK BY DEF GenInv
<1>2. job' = NoJob /\ spent' \in 0 .. MaxNames /\ present' \subseteq 1 .. spent'
  BY <1>1 DEF GenTypeOK, Done
<1>3. CASE job.seen = present
  <2>1. last' = [op |-> job.step.op, why |-> "none", of |-> of, n |-> n] BY <1>3 DEF Done
  <2>2. last'.op = job.step.op /\ last'.of = of /\ last'.n = n BY <2>1
  <2>3. last' \in [op : {s.op : s \in Steps} \cup {"none"}, why : Whys, of : SUBSET Entry, n : Nat]
    BY <2>1 DEF Whys
  <2>4. AnswersFit' BY <1>3, <2>2 DEF AnswersFit
  <2> QED BY <1>2, <2>3, <2>4, StoredFits
<1>4. CASE job.seen # present
  <2>1. last' = NoLast BY <1>4 DEF Done
  <2>2. AnswersFit' BY <2>1, NothingAsked DEF AnswersFit
  <2>3. last' \in [op : {s.op : s \in Steps} \cup {"none"}, why : Whys, of : SUBSET Entry, n : Nat]
    BY <2>1 DEF NoLast, Whys
  <2> QED BY <1>2, <2>2, <2>3, StoredFits
<1> QED BY <1>3, <1>4

\* What is known of a step that is about to store.
LEMMA AboutToStore ==
  ASSUME GenInv, NEW what, Stores(what)
  PROVE  /\ job.step \in Steps /\ job.step.saves = what
         /\ job.seen \subseteq Names /\ job.kept.of \subseteq Entry /\ job.kept.n \in Nat
         /\ job.why \in Whys
         /\ Cardinality(job.seen) \in Nat
         /\ job.step.op = "scripts"  => job.kept.of = job.seen
         /\ job.step.op = "shots"    => job.seen \subseteq job.kept.of
         /\ job.step.op = "shorts"   => job.kept.of \subseteq job.seen /\ job.kept.n \in Sizes
         /\ job.step.op = "metadata" => job.kept.n = Cardinality(job.seen)
         /\ job.step.op \in {"critique", "revise"} => job.kept.of \subseteq Names
         /\ job.step.op = "scenesV2" /\ job.why # "beats" => job.kept.n \in Sizes
<1>1. job \in Jobs /\ job.pc = "store" /\ job.step.saves = what
  BY TypeMeans DEF GenInv, Stores
<1>2. job.seen \subseteq Names /\ job.kept.of \subseteq Entry /\ job.kept.n \in Nat /\ job.why \in Whys
  BY <1>1 DEF Jobs
<1>3. IsFiniteSet(Names)
  <2>1. 1 \in Int /\ MaxNames \in Int BY NamesAssumption
  <2> QED BY <2>1, FS_Interval DEF Names
<1>4. IsFiniteSet(job.seen) BY <1>2, <1>3, FS_Subset
<1>5. Cardinality(job.seen) \in Nat BY <1>4, FS_CardinalityType
<1> QED BY <1>1, <1>2, <1>5 DEF GenInv, Accepted

LEMMA StoreScenesFits == ASSUME GenInv, StoreScenes PROVE GenInv'
<1>1. /\ job.step \in Steps /\ job.step.saves = "scenes" /\ job.kept.n \in Nat /\ job.why \in Whys
      /\ job.step.op = "scenesV2" /\ job.why # "beats" => job.kept.n \in Sizes
  BY AboutToStore DEF StoreScenes
<1>2. job.step.op \in {"scenesV1", "scenesV2"} BY <1>1, StepFacts
<1>3. spent \in Nat /\ spent <= MaxNames BY NamesAssumption DEF GenInv, GenTypeOK
<1>4. /\ spent' = spent + job.kept.n /\ spent' <= MaxNames
      /\ present' = spent + 1 .. spent'
      /\ last' = [op |-> job.step.op, why |-> job.why, of |-> present', n |-> job.kept.n]
      /\ job' = NoJob
  BY DEF StoreScenes
<1>5. spent' \in 0 .. MaxNames /\ present' \subseteq 1 .. spent' /\ present' \subseteq Names
  BY <1>1, <1>3, <1>4, NamesAssumption DEF Names
<1>6. Cardinality(present') = job.kept.n
  <2>1. spent + 1 \in Int /\ spent' \in Int BY <1>1, <1>3, <1>4
  <2>2. Cardinality(present') = IF spent + 1 > spent' THEN 0 ELSE spent' - (spent + 1) + 1
    BY <1>4, <2>1, FS_Interval
  <2> QED BY <1>1, <1>3, <1>4, <2>2
<1>7. last'.op = job.step.op /\ last'.why = job.why BY <1>4
<1>8. AnswersFit' BY <1>1, <1>2, <1>6, <1>7 DEF AnswersFit
<1>9. last' \in [op : {s.op : s \in Steps} \cup {"none"}, why : Whys, of : SUBSET Entry, n : Nat]
  BY <1>1, <1>4, <1>5 DEF Entry
<1> QED BY <1>4, <1>5, <1>8, <1>9, StoredFits

LEMMA StoreScriptsFits == ASSUME GenInv, StoreScripts PROVE GenInv'
<1>1. /\ job.step \in Steps /\ job.step.saves = "scripts"
      /\ job.seen \subseteq Names /\ Cardinality(job.seen) \in Nat
      /\ job.step.op = "scripts" => job.kept.of = job.seen
  BY AboutToStore DEF StoreScripts
<1>2. job.step.op = "scripts" /\ job.kept.of = job.seen BY <1>1, StepFacts
<1>3. UNCHANGED <<present, spent>> BY DEF StoreScripts
<1>4. CASE Done(job.kept.of, Cardinality(job.seen))
  <2>1. job.kept.of \subseteq Entry BY <1>1, <1>2 DEF Entry
  <2> QED BY <1>1, <1>2, <1>3, <1>4, <2>1, Patched
<1>5. CASE job' = NoJob /\ UNCHANGED last
  BY <1>3, <1>5, NotKept DEF GiveUp
<1> QED BY <1>4, <1>5 DEF StoreScripts

LEMMA StoreShotsFits == ASSUME GenInv, StoreShots PROVE GenInv'
<1> DEFINE of == job.seen \cap job.kept.of \cap present
<1>1. /\ job.step \in Steps /\ job.step.saves = "shots"
      /\ job.kept.of \subseteq Entry /\ Cardinality(job.seen) \in Nat
      /\ job.step.op = "shots" => job.seen \subseteq job.kept.of
  BY AboutToStore DEF StoreShots
<1>2. job.step.op = "shots" BY <1>1, StepFacts
<1>3. Done(of, Cardinality(job.seen)) /\ UNCHANGED <<present, spent>> BY DEF StoreShots
<1>4. of \subseteq Entry /\ (job.seen = present => of = present) BY <1>1, <1>2
<1> HIDE DEF of
<1> QED BY <1>1, <1>2, <1>3, <1>4, Patched

LEMMA StoreCandidatesFits == ASSUME GenInv, StoreCandidates PROVE GenInv'
<1>1. /\ job.step \in Steps /\ job.step.saves = "candidates"
      /\ job.kept.of \subseteq Entry /\ job.kept.n \in Nat
      /\ job.step.op = "shorts" => job.kept.of \subseteq job.seen /\ job.kept.n \in Sizes
  BY AboutToStore DEF StoreCandidates
<1>2. job.step.op = "shorts" BY <1>1, StepFacts
<1>3. Done(job.kept.of, job.kept.n) /\ UNCHANGED <<present, spent>> BY DEF StoreCandidates
<1> QED BY <1>1, <1>2, <1>3, Patched

LEMMA StoreMetadataFits == ASSUME GenInv, StoreMetadata PROVE GenInv'
<1>1. /\ job.step \in Steps /\ job.step.saves = "metadata"
      /\ job.seen \subseteq Names /\ job.kept.n \in Nat
      /\ job.step.op = "metadata" => job.kept.n = Cardinality(job.seen)
  BY AboutToStore DEF StoreMetadata
<1>2. job.step.op = "metadata" BY <1>1, StepFacts
<1>3. Done(job.seen, job.kept.n) /\ UNCHANGED <<present, spent>> BY DEF StoreMetadata
<1>4. job.seen \subseteq Entry BY <1>1 DEF Entry
<1> QED BY <1>1, <1>2, <1>3, <1>4, Patched

LEMMA StoreAdviceFits == ASSUME GenInv, StoreAdvice PROVE GenInv'
<1>1. /\ job.step \in Steps /\ job.step.saves = "advice" /\ job.kept.of \subseteq Entry
      /\ job.step.op \in {"critique", "revise"} => job.kept.of \subseteq Names
  BY AboutToStore DEF StoreAdvice
<1>2. job.step.op \in {"critique", "revise"} BY <1>1, StepFacts
<1>3. /\ last' = [op |-> job.step.op, why |-> "none", of |-> job.kept.of, n |-> 0]
      /\ job' = NoJob /\ UNCHANGED <<present, spent>>
  BY DEF StoreAdvice
<1>4. last'.op = job.step.op /\ last'.of = job.kept.of BY <1>3
<1>5. AnswersFit' BY <1>1, <1>2, <1>4 DEF AnswersFit
<1>6. last' \in [op : {s.op : s \in Steps} \cup {"none"}, why : Whys, of : SUBSET Entry, n : Nat]
  BY <1>1, <1>3 DEF Whys
<1>7. spent' \in 0 .. MaxNames /\ present' \subseteq 1 .. spent' BY <1>3 DEF GenInv, GenTypeOK
<1> QED BY <1>3, <1>5, <1>6, <1>7, StoredFits

\* An edit of the scenes while a step is under way.
LEMMA EditFits ==
  ASSUME GenInv, last' = NoLast, UNCHANGED job,
         spent' \in 0 .. MaxNames, present' \subseteq 1 .. spent'
  PROVE  GenInv'
<1>1. Accepted' BY DEF GenInv, Accepted
<1>2. AnswersFit' BY NothingAsked DEF AnswersFit
<1>3. GenTypeOK' BY DEF GenInv, GenTypeOK, NoLast
<1> QED BY <1>1, <1>2, <1>3 DEF GenInv

LEMMA GenInvStep == ASSUME GenInv, [GenNext]_genVars PROVE GenInv'
<1>1. GenTypeOK /\ job \in Jobs /\ (job.pc # "idle" => job.step \in Steps)
  BY TypeMeans DEF GenInv, Accepted
<1>2. ASSUME NEW step \in Steps, Begin(step) PROVE GenInv'
  <2>1. /\ job' = [NoJob EXCEPT !.step = step, !.pc = "ask",
                          !.seen = IF step.reads THEN present ELSE {}]
        /\ UNCHANGED <<present, spent, last>>
    BY <1>2 DEF Begin
  <2>2. (IF step.reads THEN present ELSE {}) \in SUBSET Names
    BY <1>1, NamesAssumption DEF GenTypeOK, Names
  <2>3. job' \in Jobs /\ job'.pc = "ask" /\ job'.step = step
    BY <2>1, <2>2, NothingAsked DEF Jobs
  <2>4. GenTypeOK' BY <1>1, <2>1, <2>3 DEF GenTypeOK, Jobs, Whys
  <2>5. Accepted' BY <2>3 DEF Accepted
  <2>6. AnswersFit' BY <2>1 DEF GenInv, AnswersFit
  <2> QED BY <2>4, <2>5, <2>6 DEF GenInv
<1>3. ASSUME NEW a \in Answers \cup {Garbage}, FirstAnswer(a) PROVE GenInv'
  <2>1. /\ job.pc = "ask" /\ job.tries = 0 /\ UNCHANGED <<present, spent, last>>
        /\ IF Accepts(job.step, a, job.seen) THEN Keep(a)
           ELSE GiveUp \/ AskAgain(Refusal(job.step, a))
    BY <1>3 DEF FirstAnswer
  <2>2. CASE Accepts(job.step, a, job.seen)
    <3>1. a \in Answers BY <2>2 DEF Accepts
    <3> QED BY <2>1, <2>2, <3>1, KeepFits
  <2>3. CASE ~Accepts(job.step, a, job.seen)
    <3>1. GiveUp \/ \E why \in Whys : AskAgain(why) BY <2>1, <2>3, RefusalIsWhy
    <3> QED BY <2>1, <3>1, NotKept
  <2> QED BY <2>2, <2>3
<1>4. ASSUME NEW a \in Answers \cup {Garbage}, LastAnswer(a) PROVE GenInv'
  <2>1. job.pc = "ask" /\ UNCHANGED <<present, spent, last>> BY <1>4 DEF LastAnswer
  <2>2. CASE GiveUp BY <2>1, <2>2, NotKept
  <2>3. CASE /\ Keep(a) /\ a # Garbage
             /\ \/ Accepts(job.step, a, job.seen)
                \/ job.step = GenerateScenesV2 /\ job.why = "beats"
    BY <2>1, <2>3, KeepFits
  <2> QED BY <1>4, <2>2, <2>3 DEF LastAnswer, Accepts
<1>5. ASSUME NEW a \in Answers \cup {Garbage}, Advice(a) PROVE GenInv'
  <2>1. /\ job.pc = "ask" /\ UNCHANGED <<present, spent, last>>
        /\ IF Accepts(job.step, a, job.seen) THEN Keep(a)
           ELSE IF job.tries < 2 THEN AskAgain(Refusal(job.step, a)) ELSE GiveUp
    BY <1>5 DEF Advice
  <2>2. CASE Accepts(job.step, a, job.seen)
    <3>1. a \in Answers BY <2>2 DEF Accepts
    <3> QED BY <2>1, <2>2, <3>1, KeepFits
  <2>3. CASE ~Accepts(job.step, a, job.seen) /\ job.tries < 2
    <3>1. \E why \in Whys : AskAgain(why) BY <2>1, <2>3, RefusalIsWhy
    <3> QED BY <2>1, <2>3, <3>1, NotKept
  <2>4. CASE GiveUp BY <2>1, <2>4, NotKept
  <2> QED BY <2>1, <2>2, <2>3, <2>4
<1>6. CASE ProviderFails
  <2>1. job.pc = "ask" /\ UNCHANGED <<present, spent, last>> BY <1>6 DEF ProviderFails
  <2>2. GiveUp \/ (job.tries < 2 /\ AskAgain("form")) BY <1>6 DEF ProviderFails
  <2>3. "form" \in Whys BY DEF Whys
  <2> QED BY <2>1, <2>2, <2>3, NotKept
<1>7. CASE WriteFails BY <1>7, NotKept DEF WriteFails
<1>8. CASE AddScene
  <2>1. /\ spent' = spent + 1 /\ spent < MaxNames /\ present' = present \cup {spent'}
        /\ last' = NoLast /\ UNCHANGED job
    BY <1>8 DEF AddScene
  <2>2. spent' \in 0 .. MaxNames /\ present' \subseteq 1 .. spent'
    BY <1>1, <2>1, NamesAssumption DEF GenTypeOK
  <2> QED BY <2>1, <2>2, EditFits
<1>9. CASE DeleteScene
  <2>1. present' \subseteq present /\ last' = NoLast /\ UNCHANGED <<spent, job>>
    BY <1>9 DEF DeleteScene
  <2>2. spent' \in 0 .. MaxNames /\ present' \subseteq 1 .. spent'
    BY <1>1, <2>1 DEF GenTypeOK
  <2> QED BY <2>1, <2>2, EditFits
<1>10. CASE UNCHANGED genVars
  BY <1>10 DEF genVars, GenInv, GenTypeOK, Accepted, AnswersFit
<1> QED BY <1>2, <1>3, <1>4, <1>5, <1>6, <1>7, <1>8, <1>9, <1>10, StoreAdviceFits, StoreScenesFits,
           StoreScriptsFits, StoreShotsFits, StoreCandidatesFits, StoreMetadataFits DEF GenNext

\* What is stored about scenes fits them until they are edited, whichever
\* answer of the model it was taken from, the second one after a refusal
\* included (the validations of src/engine/).
THEOREM AnswersAlwaysFit == GenSpec => []AnswersFit
<1>1. GenInv => AnswersFit BY DEF GenInv
<1> QED BY GenInvInit, GenInvStep, <1>1, PTL DEF GenSpec


---------------------------------------------------------------------------
(* Channel: no run goes on after the quota                                 *)

LEMMA ChannelInvInit == ChannelInit => ChannelInv
<1> SUFFICES ASSUME ChannelInit PROVE ChannelInv
  OBVIOUS
<1> USE CapsNat, RunsNat DEF ChannelInit
<1>1. 100 * consumed <= 95 * cap
  OBVIOUS
<1>2. perf \in [Stacks -> 0..runs] /\ runs \in 0..MaxRuns
  OBVIOUS
<1>3. /\ stackOf \in [Videos -> Stacks] /\ listed \subseteq catalog /\ catalog \subseteq Videos
      /\ cap \in Caps /\ consumed \in Nat /\ try \in 0..YtAttempts
  BY DEF YtAttempts
<1>4. /\ token \in {"none", "live", "revoked"} /\ phase \in {"idle", "stats", "analytics", "upsert"}
      /\ todo \subseteq (IF phase = "upsert" THEN Stacks ELSE listed)
      /\ call \in {"none", "token", "send"}
  OBVIOUS
<1>5. met \in BOOLEAN /\ (met => phase = "idle") /\ (call # "none" => Calling)
  OBVIOUS
<1> QED BY <1>1, <1>2, <1>3, <1>4, <1>5 DEF ChannelInv, ChannelTypeOK

\* A video is skipped, or the run stops; after the quota it always stops.
LEMMA ThrowsKeeps ==
  ASSUME ChannelInv, Calling, NEW code, Throws(code)
  PROVE  /\ phase' \in {phase, "idle"} /\ call' = "none" /\ try' = 0
         /\ listed' \subseteq listed
         /\ phase' = "idle" => listed' = {} /\ todo' = {}
         /\ phase' # "idle" => listed' = listed /\ todo' \subseteq listed
         /\ code = "quota" => phase' = "idle"
BY DEF Throws, Stops, Calling, ChannelInv, ChannelTypeOK

\* A failed call is tried again or thrown.
LEMMA FailureKeeps ==
  ASSUME ChannelInv, Calling, NEW code, CallFails(code), call \in {"token", "send"}
  PROVE  /\ token' \in {token, "none"} /\ call' \in {"none", "token"} /\ try' \in 0..YtAttempts
         /\ phase' \in {phase, "idle"} /\ listed' \subseteq listed
         /\ phase' = "idle" => listed' = {} /\ todo' = {} /\ call' = "none"
         /\ phase' # "idle" => listed' = listed /\ todo' \subseteq listed
         /\ call' # "none" => UNCHANGED <<phase, listed, todo>>
         /\ code = "quota" => phase' = "idle"
<1>1. CASE /\ code = "unauthorized" /\ try = 1
           /\ token' = "none" /\ call' = "token" /\ try' = try + 1
           /\ UNCHANGED <<phase, listed, todo>>
  BY <1>1 DEF ChannelInv, ChannelTypeOK, YtAttempts, Calling
<1>2. CASE /\ code = "retryable" /\ try < YtAttempts
           /\ call' = "token" /\ try' = try + 1
           /\ UNCHANGED <<token, phase, listed, todo>>
  BY <1>2 DEF ChannelInv, ChannelTypeOK, YtAttempts, Calling
<1>3. CASE Throws(code) /\ UNCHANGED token
  BY <1>3, ThrowsKeeps DEF YtAttempts
<1> QED BY <1>1, <1>2, <1>3 DEF CallFails

\* Every step keeps the invariant.
LEMMA ChannelInvStep ==
  ASSUME ChannelInv, [ChannelNext]_channelVars
  PROVE  ChannelInv'
<1> USE CapsNat, RunsNat DEF ChannelInv, ChannelTypeOK, run
<1>1. CASE VideoPublished
  BY <1>1 DEF VideoPublished, Calling
<1>2. CASE RefreshStarts
  <2>1. perf' \in [Stacks -> 0..runs'] /\ runs' \in 0..MaxRuns
    BY <1>2 DEF RefreshStarts
  <2> QED BY <1>2, <2>1 DEF RefreshStarts, Calling
<1>3. CASE Charge
  <2>1. consumed' \in Nat /\ 100 * consumed' <= 95 * cap
    BY <1>3 DEF Charge, Exceeds, Units, StatsUnits, AnalyticsUnits
  <2> QED BY <1>3, <2>1 DEF Charge, Calling, YtAttempts
<1>4. CASE ChargeRefused
  BY <1>4, ThrowsKeeps DEF ChargeRefused, Calling, YtAttempts
<1>5. CASE DayRolls
  BY <1>5 DEF DayRolls, Calling
<1>6. CASE GetAccessToken
  <2>1. CASE token' \in {"none", "live", "revoked"} /\ call' = "send" /\ UNCHANGED <<phase, listed, todo, try>>
    BY <1>6, <2>1 DEF GetAccessToken, Calling
  <2>2. ASSUME NEW code, CallFails(code) PROVE ChannelInv'
    BY <1>6, <2>2, FailureKeeps DEF GetAccessToken, Calling
  <2> QED BY <1>6, <2>1, <2>2 DEF GetAccessToken
<1>7. CASE TokenAges
  BY <1>7 DEF TokenAges, Calling
<1>8. CASE Answered
  BY <1>8 DEF Answered, Calling, YtAttempts
<1>9. CASE SendFails
  <2>1. PICK code : CallFails(code) /\ met' = (met \/ code = "quota")
    BY <1>9 DEF SendFails
  <2>2. met' => phase' = "idle"
    BY <1>9, <2>1, FailureKeeps DEF SendFails
  <2> QED BY <1>9, <2>1, <2>2, FailureKeeps DEF SendFails, Calling
<1>10. CASE GroupByStack
  BY <1>10 DEF GroupByStack, Calling
<1>11. CASE Upsert
  <2>1. perf' \in [Stacks -> 0..runs]
    BY <1>11 DEF Upsert
  <2> QED BY <1>11, <2>1 DEF Upsert, Calling
<1>12. CASE RefreshEnds
  BY <1>12 DEF RefreshEnds, Stops, Calling, YtAttempts
<1>13. CASE Restarts
  BY <1>13 DEF Restarts, Stops, Calling, YtAttempts
<1>14. CASE UNCHANGED channelVars
  BY <1>14 DEF channelVars, Calling
<1> QED BY <1>1, <1>2, <1>3, <1>4, <1>5, <1>6, <1>7, <1>8, <1>9, <1>10, <1>11, <1>12, <1>13, <1>14
        DEF ChannelNext

LEMMA ChannelInvariance == ChannelSpec => []ChannelInv
<1> QED BY ChannelInvInit, ChannelInvStep, PTL DEF ChannelSpec

\* Types, and what is charged in a day stays within 95 percent of the cap
\* (quota.consume).
THEOREM ChannelTypes == ChannelSpec => []ChannelTypeOK
<1>1. ChannelInv => ChannelTypeOK
  BY DEF ChannelInv
<1> QED BY ChannelInvariance, <1>1, PTL

\* A run that met the quota upserts no stack (refreshStackPerformance).
THEOREM QuotaIsFinal == ChannelSpec => QuotaStopsTheRun
<1>1. ChannelInv /\ [ChannelNext]_channelVars => [perf' # perf => ~met]_channelVars
  <2> SUFFICES ASSUME ChannelInv, ChannelNext, perf' # perf PROVE ~met
    BY DEF channelVars
  <2>1. Upsert
    BY DEF ChannelNext, VideoPublished, RefreshStarts, Charge, ChargeRefused, DayRolls, GetAccessToken,
           TokenAges, Answered, SendFails, GroupByStack, RefreshEnds, Restarts
  <2> QED BY <2>1 DEF Upsert, ChannelInv
<1> QED BY ChannelInvariance, <1>1, PTL DEF ChannelSpec, QuotaStopsTheRun

---------------------------------------------------------------------------
(* MCServices: the parts side by side                                      *)

\* The cached configuration keeps its types (src/engine/model-config.ts).
LEMMA ConfigStarts == ConfigInit => ConfigTypeOK
<1> QED BY DEF ConfigInit, ConfigTypeOK, Fetchers, Asked

LEMMA ConfigStep == ASSUME ConfigTypeOK, [ConfigNext]_configVars PROVE ConfigTypeOK'
<1> USE DEF ConfigTypeOK
<1>1. CASE TimerFires BY <1>1 DEF TimerFires, Ask, Asked
<1>2. CASE AdminRefresh BY <1>2 DEF AdminRefresh, Ask, Asked
<1>3. CASE GetModelConfig BY <1>3 DEF GetModelConfig, Ask, Asked
<1>4. CASE DemandDone BY <1>4 DEF DemandDone, ScheduleNextRefresh, Over
<1>5. ASSUME NEW f \in Fetchers, RefreshDone(f) PROVE ConfigTypeOK'
  BY <1>5 DEF RefreshDone, ScheduleNextRefresh, Over
<1>6. CASE NeurocoreGoes BY <1>6 DEF NeurocoreGoes
<1>7. CASE NeurocoreReturns BY <1>7 DEF NeurocoreReturns
<1>8. CASE UNCHANGED configVars BY <1>8 DEF configVars
<1> QED BY <1>1, <1>2, <1>3, <1>4, <1>5, <1>6, <1>7, <1>8 DEF ConfigNext, Returned

PartsInv == CliInv /\ ScenesInv /\ ConfigTypeOK /\ ChannelInv /\ GenInv /\ WorkspaceInv

LEMMA PartsInit == Init => PartsInv
<1> QED BY CliInvInit, ScenesInvInit, ConfigStarts, ChannelInvInit, GenInvInit, WorkspaceInvInit
        DEF Init, PartsInv

\* A step of one part is a stutter of the others.
LEMMA OnePartMoves ==
  ASSUME [Next]_vars
  PROVE  /\ [CliNext]_cliVars /\ [ScenesNext]_sceneVars /\ [ConfigNext]_configVars
         /\ [ChannelNext]_channelVars /\ [GenNext]_genVars /\ [WorkspaceNext]_workspaceVars
<1>1. CASE CliPart BY <1>1 DEF CliPart
<1>2. CASE ScenesPart BY <1>2 DEF ScenesPart
<1>3. CASE ConfigPart BY <1>3 DEF ConfigPart
<1>4. CASE ChannelPart BY <1>4 DEF ChannelPart
<1>5. CASE GenPart BY <1>5 DEF GenPart
<1>6. CASE FolderPart BY <1>6 DEF FolderPart
<1>7. CASE UNCHANGED vars BY <1>7 DEF vars
<1> QED BY <1>1, <1>2, <1>3, <1>4, <1>5, <1>6, <1>7 DEF Next

LEMMA PartsStep == ASSUME PartsInv, [Next]_vars PROVE PartsInv'
<1>1. CliInv' BY OnePartMoves, CliInvStep DEF PartsInv
<1>2. ScenesInv' BY OnePartMoves, ScenesInvStep DEF PartsInv
<1>3. ConfigTypeOK' BY OnePartMoves, ConfigStep DEF PartsInv
<1>4. ChannelInv' BY OnePartMoves, ChannelInvStep DEF PartsInv
<1>5. GenInv' BY OnePartMoves, GenInvStep DEF PartsInv
<1>6. WorkspaceInv' BY OnePartMoves, WorkspaceInvStep DEF PartsInv
<1> QED BY <1>1, <1>2, <1>3, <1>4, <1>5, <1>6 DEF PartsInv

\* Every variable of every part keeps its type, in the composition the runs
\* explore.
THEOREM ServicesTypes == Spec => []TypesOK
<1>1. PartsInv => TypesOK
  BY DEF PartsInv, TypesOK, CliInv, ScenesInv, ChannelInv, GenInv, WorkspaceInv
<1> QED BY PartsInit, PartsStep, <1>1, PTL DEF Spec
=============================================================================
