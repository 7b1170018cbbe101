--------------------------- MODULE JobFactsProofs ---------------------------
(***************************************************************************)
(* Proofs about JobFacts and its four parts: for any retry configurations  *)
(* and number of attempts, any pods, scrapes and steps of a query, any     *)
(* taxonomy and order of preference, and any pipelines, what the database  *)
(* says of a job is right.                                                 *)
(***************************************************************************)
EXTENDS JobFacts, FiniteSetTheorems, TLAPS

-----------------------------------------------------------------------------
(***************************************************************************)
(* Numbers.                                                                *)
(***************************************************************************)
(* A set of natural numbers has a least one: no interval 1 .. n of its     *)
(* members is a strict subset of all the others.                           *)
LEMMA LeastNat ==
    ASSUME NEW T \in SUBSET Nat, T # {}
    PROVE  \E n \in T : \A m \in T : n <= m
<1> DEFINE Upto == {1 .. n : n \in T}
           R == StrictSubsetOrdering(Nat)
<1>1. IsWellFoundedOn(R, FiniteSubsetsOf(Nat))
  BY FS_StrictSubsetOrderingWellFounded
<1>2. Upto \subseteq FiniteSubsetsOf(Nat)
  <2> SUFFICES ASSUME NEW n \in T PROVE 1 .. n \in FiniteSubsetsOf(Nat)
    OBVIOUS
  <2>1. IsFiniteSet(1 .. n) /\ 1 .. n \subseteq Nat
    BY FS_Interval
  <2> QED
    BY <2>1 DEF FiniteSubsetsOf
<1>3. Upto # {}
  OBVIOUS
<1>4. \E X \in Upto : \A Y \in Upto : ~(<<Y, X>> \in R)
  <2> HIDE DEF Upto, R
  <2> QED
    BY <1>1, <1>2, <1>3, WFMin
<1>5. PICK n \in T : \A m \in T : ~(<<1 .. m, 1 .. n>> \in R)
  BY <1>4
<1>6. ASSUME NEW m \in T, m < n PROVE FALSE
  <2>1. 1 .. m \subseteq 1 .. n /\ n \in 1 .. n /\ n \notin 1 .. m
    BY <1>6
  <2>2. 1 .. m \in SUBSET Nat /\ 1 .. n \in SUBSET Nat /\ 1 .. m # 1 .. n
    BY <2>1
  <2>3. <<1 .. m, 1 .. n>> \in R
    BY <2>1, <2>2 DEF StrictSubsetOrdering
  <2> QED
    BY <1>5, <2>3
<1> QED
  BY <1>6

(* Induction over a set: what holds of 0, and of n + 1 when of n.          *)
LEMMA AllNat ==
    ASSUME NEW S, 0 \in S, \A n \in Nat : n \in S => n + 1 \in S
    PROVE  Nat \subseteq S
<1> SUFFICES ASSUME Nat \ S # {} PROVE FALSE
  OBVIOUS
<1>1. PICK n \in Nat \ S : \A m \in Nat \ S : n <= m
  BY LeastNat
<1>2. n - 1 \in Nat /\ n - 1 \in S
  BY <1>1
<1> QED
  BY <1>1, <1>2

(* A recursive definition over an interval defines a function.             *)
LEMMA RecursionOnNat ==
    ASSUME NEW N \in Nat, NEW z \in Nat, NEW next \in [Nat \X Nat -> Nat]
    PROVE  \E f \in [0 .. N -> Nat] :
              \A n \in 0 .. N : f[n] = IF n = 0 THEN z ELSE next[<<n, f[n - 1]>>]
<1> DEFINE Good(f, k) == \A n \in 0 .. k : f[n] = IF n = 0 THEN z ELSE next[<<n, f[n - 1]>>]
           S == {k \in Nat : \E f \in [0 .. k -> Nat] : Good(f, k)}
<1>1. 0 \in S
  <2> DEFINE f == [n \in 0 .. 0 |-> z]
  <2>1. f \in [0 .. 0 -> Nat] /\ \A n \in 0 .. 0 : n = 0 /\ f[n] = z
    OBVIOUS
  <2> HIDE DEF f
  <2> QED
    BY <2>1
<1>2. ASSUME NEW k \in Nat, k \in S PROVE k + 1 \in S
  <2>1. PICK f \in [0 .. k -> Nat] : Good(f, k)
    BY <1>2
  <2> DEFINE g == [n \in 0 .. k + 1 |-> IF n = k + 1 THEN next[<<n, f[k]>>] ELSE f[n]]
  <2>2. /\ \A n \in 0 .. k : n \in 0 .. k + 1 /\ n # k + 1 /\ g[n] = f[n]
        /\ k + 1 \in 0 .. k + 1 /\ g[k + 1] = next[<<k + 1, f[k]>>]
    OBVIOUS
  <2>3. g \in [0 .. k + 1 -> Nat]
    <3>1. f[k] \in Nat /\ next[<<k + 1, f[k]>>] \in Nat
      OBVIOUS
    <3> QED
      BY <3>1
  <2> HIDE DEF g
  <2>4. Good(g, k + 1)
    <3> SUFFICES ASSUME NEW n \in 0 .. k + 1
                 PROVE  g[n] = IF n = 0 THEN z ELSE next[<<n, g[n - 1]>>]
      OBVIOUS
    <3>1. CASE n = k + 1
      <4>1. n # 0 /\ n - 1 = k /\ k \in 0 .. k
        BY <3>1
      <4> QED
        BY <2>2, <3>1, <4>1
    <3>2. CASE n # k + 1
      <4>1. n \in 0 .. k /\ (n # 0 => n - 1 \in 0 .. k)
        BY <3>2
      <4> QED
        BY <2>1, <2>2, <4>1
    <3> QED
      BY <3>1, <3>2
  <2> HIDE DEF Good
  <2> QED
    BY <2>3, <2>4
<1> HIDE DEF S
<1>3. Nat \subseteq S
  BY <1>1, <1>2, AllNat
<1> QED
  BY <1>3 DEF S

-----------------------------------------------------------------------------
(***************************************************************************)
(* RetryInfo.                                                              *)
(***************************************************************************)
Attempts == [line : Lines, result : Reasons \union {"running", "success"},
             by : {"pipeline", "gitlab", "user"}]
Infos    == [attempt : Nat, final : BOOLEAN, manual : BOOLEAN]

RetryTypeOK ==
    /\ config \in [Lines -> Configs]
    /\ attempts \in Seq(Attempts) /\ info \in Seq(Infos) /\ Len(info) = Len(attempts)

(* GitLab's rule, as it was when attempt i failed: no later attempt of the *)
(* job existed.                                                            *)
Rule(i) ==
    LET c == config[attempts[i].line]
    IN  {"always", attempts[i].result} \intersect c.when # {} /\ Cardinality(Earlier(i)) < c.max

(* Within the limit of the job, unless a user made it.                     *)
MaxOf(i) == config[attempts[i].line].max
WithinLimit == \A i \in AttemptIds : attempts[i].by # "user" => Cardinality(Earlier(i)) <= MaxOf(i)

OneRunning ==
    \A i \in AttemptIds, j \in AttemptIds :
        attempts[i].line = attempts[j].line /\ i < j => Finished(i)

RuleFollowed == \A i \in AttemptIds : Failed(i) => (RetriedByGitLab(i) <=> Rule(i))

RecordedRight ==
    \A i \in AttemptIds : info[i] # NoInfo =>
        /\ Finished(i) /\ info[i].attempt = Cardinality(Earlier(i)) + 1
        /\ Failed(i) => (info[i].final <=> ~Rule(i))
        /\ info[i].manual => Cardinality(Earlier(i)) > MaxOf(i)

RetryInv == RetryTypeOK /\ OneRunning /\ RuleFollowed /\ WithinLimit /\ RecordedRight

(***************************************************************************)
(* Attempts and those before them.                                         *)
(***************************************************************************)
LEMMA AttemptsTyped ==
    ASSUME RetryTypeOK
    PROVE  /\ Len(attempts) \in Nat /\ AttemptIds \subseteq Nat
           /\ \A i \in AttemptIds : /\ attempts[i] \in Attempts /\ attempts[i].line \in Lines
                                    /\ info[i] \in Infos
<1>1. /\ attempts \in Seq(Attempts) /\ info \in Seq(Infos) /\ Len(info) = Len(attempts)
      /\ AttemptIds = 1 .. Len(attempts)
  BY DEF RetryTypeOK, AttemptIds
<1>2. Len(attempts) \in Nat /\ \A i \in AttemptIds : attempts[i] \in Attempts /\ info[i] \in Infos
  BY <1>1
<1>3. \A a \in Attempts : a.line \in Lines
  BY DEF Attempts
<1> QED
  BY <1>1, <1>2, <1>3

LEMMA EarlierFinite ==
    ASSUME RetryTypeOK, NEW i \in AttemptIds
    PROVE  IsFiniteSet(Earlier(i)) /\ Cardinality(Earlier(i)) \in Nat
<1>1. Len(attempts) \in Int /\ IsFiniteSet(1 .. Len(attempts))
  BY AttemptsTyped, FS_Interval
<1>2. Earlier(i) \in SUBSET (1 .. Len(attempts))
  BY DEF Earlier, OfLine, AttemptIds
<1> QED
  BY <1>1, <1>2, FS_Subset, FS_CardinalityType

(* An attempt that was not retried has the number the code gives it.       *)
LEMMA Numbered ==
    ASSUME RetryTypeOK, NEW i \in AttemptIds
    PROVE  Cardinality({j \in 1 .. i : attempts[j].line = attempts[i].line})
              = Cardinality(Earlier(i)) + 1
<1>1. {j \in 1 .. i : attempts[j].line = attempts[i].line} = Earlier(i) \union {i}
  BY AttemptsTyped DEF Earlier, OfLine, AttemptIds
<1>2. i \notin Earlier(i)
  BY AttemptsTyped DEF Earlier
<1> QED
  BY <1>1, <1>2, EarlierFinite, FS_AddElement

(* For the latest attempt of a job, GitLab counts those before it.         *)
LEMMA RuleOfLatest ==
    ASSUME RetryTypeOK, OneRunning, NEW i \in AttemptIds, ~Finished(i), NEW why,
           NEW c, c = config[attempts[i].line]
    PROVE  GitLabRetries(attempts[i].line, why)
              <=> {"always", why} \intersect c.when # {} /\ Cardinality(Earlier(i)) < c.max
<1>1. OfLine(attempts[i].line) = Earlier(i) \union {i}
  BY AttemptsTyped DEF OfLine, Earlier, OneRunning
<1>2. i \notin Earlier(i)
  BY AttemptsTyped DEF Earlier
<1>3. IsFiniteSet(Earlier(i)) /\ Cardinality(Earlier(i)) \in Nat
  BY EarlierFinite
<1>4. Cardinality(Earlier(i) \union {i}) = Cardinality(Earlier(i)) + 1
  BY <1>2, <1>3, FS_AddElement
<1>5. Cardinality(OfLine(attempts[i].line)) - 1 = Cardinality(Earlier(i))
  BY <1>1, <1>3, <1>4
<1> QED
  BY <1>5 DEF GitLabRetries

(* The configuration the code finds says the same as GitLab's rule.        *)
LEMMA DataFollowsRule ==
    ASSUME RetryTypeOK, NEW i \in AttemptIds
    PROVE  /\ RetryData(i).final <=> ~Rule(i)
           /\ RetryData(i).manual => Cardinality(Earlier(i)) > MaxOf(i)
<1> DEFINE c == config[attempts[i].line]
           n == Cardinality(Earlier(i))
<1>1. c \in Configs
  BY AttemptsTyped DEF RetryTypeOK
<1>2. c.max \in Nat /\ (c.table = "none" => c.max = 0)
  BY <1>1, RetryAssumption
<1>3. n \in Nat
  BY EarlierFinite
<1>4. CASE c.max = 0
  <2>1. ~Rule(i)
    BY <1>3, <1>4 DEF Rule
  <2>2. RetryReasons(ConfigOf(i)) = {} /\ ConfigOf(i).max = c.max
    BY <1>4 DEF RetryReasons, ConfigOf
  <2>3. n + 1 > c.max + 1 => n > c.max
    BY <1>2, <1>3
  <2> QED
    BY <2>1, <2>2, <2>3 DEF RetryData, MaxOf
<1>5. CASE c.max # 0
  <2>1. ConfigOf(i).max = c.max /\ RetryReasons(ConfigOf(i)) = c.when
    BY <1>2, <1>5 DEF ConfigOf, RetryReasons
  <2>2. (n + 1 <= c.max <=> n < c.max) /\ (n + 1 > c.max + 1 => n > c.max)
    BY <1>2, <1>3
  <2> QED
    BY <2>1, <2>2 DEF RetryData, Rule, MaxOf
<1> QED
  BY <1>4, <1>5

(***************************************************************************)
(* How a step changes the attempts: one gets a result, one is added.       *)
(***************************************************************************)
WithResult(i, r) == [attempts EXCEPT ![i].result = r]

LEMMA ResultSet ==
    ASSUME RetryTypeOK, NEW i \in AttemptIds, NEW r \in Reasons \union {"success"},
           NEW s, s = WithResult(i, r)
    PROVE  /\ s \in Seq(Attempts) /\ Len(s) = Len(attempts)
           /\ s[i].result = r
           /\ \A k \in AttemptIds : /\ s[k].line = attempts[k].line /\ s[k].by = attempts[k].by
                                    /\ k # i => s[k].result = attempts[k].result
<1> DEFINE new == [attempts[i] EXCEPT !.result = r]
<1>1. attempts \in Seq(Attempts) /\ attempts[i] \in Attempts /\ i \in 1 .. Len(attempts)
  BY AttemptsTyped DEF RetryTypeOK, AttemptIds
<1>2. /\ new \in Attempts /\ new.line = attempts[i].line
      /\ new.by = attempts[i].by /\ new.result = r
  BY <1>1 DEF Attempts
<1>3. s = [attempts EXCEPT ![i] = new]
  BY DEF WithResult
<1> HIDE DEF new
<1>4. /\ s \in Seq(Attempts) /\ Len(s) = Len(attempts)
      /\ \A k \in 1 .. Len(attempts) : s[k] = IF k = i THEN new ELSE attempts[k]
  BY <1>1, <1>2, <1>3
<1> QED
  BY <1>2, <1>4 DEF AttemptIds

LEMMA AttemptAdded ==
    ASSUME NEW s \in Seq(Attempts), NEW l \in Lines, NEW by \in {"pipeline", "gitlab", "user"}
    PROVE  /\ NewAttempt(s, l, by) \in Seq(Attempts) /\ Len(NewAttempt(s, l, by)) = Len(s) + 1
           /\ \A k \in 1 .. Len(s) : NewAttempt(s, l, by)[k] = s[k]
           /\ NewAttempt(s, l, by)[Len(s) + 1] = [line |-> l, result |-> "running", by |-> by]
<1> DEFINE new == [line |-> l, result |-> "running", by |-> by]
<1>1. new \in Attempts
  BY DEF Attempts
<1> HIDE DEF new
<1>2. /\ Append(s, new) \in Seq(Attempts) /\ Len(Append(s, new)) = Len(s) + 1
      /\ \A k \in 1 .. Len(s) : Append(s, new)[k] = s[k]
      /\ Append(s, new)[Len(s) + 1] = new
  BY <1>1
<1> QED
  BY <1>2 DEF NewAttempt, new

(* What both kinds of steps keep: the attempts there are stay of their     *)
(* job and in their order.                                                 *)
Kept == \A k \in AttemptIds : /\ attempts'[k].line = attempts[k].line
                              /\ attempts'[k].by = attempts[k].by

LEMMA EarlierKept ==
    ASSUME RetryTypeOK, RetryTypeOK', Kept, Len(attempts') >= Len(attempts), NEW i \in AttemptIds
    PROVE  i \in AttemptIds' /\ Earlier(i)' = Earlier(i)
<1>1. Len(attempts) \in Nat /\ Len(attempts') \in Nat
  BY DEF RetryTypeOK
<1>2. AttemptIds = 1 .. Len(attempts) /\ AttemptIds' = 1 .. Len(attempts')
  BY DEF AttemptIds
<1>3. \A k \in AttemptIds' : k < i => k \in AttemptIds
  BY <1>1, <1>2
<1>4. \A k \in AttemptIds : k \in AttemptIds'
  BY <1>1, <1>2
<1> QED
  BY <1>3, <1>4 DEF Earlier, OfLine, Kept

(* Before a new attempt of a job are all its others.                       *)
LEMMA EarlierOfNew ==
    ASSUME RetryTypeOK, Kept, NEW l \in Lines, NEW n, n = Len(attempts) + 1,
           Len(attempts') = n, attempts'[n].line = l
    PROVE  Earlier(n)' = OfLine(l)
<1>1. Len(attempts) \in Nat /\ AttemptIds = 1 .. Len(attempts) /\ AttemptIds' = 1 .. n
  BY DEF RetryTypeOK, AttemptIds
<1>2. \A k : k \in AttemptIds <=> k \in AttemptIds' /\ k < n
  BY <1>1
<1> QED
  BY <1>2 DEF Earlier, OfLine, Kept

(* An attempt that is added last is only the next one of the latest of its *)
(* job.                                                                    *)
LEMMA NextKept ==
    ASSUME RetryTypeOK, RetryTypeOK', Kept, NEW i \in AttemptIds,
           Len(attempts') \in {Len(attempts), Len(attempts) + 1},
           Len(attempts') = Len(attempts) + 1 =>
              \/ attempts'[Len(attempts) + 1].by # "gitlab"
              \/ attempts'[Len(attempts) + 1].line # attempts[i].line
              \/ \E k \in AttemptIds : i < k /\ attempts[k].line = attempts[i].line
    PROVE  RetriedByGitLab(i)' <=> RetriedByGitLab(i)
<1>1. Len(attempts) \in Nat /\ Len(attempts') \in Nat
  BY DEF RetryTypeOK
<1>2. AttemptIds = 1 .. Len(attempts) /\ AttemptIds' = 1 .. Len(attempts')
  BY DEF AttemptIds
<1>3. \A k : k \in AttemptIds =>
         /\ k \in AttemptIds' /\ attempts'[k].line = attempts[k].line
         /\ attempts'[k].by = attempts[k].by
  BY <1>1, <1>2 DEF Kept
<1>4. ASSUME NEW k \in AttemptIds', k \notin AttemptIds
      PROVE  k = Len(attempts) + 1 /\ Len(attempts') = Len(attempts) + 1 /\ \A j \in AttemptIds : j < k
  BY <1>1, <1>2, <1>4
<1>5. ASSUME RetriedByGitLab(i) PROVE RetriedByGitLab(i)'
  <2>1. PICK j \in AttemptIds :
           /\ attempts[j].line = attempts[i].line /\ j > i /\ attempts[j].by = "gitlab"
           /\ ~\E k \in AttemptIds : attempts[k].line = attempts[i].line /\ i < k /\ k < j
    BY <1>5 DEF RetriedByGitLab, OfLine
  <2>2. ~\E k \in AttemptIds' : attempts'[k].line = attempts'[i].line /\ i < k /\ k < j
    <3> SUFFICES ASSUME NEW k \in AttemptIds', attempts'[k].line = attempts'[i].line, i < k, k < j
                 PROVE  FALSE
      OBVIOUS
    <3>1. k \in AttemptIds
      BY <1>1, <1>2, <2>1
    <3> QED
      BY <1>3, <2>1, <3>1
  <2> QED
    BY <1>3, <2>1, <2>2 DEF RetriedByGitLab, OfLine
<1>6. ASSUME RetriedByGitLab(i)' PROVE RetriedByGitLab(i)
  <2>1. PICK j \in AttemptIds' :
           /\ attempts'[j].line = attempts[i].line /\ j > i /\ attempts'[j].by = "gitlab"
           /\ ~\E k \in AttemptIds' : attempts'[k].line = attempts[i].line /\ i < k /\ k < j
    BY <1>3, <1>6 DEF RetriedByGitLab, OfLine
  <2>2. j \in AttemptIds
    <3> SUFFICES ASSUME j \notin AttemptIds PROVE FALSE
      OBVIOUS
    <3>1. PICK k \in AttemptIds : i < k /\ attempts[k].line = attempts[i].line
      BY <1>4, <2>1
    <3> QED
      BY <1>3, <1>4, <2>1, <3>1
  <2>3. ~\E k \in AttemptIds : attempts[k].line = attempts[i].line /\ i < k /\ k < j
    BY <1>3, <2>1
  <2> QED
    BY <1>3, <2>1, <2>2, <2>3 DEF RetriedByGitLab, OfLine
<1> QED
  BY <1>5, <1>6

(***************************************************************************)
(* The invariant, action by action.                                        *)
(***************************************************************************)
LEMMA RetryInitInv == RetryInit => RetryInv
<1> SUFFICES ASSUME RetryInit PROVE RetryInv
  OBVIOUS
<1>1. AttemptIds = {}
  BY DEF RetryInit, AttemptIds
<1>2. RetryTypeOK
  BY DEF RetryInit, RetryTypeOK
<1> QED
  BY <1>1, <1>2 DEF RetryInv, OneRunning, RuleFollowed, WithinLimit, RecordedRight

(* An attempt is added to a job that has none running.                     *)
LEMMA AddedInv ==
    ASSUME RetryInv, NEW l \in Lines, NEW by \in {"pipeline", "user"},
           attempts' = NewAttempt(attempts, l, by), info' = Append(info, NoInfo),
           config' = config, \A i \in OfLine(l) : Finished(i),
           by = "pipeline" => OfLine(l) = {}
    PROVE  RetryInv'
<1> SUFFICES ASSUME NEW n, n = Len(attempts) + 1 PROVE RetryInv'
  OBVIOUS
<1>1. /\ Len(attempts) \in Nat /\ attempts \in Seq(Attempts)
      /\ info \in Seq(Infos) /\ Len(info) = Len(attempts)
  BY DEF RetryInv, RetryTypeOK
<1>2. /\ attempts' \in Seq(Attempts) /\ Len(attempts') = n
      /\ \A k \in AttemptIds : attempts'[k] = attempts[k]
      /\ attempts'[n] = [line |-> l, result |-> "running", by |-> by]
  <2>1. by \in {"pipeline", "gitlab", "user"}
    OBVIOUS
  <2> QED
    BY <1>1, <2>1, AttemptAdded DEF AttemptIds
<1>3. /\ info' \in Seq(Infos) /\ Len(info') = n
      /\ \A k \in AttemptIds : info'[k] = info[k]
      /\ info'[n] = NoInfo
  <2>1. NoInfo \in Infos
    BY DEF NoInfo, Infos
  <2> HIDE DEF NoInfo
  <2> QED
    BY <1>1, <2>1 DEF AttemptIds
<1>4. RetryTypeOK'
  BY <1>2, <1>3 DEF RetryInv, RetryTypeOK
<1>5. /\ \A k \in AttemptIds' : k \in AttemptIds \/ k = n
      /\ \A k \in AttemptIds : k \in AttemptIds' /\ k < n
  BY <1>1, <1>2 DEF AttemptIds
<1>6. Kept
  BY <1>2 DEF Kept
<1>7. ~Finished(n)' /\ ~Failed(n)'
  <2>1. attempts'[n].result = "running"
    BY <1>2
  <2> QED
    BY <2>1, RetryAssumption DEF Finished, Failed
<1>8. ASSUME NEW i \in AttemptIds
      PROVE  /\ Earlier(i)' = Earlier(i) /\ (Rule(i)' <=> Rule(i))
             /\ RetriedByGitLab(i)' <=> RetriedByGitLab(i)
             /\ (Finished(i)' <=> Finished(i)) /\ (Failed(i)' <=> Failed(i))
             /\ MaxOf(i)' = MaxOf(i)
  <2>1. Earlier(i)' = Earlier(i)
    BY <1>1, <1>2, <1>4, <1>6, EarlierKept DEF RetryInv
  <2>2. RetriedByGitLab(i)' <=> RetriedByGitLab(i)
    BY <1>2, <1>4, <1>6, NextKept DEF RetryInv
  <2>3. attempts'[i] = attempts[i]
    BY <1>2
  <2> QED
    BY <2>1, <2>2, <2>3 DEF Rule, Finished, Failed, MaxOf
<1>9. OneRunning'
  <2> SUFFICES ASSUME NEW i \in AttemptIds', NEW j \in AttemptIds',
                      attempts'[i].line = attempts'[j].line, i < j
               PROVE  Finished(i)'
    BY DEF OneRunning
  <2>1. i \in AttemptIds
    BY <1>1, <1>2 DEF AttemptIds
  <2>2. CASE j \in AttemptIds
    BY <1>2, <1>8, <2>1, <2>2 DEF RetryInv, OneRunning
  <2>3. CASE j = n
    BY <1>2, <1>8, <2>1, <2>3 DEF OfLine
  <2> QED
    BY <1>5, <2>2, <2>3
<1>10. RuleFollowed'
  BY <1>5, <1>7, <1>8 DEF RetryInv, RuleFollowed
<1>11. RecordedRight'
  <2> SUFFICES ASSUME NEW i \in AttemptIds', info'[i] # NoInfo
               PROVE  /\ Finished(i)' /\ info'[i].attempt = Cardinality(Earlier(i)') + 1
                      /\ Failed(i)' => (info'[i].final <=> ~Rule(i)')
                      /\ info'[i].manual => Cardinality(Earlier(i)') > MaxOf(i)'
    BY DEF RecordedRight, NoInfo
  <2>1. i \in AttemptIds /\ info'[i] = info[i]
    BY <1>3, <1>5
  <2> QED
    BY <1>8, <2>1 DEF RetryInv, RecordedRight
<1>12. WithinLimit'
  <2> SUFFICES ASSUME NEW i \in AttemptIds', attempts'[i].by # "user"
               PROVE  Cardinality(Earlier(i)') <= MaxOf(i)'
    BY DEF WithinLimit
  <2>1. CASE i \in AttemptIds
    BY <1>2, <1>8, <2>1 DEF RetryInv, WithinLimit
  <2>2. CASE i = n
    <3>1. by = "pipeline" /\ attempts'[n].line = l
      BY <1>2, <2>2
    <3>2. Earlier(n)' = {}
      BY <1>2, <1>6, <3>1, EarlierOfNew DEF RetryInv
    <3>3. config[l].max \in Nat
      BY RetryAssumption DEF RetryInv, RetryTypeOK
    <3>4. Cardinality(Earlier(n)') = 0
      BY <3>2, FS_EmptySet
    <3>5. MaxOf(n)' = config[l].max
      BY <3>1 DEF MaxOf
    <3> QED
      BY <2>2, <3>3, <3>4, <3>5
  <2> QED
    BY <1>5, <2>1, <2>2
<1> QED
  BY <1>4, <1>9, <1>10, <1>11, <1>12 DEF RetryInv

LEMMA PipelineCreatesInv ==
    ASSUME RetryInv, NEW l \in Lines, PipelineCreates(l)
    PROVE  RetryInv'
BY AddedInv DEF PipelineCreates

LEMMA UserRetriesInv ==
    ASSUME RetryInv, NEW l \in Lines, UserRetries(l)
    PROVE  RetryInv'
<1>1. ASSUME NEW i \in OfLine(l), ~Finished(i) PROVE FALSE
  <2>1. OfLine(l) \subseteq Nat
    BY AttemptsTyped DEF OfLine, RetryInv
  <2>2. \A j \in OfLine(l) : j <= i
    BY <1>1, <2>1 DEF RetryInv, OneRunning, OfLine
  <2>3. Latest(l) \in OfLine(l) /\ \A j \in OfLine(l) : j <= Latest(l)
    BY <2>2 DEF Latest
  <2>4. Latest(l) = i
    BY <2>1, <2>2, <2>3
  <2> QED
    BY <1>1, <2>4 DEF UserRetries
<1> QED
  BY <1>1, AddedInv DEF UserRetries

(* An attempt ends, and GitLab adds the next one or not.                   *)
LEMMA AttemptSucceedsInv ==
    ASSUME RetryInv, NEW i \in AttemptIds, AttemptSucceeds(i)
    PROVE  RetryInv'
<1>1. /\ attempts' \in Seq(Attempts) /\ Len(attempts') = Len(attempts)
      /\ attempts'[i].result = "success"
      /\ \A k \in AttemptIds : /\ attempts'[k].line = attempts[k].line
                               /\ attempts'[k].by = attempts[k].by
                               /\ k # i => attempts'[k].result = attempts[k].result
  <2>1. RetryTypeOK /\ "success" \in Reasons \union {"success"}
    BY DEF RetryInv
  <2>2. attempts' = WithResult(i, "success")
    BY DEF AttemptSucceeds, WithResult
  <2> QED
    BY <2>1, <2>2, ResultSet
<1>2. RetryTypeOK'
  BY <1>1 DEF AttemptSucceeds, RetryInv, RetryTypeOK
<1>3. AttemptIds' = AttemptIds /\ Len(attempts) \in Nat /\ Kept
  BY <1>1 DEF AttemptIds, Kept, RetryInv, RetryTypeOK
<1>4. \A k \in AttemptIds : Earlier(k)' = Earlier(k) /\ (RetriedByGitLab(k)' <=> RetriedByGitLab(k))
  BY <1>1, <1>2, <1>3, EarlierKept, NextKept DEF RetryInv
<1>5. info' = info /\ config' = config /\ info[i] = NoInfo /\ Finished(i)' /\ ~Failed(i)'
  BY <1>1, RetryAssumption DEF AttemptSucceeds, RetryInv, RecordedRight, Finished, Failed
<1>6. \A k \in AttemptIds : k # i =>
         (Finished(k)' <=> Finished(k)) /\ (Failed(k)' <=> Failed(k)) /\ (Rule(k)' <=> Rule(k))
  BY <1>1, <1>4, <1>5 DEF Finished, Failed, Rule
<1>7. \A k \in AttemptIds : MaxOf(k)' = MaxOf(k) /\ attempts'[k].by = attempts[k].by
  BY <1>1, <1>5 DEF MaxOf
<1>8. OneRunning'
  BY <1>1, <1>3, <1>5, <1>6 DEF RetryInv, OneRunning
<1>9. RuleFollowed'
  BY <1>3, <1>4, <1>5, <1>6 DEF RetryInv, RuleFollowed
<1>10. WithinLimit'
  BY <1>3, <1>4, <1>7 DEF RetryInv, WithinLimit
<1>11. RecordedRight'
  BY <1>3, <1>4, <1>5, <1>6, <1>7 DEF RetryInv, RecordedRight, NoInfo
<1> QED
  BY <1>2, <1>8, <1>9, <1>10, <1>11 DEF RetryInv

LEMMA AttemptFailsInv ==
    ASSUME RetryInv, NEW i \in AttemptIds, NEW why \in Reasons, AttemptFails(i, why)
    PROVE  RetryInv'
<1> SUFFICES ASSUME NEW n, n = Len(attempts) + 1,
                    NEW l, l = attempts[i].line,
                    NEW failed, failed = WithResult(i, why)
             PROVE  RetryInv'
  OBVIOUS
<1>1. /\ Len(attempts) \in Nat /\ attempts \in Seq(Attempts) /\ l \in Lines
      /\ info \in Seq(Infos) /\ Len(info) = Len(attempts)
      /\ ~Finished(i) /\ config' = config
  BY AttemptsTyped DEF RetryInv, RetryTypeOK, AttemptFails
<1>2. /\ failed \in Seq(Attempts) /\ Len(failed) = Len(attempts)
      /\ failed[i].result = why
      /\ \A k \in AttemptIds : /\ failed[k].line = attempts[k].line
                               /\ failed[k].by = attempts[k].by
                               /\ k # i => failed[k].result = attempts[k].result
  <2>1. RetryTypeOK /\ why \in Reasons \union {"success"}
    BY DEF RetryInv
  <2> QED
    BY <2>1, ResultSet
<1>3. /\ IF GitLabRetries(l, why)
         THEN attempts' = NewAttempt(failed, l, "gitlab") /\ info' = Append(info, NoInfo)
         ELSE attempts' = failed /\ info' = info
  BY DEF AttemptFails, WithResult
<1>4. /\ attempts' \in Seq(Attempts)
      /\ Len(attempts') = IF GitLabRetries(l, why) THEN n ELSE Len(attempts)
      /\ \A k \in AttemptIds : attempts'[k] = failed[k]
      /\ GitLabRetries(l, why) =>
            attempts'[n] = [line |-> l, result |-> "running", by |-> "gitlab"]
  <2>1. CASE GitLabRetries(l, why)
    <3>1. "gitlab" \in {"pipeline", "gitlab", "user"}
      OBVIOUS
    <3> DEFINE s == NewAttempt(failed, l, "gitlab")
    <3>2. /\ s \in Seq(Attempts) /\ Len(s) = Len(failed) + 1
          /\ \A k \in 1 .. Len(failed) : s[k] = failed[k]
          /\ s[Len(failed) + 1] = [line |-> l, result |-> "running", by |-> "gitlab"]
      BY <1>1, <1>2, <3>1, AttemptAdded
    <3> HIDE DEF s
    <3>3. attempts' = s
      BY <1>3, <2>1 DEF s
    <3> QED
      BY <1>2, <2>1, <3>2, <3>3 DEF AttemptIds
  <2>2. CASE ~GitLabRetries(l, why)
    BY <1>2, <1>3, <2>2
  <2> QED
    BY <2>1, <2>2
<1>5. /\ info' \in Seq(Infos) /\ Len(info') = Len(attempts')
      /\ \A k \in AttemptIds : info'[k] = info[k]
      /\ GitLabRetries(l, why) => info'[n] = NoInfo
  <2>1. NoInfo \in Infos
    BY DEF NoInfo, Infos
  <2> HIDE DEF NoInfo
  <2>2. CASE GitLabRetries(l, why)
    <3>1. info' = Append(info, NoInfo) /\ Len(attempts') = Len(info) + 1 /\ n = Len(info) + 1
      BY <1>1, <1>3, <1>4, <2>2
    <3> QED
      BY <1>1, <2>1, <3>1 DEF AttemptIds
  <2>3. CASE ~GitLabRetries(l, why)
    BY <1>1, <1>3, <1>4, <2>3
  <2> QED
    BY <2>2, <2>3
<1>6. RetryTypeOK'
  BY <1>1, <1>4, <1>5 DEF RetryInv, RetryTypeOK
<1>7. Kept /\ Len(attempts') \in {Len(attempts), Len(attempts) + 1}
  BY <1>2, <1>4 DEF Kept
<1>8. /\ \A k \in AttemptIds' : k \in AttemptIds \/ (k = n /\ GitLabRetries(l, why))
      /\ \A k \in AttemptIds : k \in AttemptIds' /\ k < n
      /\ GitLabRetries(l, why) => n \in AttemptIds'
  BY <1>1, <1>4 DEF AttemptIds
<1>9. GitLabRetries(l, why) => ~Finished(n)' /\ ~Failed(n)'
  <2>1. GitLabRetries(l, why) => attempts'[n].result = "running"
    BY <1>4
  <2> QED
    BY <2>1, RetryAssumption DEF Finished, Failed
<1>10. \A k \in AttemptIds : Earlier(k)' = Earlier(k)
  BY <1>1, <1>6, <1>7, EarlierKept DEF RetryInv
<1>11. ASSUME NEW k \in AttemptIds, k # i
       PROVE  /\ RetriedByGitLab(k)' <=> RetriedByGitLab(k)
              /\ (Finished(k)' <=> Finished(k)) /\ (Failed(k)' <=> Failed(k))
              /\ Rule(k)' <=> Rule(k)
  <2>1. attempts'[k].result = attempts[k].result /\ attempts'[k].line = attempts[k].line
    BY <1>2, <1>4, <1>11
  <2>2. attempts[k].line = l => k < i
    BY <1>1, <1>11, AttemptsTyped DEF RetryInv, OneRunning
  <2>3. RetriedByGitLab(k)' <=> RetriedByGitLab(k)
    <3>1. CASE ~GitLabRetries(l, why)
      BY <1>1, <1>4, <1>6, <1>7, <3>1, NextKept DEF RetryInv
    <3>2. CASE GitLabRetries(l, why)
      <4>1. attempts'[n].line = l
        BY <1>4, <3>2
      <4>2. attempts[k].line # l \/ \E m \in AttemptIds : k < m /\ attempts[m].line = attempts[k].line
        BY <2>2
      <4> QED
        BY <1>1, <1>6, <1>7, <4>1, <4>2, NextKept DEF RetryInv
    <3> QED
      BY <3>1, <3>2
  <2> QED
    BY <1>1, <1>10, <2>1, <2>3 DEF Finished, Failed, Rule
<1>12. Failed(i)' /\ Finished(i)' /\ info[i] = NoInfo
  <2>1. attempts'[i].result = why
    BY <1>2, <1>4
  <2> QED
    BY <1>1, <2>1, RetryAssumption DEF Failed, Finished, RetryInv, RecordedRight
<1>13. Rule(i)' <=> GitLabRetries(l, why)
  <2>1. attempts'[i].result = why /\ attempts'[i].line = l
    BY <1>2, <1>4
  <2>2. Rule(i)' <=> {"always", why} \intersect config[l].when # {}
                     /\ Cardinality(Earlier(i)) < config[l].max
    BY <1>1, <1>10, <2>1 DEF Rule
  <2> QED
    BY <1>1, <2>2, RuleOfLatest DEF RetryInv
<1>14. RetriedByGitLab(i)' <=> GitLabRetries(l, why)
  <2>1. \A k \in AttemptIds : attempts'[k].line = l => k <= i
    BY <1>1, <1>2, <1>4, AttemptsTyped DEF RetryInv, OneRunning
  <2>2. attempts'[i].line = l
    BY <1>2, <1>4
  <2>3. CASE GitLabRetries(l, why)
    <3>1. n \in AttemptIds' /\ n > i /\ attempts'[n].line = l /\ attempts'[n].by = "gitlab"
      BY <1>4, <1>8, <2>3, AttemptsTyped DEF RetryInv
    <3>2. ~\E k \in AttemptIds' : attempts'[k].line = l /\ i < k /\ k < n
      <4> SUFFICES ASSUME NEW k \in AttemptIds', attempts'[k].line = l, i < k, k < n PROVE FALSE
        OBVIOUS
      <4>1. k \in AttemptIds
        BY <1>1, <1>8
      <4> QED
        BY <2>1, <4>1, AttemptsTyped DEF RetryInv
    <3> QED
      BY <2>2, <2>3, <3>1, <3>2 DEF RetriedByGitLab, OfLine
  <2>4. CASE ~GitLabRetries(l, why)
    <3>1. \A k \in AttemptIds' : attempts'[k].line = l => ~(k > i)
      BY <1>8, <2>1, <2>4, AttemptsTyped DEF RetryInv
    <3> QED
      BY <2>2, <2>4, <3>1 DEF RetriedByGitLab, OfLine
  <2> QED
    BY <2>3, <2>4
<1>15. OneRunning'
  <2> SUFFICES ASSUME NEW j \in AttemptIds', NEW k \in AttemptIds',
                      attempts'[j].line = attempts'[k].line, j < k
               PROVE  Finished(j)'
    BY DEF OneRunning
  <2>1. j \in AttemptIds
    BY <1>1, <1>4 DEF AttemptIds
  <2>2. CASE j = i
    BY <1>12, <2>2
  <2>3. CASE j # i /\ k \in AttemptIds
    BY <1>2, <1>4, <1>11, <2>1, <2>3 DEF RetryInv, OneRunning
  <2>4. CASE j # i /\ k \notin AttemptIds
    <3>1. attempts[j].line = l
      <4>1. k = n /\ GitLabRetries(l, why)
        BY <1>8, <2>4
      <4>2. attempts'[k].line = l
        BY <1>4, <4>1
      <4> QED
        BY <1>2, <1>4, <2>1, <4>2
    <3>2. j < i
      BY <1>1, <2>1, <2>4, <3>1, AttemptsTyped DEF RetryInv, OneRunning
    <3> QED
      BY <1>11, <2>1, <2>4, <3>1, <3>2 DEF RetryInv, OneRunning
  <2> QED
    BY <2>2, <2>3, <2>4
<1>16. RuleFollowed'
  BY <1>8, <1>9, <1>11, <1>13, <1>14 DEF RetryInv, RuleFollowed
<1>17. \A k \in AttemptIds : MaxOf(k)' = MaxOf(k)
  BY <1>1, <1>7 DEF MaxOf, Kept
<1>18. RecordedRight'
  <2> SUFFICES ASSUME NEW k \in AttemptIds', info'[k] # NoInfo
               PROVE  /\ Finished(k)' /\ info'[k].attempt = Cardinality(Earlier(k)') + 1
                      /\ Failed(k)' => (info'[k].final <=> ~Rule(k)')
                      /\ info'[k].manual => Cardinality(Earlier(k)') > MaxOf(k)'
    BY DEF RecordedRight, NoInfo
  <2>1. k \in AttemptIds /\ info'[k] = info[k] /\ k # i
    BY <1>5, <1>8, <1>12
  <2> QED
    BY <1>10, <1>11, <1>17, <2>1 DEF RetryInv, RecordedRight
<1>19. WithinLimit'
  <2> SUFFICES ASSUME NEW k \in AttemptIds', attempts'[k].by # "user"
               PROVE  Cardinality(Earlier(k)') <= MaxOf(k)'
    BY DEF WithinLimit
  <2>1. CASE k \in AttemptIds
    BY <1>7, <1>10, <1>17, <2>1 DEF RetryInv, WithinLimit, Kept
  <2>2. CASE k \notin AttemptIds
    <3>1. k = n /\ GitLabRetries(l, why) /\ attempts'[n].line = l /\ Len(attempts') = n
      BY <1>4, <1>8, <2>2
    <3>2. Earlier(n)' = OfLine(l)
      BY <1>1, <1>7, <3>1, EarlierOfNew DEF RetryInv
    <3>3. Cardinality(OfLine(l)) \in Nat
      <4>1. Len(attempts) \in Int /\ IsFiniteSet(1 .. Len(attempts))
        BY <1>1, FS_Interval
      <4>2. OfLine(l) \in SUBSET (1 .. Len(attempts))
        BY DEF OfLine, AttemptIds
      <4> QED
        BY <4>1, <4>2, FS_Subset, FS_CardinalityType
    <3>4. config[l].max \in Nat
      BY <1>1, RetryAssumption DEF RetryInv, RetryTypeOK
    <3>5. Cardinality(OfLine(l)) <= config[l].max
      BY <3>1, <3>3, <3>4 DEF GitLabRetries
    <3> QED
      BY <1>1, <3>1, <3>2, <3>5 DEF MaxOf
  <2> QED
    BY <2>1, <2>2
<1> QED
  BY <1>6, <1>15, <1>16, <1>18, <1>19 DEF RetryInv

(* What is recorded, however late, is what GitLab's rule says.             *)
LEMMA RecordRetryInv ==
    ASSUME RetryInv, NEW i \in AttemptIds, RecordRetry(i)
    PROVE  RetryInv'
<1>1. /\ attempts' = attempts /\ config' = config /\ Finished(i)
      /\ info' = [info EXCEPT ![i] = RetryData(i)]
  BY DEF RecordRetry
<1>2. RetryData(i) \in Infos /\ RetryData(i).attempt = Cardinality(Earlier(i)) + 1
  BY EarlierFinite DEF RetryData, Infos, RetryInv
<1>3. info \in Seq(Infos) /\ Len(info) = Len(attempts) /\ AttemptIds = 1 .. Len(attempts)
  BY DEF RetryInv, RetryTypeOK, AttemptIds
<1>4. /\ info' \in Seq(Infos) /\ Len(info') = Len(info)
      /\ \A k \in AttemptIds : info'[k] = IF k = i THEN RetryData(i) ELSE info[k]
  <2> HIDE DEF RetryData
  <2> QED
    BY <1>1, <1>2, <1>3
<1>5. RetryTypeOK' /\ AttemptIds' = AttemptIds
  BY <1>1, <1>4 DEF RetryInv, RetryTypeOK, AttemptIds
<1>6. OneRunning'
  BY <1>1, <1>5 DEF RetryInv, OneRunning, Finished
<1>7. \A k : /\ Earlier(k)' = Earlier(k) /\ (RetriedByGitLab(k)' <=> RetriedByGitLab(k))
             /\ (Rule(k)' <=> Rule(k)) /\ (Failed(k)' <=> Failed(k)) /\ (Finished(k)' <=> Finished(k))
             /\ MaxOf(k)' = MaxOf(k)
  BY <1>1, <1>5 DEF Earlier, OfLine, RetriedByGitLab, Rule, Failed, Finished, MaxOf
<1>8. RuleFollowed' /\ WithinLimit'
  BY <1>1, <1>5, <1>7 DEF RetryInv, RuleFollowed, WithinLimit
<1>9. RecordedRight'
  <2> SUFFICES ASSUME NEW k \in AttemptIds, info'[k] # NoInfo
               PROVE  /\ Finished(k) /\ info'[k].attempt = Cardinality(Earlier(k)) + 1
                      /\ Failed(k) => (info'[k].final <=> ~Rule(k))
                      /\ info'[k].manual => Cardinality(Earlier(k)) > MaxOf(k)
    BY <1>5, <1>7 DEF RecordedRight, NoInfo
  <2>1. CASE k = i
    BY <1>1, <1>2, <1>4, <2>1, DataFollowsRule DEF RetryInv
  <2>2. CASE k # i
    BY <1>4, <2>2 DEF RetryInv, RecordedRight
  <2> QED
    BY <2>1, <2>2
<1> QED
  BY <1>5, <1>6, <1>8, <1>9 DEF RetryInv

LEMMA RetryNextInv == RetryInv /\ [RetryNext]_retryVars => RetryInv'
<1> SUFFICES ASSUME RetryInv, [RetryNext]_retryVars PROVE RetryInv'
  OBVIOUS
<1>1. ASSUME NEW l \in Lines, RetryLine(l) PROVE RetryInv'
  BY <1>1, PipelineCreatesInv, UserRetriesInv DEF RetryLine
<1>2. ASSUME NEW i \in AttemptIds, RetryAttempt(i) PROVE RetryInv'
  BY <1>2, AttemptSucceedsInv, RecordRetryInv, AttemptFailsInv DEF RetryAttempt
<1>3. CASE UNCHANGED retryVars
  <2>1. AttemptIds' = AttemptIds /\ RetryTypeOK'
    BY <1>3 DEF retryVars, AttemptIds, RetryInv, RetryTypeOK
  <2>2. \A k : /\ Earlier(k)' = Earlier(k) /\ (RetriedByGitLab(k)' <=> RetriedByGitLab(k))
               /\ (Rule(k)' <=> Rule(k)) /\ (Failed(k)' <=> Failed(k)) /\ (Finished(k)' <=> Finished(k))
               /\ MaxOf(k)' = MaxOf(k)
    BY <1>3, <2>1 DEF retryVars, Earlier, OfLine, RetriedByGitLab, Rule, Failed, Finished, MaxOf
  <2>3. OneRunning' /\ RuleFollowed' /\ WithinLimit'
    BY <1>3, <2>1, <2>2 DEF retryVars, RetryInv, OneRunning, RuleFollowed, WithinLimit
  <2>4. RecordedRight'
    BY <1>3, <2>1, <2>2 DEF retryVars, RetryInv, RecordedRight, NoInfo
  <2> QED
    BY <2>1, <2>3, <2>4 DEF RetryInv
<1> QED
  BY <1>1, <1>2, <1>3 DEF RetryNext

LEMMA RetryInvariance == RetrySpec => []RetryInv
BY RetryInitInv, RetryNextInv, PTL DEF RetrySpec

(* However late and in whatever order the tasks of the attempts run, they  *)
(* are numbered as GitLab made them, final if GitLab did not retry, and    *)
(* manual only if a user made them.                                        *)
THEOREM RetryDataExact == RetrySpec => []RetryInfoExact
<1>1. RetryInv => RetryInfoExact
  <2> SUFFICES ASSUME RetryInv, NEW i \in AttemptIds, info[i] # NoInfo
               PROVE  /\ info[i].attempt
                            = Cardinality({j \in 1 .. i : attempts[j].line = attempts[i].line})
                      /\ Failed(i) => (info[i].final <=> ~RetriedByGitLab(i))
                      /\ info[i].manual => attempts[i].by = "user"
    BY DEF RetryInfoExact
  <2>1. /\ info[i].attempt = Cardinality(Earlier(i)) + 1
        /\ Failed(i) => (info[i].final <=> ~Rule(i))
        /\ info[i].manual => Cardinality(Earlier(i)) > MaxOf(i)
    BY DEF RetryInv, RecordedRight
  <2>2. info[i].manual => attempts[i].by = "user"
    <3>1. Cardinality(Earlier(i)) \in Nat /\ MaxOf(i) \in Nat
      BY EarlierFinite, AttemptsTyped, RetryAssumption DEF RetryInv, RetryTypeOK, MaxOf
    <3>2. attempts[i].by # "user" => Cardinality(Earlier(i)) <= MaxOf(i)
      BY DEF RetryInv, WithinLimit
    <3> QED
      BY <2>1, <3>1, <3>2
  <2> QED
    BY <2>1, <2>2, Numbered DEF RetryInv, RuleFollowed
<1> QED
  BY <1>1, RetryInvariance, PTL

-----------------------------------------------------------------------------
(***************************************************************************)
(* PodUsage.                                                               *)
(***************************************************************************)
PodInv ==
    /\ scrapes \in Seq(SUBSET Pods) /\ Len(scrapes) <= Horizon
    /\ span \in Nat \X Nat
    /\ span[2] # 0 => 1 <= span[1] /\ span[1] <= span[2] /\ span[2] <= Len(scrapes)
    /\ ShareInRange

(***************************************************************************)
(* The unit of the shares: every number of pods gets at least one.         *)
(***************************************************************************)
LEMMA UnitIs ==
    \E mult : /\ \A n \in 0 .. Cardinality(Pods) : mult[n] = IF n = 0 THEN 1 ELSE n * mult[n - 1]
              /\ Unit = mult[Cardinality(Pods)]
<1> DEFINE K == Cardinality(Pods)
           Def(f) == [n \in 0 .. K |-> IF n = 0 THEN 1 ELSE n * f[n - 1]]
           m == CHOOSE f : f = Def(f)
<1>1. K \in Nat
  BY PodAssumption, FS_CardinalityType
<1>2. \E f : f = Def(f)
  <2> DEFINE next == [p \in Nat \X Nat |-> p[1] * p[2]]
  <2>1. next \in [Nat \X Nat -> Nat] /\ \A i \in Nat, j \in Nat : next[<<i, j>>] = i * j
    OBVIOUS
  <2> HIDE DEF next, K
  <2>2. PICK f \in [0 .. K -> Nat] :
           \A n \in 0 .. K : f[n] = IF n = 0 THEN 1 ELSE next[<<n, f[n - 1]>>]
    <3>1. 1 \in Nat
      OBVIOUS
    <3> QED
      BY <1>1, <2>1, <3>1, RecursionOnNat
  <2>3. ASSUME NEW n \in 0 .. K PROVE f[n] = IF n = 0 THEN 1 ELSE n * f[n - 1]
    <3>1. n # 0 => n \in Nat /\ f[n - 1] \in Nat
      BY <1>1
    <3> QED
      BY <2>1, <2>2, <3>1
  <2>4. f = Def(f)
    BY <2>3
  <2> QED
    BY <2>4
<1>3. m = Def(m)
  BY <1>2
<1>4. Unit = m[K]
  BY Zenon DEF Unit
<1> HIDE DEF m
<1>5. \A n \in 0 .. K : m[n] = IF n = 0 THEN 1 ELSE n * m[n - 1]
  BY <1>3
<1> QED
  BY <1>4, <1>5

LEMMA UnitBounds ==
    Cardinality(Pods) \in Nat /\ Unit \in Nat /\ Unit >= 1 /\ Unit >= Cardinality(Pods)
<1> DEFINE K == Cardinality(Pods)
<1>1. K \in Nat
  BY PodAssumption, FS_CardinalityType
<1>2. PICK m : /\ \A n \in 0 .. K : m[n] = IF n = 0 THEN 1 ELSE n * m[n - 1]
               /\ Unit = m[K]
  BY UnitIs
<1> DEFINE S == {n \in Nat : n <= K => m[n] \in Nat /\ m[n] >= 1 /\ m[n] >= n}
<1>3. 0 \in S
  BY <1>1, <1>2
<1>4. ASSUME NEW n \in Nat, n \in S PROVE n + 1 \in S
  <2> SUFFICES ASSUME n + 1 <= K
               PROVE  m[n + 1] \in Nat /\ m[n + 1] >= 1 /\ m[n + 1] >= n + 1
    OBVIOUS
  <2>1. m[n] \in Nat /\ m[n] >= 1
    BY <1>1, <1>4
  <2>2. m[n + 1] = (n + 1) * m[n]
    BY <1>1, <1>2
  <2>3. (n + 1) * m[n] \in Nat /\ (n + 1) * m[n] >= n + 1
    BY <2>1
  <2> QED
    BY <2>2, <2>3
<1> HIDE DEF S
<1>5. Nat \subseteq S
  BY <1>3, <1>4, AllNat
<1> QED
  BY <1>1, <1>2, <1>5 DEF S

LEMMA Quotient ==
    ASSUME NEW u \in Nat, NEW k \in Nat, 1 <= k, k <= u
    PROVE  u \div k \in Nat /\ 1 <= u \div k /\ u \div k <= u
OBVIOUS

LEMMA ShareBounds ==
    ASSUME NEW k \in 1 .. Cardinality(Pods)
    PROVE  Unit \div k \in Nat /\ 1 <= Unit \div k /\ Unit \div k <= Unit
<1>1. k \in Nat /\ 1 <= k /\ k <= Unit /\ Unit \in Nat
  BY UnitBounds
<1> QED
  BY <1>1, Quotient

LEMMA Times ==
    ASSUME NEW s \in Nat, NEW x \in Nat, NEW y \in Nat, x <= y
    PROVE  s * x <= s * y /\ s * (x + 1) = s * x + s
<1> DEFINE d == y - x
<1>1. d \in Nat /\ y = x + d
  OBVIOUS
<1> HIDE DEF d
<1>2. s * y = s * x + s * d /\ s * d \in Nat /\ s * x \in Nat
  BY <1>1
<1> QED
  BY <1>2

(* Two points a query was asked for are a step apart.                      *)
LEMMA Apart ==
    ASSUME NEW a \in Nat, NEW b \in Nat, NEW s \in Nat \ {0}, a % s = 0, b % s = 0, a < b
    PROVE  a + s <= b
<1> DEFINE x == a \div s
           y == b \div s
<1>1. x \in Nat /\ y \in Nat /\ a = s * x /\ b = s * y
  <2>1. a = s * (a \div s) + (a % s) /\ b = s * (b \div s) + (b % s)
    OBVIOUS
  <2>2. x \in Nat /\ y \in Nat
    OBVIOUS
  <2> HIDE DEF x, y
  <2>3. s * x \in Nat /\ s * y \in Nat
    BY <2>2
  <2> QED
    BY <2>1, <2>2, <2>3 DEF x, y
<1> HIDE DEF x, y
<1>2. x < y
  <2> SUFFICES ASSUME y <= x PROVE FALSE
    BY <1>1
  <2>1. s * y <= s * x
    BY <1>1, Times
  <2> QED
    BY <1>1, <2>1
<1>3. s * (x + 1) <= s * y /\ s * (x + 1) = s * x + s
  <2>1. x + 1 \in Nat /\ x + 1 <= y
    BY <1>1, <1>2
  <2> QED
    BY <1>1, <2>1, Times
<1> QED
  BY <1>1, <1>3

(***************************************************************************)
(* The sum of the shares over points in time that are a step apart.        *)
(***************************************************************************)
LEMMA SumIs ==
    ASSUME NEW T \in SUBSET (1 .. Horizon), \A t \in T : Present(t) \in 1 .. Cardinality(Pods)
    PROVE  \E sum \in [0 .. Horizon -> Nat] :
              /\ SumShares(T) = sum[Horizon] /\ sum[0] = 0
              /\ \A t \in 1 .. Horizon :
                    sum[t] = sum[t - 1] + (IF t \in T THEN Unit \div Present(t) ELSE 0)
<1> DEFINE Share(t) == IF t \in T THEN Unit \div Present(t) ELSE 0
           Def(f) == [t \in 0 .. Horizon |-> IF t = 0 THEN 0 ELSE f[t - 1] + Share(t)]
           m == CHOOSE f : f = Def(f)
<1>1. Horizon \in Nat /\ \A t : Share(t) \in Nat
  BY PodAssumption, ShareBounds
<1>2. \E f : f = Def(f)
  <2> DEFINE next == [p \in Nat \X Nat |-> p[2] + Share(p[1])]
  <2> HIDE DEF Share
  <2>1. next \in [Nat \X Nat -> Nat] /\ \A i \in Nat, j \in Nat : next[<<i, j>>] = j + Share(i)
    BY <1>1
  <2> HIDE DEF next
  <2>2. PICK f \in [0 .. Horizon -> Nat] :
           \A t \in 0 .. Horizon : f[t] = IF t = 0 THEN 0 ELSE next[<<t, f[t - 1]>>]
    <3>1. 0 \in Nat
      OBVIOUS
    <3> QED
      BY <1>1, <2>1, <3>1, RecursionOnNat
  <2>3. ASSUME NEW t \in 0 .. Horizon PROVE f[t] = IF t = 0 THEN 0 ELSE f[t - 1] + Share(t)
    <3>1. t # 0 => t \in Nat /\ f[t - 1] \in Nat
      BY <1>1
    <3> QED
      BY <2>1, <2>2, <3>1
  <2>4. f = Def(f)
    BY <2>3
  <2> QED
    BY <2>4
<1>3. m = Def(m)
  BY <1>2
<1>4. SumShares(T) = m[Horizon]
  BY Zenon DEF SumShares
<1> HIDE DEF m, Share
<1>5. \A t \in 0 .. Horizon : m[t] = IF t = 0 THEN 0 ELSE m[t - 1] + Share(t)
  BY <1>3
<1>6. \A t \in 0 .. Horizon : m[t] \in Nat
  <2> DEFINE S == {t \in Nat : t <= Horizon => m[t] \in Nat}
  <2>1. 0 \in S
    BY <1>1, <1>5
  <2>2. ASSUME NEW t \in Nat, t \in S PROVE t + 1 \in S
    <3> SUFFICES ASSUME t + 1 <= Horizon PROVE m[t + 1] \in Nat
      OBVIOUS
    <3>1. m[t] \in Nat /\ m[t + 1] = m[t] + Share(t + 1)
      BY <1>1, <1>5, <2>2
    <3> QED
      BY <1>1, <3>1
  <2> HIDE DEF S
  <2>3. Nat \subseteq S
    BY <2>1, <2>2, AllNat
  <2> QED
    BY <1>1, <2>3 DEF S
<1>7. m \in [0 .. Horizon -> Nat]
  BY <1>3, <1>6
<1>8. \A t \in 1 .. Horizon : m[t] = m[t - 1] + (IF t \in T THEN Unit \div Present(t) ELSE 0)
  BY <1>1, <1>5 DEF Share
<1>9. m[0] = 0
  BY <1>1, <1>5
<1> QED
  BY <1>4, <1>7, <1>8, <1>9

(* At every point the next share fits into the step since the last one.    *)
LEMMA SumBounds ==
    ASSUME NEW step \in Nat \ {0}, NEW first \in Nat, NEW last \in 1 .. Horizon,
           NEW T \in SUBSET (1 .. Horizon), \A t \in T : Present(t) \in 1 .. Cardinality(Pods),
           last \in T, \A t \in T : first + step <= t /\ t <= last,
           \A t \in T, u \in T : u < t => u + step <= t
    PROVE  /\ SumShares(T) \in Nat /\ 1 <= SumShares(T)
           /\ step * SumShares(T) <= Unit * (last - first)
<1>1. PICK sum \in [0 .. Horizon -> Nat] :
         /\ SumShares(T) = sum[Horizon] /\ sum[0] = 0
         /\ \A t \in 1 .. Horizon :
               sum[t] = sum[t - 1] + (IF t \in T THEN Unit \div Present(t) ELSE 0)
  BY SumIs
<1>2. Horizon \in Nat /\ Unit \in Nat /\ \A t \in 0 .. Horizon : sum[t] \in Nat
  BY PodAssumption, UnitBounds
<1> DEFINE Fits(t, v) == (\A u \in T : u <= t => u <= v) => step * sum[t] <= Unit * (v - first)
           Some(t) == (\E u \in T : u <= t) => 1 <= sum[t]
           S == {t \in Nat : t <= Horizon =>
                              Some(t) /\ \A v \in Nat : first <= v => Fits(t, v)}
<1>3. 0 \in S
  <2>1. ~\E u \in T : u <= 0
    BY <1>2
  <2>2. ASSUME NEW v \in Nat, first <= v PROVE step * sum[0] <= Unit * (v - first)
    <3>1. step * sum[0] = 0 /\ v - first \in Nat
      BY <1>1, <2>2
    <3> QED
      BY <1>2, <3>1
  <2> QED
    BY <2>1, <2>2
<1>4. ASSUME NEW t \in Nat, t \in S PROVE t + 1 \in S
  <2> SUFFICES ASSUME t + 1 <= Horizon
               PROVE  Some(t + 1) /\ \A v \in Nat : first <= v => Fits(t + 1, v)
    OBVIOUS
  <2>1. Some(t) /\ \A v \in Nat : first <= v => Fits(t, v)
    BY <1>2, <1>4
  <2>2. sum[t] \in Nat /\ sum[t + 1] \in Nat
    BY <1>2
  <2>3. CASE t + 1 \notin T
    <3>1. sum[t + 1] = sum[t]
      BY <1>1, <1>2, <2>2, <2>3
    <3>2. \A u \in T : u <= t + 1 => u <= t
      BY <1>2, <2>3
    <3>3. Some(t + 1)
      BY <2>1, <3>1, <3>2
    <3>4. ASSUME NEW v \in Nat, first <= v PROVE Fits(t + 1, v)
      <4>1. Fits(t, v)
        BY <2>1, <3>4
      <4>2. (\A u \in T : u <= t + 1 => u <= v) => \A u \in T : u <= t => u <= v
        BY <1>2
      <4> QED
        BY <3>1, <4>1, <4>2
    <3> HIDE DEF Fits, Some
    <3> QED
      BY <3>3, <3>4
  <2>4. CASE t + 1 \in T
    <3> DEFINE w == Unit \div Present(t + 1)
    <3>1. sum[t + 1] = sum[t] + w
      BY <1>1, <1>2, <2>4
    <3>2. w \in Nat /\ 1 <= w /\ w <= Unit
      BY <2>4, ShareBounds
    <3> HIDE DEF w
    <3>3. Some(t + 1)
      BY <2>2, <3>1, <3>2
    <3>4. ASSUME NEW v \in Nat, first <= v, \A u \in T : u <= t + 1 => u <= v
          PROVE  step * sum[t + 1] <= Unit * (v - first)
      <4>1. t + 1 <= v /\ first + step <= t + 1
        BY <2>4, <3>4
      <4> DEFINE d == t + 1 - step - first
      <4>2. d \in Nat /\ t + 1 - step \in Nat /\ v - first \in Nat /\ d + step <= v - first
        BY <4>1
      <4>3. step * sum[t] <= Unit * d
        <5>1. \A u \in T : u <= t => u <= t + 1 - step
          <6> SUFFICES ASSUME NEW u \in T, u <= t PROVE u <= t + 1 - step
            OBVIOUS
          <6>1. u \in Nat /\ u + step <= t + 1
            BY <1>2, <2>4
          <6> QED
            BY <6>1
        <5>2. first <= t + 1 - step
          BY <4>1
        <5>3. Fits(t, t + 1 - step)
          BY <2>1, <4>2, <5>2
        <5> QED
          BY <5>1, <5>3
      <4> HIDE DEF d
      <4>4. step * sum[t + 1] = step * sum[t] + step * w
        BY <2>2, <3>1, <3>2
      <4>5. step * w <= step * Unit
        BY <1>2, <3>2
      <4>6. Unit * d + step * Unit = Unit * (d + step)
        BY <1>2, <4>2
      <4>7. Unit * (d + step) <= Unit * (v - first)
        BY <1>2, <4>2
      <4>8. /\ step * sum[t] \in Nat /\ step * w \in Nat /\ step * Unit \in Nat /\ Unit * d \in Nat
            /\ Unit * (v - first) \in Nat /\ Unit * (d + step) \in Nat
        BY <1>2, <2>2, <3>2, <4>2
      <4> QED
        BY <4>3, <4>4, <4>5, <4>6, <4>7, <4>8
    <3>5. \A v \in Nat : first <= v => Fits(t + 1, v)
      BY <3>4
    <3> HIDE DEF Fits, Some
    <3> QED
      BY <3>3, <3>5
  <2> QED
    BY <2>3, <2>4
<1> HIDE DEF S
<1>5. Horizon \in S
  BY <1>2, <1>3, <1>4, AllNat
<1>6. Some(Horizon) /\ Fits(Horizon, last) /\ first <= last
  <2>1. first <= last /\ last \in Nat
    BY <1>2
  <2> QED
    BY <1>2, <1>5, <2>1 DEF S
<1> QED
  BY <1>1, <1>2, <1>6

(***************************************************************************)
(* The points in time the query answers with.                              *)
(***************************************************************************)
(* The first and the last of some points in time are among them.           *)
LEMMA EndsOfTime ==
    ASSUME NEW T \in SUBSET (1 .. Horizon), T # {}
    PROVE  /\ FirstOf(T) \in T /\ \A u \in T : FirstOf(T) <= u
           /\ LastOf(T) \in T /\ \A u \in T : u <= LastOf(T)
<1>1. Horizon \in Nat
  BY PodAssumption
<1>2. \E t \in T : \A u \in T : t <= u
  <2>1. T \in SUBSET Nat
    BY <1>1
  <2> QED
    BY <2>1, LeastNat
<1>3. \E t \in T : \A u \in T : u <= t
  <2> DEFINE B == {Horizon - u : u \in T}
  <2>1. B \in SUBSET Nat /\ B # {}
    <3>1. \A u \in T : Horizon - u \in Nat
      BY <1>1
    <3> QED
      BY <3>1
  <2>2. PICK b \in B : \A c \in B : b <= c
    <3> HIDE DEF B
    <3> QED
      BY <2>1, LeastNat
  <2>3. PICK t \in T : b = Horizon - t
    BY <2>2
  <2>4. ASSUME NEW u \in T PROVE u <= t
    <3>1. Horizon - t <= Horizon - u
      BY <2>2, <2>3
    <3> QED
      BY <1>1, <3>1
  <2> QED
    BY <2>4
<1> QED
  BY <1>2, <1>3 DEF FirstOf, LastOf

LEMMA TimelineTyped ==
    ASSUME PodInv, span[2] # 0, NEW step \in Nat \ {0}
    PROVE  /\ Timeline(step) \in SUBSET (1 .. Horizon)
           /\ \A t \in Timeline(step) : Present(t) \in 1 .. Cardinality(Pods)
           /\ \A t \in Timeline(step), u \in Timeline(step) : u < t => u + step <= t
<1>1. /\ scrapes \in Seq(SUBSET Pods) /\ Len(scrapes) \in Nat /\ Len(scrapes) <= Horizon
      /\ span[1] \in Nat /\ span[2] \in Nat /\ 1 <= span[1] /\ span[2] <= Len(scrapes)
      /\ Horizon \in Nat
  BY PodAssumption DEF PodInv
<1>2. Timeline(step) \in SUBSET (1 .. Horizon)
  BY <1>1 DEF Timeline, Asked
<1>3. ASSUME NEW t \in Timeline(step) PROVE Present(t) \in 1 .. Cardinality(Pods)
  <2>1. scrapes[t] \in SUBSET Pods /\ scrapes[t] # {}
    BY <1>1 DEF Timeline, Asked
  <2>2. IsFiniteSet(Pods)
    BY PodAssumption
  <2>3. IsFiniteSet(scrapes[t]) /\ Cardinality(scrapes[t]) <= Cardinality(Pods)
    BY <2>1, <2>2, FS_Subset
  <2>4. Cardinality(scrapes[t]) \in Nat /\ Cardinality(Pods) \in Nat /\ Cardinality(scrapes[t]) # 0
    BY <2>1, <2>2, <2>3, FS_CardinalityType, FS_EmptySet
  <2> QED
    BY <2>3, <2>4 DEF Present
<1>4. ASSUME NEW t \in Timeline(step), NEW u \in Timeline(step), u < t PROVE u + step <= t
  <2> DEFINE a == u - span[1]
             b == t - span[1]
  <2>1. /\ u \in span[1] .. span[2] /\ a % step = 0
        /\ t \in span[1] .. span[2] /\ b % step = 0
    BY DEF Timeline, Asked
  <2>2. a \in Nat /\ b \in Nat /\ a < b
    BY <1>1, <1>4, <2>1
  <2>3. a + step <= b
    <3> HIDE DEF a, b
    <3> QED
      BY <2>1, <2>2, Apart
  <2>4. t \in Nat /\ u \in Nat
    BY <1>1, <2>1
  <2> QED
    BY <1>1, <2>3, <2>4
<1> QED
  BY <1>2, <1>3, <1>4

LEMMA OccupancyInRange ==
    ASSUME PodInv, span[2] # 0, NEW step \in PodSteps, UsageFound(step)
    PROVE  0 < Occupancy(step)[1] /\ Occupancy(step)[1] <= Occupancy(step)[2]
<1> SUFFICES ASSUME NEW T, T = Timeline(step), NEW f, f = FirstOf(T), NEW l, l = LastOf(T)
             PROVE  0 < Occupancy(step)[1] /\ Occupancy(step)[1] <= Occupancy(step)[2]
  OBVIOUS
<1>1. step \in Nat \ {0} /\ Horizon \in Nat /\ Unit \in Nat
  BY PodAssumption, UnitBounds
<1>2. /\ T \in SUBSET (1 .. Horizon)
      /\ \A t \in T : Present(t) \in 1 .. Cardinality(Pods)
      /\ \A t \in T, u \in T : u < t => u + step <= t
  BY <1>1, TimelineTyped
<1>3. T # {}
  BY DEF UsageFound, Series, Timeline
<1>4. f \in T /\ l \in T /\ \A u \in T : f <= u /\ u <= l
  BY <1>2, <1>3, EndsOfTime
<1>5. f \in Nat /\ l \in Nat /\ l \in 1 .. Horizon
  BY <1>1, <1>2, <1>4
<1>6. CASE f = l
  <2>1. Occupancy(step) = <<Unit \div Present(f), Unit>>
    BY <1>6 DEF Occupancy
  <2>2. Unit \div Present(f) \in Nat /\ 1 <= Unit \div Present(f) /\ Unit \div Present(f) <= Unit
    BY <1>2, <1>4, ShareBounds
  <2> QED
    BY <2>1, <2>2
<1>7. CASE f # l
  <2> DEFINE C == Counted(T)
  <2>1. Occupancy(step) = <<step * SumShares(C), Unit * (l - f)>>
    BY <1>7 DEF Occupancy
  <2>2. C = T \ {f}
    BY DEF Counted
  <2>3. /\ C \in SUBSET (1 .. Horizon) /\ l \in C
        /\ \A t \in C : Present(t) \in 1 .. Cardinality(Pods)
        /\ \A t \in C, u \in C : u < t => u + step <= t
    BY <1>2, <1>4, <1>7, <2>2
  <2>4. ASSUME NEW t \in C PROVE f + step <= t /\ t <= l
    <3>1. t \in T /\ t # f /\ t \in Nat /\ f <= t /\ t <= l
      BY <1>1, <1>2, <1>4, <2>2
    <3>2. f < t
      BY <1>5, <3>1
    <3> QED
      BY <1>2, <1>4, <3>1, <3>2
  <2> HIDE DEF C
  <2>5. /\ SumShares(C) \in Nat /\ 1 <= SumShares(C)
        /\ step * SumShares(C) <= Unit * (l - f)
    BY <1>1, <1>5, <2>3, <2>4, SumBounds
  <2>6. 0 < step * SumShares(C)
    BY <1>1, <2>5
  <2> QED
    BY <2>1, <2>5, <2>6
<1> QED
  BY <1>6, <1>7

(***************************************************************************)
(* The invariant.                                                          *)
(***************************************************************************)
LEMMA PodInitInv == PodInit => PodInv
<1> SUFFICES ASSUME PodInit PROVE PodInv
  OBVIOUS
<1>1. span = <<0, 0>> /\ scrapes = <<>> /\ jobInfo.from = "no"
  BY DEF PodInit, NotRetrieved
<1> QED
  BY <1>1, PodAssumption DEF PodInv, ShareInRange

LEMMA PodNextInv == PodInv /\ [PodNext]_podVars => PodInv'
<1> SUFFICES ASSUME PodInv, [PodNext]_podVars PROVE PodInv'
  OBVIOUS
<1>1. /\ scrapes \in Seq(SUBSET Pods) /\ Len(scrapes) \in Nat /\ Len(scrapes) <= Horizon
      /\ span \in Nat \X Nat /\ span[1] \in Nat /\ span[2] \in Nat /\ Horizon \in Nat
      /\ span[2] # 0 => 1 <= span[1] /\ span[1] <= span[2] /\ span[2] <= Len(scrapes)
  BY PodAssumption DEF PodInv
<1>2. CASE Scrape
  <2>1. PICK pods \in SUBSET Pods : scrapes' = Append(scrapes, pods)
    BY <1>2 DEF Scrape
  <2>2. scrapes' \in Seq(SUBSET Pods) /\ Len(scrapes') = Len(scrapes) + 1
    BY <1>1, <2>1
  <2>3. span' = span /\ jobInfo' = jobInfo /\ Len(scrapes) < Horizon
    BY <1>2 DEF Scrape
  <2> QED
    BY <1>1, <2>2, <2>3 DEF PodInv, ShareInRange
<1>3. CASE JobStarts
  <2>1. span' = <<Len(scrapes) + 1, 0>> /\ UNCHANGED <<scrapes, jobInfo>>
    BY <1>3 DEF JobStarts
  <2>2. span' \in Nat \X Nat /\ span'[2] = 0
    BY <1>1, <2>1
  <2> QED
    BY <2>1, <2>2 DEF PodInv, ShareInRange
<1>4. CASE JobEnds
  <2>1. /\ span' = <<span[1], Len(scrapes)>> /\ UNCHANGED <<scrapes, jobInfo>>
        /\ span[1] # 0 /\ span[1] <= Len(scrapes)
    BY <1>4 DEF JobEnds
  <2>2. span' \in Nat \X Nat /\ span'[1] = span[1] /\ span'[2] = Len(scrapes)
    BY <1>1, <2>1
  <2>3. 1 <= span'[1] /\ span'[1] <= span'[2] /\ span'[2] <= Len(scrapes')
    BY <1>1, <2>1, <2>2
  <2> QED
    BY <2>1, <2>2, <2>3 DEF PodInv, ShareInRange
<1>5. CASE RetrieveJobInfo
  <2>1. UNCHANGED <<scrapes, span>> /\ span[2] # 0
    BY <1>5 DEF RetrieveJobInfo
  <2>2. ShareInRange'
    <3>1. PICK failure \in Failures, step \in PodSteps :
             jobInfo' = IF FromPrometheus(failure, step)
                        THEN [from |-> "prometheus", occupancy |-> Occupancy(step), step |-> step]
                        ELSE [from |-> IF Raised(failure, step) THEN "raised" ELSE Fallback,
                              failure |-> failure, step |-> step]
      BY <1>5 DEF RetrieveJobInfo
    <3>2. CASE FromPrometheus(failure, step)
      <4>1. jobInfo'.occupancy = Occupancy(step)
        BY <3>1, <3>2
      <4>2. 0 < Occupancy(step)[1] /\ Occupancy(step)[1] <= Occupancy(step)[2]
        BY <2>1, <3>2, OccupancyInRange DEF FromPrometheus
      <4> QED
        BY <4>1, <4>2 DEF ShareInRange
    <3>3. CASE ~FromPrometheus(failure, step)
      <4>1. jobInfo'.from \in {"raised", Fallback}
        BY <3>1, <3>3
      <4>2. Fallback # "prometheus"
        BY DEF Fallback
      <4> QED
        BY <4>1, <4>2 DEF ShareInRange
    <3> QED
      BY <3>2, <3>3
  <2> QED
    BY <2>1, <2>2 DEF PodInv
<1>6. CASE UNCHANGED podVars
  BY <1>6 DEF podVars, PodInv, ShareInRange
<1> QED
  BY <1>2, <1>3, <1>4, <1>5, <1>6 DEF PodNext

LEMMA PodInvariance == PodSpec => []PodInv
BY PodInitInv, PodNextInv, PTL DEF PodSpec

(* Whatever pods share the node and whatever scrapes are missing, a job is *)
(* billed more than nothing and never more than the node.                  *)
THEOREM ShareIsAPart == PodSpec => []ShareInRange
BY PodInvariance, PTL DEF PodInv

-----------------------------------------------------------------------------
(***************************************************************************)
(* ErrorClass.                                                             *)
(***************************************************************************)
ErrorTypeOK ==
    /\ logs \in [FailedJobs -> SUBSET Columns]
    /\ \A j \in FailedJobs : logs[j] = NoLog \/ logs[j] \subseteq Classes
    /\ columns \in [Columns -> SUBSET FailedJobs] /\ done \in Nat
    /\ stage \in {"get-logs", "classify", "classified", "deconflict", "saved"}

ClassOf(j) == FirstIn(DeconflictOrder, logs[j])

(* From classify on, a job has the first class of its log, and others of   *)
(* it only until deconflict has done that one.                             *)
MarkedWell(j) ==
    IF logs[j] = {} THEN Marks(j) = {OtherErrors}
    ELSE /\ ClassOf(j) \in Marks(j) /\ Marks(j) \subseteq logs[j]
         /\ \A l \in 1 .. done : DeconflictOrder[l] \in logs[j] => Marks(j) = {ClassOf(j)}

ErrorInv ==
    /\ ErrorTypeOK
    /\ stage # "get-logs" => \A j \in FailedJobs : logs[j] # NoLog
    /\ stage = "get-logs" => columns = Unmarked
    /\ stage = "classify" =>
         /\ done <= Len(Taxonomy) /\ columns[OtherErrors] = {}
         /\ \A k \in 1 .. done : columns[Taxonomy[k]] = Grepped(Taxonomy[k])
    /\ stage = "deconflict" =>
         /\ done <= Len(DeconflictOrder)
         /\ \A j \in FailedJobs : MarkedWell(j)
    /\ stage = "classified" => done = 0 /\ \A j \in FailedJobs : MarkedWell(j)
    /\ stage = "saved" =>
         /\ done = 0
         /\ \A j \in FailedJobs :
               Marks(j) = IF logs[j] = {} THEN {OtherErrors} ELSE {ClassOf(j)}

LEMMA Orders ==
    /\ Len(Taxonomy) \in Nat /\ Len(DeconflictOrder) \in Nat
    /\ \A k \in 1 .. Len(Taxonomy) : Taxonomy[k] \in Classes /\ Taxonomy[k] # OtherErrors
    /\ \A k \in 1 .. Len(DeconflictOrder) : DeconflictOrder[k] \in Classes
    /\ \A c \in Classes : (\E k \in 1 .. Len(Taxonomy) : c = Taxonomy[k])
                          /\ (\E k \in 1 .. Len(DeconflictOrder) : c = DeconflictOrder[k])
    /\ OtherErrors \notin Classes
<1>1. Taxonomy \in Seq(Classes) /\ DeconflictOrder \in Seq(Classes)
  BY ErrorAssumption
<1>2. /\ Len(Taxonomy) \in Nat /\ DOMAIN Taxonomy = 1 .. Len(Taxonomy)
      /\ Len(DeconflictOrder) \in Nat /\ DOMAIN DeconflictOrder = 1 .. Len(DeconflictOrder)
  BY <1>1
<1>3. \A c \in Classes : \E k \in DOMAIN Taxonomy : c = Taxonomy[k]
  BY DEF Classes
<1>4. \A c \in Classes : \E k \in DOMAIN DeconflictOrder : c = DeconflictOrder[k]
  BY ErrorAssumption
<1>5. \A k \in DOMAIN Taxonomy : Taxonomy[k] \in Classes
  BY DEF Classes
<1>6. \A k \in DOMAIN DeconflictOrder : DeconflictOrder[k] \in Classes
  BY ErrorAssumption
<1>7. OtherErrors \notin Classes
  BY ErrorAssumption
<1> QED
  BY <1>2, <1>3, <1>4, <1>5, <1>6, <1>7

(* FirstIn gives the first class that matches, when the order has one.     *)
LEMMA FirstMatch ==
    ASSUME NEW S, NEW order \in Seq(S), NEW m, NEW c \in m,
           \E k \in 1 .. Len(order) : c = order[k]
    PROVE  \E k \in 1 .. Len(order) :
              /\ FirstIn(order, m) = order[k] /\ order[k] \in m
              /\ \A l \in 1 .. k - 1 : order[l] \notin m
<1> DEFINE M == {k \in 1 .. Len(order) : order[k] \in m}
           First(k) == order[k] \in m /\ \A l \in 1 .. k - 1 : order[l] \notin m
<1>1. DOMAIN order = 1 .. Len(order) /\ Len(order) \in Nat
  OBVIOUS
<1>2. M \in SUBSET Nat /\ M # {}
  BY <1>1
<1>3. PICK k \in M : \A n \in M : k <= n
  <2> HIDE DEF M
  <2> QED
    BY <1>2, LeastNat
<1>4. k \in 1 .. Len(order) /\ First(k)
  BY <1>1, <1>3
<1> DEFINE f == CHOOSE n \in DOMAIN order : First(n)
<1>5. f \in DOMAIN order /\ First(f)
  BY <1>1, <1>4
<1>6. FirstIn(order, m) = order[f]
  BY DEF FirstIn
<1> HIDE DEF f
<1> QED
  BY <1>1, <1>5, <1>6

LEMMA FirstOfLog ==
    ASSUME NEW m \in SUBSET Classes, m # {}
    PROVE  \E k \in 1 .. Len(DeconflictOrder) :
              /\ FirstIn(DeconflictOrder, m) = DeconflictOrder[k] /\ DeconflictOrder[k] \in m
              /\ \A l \in 1 .. k - 1 : DeconflictOrder[l] \notin m
<1>1. PICK c \in m : c \in Classes
  OBVIOUS
<1>2. DeconflictOrder \in Seq(Classes)
  BY ErrorAssumption
<1>3. \E k \in 1 .. Len(DeconflictOrder) : c = DeconflictOrder[k]
  BY <1>1, Orders
<1> QED
  BY <1>1, <1>2, <1>3, FirstMatch

(* Two orders that rank the classes of a log alike put the same one first. *)
LEMMA SameFirst ==
    ASSUME NEW m \in SUBSET Classes, m # {}, m \subseteq ProcessorClasses, RankedAlike(m)
    PROVE  FirstIn(DeconflictOrder, m) = FirstIn(ProcessorOrder, m)
<1>1. /\ ProcessorOrder \in Seq(ProcessorClasses)
      /\ \A k, l \in DOMAIN ProcessorOrder : ProcessorOrder[k] = ProcessorOrder[l] => k = l
  BY ErrorAssumption
<1>2. /\ DOMAIN ProcessorOrder = 1 .. Len(ProcessorOrder) /\ Len(ProcessorOrder) \in Nat
      /\ DOMAIN DeconflictOrder = 1 .. Len(DeconflictOrder) /\ Len(DeconflictOrder) \in Nat
  BY <1>1, ErrorAssumption
<1>3. PICK k \in 1 .. Len(DeconflictOrder) :
         /\ FirstIn(DeconflictOrder, m) = DeconflictOrder[k] /\ DeconflictOrder[k] \in m
         /\ \A l \in 1 .. k - 1 : DeconflictOrder[l] \notin m
  BY FirstOfLog
<1>4. \A c \in m : \E l \in 1 .. Len(ProcessorOrder) : c = ProcessorOrder[l]
  BY <1>2 DEF ProcessorClasses
<1>5. PICK f \in 1 .. Len(ProcessorOrder) :
         /\ FirstIn(ProcessorOrder, m) = ProcessorOrder[f] /\ ProcessorOrder[f] \in m
         /\ \A l \in 1 .. f - 1 : ProcessorOrder[l] \notin m
  BY <1>1, <1>3, <1>4, FirstMatch
<1> SUFFICES ASSUME NEW c, c = DeconflictOrder[k], NEW d, d = ProcessorOrder[f], c # d
             PROVE  FALSE
  BY <1>3, <1>5
<1>6. PICK n \in 1 .. Len(DeconflictOrder) : d = DeconflictOrder[n]
  BY <1>5, Orders
<1>7. k < n
  BY <1>2, <1>3, <1>5, <1>6
<1>8. Before(ProcessorOrder, c, d)
  <2>1. Before(DeconflictOrder, c, d)
    BY <1>2, <1>6, <1>7 DEF Before
  <2> QED
    BY <1>3, <1>5, <2>1 DEF RankedAlike
<1>9. PICK p, q \in 1 .. Len(ProcessorOrder) : p < q /\ ProcessorOrder[p] = c /\ ProcessorOrder[q] = d
  BY <1>2, <1>8 DEF Before
<1>10. q = f
  BY <1>1, <1>2, <1>5, <1>9
<1> QED
  BY <1>3, <1>5, <1>9, <1>10

(* When class number n is done for a job that still has its mark, nothing  *)
(* before n matched, or only that class is left.                           *)
LEMMA ClassAtTurn ==
    ASSUME NEW j \in FailedJobs, logs[j] \subseteq Classes, logs[j] # {},
           NEW n \in 1 .. Len(DeconflictOrder),
           DeconflictOrder[n] \in logs[j], \A l \in 1 .. n - 1 : DeconflictOrder[l] \notin logs[j]
    PROVE  ClassOf(j) = DeconflictOrder[n]
<1>1. PICK k \in 1 .. Len(DeconflictOrder) :
         /\ ClassOf(j) = DeconflictOrder[k] /\ DeconflictOrder[k] \in logs[j]
         /\ \A l \in 1 .. k - 1 : DeconflictOrder[l] \notin logs[j]
  BY FirstOfLog DEF ClassOf
<1>2. ~(k < n) /\ ~(n < k)
  BY <1>1, Orders
<1> QED
  BY <1>1, <1>2, Orders

LEMMA ClassMatches ==
    ASSUME NEW j \in FailedJobs, logs[j] \subseteq Classes, logs[j] # {}
    PROVE  ClassOf(j) \in logs[j]
BY FirstOfLog DEF ClassOf

(* One column, job by job.                                                 *)
LEMMA PreferMarks ==
    ASSUME ErrorTypeOK, NEW c \in Columns, columns' = Prefer(columns, c), NEW j \in FailedJobs
    PROVE  /\ columns' \in [Columns -> SUBSET FailedJobs]
           /\ Marks(j)' = IF c \in Marks(j) THEN {c} ELSE Marks(j)
<1>1. columns \in [Columns -> SUBSET FailedJobs]
  BY DEF ErrorTypeOK
<1>2. \A d \in Columns : columns'[d] = IF d = c THEN columns[d] ELSE columns[d] \ columns[c]
  BY DEF Prefer
<1>3. columns' \in [Columns -> SUBSET FailedJobs]
  BY <1>1 DEF Prefer
<1>4. \A d \in Columns : j \in columns'[d] <=> IF c \in Marks(j) THEN d = c ELSE d \in Marks(j)
  BY <1>2 DEF Marks
<1> QED
  BY <1>3, <1>4 DEF Marks

(***************************************************************************)
(* The invariant, action by action.                                        *)
(***************************************************************************)
LEMMA ErrorInitInv == ErrorInit => ErrorInv
<1> SUFFICES ASSUME ErrorInit PROVE ErrorInv
  OBVIOUS
<1>1. ErrorTypeOK
  BY DEF ErrorInit, ErrorTypeOK, NoLog, Columns, Unmarked
<1> QED
  BY <1>1 DEF ErrorInit, ErrorInv

LEMMA ScrapeLogInv ==
    ASSUME ErrorInv, NEW j \in FailedJobs, ScrapeLog(j)
    PROVE  ErrorInv'
<1>1. PICK matches \in (SUBSET (Classes \ {Missing})) \union {{Missing}} :
         logs' = [logs EXCEPT ![j] = matches]
  BY Zenon DEF ScrapeLog
<1>2. matches \subseteq Classes
  <2>1. CASE matches \in SUBSET (Classes \ {Missing})
    BY <2>1
  <2>2. CASE matches = {Missing}
    BY <2>2, ErrorAssumption
  <2> QED
    BY <1>1, <2>1, <2>2
<1>3. /\ UNCHANGED <<reason, columns, stage, done>> /\ stage = "get-logs"
      /\ ErrorTypeOK /\ columns = Unmarked
  BY DEF ScrapeLog, ErrorInv
<1>4. logs' \in [FailedJobs -> SUBSET Columns]
  BY <1>1, <1>2, <1>3 DEF ErrorTypeOK, Columns
<1>5. \A i \in FailedJobs : logs'[i] = NoLog \/ logs'[i] \subseteq Classes
  BY <1>1, <1>2, <1>3 DEF ErrorTypeOK, NoLog
<1>6. ErrorTypeOK'
  BY <1>3, <1>4, <1>5 DEF ErrorTypeOK, NoLog, Columns, Classes, OtherErrors
<1> QED
  BY <1>3, <1>6 DEF ErrorInv, Unmarked, Columns

LEMMA StartClassifyInv == ErrorInv /\ StartClassify => ErrorInv'
<1> SUFFICES ASSUME ErrorInv, StartClassify PROVE ErrorInv'
  OBVIOUS
<1>1. /\ UNCHANGED <<logs, reason, columns>> /\ stage' = "classify" /\ done' = 0
      /\ columns = Unmarked /\ \A j \in FailedJobs : logs[j] # NoLog
  BY DEF StartClassify, ErrorInv
<1>2. ErrorTypeOK'
  BY <1>1 DEF ErrorInv, ErrorTypeOK, Columns
<1>3. columns'[OtherErrors] = {} /\ done' <= Len(Taxonomy)
  BY <1>1, Orders DEF Unmarked, Columns
<1> QED
  BY <1>1, <1>2, <1>3 DEF ErrorInv, NoLog

LEMMA ClassifyColumnInv == ErrorInv /\ ClassifyColumn => ErrorInv'
<1> SUFFICES ASSUME ErrorInv, ClassifyColumn PROVE ErrorInv'
  OBVIOUS
<1>1. /\ UNCHANGED <<logs, reason>> /\ stage = "classify" /\ ErrorTypeOK
      /\ done \in Nat /\ done <= Len(Taxonomy) /\ columns[OtherErrors] = {}
      /\ columns \in [Columns -> SUBSET FailedJobs]
      /\ \A k \in 1 .. done : columns[Taxonomy[k]] = Grepped(Taxonomy[k])
      /\ \A j \in FailedJobs : logs[j] \subseteq Classes
  BY DEF ErrorInv, ErrorTypeOK, ClassifyColumn
<1>2. \A c : Grepped(c)' = Grepped(c) /\ Grepped(c) \subseteq FailedJobs
  BY <1>1 DEF Grepped
<1>3. \A j \in FailedJobs : logs'[j] # NoLog
  BY <1>1 DEF ErrorInv
<1>4. CASE done < Len(Taxonomy)
  <2>1. /\ columns' = [columns EXCEPT ![Taxonomy[done + 1]] = Grepped(Taxonomy[done + 1])]
        /\ done' = done + 1 /\ stage' = "classify"
    BY <1>1, <1>4 DEF ClassifyColumn
  <2>2. Taxonomy[done + 1] \in Columns /\ Taxonomy[done + 1] # OtherErrors
    BY <1>1, <1>4, Orders DEF Columns
  <2>3. /\ columns' \in [Columns -> SUBSET FailedJobs] /\ columns'[OtherErrors] = {}
        /\ columns'[Taxonomy[done + 1]] = Grepped(Taxonomy[done + 1])
    BY <1>1, <1>2, <2>1, <2>2 DEF Columns
  <2>4. ASSUME NEW k \in 1 .. done' PROVE columns'[Taxonomy[k]] = Grepped(Taxonomy[k])
    <3>1. CASE k = done + 1
      BY <2>3, <3>1
    <3>2. CASE k \in 1 .. done
      <4>1. Taxonomy[k] \in Columns
        BY <1>1, <3>2, Orders DEF Columns
      <4> QED
        BY <1>1, <2>1, <2>2, <3>2, <4>1
    <3> QED
      BY <1>1, <2>1, <3>1, <3>2
  <2>5. ErrorTypeOK' /\ done' <= Len(Taxonomy)
    BY <1>1, <1>4, <2>1, <2>3, Orders DEF ErrorTypeOK, NoLog, Columns
  <2> QED
    BY <1>2, <1>3, <2>1, <2>3, <2>4, <2>5 DEF ErrorInv, NoLog
<1>5. CASE ~(done < Len(Taxonomy))
  <2>1. /\ columns' = [columns EXCEPT ![OtherErrors] = OtherJobs]
        /\ done' = 0 /\ stage' \in {"deconflict", "classified"} /\ done = Len(Taxonomy)
    BY <1>1, <1>5, Orders DEF ClassifyColumn
  <2>2. OtherErrors \in Columns /\ Classes \subseteq Columns /\ OtherErrors \notin Classes
    BY Orders DEF Columns
  <2>3. columns' \in [Columns -> SUBSET FailedJobs]
    BY <1>1, <2>1, <2>2 DEF OtherJobs
  <2>4. \A c \in Classes : columns[c] = Grepped(c) /\ columns'[c] = Grepped(c)
    BY <1>1, <2>1, <2>2, Orders
  <2>5. ASSUME NEW j \in FailedJobs PROVE MarkedWell(j)'
    <3>1. \A c \in Classes : j \in columns'[c] <=> c \in logs[j]
      BY <2>4 DEF Grepped
    <3>2. j \in columns'[OtherErrors] <=> logs[j] = {}
      <4>1. columns'[OtherErrors] = OtherJobs
        BY <1>1, <2>1, <2>2
      <4>2. j \in OtherJobs <=> \A c \in Classes : c \notin logs[j]
        BY <2>4 DEF OtherJobs, Grepped
      <4> QED
        BY <1>1, <4>1, <4>2
    <3>3. Marks(j)' = IF logs[j] = {} THEN {OtherErrors} ELSE logs[j]
      BY <1>1, <3>1, <3>2, <2>2 DEF Marks, Columns
    <3>4. 1 .. done' = {}
      BY <2>1
    <3> QED
      BY <1>1, <3>3, <3>4, ClassMatches DEF MarkedWell, ClassOf
  <2>6. ErrorTypeOK' /\ done' <= Len(DeconflictOrder)
    BY <1>1, <2>1, <2>3, Orders DEF ErrorTypeOK, NoLog, Columns
  <2> QED
    BY <1>3, <2>1, <2>5, <2>6 DEF ErrorInv, NoLog
<1> QED
  BY <1>4, <1>5

LEMMA DeconflictColumnInv == ErrorInv /\ DeconflictColumn => ErrorInv'
<1> SUFFICES ASSUME ErrorInv, DeconflictColumn PROVE ErrorInv'
  OBVIOUS
<1>1. /\ UNCHANGED <<logs, reason>> /\ stage = "deconflict" /\ ErrorTypeOK
      /\ done \in Nat /\ done <= Len(DeconflictOrder)
      /\ \A j \in FailedJobs : MarkedWell(j) /\ logs[j] \subseteq Classes /\ logs'[j] # NoLog
  BY DEF ErrorInv, ErrorTypeOK, DeconflictColumn
<1>2. CASE done < Len(DeconflictOrder)
  <2> SUFFICES ASSUME NEW n, n = done + 1, NEW c, c = DeconflictOrder[n] PROVE ErrorInv'
    OBVIOUS
  <2>1. columns' = Prefer(columns, c) /\ done' = n /\ stage' = "deconflict"
    BY <1>1, <1>2 DEF DeconflictColumn, PreferredClass
  <2>2. n \in 1 .. Len(DeconflictOrder) /\ c \in Classes /\ c \in Columns
    BY <1>1, <1>2, Orders DEF Columns
  <2>3. columns' \in [Columns -> SUBSET FailedJobs]
    BY <1>1, <2>1, <2>2 DEF Prefer, ErrorTypeOK
  <2>4. ASSUME NEW j \in FailedJobs PROVE MarkedWell(j)'
    <3>1. Marks(j)' = IF c \in Marks(j) THEN {c} ELSE Marks(j)
      BY <1>1, <2>1, <2>2, PreferMarks
    <3>2. ClassOf(j)' = ClassOf(j) /\ logs'[j] = logs[j]
      BY <1>1 DEF ClassOf
    <3>3. CASE logs[j] = {}
      <4>1. Marks(j) = {OtherErrors} /\ c # OtherErrors
        BY <1>1, <2>2, <3>3, Orders DEF MarkedWell
      <4> QED
        BY <3>1, <3>2, <3>3, <4>1 DEF MarkedWell
    <3>4. CASE logs[j] # {}
      <4>1. /\ ClassOf(j) \in Marks(j) /\ Marks(j) \subseteq logs[j] /\ logs[j] \subseteq Classes
            /\ \A l \in 1 .. done : DeconflictOrder[l] \in logs[j] => Marks(j) = {ClassOf(j)}
        BY <1>1, <3>4 DEF MarkedWell
      <4>2. CASE \E l \in 1 .. done : DeconflictOrder[l] \in logs[j]
        BY <2>1, <3>1, <3>2, <3>4, <4>1, <4>2 DEF MarkedWell
      <4>3. CASE ~\E l \in 1 .. done : DeconflictOrder[l] \in logs[j]
        <5>1. c \in logs[j] => ClassOf(j) = c
          BY <1>1, <2>2, <3>4, <4>1, <4>3, ClassAtTurn
        <5>2. \A l \in 1 .. n : DeconflictOrder[l] \in logs[j] => l = n
          BY <1>1, <4>3
        <5> QED
          BY <2>1, <3>1, <3>2, <3>4, <4>1, <5>1, <5>2 DEF MarkedWell
      <4> QED
        BY <4>2, <4>3
    <3> QED
      BY <3>3, <3>4
  <2>5. ErrorTypeOK' /\ done' <= Len(DeconflictOrder)
    BY <1>1, <2>1, <2>2, <2>3, Orders DEF ErrorTypeOK, NoLog, Columns
  <2> QED
    BY <1>1, <2>1, <2>4, <2>5 DEF ErrorInv, NoLog
<1>3. CASE ~(done < Len(DeconflictOrder))
  <2>1. /\ columns' = Prefer(columns, OtherErrors) /\ done' = 0 /\ stage' = "saved"
        /\ done = Len(DeconflictOrder)
    BY <1>1, <1>3, Orders DEF DeconflictColumn
  <2>2. OtherErrors \in Columns
    BY DEF Columns
  <2>3. columns' \in [Columns -> SUBSET FailedJobs]
    BY <1>1, <2>1, <2>2 DEF Prefer, ErrorTypeOK
  <2>4. ASSUME NEW j \in FailedJobs
        PROVE  Marks(j)' = IF logs[j] = {} THEN {OtherErrors} ELSE {ClassOf(j)}
    <3>1. Marks(j)' = IF OtherErrors \in Marks(j) THEN {OtherErrors} ELSE Marks(j)
      BY <1>1, <2>1, <2>2, PreferMarks
    <3>2. CASE logs[j] = {}
      BY <1>1, <3>1, <3>2 DEF MarkedWell
    <3>3. CASE logs[j] # {}
      <4>1. \E l \in 1 .. done : DeconflictOrder[l] \in logs[j]
        BY <1>1, <2>1, <3>3, Orders
      <4>2. Marks(j) = {ClassOf(j)} /\ ClassOf(j) \in Classes
        BY <1>1, <3>3, <4>1 DEF MarkedWell
      <4> QED
        BY <3>1, <3>3, <4>2, Orders
    <3> QED
      BY <3>2, <3>3
  <2>5. ErrorTypeOK'
    BY <1>1, <2>1, <2>3 DEF ErrorTypeOK, NoLog, Columns
  <2>6. \A j \in FailedJobs :
           Marks(j)' = IF logs'[j] = {} THEN {OtherErrors} ELSE {ClassOf(j)'}
    BY <1>1, <2>4 DEF ClassOf
  <2> QED
    BY <1>1, <2>1, <2>5, <2>6 DEF ErrorInv, NoLog
<1> QED
  BY <1>2, <1>3

LEMMA DeconflictTableInv == ErrorInv /\ DeconflictTable => ErrorInv'
<1> SUFFICES ASSUME ErrorInv, DeconflictTable PROVE ErrorInv'
  OBVIOUS
<1>1. /\ UNCHANGED <<logs, reason, columns, done>> /\ stage' = "deconflict"
      /\ done = 0 /\ ErrorTypeOK
      /\ \A j \in FailedJobs :
            /\ logs[j] # NoLog /\ logs[j] \subseteq Classes
            /\ MarkedWell(j) \/ Marks(j) = IF logs[j] = {} THEN {OtherErrors} ELSE {ClassOf(j)}
  BY DEF DeconflictTable, Annotated, ErrorInv, ErrorTypeOK
<1>2. \A j \in FailedJobs : MarkedWell(j)'
  <2> SUFFICES ASSUME NEW j \in FailedJobs PROVE MarkedWell(j)'
    OBVIOUS
  <2>1. 1 .. done' = {} /\ logs' = logs /\ Marks(j)' = Marks(j) /\ ClassOf(j)' = ClassOf(j)
    BY <1>1 DEF Marks, ClassOf
  <2> QED
    BY <1>1, <2>1, ClassMatches DEF MarkedWell
<1>3. ErrorTypeOK'
  BY <1>1 DEF ErrorTypeOK, NoLog, Columns
<1> QED
  BY <1>1, <1>2, <1>3, Orders DEF ErrorInv, NoLog

LEMMA ClassifyAgainInv == ErrorInv /\ ClassifyAgain => ErrorInv'
<1> SUFFICES ASSUME ErrorInv, ClassifyAgain PROVE ErrorInv'
  OBVIOUS
<1>1. /\ UNCHANGED <<logs, reason, done>> /\ stage' = "classify" /\ columns' = Unmarked
      /\ done = 0 /\ ErrorTypeOK /\ \A j \in FailedJobs : logs[j] # NoLog
  BY DEF ClassifyAgain, Annotated, ErrorInv
<1>2. ErrorTypeOK'
  BY <1>1 DEF ErrorTypeOK, NoLog, Columns, Unmarked
<1>3. columns'[OtherErrors] = {} /\ done' <= Len(Taxonomy) /\ 1 .. done' = {}
  BY <1>1, Orders DEF Unmarked, Columns
<1> QED
  BY <1>1, <1>2, <1>3 DEF ErrorInv, NoLog

LEMMA ErrorNextInv == ErrorInv /\ [ErrorNext]_errorVars => ErrorInv'
<1> SUFFICES ASSUME ErrorInv, [ErrorNext]_errorVars PROVE ErrorInv'
  OBVIOUS
<1>1. CASE ErrorNext
  BY <1>1, ScrapeLogInv, StartClassifyInv, ClassifyColumnInv, DeconflictColumnInv,
     DeconflictTableInv, ClassifyAgainInv DEF ErrorNext
<1>2. CASE UNCHANGED errorVars
  BY <1>2 DEF errorVars, ErrorInv, ErrorTypeOK, MarkedWell, Marks, ClassOf, NoLog,
     Columns, Unmarked, Grepped
<1> QED
  BY <1>1, <1>2

LEMMA ErrorInvariance == ErrorSpec => []ErrorInv
BY ErrorInitInv, ErrorNextInv, PTL DEF ErrorSpec

(* However often the table is classified, saved with several marks and     *)
(* deconflicted, and in whatever order the columns are listed: deconflict  *)
(* leaves each job the class its own order prefers, and the job            *)
(* processor's where both orders rank the classes of the log alike.        *)
THEOREM ScriptAgrees == ErrorSpec => []ClassedAlike
<1>1. ErrorInv => ClassedAlike
  <2> SUFFICES ASSUME ErrorInv, stage = "saved", NEW j \in FailedJobs
               PROVE  IF logs[j] = {} THEN Marks(j) = {OtherErrors}
                      ELSE /\ Marks(j) = {ClassOf(j)}
                           /\ logs[j] \subseteq ProcessorClasses /\ RankedAlike(logs[j]) =>
                                 Marks(j) = {AssignErrorTaxonomy(logs[j], reason[j])}
    BY DEF ClassedAlike, ClassOf
  <2>1. /\ logs[j] = {} => Marks(j) = {OtherErrors}
        /\ logs[j] # {} => Marks(j) = {ClassOf(j)} /\ logs[j] \subseteq Classes
    BY DEF ErrorInv, ErrorTypeOK
  <2> QED
    BY <2>1, SameFirst DEF AssignErrorTaxonomy, ClassOf
<1> QED
  BY <1>1, ErrorInvariance, PTL

-----------------------------------------------------------------------------
(***************************************************************************)
(* ParentPipelines.                                                        *)
(***************************************************************************)
ParentTypeOK ==
    /\ source \in [PipelineIds -> PipelineIds \union {NoParent}]
    /\ rows \subseteq ParentRows /\ queue \subseteq PipelineIds
    /\ phase \in {"idle", "batches", "roots"} /\ stops \in 0 .. MaxStops

(* The rows a batch is still to come for; when the roots' turn comes there *)
(* is none of a triggered pipeline.                                        *)
TriggeredQueued ==
    /\ phase = "batches" =>
          \A r \in Orphans : source[r.pipeline] # NoParent => r.pipeline \in queue
    /\ phase = "roots" => \A r \in Orphans : source[r.pipeline] = NoParent

ParentInv == ParentTypeOK /\ TriggeredQueued /\ ParentsRight

(***************************************************************************)
(* What is written.                                                        *)
(***************************************************************************)
LEMMA RealParent ==
    ASSUME ParentTypeOK, NEW p \in PipelineIds
    PROVE  ParentOf(p) \in PipelineIds /\ ParentOf(p) # NoParent
BY ParentAssumption DEF ParentTypeOK, ParentOf, NoParent

LEMMA SetParentRows ==
    ASSUME NEW changed \in SUBSET rows, ParentTypeOK,
           NEW parents, \A r \in changed : parents[r.pipeline] = ParentOf(r.pipeline)
    PROVE  \A r \in SetParent(changed, parents) :
              r \in ParentRows /\ r.parent = ParentOf(r.pipeline) /\ r.parent # NoParent
<1> SUFFICES ASSUME NEW s \in changed
             PROVE  LET r == [s EXCEPT !.parent = parents[s.pipeline]]
                    IN  r \in ParentRows /\ r.parent = ParentOf(r.pipeline) /\ r.parent # NoParent
  BY DEF SetParent
<1> DEFINE r == [s EXCEPT !.parent = parents[s.pipeline]]
<1>1. s \in ParentRows /\ s.pipeline \in PipelineIds
  BY DEF ParentTypeOK, ParentRows
<1>2. parents[s.pipeline] \in PipelineIds /\ parents[s.pipeline] # NoParent
  BY <1>1, RealParent
<1>3. r \in ParentRows /\ r.pipeline = s.pipeline /\ r.parent = parents[s.pipeline]
  BY <1>1, <1>2 DEF ParentRows
<1> QED
  BY <1>2, <1>3

(***************************************************************************)
(* The inductive invariant.                                                *)
(***************************************************************************)
LEMMA ParentInitInv == ParentInit => ParentInv
<1> SUFFICES ASSUME ParentInit PROVE ParentInv
  OBVIOUS
<1>1. PICK old \in SUBSET (PipelineIds \X Tags) :
         rows = {[pipeline |-> r[1], tag |-> r[2], parent |-> NoParent] : r \in old}
  BY DEF ParentInit
<1>2. \A r \in rows : r \in ParentRows /\ r.parent = NoParent
  BY <1>1 DEF ParentRows
<1>3. stops \in 0 .. MaxStops
  BY ParentAssumption DEF ParentInit
<1> QED
  BY <1>2, <1>3 DEF ParentInit, ParentInv, ParentTypeOK, TriggeredQueued, ParentsRight

LEMMA ParentNextInv == ParentInv /\ [ParentNext]_parentVars => ParentInv'
<1> SUFFICES ASSUME ParentInv, [ParentNext]_parentVars PROVE ParentInv'
  OBVIOUS
<1>1. ASSUME NEW p \in PipelineIds, NEW tag \in Tags, JobArrives(p, tag) PROVE ParentInv'
  <2> DEFINE new == [pipeline |-> p, tag |-> tag, parent |-> ParentOf(p)]
  <2>1. ParentOf(p) \in PipelineIds /\ ParentOf(p) # NoParent
    BY RealParent DEF ParentInv
  <2>2. new \in ParentRows /\ new.parent = ParentOf(new.pipeline) /\ new.parent # NoParent
    BY <2>1 DEF ParentRows
  <2>3. rows' = rows \union {new} /\ UNCHANGED <<source, stops, phase, queue>>
    BY <1>1 DEF JobArrives
  <2>4. Orphans' = Orphans
    BY <2>2, <2>3 DEF Orphans
  <2> HIDE DEF new
  <2> QED
    BY <2>2, <2>3, <2>4 DEF ParentInv, ParentTypeOK, TriggeredQueued, ParentsRight, ParentOf
<1>2. CASE ListOrphans
  <2>1. UNCHANGED <<source, rows, stops>> /\ phase' = "batches" /\ queue' = {r.pipeline : r \in Orphans}
    BY <1>2 DEF ListOrphans
  <2>2. queue' \subseteq PipelineIds
    BY <2>1 DEF Orphans, ParentInv, ParentTypeOK, ParentRows
  <2>3. \A r \in Orphans : r.pipeline \in queue'
    BY <2>1
  <2> QED
    BY <2>1, <2>2, <2>3
    DEF ParentInv, ParentTypeOK, TriggeredQueued, ParentsRight, ParentOf, Orphans
<1>3. ASSUME NEW batch, UpdateBatch(batch) PROVE ParentInv'
  <2> DEFINE changed == InBatch(batch)
  <2>1. /\ UNCHANGED <<source, stops, phase>> /\ queue' = queue \ batch /\ phase = "batches"
        /\ rows' = (rows \ changed) \union SetParent(changed, source)
    BY <1>3 DEF UpdateBatch, AfterBatch
  <2>2. changed \in SUBSET rows /\ \A r \in changed : source[r.pipeline] = ParentOf(r.pipeline)
    BY DEF InBatch, Triggered, ParentOf
  <2>3. \A r \in SetParent(changed, source) :
           r \in ParentRows /\ r.parent = ParentOf(r.pipeline) /\ r.parent # NoParent
    BY <2>2, SetParentRows DEF ParentInv
  <2>4. \A r \in Orphans' : r \in Orphans /\ r \notin changed
    BY <2>1, <2>3 DEF Orphans
  <2>5. ASSUME NEW r \in Orphans', source[r.pipeline] # NoParent PROVE r.pipeline \in queue'
    <3>1. r.pipeline \in queue
      BY <2>1, <2>4, <2>5 DEF ParentInv, TriggeredQueued
    <3>2. r.pipeline \notin batch
      BY <2>4, <2>5 DEF InBatch, Triggered, Orphans
    <3> QED
      BY <2>1, <3>1, <3>2
  <2> HIDE DEF changed
  <2> QED
    BY <2>1, <2>2, <2>3, <2>5 DEF ParentInv, ParentTypeOK, TriggeredQueued, ParentsRight, ParentOf
<1>4. CASE LastBatchDone
  BY <1>4
  DEF LastBatchDone, ParentInv, ParentTypeOK, TriggeredQueued, ParentsRight, ParentOf, Orphans
<1>5. CASE UpdateRoots
  <2>1. /\ UNCHANGED <<source, stops, queue>> /\ phase = "roots" /\ phase' = "idle"
        /\ rows' = (rows \ Orphans) \union SetParent(Orphans, Own)
    BY <1>5 DEF UpdateRoots
  <2>2. \A r \in Orphans : r \in rows /\ r.pipeline \in PipelineIds
    BY DEF Orphans, ParentInv, ParentTypeOK, ParentRows
  <2>3. \A r \in Orphans : Own[r.pipeline] = ParentOf(r.pipeline)
    BY <2>1, <2>2 DEF Own, ParentOf, ParentInv, TriggeredQueued
  <2>4. \A r \in SetParent(Orphans, Own) :
           r \in ParentRows /\ r.parent = ParentOf(r.pipeline) /\ r.parent # NoParent
    BY <2>2, <2>3, SetParentRows DEF ParentInv
  <2> QED
    BY <2>1, <2>4 DEF ParentInv, ParentTypeOK, TriggeredQueued, ParentsRight, ParentOf
<1>6. CASE ParentsRefused
  BY <1>6
  DEF ParentsRefused, ParentInv, ParentTypeOK, TriggeredQueued, ParentsRight, ParentOf, Orphans
<1>7. CASE ParentsStopped
  <2>1. stops' \in 0 .. MaxStops
    BY <1>7, ParentAssumption DEF ParentsStopped, ParentInv, ParentTypeOK
  <2> QED
    BY <1>7, <2>1
    DEF ParentsStopped, ParentInv, ParentTypeOK, TriggeredQueued, ParentsRight, ParentOf, Orphans
<1>8. CASE UNCHANGED parentVars
  BY <1>8 DEF parentVars, ParentInv, ParentTypeOK, TriggeredQueued, ParentsRight, ParentOf, Orphans
<1> QED
  BY <1>1, <1>2, <1>3, <1>4, <1>5, <1>6, <1>7, <1>8 DEF ParentNext, ParentCommand

(* No row of a triggered pipeline waits for a parent when the last         *)
(* statement makes the others their own parents.                           *)
THEOREM ParentInvariance == ParentSpec => []ParentInv
BY ParentInitInv, ParentNextInv, PTL DEF ParentSpec

(* However often the command is stopped, refused and started again while   *)
(* jobs arrive: a parent that was set is the right one.                    *)
THEOREM ParentsAreRight == ParentSpec => []ParentsRight
BY ParentInvariance, PTL DEF ParentInv

-----------------------------------------------------------------------------
(***************************************************************************)
(* JobFacts.                                                               *)
(***************************************************************************)
LEMMA IdleStarts ==
    /\ RetryIdle => RetryInit
    /\ PodIdle => PodInit
    /\ ErrorIdle => ErrorInit
    /\ ParentIdle => ParentInit
<1>1. RetryIdle => RetryInit
  BY RetryAssumption DEF RetryIdle, RetryInit
<1>2. PodIdle => PodInit
  BY DEF PodIdle, PodInit, JobKinds
<1>3. ErrorIdle => ErrorInit
  BY DEF ErrorIdle, ErrorInit
<1>4. ParentIdle => ParentInit
  <2> SUFFICES ASSUME ParentIdle PROVE ParentInit
    OBVIOUS
  <2>1. source \in [PipelineIds -> PipelineIds \union {NoParent}]
    BY DEF ParentIdle
  <2>2. \A p \in PipelineIds : source[p] < p
    BY ParentAssumption DEF ParentIdle, NoParent
  <2>3. \E old \in SUBSET (PipelineIds \X Tags) :
           rows = {[pipeline |-> r[1], tag |-> r[2], parent |-> NoParent] : r \in old}
    <3>1. rows = {[pipeline |-> r[1], tag |-> r[2], parent |-> NoParent] : r \in {}}
      BY DEF ParentIdle
    <3> QED
      BY <3>1
  <2> QED
    BY <2>1, <2>2, <2>3 DEF ParentIdle, ParentInit
<1> QED
  BY <1>1, <1>2, <1>3, <1>4

LEMMA PartsInit == Init => RetryInit /\ PodInit /\ ErrorInit /\ ParentInit
BY IdleStarts DEF Init

LEMMA PartsStep ==
    [Next]_factVars =>
        /\ [RetryNext]_retryVars /\ [PodNext]_podVars
        /\ [ErrorNext]_errorVars /\ [ParentNext]_parentVars
BY DEF Next, factVars

(* Every behaviour of the parts together is one of each of them.           *)
THEOREM PartsOfJobFacts == Spec => RetrySpec /\ PodSpec /\ ErrorSpec /\ ParentSpec
BY PartsInit, PartsStep, PTL DEF Spec, RetrySpec, PodSpec, ErrorSpec, ParentSpec

(* The attempt and the final flag of a job agree with what GitLab did.     *)
THEOREM RetryInfoExactHolds == Spec => []RetryInfoExact
BY PartsOfJobFacts, RetryDataExact, PTL

(* A job costs more than nothing and no more than its whole node.          *)
THEOREM ShareInRangeHolds == Spec => []ShareInRange
BY PartsOfJobFacts, ShareIsAPart, PTL

(* A deconflicted table has one class for each job: the script's first,    *)
(* and the job processor's where both rank the classes of the log alike.   *)
THEOREM ClassedAlikeHolds == Spec => []ClassedAlike
BY PartsOfJobFacts, ScriptAgrees, PTL

(* A parent pipeline that was set is the right one.                        *)
THEOREM ParentsRightHolds == Spec => []ParentsRight
BY PartsOfJobFacts, ParentsAreRight, PTL
=============================================================================
