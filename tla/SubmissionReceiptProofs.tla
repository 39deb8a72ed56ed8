----------------------- MODULE SubmissionReceiptProofs -----------------------
(***************************************************************************)
(* For any accounts, amounts and quotes, in every flow: a review makes one *)
(* transfer, which has its receipt as soon as the page can name it, and an *)
(* error after that says not to submit again.  What the form shows agrees  *)
(* with the awaits that are left, which end in its release.  And for any   *)
(* holdings, prices and limit: a deposit that passes the limit fits under  *)
(* it.                                                                     *)
(***************************************************************************)
EXTENDS BridgeSubmissionProofs, FiniteSetTheorems

(* The awaits behind a broadcast.                                          *)
LateAwaits == {"confirm", "settle", "allocate", "bundle", "done"}

(* What is left before a broadcast has at most one in it, ends after it,   *)
(* and asks for nothing that comes after one.                              *)
Unpaid(s) ==
  /\ s \in Seq(PreAwaits \cup CctpAwaits \cup OtherAwaits)
  /\ \A i, j \in 1..Len(s) : i < j /\ s[i] \in Prompts => s[j] \in LateAwaits
  /\ \A i \in 1..Len(s) :
       s[i] \in LateAwaits => \E k \in 1..Len(s) : k < i /\ s[k] \in Prompts
  /\ \A i \in 1..Len(s) : s[i] = "bundle" => i # 1 /\ s[i - 1] = "batch"
  /\ \A i \in 1..Len(s) : s[i] = "batch" => i # Len(s) /\ s[i + 1] = "bundle"
  /\ \A i \in 1..Len(s) : s[i] \in Prompts => s[Len(s)] = "done"
  /\ \A i \in 1..Len(s) : s[i] = "done" => i = Len(s)

(* What is left after one.                                                 *)
Paid(s) ==
  /\ s \in Seq(LateAwaits) /\ s # <<>>
  /\ \A i \in 1..Len(s) : s[i] = "done" <=> i = Len(s)
  /\ \A i \in 2..Len(s) : s[i] # "bundle"

Accounted(broadcast, receipt, todo) ==
  \/ broadcast = 0 /\ receipt = "none" /\ Unpaid(todo)
  \/ /\ broadcast = 1 /\ Paid(todo)
     /\ receipt # "none" \/ Head(todo) = "bundle"

AllAccounted == Accounted(job.broadcast, job.receipt, job.todo)

-----------------------------------------------------------------------------
(* Awaits that neither broadcast nor follow a broadcast.                   *)
LEMMA EarlyUnpaid ==
  ASSUME NEW s \in Seq(PreAwaits \cup CctpAwaits) PROVE Unpaid(s)
<1>1. /\ PreAwaits \cap (Prompts \cup LateAwaits) = {}
      /\ CctpAwaits \cap (Prompts \cup LateAwaits) = {}
      /\ "batch" \in Prompts /\ {"bundle", "done"} \subseteq LateAwaits
  BY DEF PreAwaits, CctpAwaits, Prompts, LateAwaits
<1>2. \A i \in 1..Len(s) : s[i] \in PreAwaits \cup CctpAwaits
  BY ElementOfSeq
<1>3. s \in Seq(PreAwaits \cup CctpAwaits \cup OtherAwaits)
  <2>1. s \in [1..Len(s) -> PreAwaits \cup CctpAwaits] /\ Len(s) \in Nat
    BY LenProperties
  <2>2. s \in [1..Len(s) -> PreAwaits \cup CctpAwaits \cup OtherAwaits]
    BY <1>2, <2>1
  <2> QED
    BY <2>1, <2>2, SeqDef
<1> QED
  BY <1>1, <1>2, <1>3 DEF Unpaid

LEMMA TailUnpaid ==
  ASSUME NEW s, Unpaid(s), s # <<>>
  PROVE  /\ Head(s) \notin LateAwaits
         /\ Head(s) \notin Prompts => Unpaid(Tail(s))
         /\ Head(s) \in Prompts => Paid(Tail(s))
         /\ Head(s) = "batch" => Head(Tail(s)) = "bundle"
<1> DEFINE t == Tail(s)
           n == Len(s)
           S == PreAwaits \cup CctpAwaits \cup OtherAwaits
<1>1. /\ n \in Nat \ {0} /\ t \in Seq(S) /\ Len(t) = n - 1
      /\ \A i \in 1..n - 1 : t[i] = s[i + 1]
      /\ Head(s) = s[1]
  BY TailFacts DEF Unpaid
<1>2. /\ \A i, j \in 1..n : i < j /\ s[i] \in Prompts => s[j] \in LateAwaits
      /\ \A i \in 1..n :
           s[i] \in LateAwaits => \E k \in 1..n : k < i /\ s[k] \in Prompts
      /\ \A i \in 1..n : s[i] = "bundle" => i # 1 /\ s[i - 1] = "batch"
      /\ \A i \in 1..n : s[i] = "batch" => i # n /\ s[i + 1] = "bundle"
      /\ \A i \in 1..n : s[i] \in Prompts => s[n] = "done"
      /\ \A i \in 1..n : s[i] = "done" => i = n
  BY DEF Unpaid
<1> HIDE DEF t, n
<1>3. s[1] \notin LateAwaits
  BY <1>1, <1>2
<1>4. Prompts \cap LateAwaits = {} /\ "done" \notin Prompts /\ "batch" \in Prompts
  BY DEF Prompts, LateAwaits
<1>5. ASSUME NEW i \in 1..n - 1
      PROVE  /\ i + 1 \in 1..n /\ i \in 1..n /\ t[i] = s[i + 1]
             /\ i # 1 => i - 1 \in 1..n - 1 /\ t[i - 1] = s[i]
             /\ i # n - 1 => i + 1 \in 1..n - 1 /\ t[i + 1] = s[i + 2]
  <2>1. i + 1 \in 1..n /\ i \in 1..n /\ t[i] = s[i + 1]
    BY <1>1
  <2>2. i # 1 => i - 1 \in 1..n - 1 /\ (i - 1) + 1 = i
    BY <1>1
  <2>3. i # n - 1 => i + 1 \in 1..n - 1 /\ (i + 1) + 1 = i + 2
    BY <1>1
  <2>4. i # 1 => t[i - 1] = s[(i - 1) + 1]
    BY <1>1, <2>2
  <2>5. i # n - 1 => t[i + 1] = s[(i + 1) + 1]
    BY <1>1, <2>3
  <2> QED
    BY <2>1, <2>2, <2>3, <2>4, <2>5
<1>6. n # 1 => n - 1 \in 1..n - 1 /\ t[n - 1] = s[n]
  <2>1. n # 1 => n - 1 \in 1..n - 1 /\ (n - 1) + 1 = n
    BY <1>1
  <2>2. n # 1 => t[n - 1] = s[(n - 1) + 1]
    BY <1>1, <2>1
  <2> QED
    BY <2>1, <2>2
<1>7. ASSUME s[1] \notin Prompts PROVE Unpaid(t)
  <2>1. ASSUME NEW i \in 1..n - 1, NEW j \in 1..n - 1, i < j, t[i] \in Prompts
        PROVE  t[j] \in LateAwaits
    <3>1. i + 1 \in 1..n /\ j + 1 \in 1..n /\ i + 1 < j + 1
      BY <1>1, <2>1
    <3>2. t[i] = s[i + 1] /\ t[j] = s[j + 1]
      BY <1>5
    <3> QED
      BY <1>2, <2>1, <3>1, <3>2
  <2>2. ASSUME NEW i \in 1..n - 1, t[i] \in LateAwaits
        PROVE  \E k \in 1..n - 1 : k < i /\ t[k] \in Prompts
    <3>1. PICK k \in 1..n : k < i + 1 /\ s[k] \in Prompts
      BY <1>2, <1>5, <2>2
    <3>2. k # 1
      BY <1>7, <3>1
    <3>3. k - 1 \in 1..n - 1 /\ k - 1 < i /\ (k - 1) + 1 = k
      BY <1>1, <3>1, <3>2
    <3>4. t[k - 1] = s[k]
      BY <1>1, <3>3
    <3> QED
      BY <3>1, <3>3, <3>4
  <2>3. ASSUME NEW i \in 1..n - 1, t[i] = "bundle"
        PROVE  i # 1 /\ t[i - 1] = "batch"
    <3>1. s[(i + 1) - 1] = "batch" /\ (i + 1) - 1 = i
      BY <1>1, <1>2, <1>5, <2>3
    <3> QED
      BY <1>4, <1>5, <1>7, <3>1
  <2>4. ASSUME NEW i \in 1..n - 1, t[i] = "batch"
        PROVE  i # n - 1 /\ t[i + 1] = "bundle"
    <3>1. i + 1 # n /\ s[(i + 1) + 1] = "bundle" /\ (i + 1) + 1 = i + 2
      BY <1>1, <1>2, <1>5, <2>4
    <3>2. i # n - 1
      BY <1>1, <3>1
    <3> QED
      BY <1>5, <3>1, <3>2
  <2>5. ASSUME NEW i \in 1..n - 1, t[i] \in Prompts PROVE t[n - 1] = "done"
    <3>1. s[i + 1] \in Prompts /\ i + 1 \in 1..n
      BY <1>5, <2>5
    <3>2. s[n] = "done"
      BY <1>2, <3>1
    <3>3. n # 1
      BY <1>1
    <3> QED
      BY <1>6, <3>2, <3>3
  <2>6. ASSUME NEW i \in 1..n - 1, t[i] = "done" PROVE i = n - 1
    <3>1. s[i + 1] = "done" /\ i + 1 \in 1..n
      BY <1>5, <2>6
    <3>2. i + 1 = n
      BY <1>2, <3>1
    <3> QED
      BY <1>1, <3>2
  <2> QED
    BY <1>1, <2>1, <2>2, <2>3, <2>4, <2>5, <2>6 DEF Unpaid
<1>8. ASSUME s[1] \in Prompts PROVE Paid(t)
  <2>1. 1 \in 1..n /\ n # 1
    BY <1>1, <1>2, <1>4, <1>8
  <2>2. \A i \in 1..n - 1 : t[i] \in LateAwaits
    <3>1. ASSUME NEW i \in 1..n - 1 PROVE t[i] \in LateAwaits
      <4>1. 1 < i + 1 /\ i + 1 \in 1..n
        BY <1>1
      <4> QED
        BY <1>2, <1>5, <1>8, <2>1, <4>1
    <3> QED
      BY <3>1
  <2>3. t \in Seq(LateAwaits) /\ t # <<>>
    <3>1. t \in [1..Len(t) -> S] /\ Len(t) \in Nat
      BY <1>1, LenProperties
    <3>2. t \in [1..Len(t) -> LateAwaits]
      BY <1>1, <2>2, <3>1
    <3>3. Len(t) # 0
      BY <1>1, <2>1
    <3> QED
      BY <3>1, <3>2, <3>3, SeqDef, EmptySeq
  <2>4. t[n - 1] = "done"
    BY <1>2, <1>6, <1>8, <2>1
  <2>5. ASSUME NEW i \in 1..n - 1, t[i] = "done" PROVE i = n - 1
    <3>1. s[i + 1] = "done" /\ i + 1 \in 1..n
      BY <1>5, <2>5
    <3>2. i + 1 = n
      BY <1>2, <3>1
    <3> QED
      BY <1>1, <3>2
  <2>6. ASSUME NEW i \in 2..n - 1, t[i] = "bundle" PROVE FALSE
    <3>1. i \in 1..n - 1 /\ (i + 1) - 1 = i /\ i # 1
      BY <1>1
    <3>2. s[i] = "batch" /\ i \in 1..n /\ 1 < i
      BY <1>1, <1>2, <1>5, <2>6, <3>1
    <3>3. s[i] \in LateAwaits
      BY <1>2, <1>8, <2>1, <3>2
    <3> QED
      BY <1>4, <3>2, <3>3
  <2> QED
    BY <1>1, <2>3, <2>4, <2>5, <2>6 DEF Paid
<1>9. ASSUME s[1] = "batch" PROVE Head(t) = "bundle"
  <2>1. Paid(t)
    BY <1>4, <1>8, <1>9
  <2>2. Head(t) = t[1]
    BY <2>1, TailFacts DEF Paid
  <2>3. n # 1 /\ s[1 + 1] = "bundle" /\ 1 \in 1..n - 1
    BY <1>1, <1>2, <1>9
  <2> QED
    BY <1>1, <2>2, <2>3
<1> QED
  BY <1>1, <1>3, <1>7, <1>8, <1>9 DEF t

LEMMA TailPaid ==
  ASSUME NEW s, Paid(s), Head(s) # "done"
  PROVE  /\ Head(s) \in LateAwaits /\ Paid(Tail(s))
         /\ Head(Tail(s)) # "bundle"
<1> DEFINE t == Tail(s)
           n == Len(s)
<1>1. /\ n \in Nat \ {0} /\ t \in Seq(LateAwaits) /\ Len(t) = n - 1
      /\ \A i \in 1..n - 1 : t[i] = s[i + 1]
      /\ Head(s) = s[1] /\ Head(s) \in LateAwaits
  BY TailFacts DEF Paid
<1>2. /\ \A i \in 1..n : s[i] = "done" <=> i = n
      /\ \A i \in 2..n : s[i] # "bundle"
  BY DEF Paid
<1> HIDE DEF t, n
<1>3. n # 1
  BY <1>1, <1>2
<1>4. t # <<>>
  <2>1. Len(t) # 0
    BY <1>1, <1>3
  <2> QED
    BY <2>1, EmptySeq
<1>5. ASSUME NEW i \in 1..n - 1 PROVE (t[i] = "done" <=> i = n - 1) /\ t[i] # "bundle"
  <2>1. i + 1 \in 1..n /\ i + 1 \in 2..n /\ (i + 1 = n <=> i = n - 1)
    BY <1>1
  <2> QED
    BY <1>1, <1>2, <2>1
<1>6. Paid(t)
  BY <1>1, <1>4, <1>5 DEF Paid
<1>7. Head(t) # "bundle"
  <2>1. Head(t) = t[1]
    BY <1>1, <1>4, TailFacts
  <2>2. 1 \in 1..n - 1
    BY <1>1, <1>3
  <2> QED
    BY <1>5, <2>1, <2>2
<1> QED
  BY <1>1, <1>6, <1>7 DEF t

-----------------------------------------------------------------------------
(* The flows as they start.                                                *)
EarlyAwaits ==
  (PreAwaits \cup CctpAwaits \cup OtherAwaits) \ (Prompts \cup LateAwaits)

LEMMA ConcatUnpaid ==
  ASSUME NEW s \in Seq(EarlyAwaits), NEW t, Unpaid(t)
  PROVE  Unpaid(s \o t)
<1> DEFINE S == PreAwaits \cup CctpAwaits \cup OtherAwaits
           u == s \o t
           m == Len(s)
           n == Len(t)
<1>1. s \in Seq(S) /\ t \in Seq(S)
  <2>1. s \in [1..Len(s) -> EarlyAwaits] /\ Len(s) \in Nat
    BY LenProperties
  <2>2. s \in [1..Len(s) -> S]
    BY <2>1 DEF EarlyAwaits
  <2> QED
    BY <2>1, <2>2, SeqDef DEF Unpaid
<1>2. /\ m \in Nat /\ n \in Nat /\ u \in Seq(S) /\ Len(u) = m + n
      /\ \A i \in 1..Len(u) : \/ i \in 1..m /\ u[i] = s[i]
                              \/ i - m \in 1..n /\ u[i] = t[i - m]
  <2> HIDE DEF S
  <2>1. /\ Len(s) \in Nat /\ Len(t) \in Nat
        /\ s \o t \in Seq(S) /\ Len(s \o t) = Len(s) + Len(t)
        /\ \A i \in 1..Len(s \o t) :
             \/ i \in 1..Len(s) /\ (s \o t)[i] = s[i]
             \/ i - Len(s) \in 1..Len(t) /\ (s \o t)[i] = t[i - Len(s)]
    BY ONLY <1>1, ConcatFacts
  <2> QED
    BY <2>1
<1>3. \A i \in 1..m : s[i] \notin Prompts \cup LateAwaits
  BY ElementOfSeq DEF EarlyAwaits
<1>4. "batch" \in Prompts /\ {"bundle", "done"} \subseteq LateAwaits
  BY DEF Prompts, LateAwaits
<1>5. /\ \A i, j \in 1..n : i < j /\ t[i] \in Prompts => t[j] \in LateAwaits
      /\ \A i \in 1..n :
           t[i] \in LateAwaits => \E k \in 1..n : k < i /\ t[k] \in Prompts
      /\ \A i \in 1..n : t[i] = "bundle" => i # 1 /\ t[i - 1] = "batch"
      /\ \A i \in 1..n : t[i] = "batch" => i # n /\ t[i + 1] = "bundle"
      /\ \A i \in 1..n : t[i] \in Prompts => t[n] = "done"
      /\ \A i \in 1..n : t[i] = "done" => i = n
  BY DEF Unpaid
<1> HIDE DEF u, m, n
<1>6. ASSUME NEW i \in 1..Len(u), u[i] \in Prompts \cup LateAwaits
      PROVE  i - m \in 1..n /\ u[i] = t[i - m]
  BY <1>2, <1>3, <1>6
<1>7. ASSUME NEW k \in 1..n
      PROVE  k + m \in 1..Len(u) /\ u[k + m] = t[k]
  <2>1. k + m \in 1..Len(u) /\ k + m \notin 1..m /\ (k + m) - m = k
    BY <1>2
  <2>2. u[k + m] = t[(k + m) - m]
    BY <1>2, <2>1
  <2> QED
    BY <2>1, <2>2
<1>8. ASSUME NEW i \in 1..Len(u), NEW j \in 1..Len(u), i < j, u[i] \in Prompts
      PROVE  u[j] \in LateAwaits
  <2>1. i - m \in 1..n /\ t[i - m] \in Prompts
    BY <1>6, <1>8
  <2>2. j \notin 1..m
    BY <1>2, <1>8, <2>1
  <2>3. j - m \in 1..n /\ u[j] = t[j - m]
    BY <1>2, <2>2
  <2>4. i - m < j - m
    BY <1>2, <1>8
  <2> QED
    BY <1>5, <2>1, <2>3, <2>4
<1>9. ASSUME NEW i \in 1..Len(u), u[i] \in LateAwaits
      PROVE  \E k \in 1..Len(u) : k < i /\ u[k] \in Prompts
  <2>1. i - m \in 1..n /\ t[i - m] \in LateAwaits
    BY <1>6, <1>9
  <2>2. PICK k \in 1..n : k < i - m /\ t[k] \in Prompts
    BY <1>5, <2>1
  <2>3. k + m \in 1..Len(u) /\ u[k + m] \in Prompts
    BY <1>7, <2>2
  <2>4. k + m < i
    BY <1>2, <2>2
  <2> QED
    BY <2>3, <2>4
<1>10. ASSUME NEW i \in 1..Len(u), u[i] = "bundle"
       PROVE  i # 1 /\ u[i - 1] = "batch"
  <2>1. i - m \in 1..n /\ t[i - m] = "bundle"
    BY <1>4, <1>6, <1>10
  <2>2. i - m # 1 /\ t[(i - m) - 1] = "batch"
    BY <1>5, <2>1
  <2>3. (i - m) - 1 \in 1..n /\ ((i - m) - 1) + m = i - 1 /\ i # 1
    BY <1>2, <2>1, <2>2
  <2>4. u[((i - m) - 1) + m] = t[(i - m) - 1]
    BY <1>7, <2>3
  <2> QED
    BY <2>2, <2>3, <2>4
<1>11. ASSUME NEW i \in 1..Len(u), u[i] = "batch"
       PROVE  i # Len(u) /\ u[i + 1] = "bundle"
  <2>1. i - m \in 1..n /\ t[i - m] = "batch"
    BY <1>4, <1>6, <1>11
  <2>2. i - m # n /\ t[(i - m) + 1] = "bundle"
    BY <1>5, <2>1
  <2>3. (i - m) + 1 \in 1..n /\ ((i - m) + 1) + m = i + 1 /\ i # Len(u)
    BY <1>2, <2>1, <2>2
  <2>4. u[((i - m) + 1) + m] = t[(i - m) + 1]
    BY <1>7, <2>3
  <2> QED
    BY <2>2, <2>3, <2>4
<1>12. ASSUME NEW i \in 1..Len(u), u[i] \in Prompts
       PROVE  u[Len(u)] = "done"
  <2>1. i - m \in 1..n /\ t[i - m] \in Prompts
    BY <1>6, <1>12
  <2>2. n \in 1..n /\ n + m = Len(u)
    BY <1>2, <2>1
  <2>3. u[n + m] = t[n]
    BY <1>7, <2>2
  <2> QED
    BY <1>5, <2>1, <2>2, <2>3
<1>13. ASSUME NEW i \in 1..Len(u), u[i] = "done" PROVE i = Len(u)
  <2>1. i - m \in 1..n /\ t[i - m] = "done"
    BY <1>4, <1>6, <1>13
  <2>2. i - m = n
    BY <1>5, <2>1
  <2> QED
    BY <1>2, <2>2
<1> QED
  BY <1>2, <1>8, <1>9, <1>10, <1>11, <1>12, <1>13 DEF Unpaid, u

LEMMA EpochSendUnpaid == Unpaid(EpochSendSteps)
<1> DEFINE first == <<"available", "fresh">>
           sent  == first \o CrossChainIntent
           last  == <<"done">>
           u     == sent \o last
<1>1. /\ first \in Seq(OtherAwaits) /\ Len(first) = 2
      /\ first[1] = "available" /\ first[2] = "fresh"
  BY DEF OtherAwaits
<1>2. /\ CrossChainIntent \in Seq(OtherAwaits) /\ Len(CrossChainIntent) = 4
      /\ CrossChainIntent[1] = "build" /\ CrossChainIntent[2] = "request"
      /\ CrossChainIntent[3] = "confirm" /\ CrossChainIntent[4] = "allocate"
  BY DEF OtherAwaits, CrossChainIntent
<1> HIDE DEF first
<1>3. /\ sent \in Seq(OtherAwaits) /\ Len(sent) = 6
      /\ \A i \in 1..6 : \/ i \in 1..2 /\ sent[i] = first[i]
                         \/ i - 2 \in 1..4 /\ sent[i] = CrossChainIntent[i - 2]
  <2>1. /\ sent \in Seq(OtherAwaits)
        /\ Len(sent) = Len(first) + Len(CrossChainIntent)
        /\ \A i \in 1..Len(sent) :
             \/ i \in 1..Len(first) /\ sent[i] = first[i]
             \/ /\ i - Len(first) \in 1..Len(CrossChainIntent)
                /\ sent[i] = CrossChainIntent[i - Len(first)]
    BY <1>1, <1>2, ConcatFacts
  <2> HIDE DEF sent
  <2> QED
    BY <1>1, <1>2, <2>1
<1> HIDE DEF sent
<1>4. /\ sent[1] = "available" /\ sent[2] = "fresh" /\ sent[3] = "build"
      /\ sent[4] = "request" /\ sent[5] = "confirm" /\ sent[6] = "allocate"
  BY <1>1, <1>2, <1>3
<1>5. last \in Seq(OtherAwaits) /\ Len(last) = 1 /\ last[1] = "done"
  BY DEF OtherAwaits
<1> HIDE DEF last
<1>6. /\ u \in Seq(OtherAwaits) /\ Len(u) = 7
      /\ \A i \in 1..7 : \/ i \in 1..6 /\ u[i] = sent[i]
                         \/ i - 6 \in 1..1 /\ u[i] = last[i - 6]
  <2>1. /\ u \in Seq(OtherAwaits)
        /\ Len(u) = Len(sent) + Len(last)
        /\ \A i \in 1..Len(u) :
             \/ i \in 1..Len(sent) /\ u[i] = sent[i]
             \/ i - Len(sent) \in 1..Len(last) /\ u[i] = last[i - Len(sent)]
    BY <1>3, <1>5, ConcatFacts
  <2> HIDE DEF u
  <2> QED
    BY <1>3, <1>5, <2>1
<1> HIDE DEF u
<1>7. /\ u[1] = "available" /\ u[2] = "fresh" /\ u[3] = "build"
      /\ u[4] = "request" /\ u[5] = "confirm" /\ u[6] = "allocate"
      /\ u[7] = "done"
  BY <1>4, <1>5, <1>6
<1>8. Unpaid(u)
  <2>1. u \in Seq(PreAwaits \cup CctpAwaits \cup OtherAwaits)
    BY <1>6, LenProperties, SeqDef
  <2>2. \A i \in 1..7 : i \in {1, 2, 3, 4, 5, 6, 7}
    OBVIOUS
  <2> QED
    BY <1>6, <1>7, <2>1, <2>2 DEF Unpaid, Prompts, LateAwaits
<1> QED
  BY <1>8 DEF EpochSendSteps, first, sent, last, u

LEMMA FlowsUnpaid ==
  ASSUME route \in Route, NEW steps \in FlowSteps
  PROVE  Unpaid(steps)
<1>1. Unpaid(CctpDepositSteps)
  <2>1. CctpDepositSteps \in Seq(CctpAwaits)
    BY DepositPlan DEF CctpPlan
  <2>2. CctpDepositSteps \in Seq(PreAwaits \cup CctpAwaits)
    BY <2>1, LenProperties, SeqDef
  <2> QED
    BY <2>2, EarlyUnpaid
<1>2. Unpaid(ArcDepositSteps)
  <2> DEFINE first == <<"recipient", "network", "available", "approve", "account",
                        "chain", "estimate", "fees", "account", "chain",
                        "deposit", "done">>
  <2>1. /\ first \in Seq(OtherAwaits) /\ Len(first) = 12
        /\ \A i \in 1..10 : first[i] \notin Prompts \cup LateAwaits
        /\ first[11] = "deposit" /\ first[12] = "done"
    BY DEF OtherAwaits, Prompts, LateAwaits
  <2> HIDE DEF first
  <2>2. first \in Seq(PreAwaits \cup CctpAwaits \cup OtherAwaits)
    BY <2>1, LenProperties, SeqDef
  <2>3. \A i \in 1..12 : i \in 1..10 \/ i = 11 \/ i = 12
    OBVIOUS
  <2> QED
    BY <2>1, <2>2, <2>3 DEF first, ArcDepositSteps, Unpaid, Prompts, LateAwaits
<1>3. \A flow \in AgglayerDepositSteps : Unpaid(flow)
  <2> DEFINE first == <<"network", "account", "chain">>
             token == <<"approve", "estimate">>
             last  == <<"fees", "account", "chain", "deposit", "done">>
  <2>1. Unpaid(last)
    BY DEF Unpaid, OtherAwaits, Prompts, LateAwaits
  <2>2. first \in Seq(EarlyAwaits) /\ token \in Seq(EarlyAwaits)
    BY DEF EarlyAwaits, OtherAwaits, Prompts, LateAwaits
  <2>3. <<>> \in Seq(EarlyAwaits)
    BY EmptySeq
  <2> HIDE DEF first, token, last
  <2>4. first \o token \in Seq(EarlyAwaits) /\ first \o <<>> \in Seq(EarlyAwaits)
    BY <2>2, <2>3, ConcatFacts
  <2>5. Unpaid((first \o token) \o last) /\ Unpaid((first \o <<>>) \o last)
    BY <2>1, <2>4, ConcatUnpaid
  <2> QED
    BY <2>5 DEF AgglayerDepositSteps, first, token, last
<1>4. Unpaid(AgglayerSendSteps) /\ Unpaid(WithdrawalSteps)
  BY DEF AgglayerSendSteps, WithdrawalSteps, Unpaid, OtherAwaits, Prompts, LateAwaits
<1>5. Unpaid(EpochReceiveSteps)
  BY DEF EpochReceiveSteps, Unpaid, OtherAwaits, Prompts, LateAwaits
<1> QED
  BY <1>1, <1>2, <1>3, <1>4, <1>5, EpochSendUnpaid
     DEF FlowSteps, Route, Receives, Sends

LEMMA EpochPlansUnpaid ==
  \A plan \in {InBatch, InTurn(<<>>), InTurn(<<"epoch-approval">>)} : Unpaid(plan)
<1> DEFINE last == <<"epoch-deposit", "settle", "allocate", "done">>
           first == <<"epoch-approval">>
<1>1. Unpaid(last) /\ Unpaid(InBatch)
  BY DEF InBatch, Unpaid, OtherAwaits, Prompts, LateAwaits
<1>2. first \in Seq(EarlyAwaits) /\ <<>> \in Seq(EarlyAwaits)
  BY DEF EarlyAwaits, OtherAwaits, Prompts, LateAwaits
<1> HIDE DEF first, last
<1>3. Unpaid(first \o last) /\ Unpaid(<<>> \o last)
  BY <1>1, <1>2, ConcatUnpaid
<1> QED
  BY <1>1, <1>3 DEF InTurn, first, last

-----------------------------------------------------------------------------
(* The steps of a submission.                                              *)
Counted ==
  /\ AllAccounted'
  /\ job.broadcast > 0 => job'.broadcast > 0 \/ Succeed \/ Fail

LEMMA ContinueTells ==
  ASSUME NEW j, IsJob(j), NEW todo, Continue(j, todo)
  PROVE  /\ job'.todo = todo
         /\ job'.broadcast = j.broadcast /\ job'.receipt = j.receipt
<1>1. PICK asked : job' = [j EXCEPT !.todo = todo, !.asked = asked]
  BY DEF Continue
<1> QED
  BY <1>1 DEF IsJob

(* A step that changes something else of the submission.                   *)
Changes(j, x) ==
  \/ j = job
  \/ j = [job EXCEPT !.quote = x]
  \/ j = [job EXCEPT !.read = x]
  \/ j = [job EXCEPT !.priced = x]
  \/ j = [job EXCEPT !.window = x]
  \/ j = [job EXCEPT !.retried = x]
  \/ j = [job EXCEPT !.window = 0, !.retried = TRUE]
  \/ j = [job EXCEPT !.quote = x, !.read = None, !.priced = {}]

LEMMA ChangesTell ==
  ASSUME IsJob(job), NEW j, NEW x, Changes(j, x)
  PROVE  /\ IsJob(j) /\ j.todo = job.todo
         /\ j.broadcast = job.broadcast /\ j.receipt = job.receipt
<1>1. CASE j = job
  BY <1>1
<1>2. CASE j = [job EXCEPT !.quote = x] \/ j = [job EXCEPT !.read = x]
  BY <1>2 DEF IsJob
<1>3. CASE j = [job EXCEPT !.priced = x] \/ j = [job EXCEPT !.window = x]
  BY <1>3 DEF IsJob
<1>4. CASE j = [job EXCEPT !.retried = x]
  BY <1>4 DEF IsJob
<1>5. CASE j = [job EXCEPT !.window = 0, !.retried = TRUE]
  BY <1>5 DEF IsJob
<1>6. CASE j = [job EXCEPT !.quote = x, !.read = None, !.priced = {}]
  BY <1>6 DEF IsJob
<1> QED
  BY <1>1, <1>2, <1>3, <1>4, <1>5, <1>6 DEF Changes

(* Where a submission is tells whether it has broadcast.                   *)
LEMMA StepCounts ==
  ASSUME AtWork, AllAccounted
  PROVE  /\ IsJob(job) /\ Step = Head(job.todo) /\ job.todo # <<>>
         /\ Step \notin LateAwaits =>
              job.broadcast = 0 /\ job.receipt = "none" /\ Unpaid(job.todo)
         /\ Step \in LateAwaits =>
              /\ job.broadcast = 1 /\ Paid(job.todo)
              /\ job.receipt # "none" \/ Step = "bundle"
<1>1. IsJob(job) /\ Step = Head(job.todo) /\ job.todo # <<>>
  BY DEF AtWork, IInv, Submitted, Step
<1>2. Unpaid(job.todo) => Step \notin LateAwaits
  BY <1>1, TailUnpaid
<1>3. Paid(job.todo) => Step \in LateAwaits
  BY <1>1, TailFacts DEF Paid
<1> QED
  BY <1>1, <1>2, <1>3 DEF AllAccounted, Accounted

LEMMA EndedCounts == ASSUME Succeed \/ Fail PROVE Counted
<1>1. job' = NoJob
  BY DEF Succeed, Fail, Ended
<1>2. <<>> \in Seq(PreAwaits \cup CctpAwaits)
  BY EmptySeq
<1>3. Unpaid(<<>>)
  BY <1>2, EarlyUnpaid
<1> QED
  BY <1>1, <1>3 DEF Counted, AllAccounted, Accounted, NoJob

LEMMA AdvanceCounts ==
  ASSUME AtWork, AllAccounted, Step \notin Prompts \cup LateAwaits,
         NEW j, NEW x, Changes(j, x), Advance(j)
  PROVE  Counted
<1>1. /\ job.broadcast = 0 /\ job.receipt = "none" /\ Unpaid(job.todo)
      /\ IsJob(job) /\ Step = Head(job.todo) /\ job.todo # <<>>
  BY StepCounts
<1>2. /\ IsJob(j) /\ j.todo = job.todo
      /\ j.broadcast = 0 /\ j.receipt = "none"
  BY <1>1, ChangesTell
<1>3. /\ job'.todo = Tail(job.todo)
      /\ job'.broadcast = 0 /\ job'.receipt = "none"
  BY <1>2, ContinueTells DEF Advance
<1>4. Unpaid(Tail(job.todo))
  BY <1>1, TailUnpaid
<1> QED
  BY <1>1, <1>3, <1>4 DEF Counted, AllAccounted, Accounted

LEMMA PlanCounts ==
  ASSUME AtWork, AllAccounted, Step \notin LateAwaits,
         NEW j, NEW x, Changes(j, x), NEW todo, Unpaid(todo), Continue(j, todo)
  PROVE  Counted
<1>1. job.broadcast = 0 /\ job.receipt = "none" /\ IsJob(job)
  BY StepCounts
<1>2. IsJob(j) /\ j.broadcast = 0 /\ j.receipt = "none"
  BY <1>1, ChangesTell
<1>3. job'.todo = todo /\ job'.broadcast = 0 /\ job'.receipt = "none"
  BY <1>2, ContinueTells
<1> QED
  BY <1>1, <1>3 DEF Counted, AllAccounted, Accounted

(* The wallet accepts; a batch has its receipt later.                      *)
LEMMA BroadcastCounts ==
  ASSUME AtWork, AllAccounted, Step \in Prompts,
         NEW j, NEW receipt,
         j = [job EXCEPT !.broadcast = @ + 1, !.receipt = receipt],
         receipt # "none" \/ Step = "batch", Advance(j)
  PROVE  Counted
<1>1. Step \notin LateAwaits
  BY DEF Prompts, LateAwaits
<1>2. /\ job.broadcast = 0 /\ Unpaid(job.todo)
      /\ IsJob(job) /\ Step = Head(job.todo) /\ job.todo # <<>>
  BY <1>1, StepCounts
<1>3. /\ IsJob(j) /\ j.todo = job.todo
      /\ j.broadcast = 1 /\ j.receipt = receipt
  <2>1. PICK b : b = job.broadcast + 1
    OBVIOUS
  <2>2. j = [job EXCEPT !.broadcast = b, !.receipt = receipt] /\ b = 1
    BY <1>2, <2>1
  <2> QED
    BY <1>2, <2>2 DEF IsJob
<1>4. /\ job'.todo = Tail(job.todo)
      /\ job'.broadcast = 1 /\ job'.receipt = receipt
  BY <1>3, ContinueTells DEF Advance
<1>5. Paid(Tail(job.todo)) /\ (Step = "batch" => Head(Tail(job.todo)) = "bundle")
  BY <1>2, TailUnpaid
<1>6. receipt # "none" \/ Head(Tail(job.todo)) = "bundle"
  BY <1>5
<1>7. AllAccounted'
  BY <1>4, <1>5, <1>6 DEF AllAccounted, Accounted
<1> QED
  BY <1>4, <1>7 DEF Counted

LEMMA LateCounts ==
  ASSUME AtWork, AllAccounted, Step \in LateAwaits, Step # "done",
         NEW j, NEW receipt, j = [job EXCEPT !.receipt = receipt],
         receipt # "none", Advance(j)
  PROVE  Counted
<1>1. /\ job.broadcast = 1 /\ Paid(job.todo)
      /\ IsJob(job) /\ Step = Head(job.todo) /\ job.todo # <<>>
  BY StepCounts
<1>2. /\ IsJob(j) /\ j.todo = job.todo
      /\ j.broadcast = 1 /\ j.receipt = receipt
  BY <1>1 DEF IsJob
<1>3. /\ job'.todo = Tail(job.todo)
      /\ job'.broadcast = 1 /\ job'.receipt = receipt
  BY <1>2, ContinueTells DEF Advance
<1>4. Paid(Tail(job.todo))
  BY <1>1, TailPaid
<1> QED
  BY <1>3, <1>4 DEF Counted, AllAccounted, Accounted

-----------------------------------------------------------------------------
LEMMA CctpUnpaid == ASSUME NEW s, CctpPlan(s) PROVE Unpaid(s)
<1>1. s \in Seq(PreAwaits \cup CctpAwaits)
  <2>1. s \in [1..Len(s) -> CctpAwaits] /\ Len(s) \in Nat
    BY LenProperties DEF CctpPlan
  <2> QED
    BY <2>1, SeqDef
<1> QED
  BY <1>1, EarlyUnpaid

LEMMA StartCounts ==
  ASSUME AtWork, AllAccounted, Step \notin LateAwaits, StartFlow PROVE Counted
<1>1. CASE Fail
  BY <1>1, EndedCounts
<1>2. CASE ~Fail
  <2> DEFINE j == [job EXCEPT !.quote = Reviewed.quote, !.read = None, !.priced = {}]
  <2>1. PICK steps \in FlowSteps : Continue(j, steps)
    BY <1>2 DEF StartFlow
  <2>2. Changes(j, Reviewed.quote)
    BY DEF Changes
  <2> HIDE DEF j
  <2>3. Unpaid(steps)
    BY FlowsUnpaid DEF AtWork, IInv, World
  <2> QED
    BY <2>1, <2>2, <2>3, PlanCounts
<1> QED
  BY <1>1, <1>2

LEMMA PreCounts ==
  ASSUME AtWork, AllAccounted,
         OpenEvmWallet \/ ProviderLoaded \/ FreshBalances \/ FreshPrices \/ Verdict
  PROVE  Counted
<1>1. Step \notin Prompts \cup LateAwaits
  BY DEF OpenEvmWallet, ProviderLoaded, FreshBalances, FreshPrices, Verdict,
         Prompts, LateAwaits
<1>2. CASE OpenEvmWallet \/ Fail
  BY <1>2, EndedCounts DEF OpenEvmWallet
<1>3. CASE StartFlow
  BY <1>1, <1>3, StartCounts
<1>4. CASE FreshBalances
  <2>1. Changes([job EXCEPT !.read = held], held)
    BY DEF Changes
  <2> QED
    BY <1>1, <1>4, <2>1, AdvanceCounts DEF FreshBalances
<1>5. CASE FreshPrices
  <2>1. PICK priced : Advance([job EXCEPT !.priced = priced])
    BY <1>5 DEF FreshPrices
  <2>2. Changes([job EXCEPT !.priced = priced], priced)
    BY DEF Changes
  <2> QED
    BY <1>1, <2>1, <2>2, AdvanceCounts
<1>6. CASE Continue(job, <<"balances", "prices", "verdict">>)
  <2> DEFINE todo == <<"balances", "prices", "verdict">>
  <2>1. todo \in Seq(PreAwaits \cup CctpAwaits)
    BY DEF PreAwaits
  <2> HIDE DEF todo
  <2>2. Unpaid(todo) /\ Changes(job, 0)
    BY <2>1, EarlyUnpaid DEF Changes
  <2>3. Continue(job, todo)
    BY <1>6 DEF todo
  <2> QED
    BY <1>1, <2>2, <2>3, PlanCounts
<1> QED
  BY <1>2, <1>3, <1>4, <1>5, <1>6 DEF ProviderLoaded, Verdict

LEMMA SharedCounts == ASSUME AtWork, AllAccounted, SharedStep PROVE Counted
<1>1. CASE Finish \/ Rejected
  BY <1>1, EndedCounts DEF Finish, Rejected
<1>2. CASE ~(Finish \/ Rejected)
  <2>1. Advance(job) /\ Step \notin Prompts \cup LateAwaits
    BY <1>2 DEF SharedStep, PlainAnswer, Plain, SuggestEvmFees, EnsureEvmNetwork,
                AssertAccount, AssertChain, Prompts, LateAwaits
  <2>2. Changes(job, 0)
    BY DEF Changes
  <2> QED
    BY <2>1, <2>2, AdvanceCounts
<1> QED
  BY <1>1, <1>2

LEMMA CctpCounts == ASSUME AtWork, AllAccounted, CctpStep PROVE Counted
<1>1. Step \in CctpSteps /\ Step \notin Prompts \cup LateAwaits
  BY DEF CctpStep, FetchCctpQuote, Authorize, ReuseOrRefresh, RefreshedWindow,
         Simulate, PreparedBurn, ExpiredBurn, SubmitBurn, CctpSteps, Prompts,
         LateAwaits
<1>2. /\ CctpPlan(job.todo) /\ CctpPlan(Tail(job.todo))
      /\ \A i \in 1..Len(Tail(job.todo)) : Tail(job.todo)[i] # "quote"
      /\ Step = Head(job.todo) /\ job.todo # <<>>
  BY <1>1, CctpTells DEF AtWork, Step
<1>3. Changes(job, 0)
  BY DEF Changes
<1>4. ASSUME Advance(job) PROVE Counted
  BY <1>1, <1>3, <1>4, AdvanceCounts
<1>5. ASSUME NEW todo, CctpPlan(todo), Continue(job, todo) PROVE Counted
  BY <1>1, <1>3, <1>5, CctpUnpaid, PlanCounts
<1>6. CASE FetchCctpQuote
  <2>1. PICK quote : Advance([job EXCEPT !.quote = quote])
    BY <1>6 DEF FetchCctpQuote
  <2>2. Changes([job EXCEPT !.quote = quote], quote)
    BY DEF Changes
  <2> QED
    BY <1>1, <2>1, <2>2, AdvanceCounts
<1>7. CASE Authorize \/ RefreshedWindow
  BY <1>4, <1>7 DEF Authorize, RefreshedWindow
<1>8. CASE ReuseOrRefresh
  <2>1. CASE Continue(job, RefreshSteps \o Tail(job.todo))
    <3> DEFINE todo == RefreshSteps \o Tail(job.todo)
    <3>1. CctpPlan(todo)
      BY <1>2, RefreshKeepsPlan
    <3>2. Continue(job, todo)
      BY <2>1
    <3> HIDE DEF todo
    <3> QED
      BY <1>5, <3>1, <3>2
  <2> QED
    BY <1>4, <1>8, <2>1 DEF ReuseOrRefresh
<1>9. CASE Simulate
  <2> DEFINE todo == <<"expired">> \o SubSeq(job.todo, 4, Len(job.todo))
  <2>1. CctpPlan(todo)
    BY <1>2, <1>9, ExpiredPlan DEF Simulate
  <2>2. Advance(job) \/ Continue(job, todo)
    BY <1>9 DEF Simulate
  <2> HIDE DEF todo
  <2> QED
    BY <1>4, <1>5, <2>1, <2>2
<1>10. CASE PreparedBurn \/ ExpiredBurn
  <2>1. PICK window : Advance([job EXCEPT !.window = window])
    BY <1>10 DEF PreparedBurn, ExpiredBurn
  <2>2. Changes([job EXCEPT !.window = window], window)
    BY DEF Changes
  <2> QED
    BY <1>1, <2>1, <2>2, AdvanceCounts
<1>11. CASE SubmitBurn
  <2>1. CASE Fail
    BY <2>1, EndedCounts
  <2>2. CASE Continue([job EXCEPT !.window = 0], <<"deposit", "done">>)
    <3> DEFINE j == [job EXCEPT !.window = 0]
               todo == <<"deposit", "done">>
    <3>1. Changes(j, 0) /\ Continue(j, todo)
      BY <2>2 DEF Changes
    <3>2. Unpaid(todo)
      BY DEF Unpaid, OtherAwaits, Prompts, LateAwaits
    <3> HIDE DEF j, todo
    <3> QED
      BY <1>1, <3>1, <3>2, PlanCounts
  <2>3. CASE Continue([job EXCEPT !.window = 0, !.retried = TRUE],
                      RefreshSteps \o BurnSteps)
    <3> DEFINE j == [job EXCEPT !.window = 0, !.retried = TRUE]
               todo == RefreshSteps \o BurnSteps
    <3>1. Changes(j, 0) /\ Continue(j, todo)
      BY <2>3 DEF Changes
    <3>2. CctpPlan(todo)
      BY BurnPlan, RefreshKeepsPlan
    <3> HIDE DEF j, todo
    <3> QED
      BY <1>1, <3>1, <3>2, CctpUnpaid, PlanCounts
  <2> QED
    BY <1>11, <2>1, <2>2, <2>3 DEF SubmitBurn, BurnOrRetry
<1> QED
  BY <1>6, <1>7, <1>8, <1>9, <1>10, <1>11 DEF CctpStep

LEMMA ProvidersCount ==
  ASSUME AtWork, AllAccounted,
         \/ DepositBroadcast \/ FreshWithdrawalQuote \/ FreshEpochQuote
         \/ RequestNote \/ NoteConfirmed \/ EpochConnection \/ Solve
         \/ ApprovalAccepted \/ WalletError \/ EpochDepositAccepted
         \/ BatchAccepted \/ BundleRegistered \/ DepositSettled \/ Allocated
  PROVE  Counted
<1>1. CASE DepositBroadcast \/ RequestNote \/ EpochDepositAccepted
  <2>1. PICK receipt \in {"submitted", "sourced"} :
          Advance([job EXCEPT !.broadcast = @ + 1, !.receipt = receipt])
    BY <1>1 DEF DepositBroadcast, RequestNote, EpochDepositAccepted, AfterPublish,
                Broadcast
  <2>2. Step \in Prompts /\ receipt # "none"
    BY <1>1 DEF DepositBroadcast, RequestNote, EpochDepositAccepted, Prompts
  <2> QED
    BY <2>1, <2>2, BroadcastCounts
<1>2. CASE BatchAccepted
  <2>1. Step = "batch" /\ Step \in Prompts /\ IsJob(job)
    BY <1>2, StepCounts DEF BatchAccepted, Prompts
  <2>2. PICK b : b = job.broadcast + 1
    OBVIOUS
  <2>3. [job EXCEPT !.broadcast = b]
          = [job EXCEPT !.broadcast = b, !.receipt = job.receipt]
    BY <2>1 DEF IsJob
  <2>4. Advance([job EXCEPT !.broadcast = b])
    BY <1>2, <2>2 DEF BatchAccepted
  <2>5. Advance([job EXCEPT !.broadcast = @ + 1, !.receipt = job.receipt])
    BY <2>2, <2>3, <2>4
  <2> QED
    BY <2>1, <2>5, BroadcastCounts
<1>3. CASE NoteConfirmed \/ BundleRegistered \/ DepositSettled \/ Allocated
  <2>1. PICK receipt \in {"sourced", "observed"} :
          Advance([job EXCEPT !.receipt = receipt])
    BY <1>3 DEF NoteConfirmed, BundleRegistered, DepositSettled, Allocated
  <2>2. Step \in LateAwaits /\ Step # "done" /\ receipt # "none"
    BY <1>3 DEF NoteConfirmed, BundleRegistered, DepositSettled, Allocated, LateAwaits
  <2> QED
    BY <2>1, <2>2, LateCounts
<1>4. CASE FreshWithdrawalQuote \/ FreshEpochQuote
  <2>1. PICK quote : Advance([job EXCEPT !.quote = quote])
    BY <1>4 DEF FreshWithdrawalQuote, FreshEpochQuote
  <2>2. Step \notin Prompts \cup LateAwaits
    BY <1>4 DEF FreshWithdrawalQuote, FreshEpochQuote, Prompts, LateAwaits
  <2>3. Changes([job EXCEPT !.quote = quote], quote)
    BY DEF Changes
  <2> QED
    BY <2>1, <2>2, <2>3, AdvanceCounts
<1>5. CASE EpochConnection \/ ApprovalAccepted
  <2>1. Advance(job) /\ Step \notin Prompts \cup LateAwaits
    BY <1>5 DEF EpochConnection, ApprovalAccepted, Prompts, LateAwaits
  <2>2. Changes(job, 0)
    BY DEF Changes
  <2> QED
    BY <2>1, <2>2, AdvanceCounts
<1>6. CASE Solve
  <2>1. Step \notin LateAwaits /\ Changes(job, 0)
    BY <1>6 DEF Solve, LateAwaits, Changes
  <2>2. PICK plan \in {InBatch, InTurn(<<>>), InTurn(<<"epoch-approval">>)} :
          Continue(job, plan)
    BY <1>6 DEF Solve
  <2> QED
    BY <2>1, <2>2, EpochPlansUnpaid, PlanCounts
<1>7. CASE WalletError
  <2> DEFINE j == [job EXCEPT !.retried = TRUE]
  <2>1. Step \notin LateAwaits /\ Changes(j, TRUE) /\ Continue(j, InTurn(<<>>))
    BY <1>7 DEF WalletError, Resubmit, LateAwaits, Changes
  <2>2. Unpaid(InTurn(<<>>))
    BY EpochPlansUnpaid
  <2> HIDE DEF j
  <2> QED
    BY <2>1, <2>2, PlanCounts
<1> QED
  BY <1>1, <1>2, <1>3, <1>4, <1>5, <1>6, <1>7

LEMMA InitCounts == Init => AllAccounted
<1>1. <<>> \in Seq(PreAwaits \cup CctpAwaits)
  BY EmptySeq
<1>2. Unpaid(<<>>)
  BY <1>1, EarlyUnpaid
<1> SUFFICES ASSUME Init PROVE AllAccounted
  OBVIOUS
<1>3. job.todo = <<>> /\ job.broadcast = 0 /\ job.receipt = "none"
  BY DEF Init, NoJob
<1> QED
  BY <1>2, <1>3 DEF AllAccounted, Accounted

LEMMA NextCounts ==
  IInv /\ AllAccounted /\ [Next]_vars => AllAccounted' /\ (SubmissionStep => Counted)
<1> SUFFICES ASSUME IInv, AllAccounted, [Next]_vars
             PROVE  AllAccounted' /\ (SubmissionStep => Counted)
  OBVIOUS
<1>1. ASSUME SubmissionStep PROVE Counted
  <2>1. AtWork
    BY <1>1, SubmissionAtWork
  <2> QED
    BY <1>1, <2>1, PreCounts, SharedCounts, CctpCounts, ProvidersCount
       DEF SubmissionStep, FlowStep
<1>2. CASE UNCHANGED job
  BY <1>1, <1>2 DEF AllAccounted
<1>3. CASE Tick
  <2>1. IsJob(job) /\ job' = [job EXCEPT !.quote = Older(@), !.window = CountDown(@)]
    BY <1>3 DEF IInv, Submitted, Tick
  <2>2. /\ job'.todo = job.todo
        /\ job'.broadcast = job.broadcast /\ job'.receipt = job.receipt
    BY <2>1 DEF IsJob
  <2> QED
    BY <1>1, <2>2 DEF AllAccounted
<1>4. CASE ConfirmReview /\ ~UNCHANGED job
  <2>1. PICK opening \in Opening :
          job' = [NoJob EXCEPT !.todo = opening, !.evm = evm, !.miden = miden]
    BY <1>4 DEF ConfirmReview
  <2>2. opening \in Seq(PreAwaits \cup CctpAwaits)
    <3>1. /\ <<"load">> \in Seq(PreAwaits \cup CctpAwaits)
          /\ <<"open">> \in Seq(PreAwaits \cup CctpAwaits)
      BY DEF PreAwaits
    <3> QED
      BY <3>1 DEF Opening
  <2>3. Unpaid(opening)
    BY <2>2, EarlyUnpaid
  <2>4. job'.todo = opening /\ job'.broadcast = 0 /\ job'.receipt = "none"
    BY <2>1 DEF NoJob
  <2> QED
    BY <1>1, <2>3, <2>4 DEF AllAccounted, Accounted
<1>5. CASE SubmissionStep
  BY <1>1, <1>5 DEF Counted
<1>6. ~SubmissionStep => AllAccounted'
  BY <1>2, <1>3, <1>4 DEF Next, FormStep, OpenReview, CancelReview, Change,
                          QuoteAnswer, vars
<1> QED
  BY <1>1, <1>5, <1>6 DEF Counted

(* However the wallet, the SDK's resubmission and the chains behave, the   *)
(* wallet accepts at most one source transaction of a review, and it has   *)
(* its receipt as soon as the page can name it (bridge-submission.ts:103,  *)
(* deposit-tracking.ts:51).                                                *)
THEOREM TransfersOnce == Spec => []ReceiptPerBroadcast
<1>1. IInv /\ AllAccounted => ReceiptPerBroadcast
  <2> SUFFICES ASSUME IInv, AllAccounted PROVE ReceiptPerBroadcast
    OBVIOUS
  <2>1. Paid(job.todo) /\ Head(job.todo) = "bundle" => Step = "bundle"
    BY DEF Paid, Step
  <2> QED
    BY <2>1 DEF AllAccounted, Accounted, ReceiptPerBroadcast, Recorded
<1> QED
  BY <1>1, InitHolds, NextHolds, InitCounts, NextCounts, PTL DEF Spec

(* Wherever a submission ends after a broadcast the page can name, it does *)
(* not end as an error that invites another (bridge-submission.ts:112).    *)
THEOREM WarnsAfterBroadcast == Spec => WarnsOnceBroadcast
<1>1. ASSUME IInv, AllAccounted, AllAccounted', [Next]_vars,
             SubmissionStep => Counted,
             job.broadcast > 0, Step # "bundle", job'.todo = <<>>
      PROVE  form'.error # "failed"
  <2>1. /\ job.broadcast = 1 /\ Paid(job.todo)
        /\ job.receipt # "none"
    BY <1>1 DEF AllAccounted, Accounted, Paid, Step
  <2>2. job.todo # <<>>
    BY <2>1 DEF Paid
  <2>3. ~(job'.broadcast > 0)
    BY <1>1 DEF AllAccounted, Accounted, Paid
  <2>4. SubmissionStep
    <3>1. form.status = "submitting"
      BY <1>1, <2>2 DEF IInv, Submitted
    <3>2. ~Tick
      <4>1. ASSUME Tick PROVE job'.broadcast = job.broadcast
        BY <1>1, <4>1 DEF Tick, IInv, Submitted, IsJob
      <4> QED
        BY <1>1, <2>3, <4>1
    <3> QED
      BY <1>1, <2>3, <3>1, <3>2 DEF Next, FormStep, OpenReview, CancelReview,
                                   ConfirmReview, Change, QuoteAnswer, vars
  <2>5. Succeed \/ Fail
    BY <1>1, <2>3, <2>4 DEF Counted
  <2> QED
    <3>1. ErrorText = "submitted"
      BY <2>1 DEF ErrorText, Recorded
    <3>2. ASSUME NEW error, Ended(error) PROVE form'.error = error
      BY <3>2 DEF Ended
    <3>3. form'.error = "" \/ form'.error = ErrorText
      BY <2>5, <3>2 DEF Succeed, Fail
    <3> QED
      BY <3>1, <3>3
<1> QED
  BY <1>1, InitHolds, NextHolds, InitCounts, NextCounts, PTL
     DEF Spec, WarnsOnceBroadcast
-----------------------------------------------------------------------------
(* What is before a submission ends in an await that releases the form, or *)
(* puts other awaits in its place.                                         *)
Releases == {"open", "load", "verdict", "burn", "solve", "done"}
Awaits   == PreAwaits \cup CctpAwaits \cup OtherAwaits
Plainly  == Awaits \ {"simulate"}
Released(s) ==
  /\ s \in Seq(Awaits)
  /\ s # <<>> => s[Len(s)] \in Releases
  /\ \A i \in 1..Len(s) : s[i] = "simulate" => Len(s) = i + 4

Receipts == {"none", "submitted", "sourced", "observed"}
WorldKept ==
  chain \in BOOLEAN /\ held \in Holdings /\ changes \in 0..MaxChanges
FormKept ==
  /\ form.status = "submitting" => job.todo # <<>>
  /\ form.status = "editing" => Reviewed = None
JobKept == job.receipt \in Receipts /\ Released(job.todo)

Typed == WorldKept /\ FormKept /\ JobKept

LEMMA ReleasedTail ==
  ASSUME NEW s, Released(s), s # <<>>, Head(s) \notin Releases
  PROVE  Released(Tail(s)) /\ Tail(s) # <<>>
<1> DEFINE t == Tail(s)
           n == Len(s)
<1>1. /\ n \in Nat \ {0} /\ t \in Seq(Awaits) /\ Len(t) = n - 1
      /\ \A i \in 1..n - 1 : t[i] = s[i + 1]
      /\ Head(s) = s[1]
  BY TailFacts DEF Released
<1>2. s[n] \in Releases /\ \A i \in 1..n : s[i] = "simulate" => n = i + 4
  BY DEF Released
<1> HIDE DEF t, n
<1>3. n # 1
  BY <1>1, <1>2
<1>4. n - 1 \in 1..n - 1 /\ (n - 1) + 1 = n
  BY <1>1, <1>3
<1>5. t[n - 1] \in Releases
  BY <1>1, <1>2, <1>4
<1>6. t # <<>>
  <2>1. Len(t) # 0
    BY <1>1, <1>3
  <2> QED
    BY <2>1, EmptySeq
<1>7. ASSUME NEW i \in 1..n - 1, t[i] = "simulate" PROVE n - 1 = i + 4
  <2>1. i + 1 \in 1..n /\ s[i + 1] = "simulate"
    BY <1>1, <1>7
  <2>2. n = (i + 1) + 4
    BY <1>2, <2>1
  <2> QED
    BY <1>1, <2>2
<1> QED
  BY <1>1, <1>5, <1>6, <1>7 DEF Released, t

(* Awaits put in front.                                                    *)
LEMMA ReleasedConcat ==
  ASSUME NEW s \in Seq(Plainly), NEW t, Released(t), t # <<>>
  PROVE  Released(s \o t) /\ s \o t # <<>>
<1> DEFINE u == s \o t
           m == Len(s)
           n == Len(t)
<1>1. /\ m \in Nat /\ n \in Nat /\ u \in Seq(Awaits) /\ Len(u) = m + n
      /\ \A i \in 1..Len(u) : \/ i \in 1..m /\ u[i] = s[i]
                              \/ i - m \in 1..n /\ u[i] = t[i - m]
  <2>1. t \in Seq(Awaits)
    BY DEF Released
  <2>2. s \in [1..Len(s) -> Plainly] /\ Len(s) \in Nat
    BY LenProperties
  <2>3. s \in Seq(Awaits)
    BY <2>2, SeqDef DEF Plainly
  <2> QED
    BY <2>1, <2>3, ConcatFacts
<1>2. /\ t[n] \in Releases
      /\ \A i \in 1..n : t[i] = "simulate" => n = i + 4
  BY DEF Released
<1>3. n # 0
  BY EmptySeq DEF Released
<1> HIDE DEF u, m, n
<1>4. u # <<>>
  <2>1. Len(u) # 0
    BY <1>1, <1>3
  <2> QED
    BY <2>1, EmptySeq
<1>5. u[Len(u)] \in Releases
  <2>1. Len(u) \in 1..Len(u) /\ Len(u) \notin 1..m /\ Len(u) - m = n
    BY <1>1, <1>3
  <2>2. u[Len(u)] = t[Len(u) - m]
    BY <1>1, <2>1
  <2> QED
    BY <1>2, <2>1, <2>2
<1>6. ASSUME NEW i \in 1..Len(u), u[i] = "simulate" PROVE Len(u) = i + 4
  <2>1. i - m \in 1..n /\ t[i - m] = "simulate"
    <3>1. \A k \in 1..m : s[k] # "simulate"
      BY ElementOfSeq DEF m, Plainly
    <3> QED
      BY <1>1, <1>6, <3>1
  <2>2. n = (i - m) + 4
    BY <1>2, <2>1
  <2> QED
    BY <1>1, <2>2
<1> QED
  BY <1>1, <1>4, <1>5, <1>6 DEF Released, u

LEMMA FlowsReleased ==
  ASSUME route \in Route, NEW steps \in FlowSteps
  PROVE  Released(steps) /\ steps # <<>>
<1>1. Released(BurnSteps) /\ BurnSteps # <<>>
  BY DEF BurnSteps, Released, Releases, Awaits, CctpAwaits
<1>2. Released(CctpDepositSteps) /\ CctpDepositSteps # <<>>
  <2> DEFINE checks == <<"recipient", "available", "network", "authorize",
                         "validate", "approve", "account", "chain", "validate">>
  <2>1. checks \in Seq(Plainly)
    BY DEF Plainly, Awaits, CctpAwaits
  <2> HIDE DEF checks
  <2>2. Released(checks \o BurnSteps) /\ checks \o BurnSteps # <<>>
    BY <1>1, <2>1, ReleasedConcat
  <2> QED
    BY <2>2 DEF CctpDepositSteps, checks
<1>3. Released(ArcDepositSteps) /\ ArcDepositSteps # <<>>
  BY DEF ArcDepositSteps, Released, Releases, Awaits, OtherAwaits
<1>4. \A flow \in AgglayerDepositSteps : Released(flow) /\ flow # <<>>
  <2> DEFINE first == <<"network", "account", "chain">>
             token == <<"approve", "estimate">>
             last  == <<"fees", "account", "chain", "deposit", "done">>
  <2>1. Released(last) /\ last # <<>>
    BY DEF Released, Releases, Awaits, OtherAwaits
  <2>2. first \in Seq(Plainly) /\ token \in Seq(Plainly)
    BY DEF Plainly, Awaits, OtherAwaits
  <2>3. <<>> \in Seq(Plainly)
    BY EmptySeq
  <2> HIDE DEF first, token, last
  <2>4. first \o token \in Seq(Plainly) /\ first \o <<>> \in Seq(Plainly)
    BY <2>2, <2>3, ConcatFacts
  <2>5. /\ Released((first \o token) \o last) /\ (first \o token) \o last # <<>>
        /\ Released((first \o <<>>) \o last) /\ (first \o <<>>) \o last # <<>>
    BY <2>1, <2>4, ReleasedConcat
  <2> QED
    BY <2>5 DEF AgglayerDepositSteps, first, token, last
<1>5. /\ Released(AgglayerSendSteps) /\ AgglayerSendSteps # <<>>
      /\ Released(WithdrawalSteps) /\ WithdrawalSteps # <<>>
      /\ Released(EpochReceiveSteps) /\ EpochReceiveSteps # <<>>
  BY DEF AgglayerSendSteps, WithdrawalSteps, EpochReceiveSteps, Released, Releases,
         Awaits, OtherAwaits
<1>6. Released(EpochSendSteps) /\ EpochSendSteps # <<>>
  <2> DEFINE first == <<"available", "fresh">>
             last  == <<"done">>
  <2>1. Released(last) /\ last # <<>>
    BY DEF Released, Releases, Awaits, OtherAwaits
  <2>2. first \in Seq(Plainly) /\ CrossChainIntent \in Seq(Plainly)
    BY DEF Plainly, Awaits, OtherAwaits, CrossChainIntent
  <2> HIDE DEF first, last
  <2>3. first \o CrossChainIntent \in Seq(Plainly)
    BY <2>2, ConcatFacts
  <2>4. /\ Released((first \o CrossChainIntent) \o last)
        /\ (first \o CrossChainIntent) \o last # <<>>
    BY <2>1, <2>3, ReleasedConcat
  <2> QED
    BY <2>4 DEF EpochSendSteps, first, last
<1> QED
  BY <1>2, <1>3, <1>4, <1>5, <1>6 DEF FlowSteps, Route, Receives, Sends

LEMMA PlansReleased ==
  /\ \A plan \in {InBatch, InTurn(<<>>), InTurn(<<"epoch-approval">>)} :
       Released(plan) /\ plan # <<>>
  /\ Released(RefreshSteps \o BurnSteps) /\ RefreshSteps \o BurnSteps # <<>>
  /\ \A opening \in Opening : Released(opening) /\ opening # <<>>
  /\ Released(<<"balances", "prices", "verdict">>)
  /\ Released(<<"deposit", "done">>) /\ Released(<<>>)
<1> DEFINE last == <<"epoch-deposit", "settle", "allocate", "done">>
           first == <<"epoch-approval">>
<1>1. Released(last) /\ last # <<>> /\ Released(InBatch) /\ InBatch # <<>>
  BY DEF InBatch, Released, Releases, Awaits, OtherAwaits
<1>2. first \in Seq(Plainly) /\ <<>> \in Seq(Plainly) /\ RefreshSteps \in Seq(Plainly)
  BY DEF Plainly, Awaits, OtherAwaits, CctpAwaits, RefreshSteps
<1>3. Released(BurnSteps) /\ BurnSteps # <<>>
  BY DEF BurnSteps, Released, Releases, Awaits, CctpAwaits
<1>4. /\ Released(<<"balances", "prices", "verdict">>)
      /\ Released(<<"deposit", "done">>)
  BY DEF Released, Releases, Awaits, OtherAwaits, PreAwaits
<1>5. \A opening \in Opening : Released(opening) /\ opening # <<>>
  BY DEF Opening, Released, Releases, Awaits, PreAwaits
<1>6. Released(<<>>)
  BY EmptySeq DEF Released
<1> HIDE DEF first, last
<1>7. /\ Released(first \o last) /\ first \o last # <<>>
      /\ Released(<<>> \o last) /\ <<>> \o last # <<>>
  BY <1>1, <1>2, ReleasedConcat
<1>8. Released(RefreshSteps \o BurnSteps) /\ RefreshSteps \o BurnSteps # <<>>
  BY <1>2, <1>3, ReleasedConcat
<1> QED
  BY <1>1, <1>4, <1>5, <1>6, <1>7, <1>8 DEF InTurn, first, last

(* A refresh keeps what follows; an expired simulation keeps the last two. *)
LEMMA RefreshReleased ==
  ASSUME NEW t, Released(t), t # <<>>
  PROVE  Released(RefreshSteps \o t) /\ RefreshSteps \o t # <<>>
<1>1. RefreshSteps \in Seq(Plainly)
  BY DEF Plainly, Awaits, CctpAwaits, RefreshSteps
<1> QED
  BY <1>1, ReleasedConcat

LEMMA ExpiredReleased ==
  ASSUME NEW s, Released(s), s # <<>>, Head(s) = "simulate"
  PROVE  Released(<<"expired">> \o SubSeq(s, 4, Len(s)))
<1> DEFINE u == SubSeq(s, 4, Len(s))
           first == <<"expired">>
<1>1. s \in Seq(Awaits) /\ Head(s) = s[1] /\ 1 \in 1..Len(s) /\ Len(s) \in Nat
  BY TailFacts DEF Released
<1>2. Len(s) = 5
  <2>1. Len(s) = 1 + 4
    BY <1>1 DEF Released
  <2> QED
    BY <2>1
<1>3. u \in Seq(Awaits) /\ Len(u) = 2 /\ \A i \in 1..2 : u[i] = s[i + 3]
  <2>1. /\ u \in Seq(Awaits)
        /\ Len(u) = IF 4 <= Len(s) THEN Len(s) - 4 + 1 ELSE 0
        /\ \A i \in 1..Len(s) - 4 + 1 : u[i] = s[4 + i - 1]
    <3>1. \A i \in 4..Len(s) : s[i] \in Awaits
      <4>1. \A i \in 1..Len(s) : s[i] \in Awaits
        BY <1>1, ElementOfSeq
      <4> QED
        BY <1>2, <4>1
    <3> QED
      BY <1>1, <1>2, <3>1, SubSeqProperties
  <2> HIDE DEF u
  <2>2. \A i \in 1..2 : 4 + i - 1 = i + 3 /\ i \in 1..5 - 4 + 1
    OBVIOUS
  <2> QED
    BY <1>2, <2>1, <2>2
<1> HIDE DEF u
<1>4. \A i \in 1..5 : s[i] = "simulate" => i = 1
  BY <1>2 DEF Released
<1>5. u[1] # "simulate" /\ u[2] # "simulate" /\ u[2] \in Releases
  <2>1. u[1] = s[4] /\ u[2] = s[5]
    BY <1>3
  <2>2. s[5] \in Releases
    BY <1>2, <1>1 DEF Released
  <2> QED
    BY <1>4, <2>1, <2>2
<1>6. Released(u) /\ u # <<>>
  <2>1. \A i \in 1..2 : u[i] # "simulate"
    BY <1>5
  <2>2. u # <<>>
    BY <1>3, EmptySeq
  <2> QED
    BY <1>3, <1>5, <2>1, <2>2 DEF Released
<1>7. first \in Seq(Plainly)
  BY DEF Plainly, Awaits, CctpAwaits
<1> HIDE DEF first
<1>8. Released(first \o u)
  BY <1>6, <1>7, ReleasedConcat
<1> QED
  BY <1>8 DEF first, u

-----------------------------------------------------------------------------
(* The steps of a submission change neither the balances nor their count.  *)
LEMMA SubmissionWorld ==
  ASSUME SubmissionStep, WorldKept PROVE WorldKept'
BY DEF WorldKept, SubmissionStep, OpenEvmWallet, ProviderLoaded,
   FreshBalances, FreshPrices, Verdict, FlowStep, SharedStep, PlainAnswer,
   SuggestEvmFees, EnsureEvmNetwork, AssertAccount, AssertChain, Finish, Rejected,
   CctpStep, FetchCctpQuote, Authorize, ReuseOrRefresh, RefreshedWindow, Simulate,
   PreparedBurn, ExpiredBurn, SubmitBurn, DepositBroadcast, FreshWithdrawalQuote,
   FreshEpochQuote, RequestNote, NoteConfirmed, EpochConnection, Solve,
   ApprovalAccepted, WalletError, EpochDepositAccepted, BatchAccepted,
   BundleRegistered, DepositSettled, Allocated, Still, world

Runs == FormKept /\ JobKept

LEMMA EndedRuns == ASSUME NEW error, Ended(error) PROVE Runs'
<1>1. /\ form'.status = "editing" /\ form'.review = None
      /\ job'.todo = <<>> /\ job'.receipt = "none"
  BY DEF Ended, NoJob
<1> QED
  BY <1>1, PlansReleased DEF Runs, FormKept, JobKept, Reviewed, Receipts

(* It goes on with awaits of which the last releases the form.             *)
LEMMA PlanRuns ==
  ASSUME AtWork, Runs, NEW j, IsJob(j), j.receipt \in Receipts,
         NEW todo, Released(todo), todo # <<>>, Continue(j, todo)
  PROVE  Runs'
<1>1. job'.todo = todo /\ job'.receipt = j.receipt
  BY ContinueTells
<1>2. UNCHANGED form
  BY DEF Continue
<1> QED
  BY <1>1, <1>2 DEF Runs, FormKept, JobKept, Reviewed

LEMMA AdvanceRuns ==
  ASSUME AtWork, Runs, Step \notin Releases,
         NEW j, IsJob(j), j.receipt \in Receipts, j.todo = job.todo, Advance(j)
  PROVE  Runs'
<1>1. job.todo # <<>> /\ Step = Head(job.todo) /\ Released(job.todo)
  BY DEF AtWork, Step, Runs, JobKept
<1>2. Released(Tail(job.todo)) /\ Tail(job.todo) # <<>>
  BY <1>1, ReleasedTail
<1>3. Continue(j, Tail(job.todo))
  BY DEF Advance
<1> QED
  BY <1>2, <1>3, PlanRuns

LEMMA ChangesRun ==
  ASSUME AtWork, Runs, NEW j, NEW x, Changes(j, x)
  PROVE  /\ Step \notin Releases /\ Advance(j) => Runs'
         /\ \A todo : Released(todo) /\ todo # <<>> /\ Continue(j, todo) => Runs'
<1>1. IsJob(job)
  BY DEF AtWork, IInv, Submitted
<1>2. IsJob(j) /\ j.todo = job.todo /\ j.receipt \in Receipts
  BY <1>1, ChangesTell DEF Runs, JobKept
<1> QED
  BY <1>2, AdvanceRuns, PlanRuns

LEMMA StartRuns == ASSUME AtWork, Runs, StartFlow PROVE Runs'
<1>1. CASE Fail
  BY <1>1, EndedRuns DEF Fail
<1>2. CASE ~Fail
  <2> DEFINE j == [job EXCEPT !.quote = Reviewed.quote, !.read = None, !.priced = {}]
  <2>1. PICK steps \in FlowSteps : Continue(j, steps)
    BY <1>2 DEF StartFlow
  <2>2. Changes(j, Reviewed.quote)
    BY DEF Changes
  <2> HIDE DEF j
  <2>3. Released(steps) /\ steps # <<>>
    BY FlowsReleased DEF AtWork, IInv, World
  <2> QED
    BY <2>1, <2>2, <2>3, ChangesRun
<1> QED
  BY <1>1, <1>2

LEMMA PreRuns ==
  ASSUME AtWork, Runs,
         OpenEvmWallet \/ ProviderLoaded \/ FreshBalances \/ FreshPrices \/ Verdict
  PROVE  Runs'
<1>1. CASE OpenEvmWallet \/ Fail
  BY <1>1, EndedRuns DEF OpenEvmWallet, Fail, Succeed
<1>2. CASE StartFlow
  BY <1>2, StartRuns
<1>3. CASE FreshBalances
  <2>1. Changes([job EXCEPT !.read = held], held)
    BY DEF Changes
  <2>2. Step \notin Releases /\ Advance([job EXCEPT !.read = held])
    BY <1>3 DEF FreshBalances, Releases
  <2> QED
    BY <2>1, <2>2, ChangesRun
<1>4. CASE FreshPrices
  <2>1. PICK priced : Advance([job EXCEPT !.priced = priced])
    BY <1>4 DEF FreshPrices
  <2>2. Changes([job EXCEPT !.priced = priced], priced)
    BY DEF Changes
  <2>3. Step \notin Releases
    BY <1>4 DEF FreshPrices, Releases
  <2> QED
    BY <2>1, <2>2, <2>3, ChangesRun
<1>5. CASE Continue(job, <<"balances", "prices", "verdict">>)
  <2> DEFINE todo == <<"balances", "prices", "verdict">>
  <2>1. Released(todo) /\ todo # <<>> /\ Changes(job, 0)
    BY PlansReleased DEF Changes
  <2>2. Continue(job, todo)
    BY <1>5
  <2> HIDE DEF todo
  <2> QED
    BY <2>1, <2>2, ChangesRun
<1> QED
  BY <1>1, <1>2, <1>3, <1>4, <1>5 DEF ProviderLoaded, Verdict

LEMMA SharedRuns == ASSUME AtWork, Runs, SharedStep PROVE Runs'
<1>1. CASE Finish \/ Rejected
  BY <1>1, EndedRuns DEF Finish, Rejected, Fail, Succeed
<1>2. CASE ~(Finish \/ Rejected)
  <2>1. Advance(job) /\ Step \notin Releases
    BY <1>2 DEF SharedStep, PlainAnswer, Plain, SuggestEvmFees, EnsureEvmNetwork,
                AssertAccount, AssertChain, Releases
  <2>2. Changes(job, 0)
    BY DEF Changes
  <2> QED
    BY <2>1, <2>2, ChangesRun
<1> QED
  BY <1>1, <1>2

LEMMA CctpRuns == ASSUME AtWork, Runs, CctpStep PROVE Runs'
<1>1. Step = Head(job.todo) /\ job.todo # <<>> /\ Released(job.todo)
  BY DEF AtWork, Step, Runs, JobKept
<1>2. Changes(job, 0)
  BY DEF Changes
<1>3. ASSUME Advance(job), Step \notin Releases PROVE Runs'
  BY <1>2, <1>3, ChangesRun
<1>4. ASSUME NEW todo, Released(todo), todo # <<>>, Continue(job, todo) PROVE Runs'
  BY <1>2, <1>4, ChangesRun
<1>5. CASE FetchCctpQuote
  <2>1. PICK quote : Advance([job EXCEPT !.quote = quote])
    BY <1>5 DEF FetchCctpQuote
  <2>2. Changes([job EXCEPT !.quote = quote], quote) /\ Step \notin Releases
    BY <1>5 DEF Changes, FetchCctpQuote, Releases
  <2> QED
    BY <2>1, <2>2, ChangesRun
<1>6. CASE Authorize \/ RefreshedWindow
  BY <1>3, <1>6 DEF Authorize, RefreshedWindow, Releases
<1>7. CASE ReuseOrRefresh
  <2>1. Step \notin Releases
    BY <1>7 DEF ReuseOrRefresh, Releases
  <2>2. CASE Continue(job, RefreshSteps \o Tail(job.todo))
    <3> DEFINE todo == RefreshSteps \o Tail(job.todo)
    <3>1. Released(todo) /\ todo # <<>>
      BY <1>1, <2>1, ReleasedTail, RefreshReleased
    <3>2. Continue(job, todo)
      BY <2>2
    <3> HIDE DEF todo
    <3> QED
      BY <1>4, <3>1, <3>2
  <2> QED
    BY <1>3, <1>7, <2>1, <2>2 DEF ReuseOrRefresh
<1>8. CASE Simulate
  <2> DEFINE todo == <<"expired">> \o SubSeq(job.todo, 4, Len(job.todo))
  <2>1. Released(todo) /\ todo # <<>>
    BY <1>1, <1>8, ExpiredReleased DEF Simulate
  <2>2. Advance(job) \/ Continue(job, todo)
    BY <1>8 DEF Simulate
  <2>3. Step \notin Releases
    BY <1>8 DEF Simulate, Releases
  <2> HIDE DEF todo
  <2> QED
    BY <1>3, <1>4, <2>1, <2>2, <2>3
<1>9. CASE PreparedBurn \/ ExpiredBurn
  <2>1. PICK window : Advance([job EXCEPT !.window = window])
    BY <1>9 DEF PreparedBurn, ExpiredBurn
  <2>2. Changes([job EXCEPT !.window = window], window) /\ Step \notin Releases
    BY <1>9 DEF Changes, PreparedBurn, ExpiredBurn, Releases
  <2> QED
    BY <2>1, <2>2, ChangesRun
<1>10. CASE SubmitBurn
  <2>1. CASE Fail
    BY <2>1, EndedRuns DEF Fail
  <2>2. CASE Continue([job EXCEPT !.window = 0], <<"deposit", "done">>)
    <3> DEFINE j == [job EXCEPT !.window = 0]
               todo == <<"deposit", "done">>
    <3>1. Changes(j, 0) /\ Continue(j, todo) /\ Released(todo) /\ todo # <<>>
      BY <2>2, PlansReleased DEF Changes
    <3> HIDE DEF j, todo
    <3> QED
      BY <3>1, ChangesRun
  <2>3. CASE Continue([job EXCEPT !.window = 0, !.retried = TRUE],
                      RefreshSteps \o BurnSteps)
    <3> DEFINE j == [job EXCEPT !.window = 0, !.retried = TRUE]
               todo == RefreshSteps \o BurnSteps
    <3>1. Changes(j, 0) /\ Continue(j, todo) /\ Released(todo) /\ todo # <<>>
      BY <2>3, PlansReleased DEF Changes
    <3> HIDE DEF j, todo
    <3> QED
      BY <3>1, ChangesRun
  <2> QED
    BY <1>10, <2>1, <2>2, <2>3 DEF SubmitBurn, BurnOrRetry
<1> QED
  BY <1>5, <1>6, <1>7, <1>8, <1>9, <1>10 DEF CctpStep

LEMMA ProvidersRun ==
  ASSUME AtWork, Runs,
         \/ DepositBroadcast \/ FreshWithdrawalQuote \/ FreshEpochQuote
         \/ RequestNote \/ NoteConfirmed \/ EpochConnection \/ Solve
         \/ ApprovalAccepted \/ WalletError \/ EpochDepositAccepted
         \/ BatchAccepted \/ BundleRegistered \/ DepositSettled \/ Allocated
  PROVE  Runs'
<1>1. IsJob(job) /\ job.receipt \in Receipts
  BY DEF AtWork, IInv, Submitted, Runs, JobKept
<1>2. CASE DepositBroadcast \/ RequestNote \/ EpochDepositAccepted
  <2>1. PICK receipt \in {"submitted", "sourced"} :
          Advance([job EXCEPT !.broadcast = @ + 1, !.receipt = receipt])
    BY <1>2 DEF DepositBroadcast, RequestNote, EpochDepositAccepted, AfterPublish,
                Broadcast
  <2>2. PICK b : b = job.broadcast + 1
    OBVIOUS
  <2>3. PICK j : j = [job EXCEPT !.broadcast = b, !.receipt = receipt]
    OBVIOUS
  <2>4. IsJob(j) /\ j.receipt \in Receipts /\ j.todo = job.todo
    <3>1. receipt \in Receipts
      BY DEF Receipts
    <3>2. IsJob(j) /\ j.receipt = receipt /\ j.todo = job.todo
      BY <1>1, <2>3 DEF IsJob
    <3> QED
      BY <3>1, <3>2
  <2>5. Advance(j)
    BY <2>1, <2>2, <2>3
  <2>6. Step \notin Releases
    BY <1>2 DEF DepositBroadcast, RequestNote, EpochDepositAccepted, Releases
  <2> QED
    BY <2>4, <2>5, <2>6, AdvanceRuns
<1>3. CASE BatchAccepted
  <2>1. PICK b : b = job.broadcast + 1
    OBVIOUS
  <2> DEFINE j == [job EXCEPT !.broadcast = b]
  <2>2. IsJob(j) /\ j.receipt \in Receipts /\ j.todo = job.todo
    BY <1>1 DEF IsJob
  <2>3. Advance(j) /\ Step \notin Releases
    BY <1>3, <2>1 DEF BatchAccepted, Releases
  <2> HIDE DEF j
  <2> QED
    BY <2>2, <2>3, AdvanceRuns
<1>4. CASE NoteConfirmed \/ BundleRegistered \/ DepositSettled \/ Allocated
  <2>1. PICK receipt \in {"sourced", "observed"} :
          Advance([job EXCEPT !.receipt = receipt])
    BY <1>4 DEF NoteConfirmed, BundleRegistered, DepositSettled, Allocated
  <2> DEFINE j == [job EXCEPT !.receipt = receipt]
  <2>2. IsJob(j) /\ j.receipt \in Receipts /\ j.todo = job.todo
    <3>1. receipt \in Receipts
      BY DEF Receipts
    <3>2. IsJob(j) /\ j.receipt = receipt /\ j.todo = job.todo
      BY <1>1 DEF IsJob
    <3> QED
      BY <3>1, <3>2
  <2>3. Step \notin Releases
    BY <1>4 DEF NoteConfirmed, BundleRegistered, DepositSettled, Allocated, Releases
  <2>4. Advance(j)
    BY <2>1
  <2> HIDE DEF j
  <2> QED
    BY <2>2, <2>3, <2>4, AdvanceRuns
<1>5. CASE FreshWithdrawalQuote \/ FreshEpochQuote
  <2>1. PICK quote : Advance([job EXCEPT !.quote = quote])
    BY <1>5 DEF FreshWithdrawalQuote, FreshEpochQuote
  <2>2. Step \notin Releases
    BY <1>5 DEF FreshWithdrawalQuote, FreshEpochQuote, Releases
  <2>3. Changes([job EXCEPT !.quote = quote], quote)
    BY DEF Changes
  <2> QED
    BY <2>1, <2>2, <2>3, ChangesRun
<1>6. CASE EpochConnection \/ ApprovalAccepted
  <2>1. Advance(job) /\ Step \notin Releases
    BY <1>6 DEF EpochConnection, ApprovalAccepted, Releases
  <2>2. Changes(job, 0)
    BY DEF Changes
  <2> QED
    BY <2>1, <2>2, ChangesRun
<1>7. CASE Solve
  <2>1. Changes(job, 0)
    BY DEF Changes
  <2>2. PICK plan \in {InBatch, InTurn(<<>>), InTurn(<<"epoch-approval">>)} :
          Continue(job, plan)
    BY <1>7 DEF Solve
  <2> QED
    BY <2>1, <2>2, PlansReleased, ChangesRun
<1>8. CASE WalletError
  <2> DEFINE j == [job EXCEPT !.retried = TRUE]
  <2>1. Changes(j, TRUE) /\ Continue(j, InTurn(<<>>))
    BY <1>8 DEF WalletError, Resubmit, Changes
  <2>2. Released(InTurn(<<>>)) /\ InTurn(<<>>) # <<>>
    BY PlansReleased
  <2> HIDE DEF j
  <2> QED
    BY <2>1, <2>2, ChangesRun
<1> QED
  BY <1>2, <1>3, <1>4, <1>5, <1>6, <1>7, <1>8

-----------------------------------------------------------------------------
LEMMA InitTyped == Init => Typed
<1> SUFFICES ASSUME Init PROVE Typed
  OBVIOUS
<1>1. job.todo = <<>> /\ job.receipt = "none" /\ Reviewed = None
      /\ form.status = "editing"
  BY DEF Init, NoJob, Editing, Reviewed
<1>2. WorldKept
  <2>1. 0 \in 0..MaxChanges
    BY TimeAssumption
  <2>2. chain = TRUE /\ held \in Holdings /\ changes = 0
    BY DEF Init
  <2> QED
    BY <2>1, <2>2 DEF WorldKept
<1> QED
  BY <1>1, <1>2, PlansReleased DEF Typed, FormKept, JobKept, Receipts

LEMMA BesideTyped ==
  ASSUME IInv, Typed, Tick \/ Change \/ QuoteAnswer \/ FormStep PROVE Typed'
<1>1. IsJob(job) /\ form \in Form
  BY DEF IInv, Submitted, Shown
<1>2. form.status = "submitting" <=> job.todo # <<>>
  BY DEF IInv, Submitted, Typed, FormKept
<1>3. CASE Tick
  <2>1. job' = [job EXCEPT !.quote = Older(@), !.window = CountDown(@)]
    BY <1>3 DEF Tick
  <2>2. job'.todo = job.todo /\ job'.receipt = job.receipt
    BY <1>1, <2>1 DEF IsJob
  <2>3. /\ form'.status = form.status
        /\ form.review = None => form'.review = None
    BY <1>1, <1>3 DEF Tick, Form, OlderReview
  <2>4. UNCHANGED <<chain, held, changes>>
    BY <1>3 DEF Tick, world
  <2> QED
    BY <2>2, <2>3, <2>4 DEF Typed, WorldKept, FormKept, JobKept, Reviewed
<1>4. CASE Change \/ QuoteAnswer
  <2>1. UNCHANGED <<form, job>>
    BY <1>4 DEF Change, QuoteAnswer
  <2>2. WorldKept'
    <3>1. chain \in BOOLEAN /\ held \in Holdings /\ changes \in 0..MaxChanges
      BY DEF Typed, WorldKept
    <3>2. CASE QuoteAnswer
      BY <3>1, <3>2 DEF QuoteAnswer, world, WorldKept
    <3>3. CASE Change
      <4>1. chain' \in BOOLEAN /\ held' \in Holdings
        BY <3>1, <3>3 DEF Change
      <4>2. MaxChanges \in Nat
        BY TimeAssumption
      <4>3. changes' = changes + 1 /\ changes < MaxChanges
        BY <3>3 DEF Change
      <4>4. changes' \in 0..MaxChanges
        BY <3>1, <4>2, <4>3
      <4> QED
        BY <4>1, <4>4 DEF WorldKept
    <3> QED
      BY <1>4, <3>2, <3>3
  <2> QED
    BY <2>1, <2>2 DEF Typed, FormKept, JobKept, Reviewed
<1>5. CASE FormStep
  <2>1. UNCHANGED <<chain, held, changes>>
    BY <1>5 DEF FormStep, OpenReview, CancelReview, ConfirmReview, world
  <2>2. WorldKept'
    BY <2>1 DEF Typed, WorldKept
  <2>3. CASE UNCHANGED job
    <3>1. \/ form'.status = "editing" /\ form'.review = None
          \/ form'.status = "reviewing"
      <4>1. CASE OpenReview \/ CancelReview
        <5>1. \/ \E error : form' = Editing(error)
              \/ \E review : form' = [status |-> "reviewing", error |-> "",
                                      review |-> review]
          BY <4>1 DEF OpenReview, CancelReview
        <5>2. CASE \E error : form' = Editing(error)
          BY <5>2 DEF Editing
        <5>3. CASE \E review : form' = [status |-> "reviewing", error |-> "",
                                        review |-> review]
          <6>1. PICK r : form' = [status |-> "reviewing", error |-> "", review |-> r]
            BY <5>3
          <6> QED
            BY <6>1
        <5> QED
          BY <5>1, <5>2, <5>3
      <4>2. CASE ConfirmReview /\ form' = Editing("failed")
        BY <4>2 DEF Editing
      <4>3. CASE ConfirmReview /\ form' # Editing("failed")
        <5>1. job.todo = <<>>
          BY <1>2, <4>3 DEF ConfirmReview
        <5>2. PICK opening \in Opening :
                job' = [NoJob EXCEPT !.todo = opening, !.evm = evm, !.miden = miden]
          BY <4>3 DEF ConfirmReview
        <5>3. job'.todo = opening
          BY <5>2 DEF NoJob
        <5> QED
          BY <2>3, <5>1, <5>3, PlansReleased
      <4> QED
        BY <1>5, <4>1, <4>2, <4>3 DEF FormStep
    <3> QED
      BY <2>2, <2>3, <3>1 DEF Typed, FormKept, JobKept, Reviewed
  <2>4. CASE ConfirmReview /\ ~UNCHANGED job
    <3>1. PICK opening \in Opening :
            job' = [NoJob EXCEPT !.todo = opening, !.evm = evm, !.miden = miden]
      BY <2>4 DEF ConfirmReview
    <3>2. job'.todo = opening /\ job'.receipt = "none"
      BY <3>1 DEF NoJob
    <3>3. form'.status = "submitting"
      BY <1>1, <2>4 DEF ConfirmReview, Form
    <3>4. Released(opening) /\ opening # <<>>
      BY PlansReleased
    <3> QED
      BY <2>2, <3>2, <3>3, <3>4 DEF Typed, FormKept, JobKept, Receipts
  <2> QED
    BY <1>5, <2>3, <2>4 DEF FormStep, OpenReview, CancelReview
<1> QED
  BY <1>3, <1>4, <1>5

LEMMA NextTyped == IInv /\ Typed /\ [Next]_vars => Typed'
<1> SUFFICES ASSUME IInv, Typed, [Next]_vars PROVE Typed'
  OBVIOUS
<1>1. CASE UNCHANGED vars
  BY <1>1 DEF vars, world, Typed, WorldKept, FormKept, JobKept, Reviewed
<1>2. CASE Tick \/ Change \/ QuoteAnswer \/ FormStep
  BY <1>2, BesideTyped
<1>3. CASE SubmissionStep
  <2>1. AtWork /\ Runs
    BY <1>3, SubmissionAtWork DEF Typed, Runs
  <2>2. Runs'
    BY <1>3, <2>1, PreRuns, SharedRuns, CctpRuns, ProvidersRun
       DEF SubmissionStep, FlowStep
  <2>3. WorldKept'
    BY <1>3, SubmissionWorld DEF Typed
  <2> QED
    BY <2>2, <2>3 DEF Typed, Runs
<1> QED
  BY <1>1, <1>2, <1>3 DEF Next

(* For any accounts, amounts and balances values keep their types, and the *)
(* form shows a submission exactly while awaits are before it: no flow,    *)
(* refresh, rebuild or resubmission runs out of awaits without releasing   *)
(* the form, and none goes on after it (bridge-submission.ts:119).         *)
THEOREM SubmissionTyping == Spec => []TypeOK
<1>1. IInv /\ Typed => TypeOK
  <2> SUFFICES ASSUME IInv, Typed PROVE TypeOK
    OBVIOUS
  <2>1. route \in Route /\ draft \in Amount /\ offer \in Quote \cup {None}
        /\ evm \in Evm \cup {None} /\ miden \in Miden \cup {None}
    BY DEF IInv, World, Offered
  <2>2. /\ form.status \in {"editing", "reviewing", "submitting"}
        /\ form.error \in {"", "failed", "submitted"}
        /\ form.status # "editing" => form.review \in Review
        /\ job.todo # <<>> => form.status = "submitting"
    BY DEF IInv, Shown, Submitted, Form, Reviewed
  <2>3. WorldKept /\ job.receipt \in Receipts
        /\ (form.status = "submitting" => job.todo # <<>>)
        /\ (form.status = "editing" => form.review = None)
    BY DEF Typed, FormKept, JobKept, Reviewed
  <2>4. (form.review = None) = (form.status = "editing")
    BY <2>2, <2>3, QuoteIsNone
  <2>5. (job.todo # <<>>) = (form.status = "submitting")
    BY <2>2, <2>3
  <2> QED
    BY <2>1, <2>2, <2>3, <2>4, <2>5 DEF TypeOK, WorldKept, Receipts
<1> QED
  BY <1>1, InitHolds, NextHolds, InitTyped, NextTyped, PTL DEF Spec

-----------------------------------------------------------------------------
(* Recursion: on a set D each element outside Z refers to one before it.   *)
Attempt(g, E, D, Z, prev, base, op, V) ==
  /\ E \subseteq D /\ g \in [E -> V]
  /\ \A x \in E : x \notin Z => prev[x] \in E
  /\ \A x \in E : g[x] = IF x \in Z THEN base ELSE op[<<x, g[prev[x]]>>]

LEMMA AttemptsAgree ==
  ASSUME NEW D, NEW R, IsWellFoundedOn(R, D), NEW Z, NEW prev, NEW V, NEW base,
         NEW op, \A x \in D : x \notin Z => <<prev[x], x>> \in R,
         NEW g, NEW E, NEW h, NEW F,
         Attempt(g, E, D, Z, prev, base, op, V),
         Attempt(h, F, D, Z, prev, base, op, V)
  PROVE  \A x \in E \cap F : g[x] = h[x]
<1> DEFINE T == {x \in E \cap F : g[x] # h[x]}
<1>1. SUFFICES ASSUME T # {} PROVE FALSE
  OBVIOUS
<1>2. PICK x \in T : \A y \in T : ~(<<y, x>> \in R)
  <2>1. T \subseteq D
    BY DEF Attempt
  <2> QED
    BY <1>1, <2>1, WFMin
<1>3. x \in E /\ x \in F /\ x \in D /\ g[x] # h[x] /\ x \notin Z
  BY <1>2 DEF Attempt
<1>4. prev[x] \in E \cap F /\ <<prev[x], x>> \in R
  BY <1>3 DEF Attempt
<1>5. g[prev[x]] = h[prev[x]]
  BY <1>2, <1>4
<1> QED
  BY <1>3, <1>5 DEF Attempt

LEMMA AttemptsReach ==
  ASSUME NEW D, NEW R, IsWellFoundedOn(R, D), NEW Z, NEW prev, NEW V,
         NEW base \in V, NEW op \in [D \X V -> V],
         \A x \in D : x \notin Z => prev[x] \in D /\ <<prev[x], x>> \in R,
         NEW a \in D
  PROVE  \E g, E : a \in E /\ Attempt(g, E, D, Z, prev, base, op, V)
<1> DEFINE Tried(x) == \E g, E : x \in E /\ Attempt(g, E, D, Z, prev, base, op, V)
           T == {x \in D : ~Tried(x)}
<1>1. SUFFICES ASSUME T # {} PROVE FALSE
  OBVIOUS
<1>2. PICK x \in T : \A y \in T : ~(<<y, x>> \in R)
  <2> T \subseteq D
    OBVIOUS
  <2> HIDE DEF T
  <2> QED
    BY <1>1, WFMin
<1>3. x \notin Z
  <2>1. SUFFICES ASSUME x \in Z PROVE Tried(x)
    BY <1>2
  <2>2. Attempt([y \in {x} |-> base], {x}, D, Z, prev, base, op, V)
    BY <1>2, <2>1 DEF Attempt
  <2> QED
    BY <2>2
<1>4. prev[x] \in D /\ Tried(prev[x])
  BY <1>2, <1>3
<1>5. PICK g, E : prev[x] \in E /\ Attempt(g, E, D, Z, prev, base, op, V)
  BY <1>4
<1>6. x \notin E
  BY <1>2, <1>5
<1> DEFINE F == E \cup {x}
           h == [y \in F |-> IF y = x THEN op[<<x, g[prev[x]]>>] ELSE g[y]]
<1>7. g \in [E -> V] /\ E \subseteq D /\ prev[x] # x
  BY <1>5, <1>6 DEF Attempt
<1>8. h \in [F -> V]
  <2>1. op[<<x, g[prev[x]]>>] \in V
    BY <1>2, <1>5, <1>7
  <2> QED
    BY <1>7, <2>1
<1>9. ASSUME NEW y \in F
      PROVE  /\ y \notin Z => prev[y] \in F
             /\ h[y] = IF y \in Z THEN base ELSE op[<<y, h[prev[y]]>>]
  <2>1. CASE y = x
    BY <1>3, <1>5, <1>7, <2>1
  <2>2. CASE y # x
    <3>1. y \in E
      BY <2>2
    <3>2. y \notin Z => prev[y] \in E /\ prev[y] # x
      BY <1>5, <1>6, <3>1 DEF Attempt
    <3>3. h[y] = g[y] /\ (y \notin Z => h[prev[y]] = g[prev[y]])
      BY <2>2, <3>1, <3>2
    <3> QED
      BY <1>5, <3>1, <3>2, <3>3 DEF Attempt
  <2> QED
    BY <2>1, <2>2
<1>10. Attempt(h, F, D, Z, prev, base, op, V)
  <2>1. F \subseteq D
    BY <1>2, <1>7
  <2> HIDE DEF F, h
  <2> QED
    BY <1>8, <1>9, <2>1 DEF Attempt
<1> QED
  BY <1>2, <1>10

(* Then there is a function that does what the recursion says.             *)
Recursive(D, R, Z, prev, V, base, op) ==
  /\ IsWellFoundedOn(R, D) /\ base \in V /\ op \in [D \X V -> V]
  /\ \A x \in D : x \notin Z => prev[x] \in D /\ <<prev[x], x>> \in R

LEMMA RecursionExists ==
  ASSUME NEW D, NEW R, NEW Z, NEW prev, NEW V, NEW base, NEW op,
         Recursive(D, R, Z, prev, V, base, op)
  PROVE  \E f \in [D -> V] :
           \A x \in D : f[x] = IF x \in Z THEN base ELSE op[<<x, f[prev[x]]>>]
<1> DEFINE Good(p, x) == x \in p[2] /\ Attempt(p[1], p[2], D, Z, prev, base, op, V)
           G(x) == CHOOSE p : Good(p, x)
           f == [x \in D |-> G(x)[1][x]]
<1> USE DEF Recursive
<1>1. ASSUME NEW x \in D PROVE Good(G(x), x)
  <2>1. PICK g, E : x \in E /\ Attempt(g, E, D, Z, prev, base, op, V)
    BY AttemptsReach
  <2>2. Good(<<g, E>>, x)
    BY <2>1
  <2> HIDE DEF Good
  <2> QED
    BY <2>2
<1> HIDE DEF G
<1>2. ASSUME NEW x \in D
      PROVE  f[x] \in V /\ f[x] = IF x \in Z THEN base ELSE op[<<x, f[prev[x]]>>]
  <2> DEFINE g == G(x)[1]
             E == G(x)[2]
  <2>1. x \in E /\ Attempt(g, E, D, Z, prev, base, op, V)
    BY <1>1
  <2>2. f[x] = g[x]
    OBVIOUS
  <2>3. ASSUME x \notin Z PROVE f[prev[x]] = g[prev[x]]
    <3>1. prev[x] \in D /\ prev[x] \in E
      BY <2>1, <2>3 DEF Attempt
    <3> DEFINE h == G(prev[x])[1]
               F == G(prev[x])[2]
    <3>2. prev[x] \in F /\ Attempt(h, F, D, Z, prev, base, op, V)
      BY <1>1, <3>1
    <3>3. f[prev[x]] = h[prev[x]]
      BY <3>1
    <3> HIDE DEF g, E, h, F, f
    <3>4. h[prev[x]] = g[prev[x]]
      <4>1. \A y \in D : y \notin Z => <<prev[y], y>> \in R
        OBVIOUS
      <4>2. \A y \in F \cap E : h[y] = g[y]
        BY <2>1, <3>2, <4>1, AttemptsAgree
      <4> QED
        BY <3>1, <3>2, <4>2
    <3> QED
      BY <3>3, <3>4
  <2> HIDE DEF g, E, f
  <2> QED
    BY <2>1, <2>2, <2>3 DEF Attempt
<1> HIDE DEF f
<1>3. DOMAIN f = D /\ f = [x \in D |-> f[x]]
  BY DEF f
<1>4. f \in [D -> V]
  BY <1>2, <1>3
<1> QED
  BY <1>2, <1>4

-----------------------------------------------------------------------------
(* A nonempty set of numbers has a least element, and a nonempty set of    *)
(* subsets of a finite set one that contains no other.                     *)
LEMMA NumberOrder ==
  /\ IsWellFoundedOn(OpToRel(<, Nat), Nat)
  /\ \A x, y \in Nat : y < x => <<y, x>> \in OpToRel(<, Nat)
BY NatLessThanWellFounded DEF OpToRel

LEMMA SubsetOrder ==
  ASSUME NEW S, IsFiniteSet(S)
  PROVE  /\ IsWellFoundedOn(StrictSubsetOrdering(S), SUBSET S)
         /\ \A x, y \in SUBSET S :
              y \subseteq x /\ y # x => <<y, x>> \in StrictSubsetOrdering(S)
<1>1. FiniteSubsetsOf(S) = SUBSET S
  BY FS_FiniteSubsetsOfFinite
<1>2. IsWellFoundedOn(StrictSubsetOrdering(S), SUBSET S)
  BY <1>1, FS_StrictSubsetOrderingWellFounded
<1> QED
  BY <1>2 DEF StrictSubsetOrdering

LEMMA LeastNumber ==
  ASSUME NEW T, T \subseteq Nat, T # {}
  PROVE  \E x \in T : \A y \in T : ~(y < x)
<1> DEFINE R == OpToRel(<, Nat)
<1>1. IsWellFoundedOn(R, Nat) /\ \A x, y \in Nat : y < x => <<y, x>> \in R
  BY NumberOrder
<1> HIDE DEF R
<1>2. PICK x \in T : \A y \in T : ~(<<y, x>> \in R)
  BY <1>1, WFMin
<1> QED
  BY <1>1, <1>2

Family(T, S) == IsFiniteSet(S) /\ T \subseteq SUBSET S /\ T # {}

LEMMA LeastSubset ==
  ASSUME NEW S, NEW T, Family(T, S)
  PROVE  \E x \in T : \A y \in T : y \subseteq x => y = x
<1> USE DEF Family
<1> DEFINE R == StrictSubsetOrdering(S)
<1>1. /\ IsWellFoundedOn(R, SUBSET S)
      /\ \A x, y \in SUBSET S : y \subseteq x /\ y # x => <<y, x>> \in R
  BY SubsetOrder
<1> HIDE DEF R
<1>2. PICK x \in T : \A y \in T : ~(<<y, x>> \in R)
  BY <1>1, WFMin
<1> QED
  BY <1>1, <1>2

(* Pow10 satisfies the equation that defines it, and adds exponents.       *)
LEMMA PowerDef ==
  /\ \A n \in Nat : Pow10[n] \in Nat \ {0}
  /\ \A n \in Nat : Pow10[n] = IF n = 0 THEN 1 ELSE 10 * Pow10[n - 1]
<1> DEFINE prev == [n \in Nat |-> n - 1]
           op   == [p \in Nat \X Nat |-> 10 * p[2]]
           R    == OpToRel(<, Nat)
<1>1. IsWellFoundedOn(R, Nat) /\ \A x, y \in Nat : y < x => <<y, x>> \in R
  BY NumberOrder
<1> HIDE DEF R
<1>2. op \in [Nat \X Nat -> Nat]
  OBVIOUS
<1>3. ASSUME NEW x \in Nat, x \notin {0} PROVE prev[x] \in Nat /\ <<prev[x], x>> \in R
  <2>1. x - 1 \in Nat /\ x - 1 < x
    BY <1>3
  <2> QED
    BY <1>1, <2>1
<1>4. PICK f \in [Nat -> Nat] :
        \A x \in Nat : f[x] = IF x \in {0} THEN 1 ELSE op[<<x, f[prev[x]]>>]
  <2> DEFINE Z    == {0}
             base == 1
             D    == Nat
             V    == Nat
  <2>1. /\ base \in V /\ op \in [D \X V -> V] /\ IsWellFoundedOn(R, D)
        /\ \A x \in D : x \notin Z => prev[x] \in D /\ <<prev[x], x>> \in R
    BY <1>1, <1>2, <1>3
  <2> HIDE DEF prev, op, Z, base, D, V
  <2>3. Recursive(D, R, Z, prev, V, base, op)
    BY <2>1 DEF Recursive
  <2>2. \E f \in [D -> V] :
          \A x \in D : f[x] = IF x \in Z THEN base ELSE op[<<x, f[prev[x]]>>]
    BY <2>3, RecursionExists
  <2> QED
    BY <2>2 DEF Z, base, D, V
<1>5. ASSUME NEW x \in Nat PROVE f[x] = IF x = 0 THEN 1 ELSE 10 * f[x - 1]
  <2>1. x # 0 => x - 1 \in Nat
    OBVIOUS
  <2>2. x # 0 => op[<<x, f[x - 1]>>] = 10 * f[x - 1]
    BY <2>1
  <2> QED
    BY <1>4, <2>2
<1>6. f = [n \in Nat |-> IF n = 0 THEN 1 ELSE 10 * f[n - 1]]
  BY <1>5
<1>7. Pow10 = [n \in Nat |-> IF n = 0 THEN 1 ELSE 10 * Pow10[n - 1]]
  BY <1>6, Zenon DEF Pow10
<1>8. \A n \in Nat : Pow10[n] = IF n = 0 THEN 1 ELSE 10 * Pow10[n - 1]
  BY <1>7, Zenon
<1>9. \A n \in Nat : Pow10[n] \in Nat \ {0}
  <2> DEFINE T == {n \in Nat : Pow10[n] \notin Nat \ {0}}
  <2>1. SUFFICES ASSUME T # {} PROVE FALSE
    OBVIOUS
  <2>2. PICK n \in T : \A m \in T : ~(m < n)
    BY <2>1, LeastNumber
  <2>3. n # 0 => n - 1 \in Nat /\ n - 1 < n /\ Pow10[n - 1] \in Nat \ {0}
    BY <2>2
  <2> QED
    BY <1>8, <2>2, <2>3
<1> QED
  BY <1>8, <1>9

LEMMA PowerSum ==
  ASSUME NEW a \in Nat, NEW b \in Nat
  PROVE  Pow10[a] * Pow10[b] = Pow10[a + b]
<1> DEFINE T == {n \in Nat : Pow10[n] * Pow10[b] # Pow10[n + b]}
<1>1. SUFFICES ASSUME T # {} PROVE FALSE
  OBVIOUS
<1>2. PICK n \in T : \A m \in T : ~(m < n)
  BY <1>1, LeastNumber
<1>3. n # 0
  BY <1>2, PowerDef
<1>4. n \in Nat /\ n - 1 \in Nat /\ n - 1 < n /\ n + b \in Nat \ {0}
  BY <1>2, <1>3
<1>5. Pow10[n - 1] * Pow10[b] = Pow10[n - 1 + b]
  BY <1>2, <1>4
<1>6. Pow10[n] = 10 * Pow10[n - 1] /\ Pow10[n + b] = 10 * Pow10[n + b - 1]
  BY <1>3, <1>4, PowerDef
<1>7. n + b - 1 = n - 1 + b
  BY <1>4
<1>8. \A x, y, z \in Nat : x * y = z => (10 * x) * y = 10 * z
  OBVIOUS
<1>9. Pow10[n] * Pow10[b] = Pow10[n + b]
  <2>1. Pow10[n - 1] \in Nat /\ Pow10[b] \in Nat /\ Pow10[n - 1 + b] \in Nat
    BY <1>4, PowerDef
  <2> QED
    BY <1>5, <1>6, <1>7, <1>8, <2>1
<1> QED
  BY <1>2, <1>9

-----------------------------------------------------------------------------
(* The finest unit, and exact values in it.                                *)
Decimals == [units: Int, scale: 0..Finest]

LEMMA GreatestNumber ==
  ASSUME NEW S, IsFiniteSet(S), S # {}, S \subseteq Nat
  PROVE  Max(S) \in S /\ \A n \in S : n <= Max(S)
<1> DEFINE Bounded(s) == \E m \in s : \A n \in s : m >= n
           T == {s \in SUBSET S : s # {} /\ ~Bounded(s)}
<1>1. Bounded(S)
  <2>1. SUFFICES ASSUME T # {} PROVE FALSE
    OBVIOUS
  <2>2. PICK s \in T : \A r \in T : r \subseteq s => r = s
    <3>1. Family(T, S)
      BY <2>1 DEF Family
    <3> HIDE DEF T
    <3> QED
      BY <3>1, LeastSubset
  <2>3. s \subseteq Nat /\ s # {} /\ ~Bounded(s)
    BY <2>2
  <2>4. PICK a \in s : TRUE
    BY <2>3
  <2>5. CASE s \ {a} = {}
    <3>1. \A n \in s : a >= n
      BY <2>3, <2>5
    <3> QED
      BY <2>3, <2>4, <3>1
  <2>6. CASE s \ {a} # {}
    <3>1. Bounded(s \ {a})
      <4>1. s \ {a} \in SUBSET S /\ s \ {a} \subseteq s /\ s \ {a} # s
        BY <2>2, <2>4
      <4>2. s \ {a} \notin T
        BY <2>2, <4>1
      <4> QED
        BY <2>6, <4>1, <4>2
    <3>2. PICK m \in s \ {a} : \A n \in s \ {a} : m >= n
      BY <3>1
    <3>3. m \in Nat /\ a \in Nat
      BY <2>3, <2>4, <3>2
    <3>4. CASE m >= a
      <4>1. \A n \in s : m >= n
        BY <3>2, <3>4
      <4> QED
        BY <2>3, <3>2, <4>1
    <3>5. CASE ~(m >= a)
      <4>1. \A n \in s : a >= n
        BY <2>3, <3>2, <3>3, <3>5
      <4> QED
        BY <2>3, <2>4, <4>1
    <3> QED
      BY <3>4, <3>5
  <2> QED
    BY <2>5, <2>6
<1>2. Max(S) \in S /\ \A n \in S : Max(S) >= n
  BY <1>1, Zenon DEF Max
<1> QED
  BY <1>2

LEMMA FinestFacts ==
  /\ Finest \in Nat
  /\ \A s \in Symbol : TokenScale + Price[s].scale <= Finest
  /\ CapUsd \in Decimals
<1> DEFINE Of == {TokenScale + Price[s].scale : s \in Symbol}
           S  == Of \cup {CapUsd.scale}
<1>1. Of \subseteq Nat /\ CapUsd.units \in Nat /\ CapUsd.scale \in Nat
  BY PriceAssumption
<1>2. IsFiniteSet(S)
  <2> DEFINE f == [s \in Symbol |-> TokenScale + Price[s].scale]
  <2>1. f \in Surjection(Symbol, Of)
    BY DEF Surjection
  <2>2. IsFiniteSet(Symbol)
    BY PriceAssumption
  <2>3. IsFiniteSet(Of)
    <3> HIDE DEF f, Of
    <3> QED
      BY <2>1, <2>2, FS_Surjection
  <2> HIDE DEF Of
  <2> QED
    BY <2>3, FS_AddElement
<1>3. Finest \in S /\ \A n \in S : n <= Finest
  <2>1. S # {} /\ S \subseteq Nat
    BY <1>1
  <2>2. Max(S) \in S /\ \A n \in S : n <= Max(S)
    <3> HIDE DEF S
    <3> QED
      BY <1>2, <2>1, GreatestNumber
  <2> QED
    BY <2>2 DEF Finest
<1>4. Finest \in Nat
  BY <1>1, <1>3
<1>5. CapUsd.scale <= Finest
  BY <1>3
<1>6. CapUsd \in Decimals
  BY <1>1, <1>4, <1>5, PriceAssumption DEF Decimals
<1> QED
  BY <1>3, <1>4, <1>6

(* A decimal of scale k is worth as much at a finer scale.                 *)
LEMMA Rescale ==
  ASSUME NEW u \in Int, NEW a \in Nat, NEW b \in Nat
  PROVE  /\ u * Pow10[a] \in Int
         /\ (u * Pow10[a]) * Pow10[b] = u * Pow10[a + b]
<1> DEFINE y == Pow10[a]
           z == Pow10[b]
<1>1. y \in Int /\ z \in Int /\ y * z = Pow10[a + b]
  <2>1. Pow10[a] * Pow10[b] = Pow10[a + b]
    BY PowerSum
  <2>2. Pow10[a] \in Nat /\ Pow10[b] \in Nat
    BY PowerDef
  <2> QED
    BY <2>1, <2>2
<1> HIDE DEF y, z
<1>2. u * y \in Int /\ (u * y) * z = u * (y * z)
  BY <1>1
<1> QED
  BY <1>1, <1>2 DEF y, z

LEMMA ExactSum ==
  ASSUME NEW l \in Decimals, NEW r \in Decimals
  PROVE  /\ Add(l, r) \in Decimals /\ ExactUsd(l) \in Int
         /\ ExactUsd(Add(l, r)) = ExactUsd(l) + ExactUsd(r)
<1> DEFINE k == IF l.scale > r.scale THEN l.scale ELSE r.scale
           x == l.units * Pow10[k - l.scale]
           y == r.units * Pow10[k - r.scale]
           p == Pow10[Finest - k]
<1>1. /\ l.units \in Int /\ r.units \in Int /\ Finest \in Nat
      /\ l.scale \in Nat /\ l.scale <= Finest
      /\ r.scale \in Nat /\ r.scale <= Finest
  BY FinestFacts DEF Decimals
<1>2. /\ k \in Nat /\ l.scale <= k /\ r.scale <= k /\ k <= Finest
  BY <1>1
<1>3. Add(l, r) = [units |-> x + y, scale |-> k]
  BY DEF Add, Decimal
<1> HIDE DEF k
<1>4. /\ x \in Int /\ x * p = ExactUsd(l)
      /\ y \in Int /\ y * p = ExactUsd(r)
  <2>1. ASSUME NEW d \in Decimals, d.units \in Int, d.scale \in Nat, d.scale <= k
        PROVE  /\ d.units * Pow10[k - d.scale] \in Int
               /\ (d.units * Pow10[k - d.scale]) * p = ExactUsd(d)
    <3> DEFINE u == d.units
               n == d.scale
    <3>1. u \in Int /\ n \in Nat /\ n <= k
      BY <2>1
    <3> HIDE DEF u, n
    <3> DEFINE a == k - n
               b == Finest - k
    <3>2. a \in Nat /\ b \in Nat /\ a + b = Finest - n
      BY <1>1, <1>2, <3>1
    <3> HIDE DEF a, b
    <3>3. u * Pow10[a] \in Int /\ (u * Pow10[a]) * Pow10[b] = u * Pow10[Finest - n]
      <4>1. (u * Pow10[a]) * Pow10[b] = u * Pow10[a + b] /\ u * Pow10[a] \in Int
        BY <3>1, <3>2, Rescale
      <4> QED
        BY <3>2, <4>1, Zenon
    <3> QED
      BY <3>3, Zenon DEF a, b, u, n, p, ExactUsd
  <2> QED
    BY <1>1, <1>2, <2>1
<1>5. p \in Int
  <2>1. Finest - k \in Nat
    BY <1>1, <1>2
  <2> QED
    BY <2>1, PowerDef
<1> HIDE DEF x, y, p
<1>6. x + y \in Int /\ (x + y) * p = x * p + y * p /\ x * p \in Int
  BY <1>4, <1>5
<1>7. Add(l, r) \in Decimals
  BY <1>1, <1>2, <1>3, <1>6 DEF Decimals
<1>8. ExactUsd(Add(l, r)) = (x + y) * p
  BY <1>3 DEF ExactUsd, p
<1> QED
  BY <1>4, <1>6, <1>7, <1>8

LEMMA ExactMinus ==
  ASSUME NEW d \in Decimals
  PROVE  Minus(d) \in Decimals /\ ExactUsd(Minus(d)) = -ExactUsd(d)
<1> DEFINE p == Pow10[Finest - d.scale]
           u == d.units
<1>1. u \in Int /\ Finest \in Nat /\ d.scale \in 0..Finest
  BY FinestFacts DEF Decimals
<1>2. p \in Int
  <2>1. Finest - d.scale \in Nat
    BY <1>1
  <2> QED
    BY <2>1, PowerDef
<1>3. Minus(d) = [units |-> -u, scale |-> d.scale]
  BY DEF Minus, Decimals
<1>4. ExactUsd(Minus(d)) = (-u) * p /\ ExactUsd(d) = u * p
  BY <1>3 DEF ExactUsd
<1>5. Minus(d) \in Decimals
  BY <1>1, <1>3 DEF Decimals
<1> HIDE DEF u, p
<1>6. (-u) * p = -(u * p)
  BY <1>1, <1>2
<1> QED
  BY <1>4, <1>5, <1>6

LEMMA WorthIsDecimal ==
  ASSUME NEW s \in Symbol, NEW amount \in Nat
  PROVE  Worth(s, amount) \in Decimals
<1>1. /\ Price[s].units \in Nat /\ Price[s].scale \in Nat /\ TokenScale \in Nat
      /\ Finest \in Nat /\ TokenScale + Price[s].scale <= Finest
  BY FinestFacts, PriceAssumption
<1>2. Worth(s, amount) = [units |-> amount * Price[s].units,
                          scale |-> TokenScale + Price[s].scale]
  BY DEF Worth, Times, Decimal
<1>3. \A x, y \in Nat : x * y \in Int
  OBVIOUS
<1> QED
  BY <1>1, <1>2, <1>3 DEF Decimals

-----------------------------------------------------------------------------
(* Both sums take the holdings one by one, in the same order.              *)
First(s) == CHOOSE x \in s : TRUE
Totals(g, S, balances) ==
  g = [s \in SUBSET S |->
         IF s = {} THEN Zero
         ELSE Add(g[s \ {First(s)}], Worth(First(s), balances[First(s)]))]
Sums(h, S, balances) ==
  h = [s \in SUBSET S |->
         IF s = {} THEN 0
         ELSE ExactUsd(Worth(First(s), balances[First(s)])) + h[s \ {First(s)}]]

(* A fold of the subsets of S: `op` takes one and the result for the rest. *)
Folding(S, V, base, op) ==
  IsFiniteSet(S) /\ base \in V /\ op \in [(SUBSET S) \X V -> V]

Folded(f, S, V, base, op) ==
  /\ f \in [SUBSET S -> V]
  /\ \A s \in SUBSET S :
       f[s] = IF s = {} THEN base ELSE op[<<s, f[s \ {First(s)}]>>]

LEMMA SubsetRecursion ==
  ASSUME NEW S, NEW V, NEW base, NEW op, Folding(S, V, base, op)
  PROVE  \E f : Folded(f, S, V, base, op)
<1> DEFINE D    == SUBSET S
           R    == StrictSubsetOrdering(S)
           prev == [s \in D |-> s \ {First(s)}]
           Z    == {{}}
<1> USE DEF Folding
<1>1. /\ IsWellFoundedOn(R, D)
      /\ \A x, y \in D : y \subseteq x /\ y # x => <<y, x>> \in R
  BY SubsetOrder
<1> HIDE DEF R
<1>2. ASSUME NEW s \in D, s \notin Z PROVE prev[s] \in D /\ <<prev[s], s>> \in R
  <2>1. First(s) \in s
    BY <1>2 DEF First
  <2>2. prev[s] \in D /\ prev[s] \subseteq s /\ prev[s] # s
    BY <2>1
  <2> QED
    BY <1>1, <2>2
<1>3. op \in [D \X V -> V]
  OBVIOUS
<1> HIDE DEF D, prev, Z
<1>4. Recursive(D, R, Z, prev, V, base, op)
  BY <1>1, <1>2, <1>3 DEF Recursive
<1>5. PICK f \in [D -> V] :
        \A s \in D : f[s] = IF s \in Z THEN base ELSE op[<<s, f[prev[s]]>>]
  BY <1>4, RecursionExists
<1>6. ASSUME NEW s \in D
      PROVE  f[s] = IF s = {} THEN base ELSE op[<<s, f[s \ {First(s)}]>>]
  BY <1>5 DEF D, Z, prev
<1>7. Folded(f, S, V, base, op)
  BY <1>5, <1>6 DEF D, Folded
<1> QED
  BY <1>7

PricedHoldings(balances, priced) == {s \in priced : balances[s] > 0}

LEMMA TotalUsdFold ==
  ASSUME NEW balances \in [Symbol -> Nat], NEW priced \in SUBSET Symbol
  PROVE  \E g : /\ Totals(g, PricedHoldings(balances, priced), balances)
                /\ TotalUsd(balances, priced) = g[PricedHoldings(balances, priced)]
<1> DEFINE S == PricedHoldings(balances, priced)
           W(s) == Worth(s, balances[s])
           op == [p \in (SUBSET S) \X Decimals |->
                    IF p[1] = {} THEN Zero ELSE Add(p[2], W(First(p[1])))]
<1>1. IsFiniteSet(S) /\ S \subseteq Symbol
  BY PriceAssumption, FS_Subset DEF PricedHoldings
<1> HIDE DEF S
<1>2. Zero \in Decimals
  BY FinestFacts DEF Zero, Decimal, Decimals
<1>3. ASSUME NEW s \in SUBSET S, s # {} PROVE W(First(s)) \in Decimals
  <2>1. First(s) \in Symbol
    BY <1>1, <1>3 DEF First
  <2> QED
    BY <2>1, WorthIsDecimal
<1> HIDE DEF W
<1>4. op \in [(SUBSET S) \X Decimals -> Decimals]
  <2>1. ASSUME NEW s \in SUBSET S, NEW d \in Decimals, s # {}
        PROVE  Add(d, W(First(s))) \in Decimals
    BY <1>3, <2>1, ExactSum
  <2> QED
    BY <1>2, <2>1
<1>5. PICK f : Folded(f, S, Decimals, Zero, op)
  <2> HIDE DEF op
  <2>1. Folding(S, Decimals, Zero, op)
    BY <1>1, <1>2, <1>4 DEF Folding
  <2> QED
    BY <2>1, SubsetRecursion
<1>6. f = [s \in SUBSET S |->
             IF s = {} THEN Zero ELSE Add(f[s \ {First(s)}], W(First(s)))]
  BY <1>5 DEF Folded
<1>7. \E g : Totals(g, S, balances)
  BY <1>6 DEF Totals, W
<1> QED
  BY <1>7, Zenon DEF S, PricedHoldings, Totals, TotalUsd, FoldSet, MapThenFoldSet, First

LEMMA ExactFold ==
  ASSUME NEW balances \in [Symbol -> Nat], NEW S, S \subseteq Symbol
  PROVE  \E h : /\ Sums(h, S, balances)
                /\ MapThenSumSet(LAMBDA s : ExactUsd(Worth(s, balances[s])), S)
                     = h[S]
<1> DEFINE W(s) == ExactUsd(Worth(s, balances[s]))
           op == [p \in (SUBSET S) \X Int |->
                    IF p[1] = {} THEN 0 ELSE W(First(p[1])) + p[2]]
<1>1. IsFiniteSet(S)
  BY PriceAssumption, FS_Subset
<1>2. ASSUME NEW s \in SUBSET S, s # {} PROVE W(First(s)) \in Int
  <2>1. First(s) \in Symbol
    BY <1>2 DEF First
  <2> QED
    BY <2>1, WorthIsDecimal, ExactSum
<1> HIDE DEF W
<1>3. op \in [(SUBSET S) \X Int -> Int]
  BY <1>2
<1>4. PICK f : Folded(f, S, Int, 0, op)
  <2> HIDE DEF op
  <2> DEFINE none == 0
  <2>1. Folding(S, Int, none, op)
    BY <1>1, <1>3 DEF Folding
  <2> HIDE DEF none
  <2>2. \E f : Folded(f, S, Int, none, op)
    BY <2>1, SubsetRecursion
  <2> QED
    BY <2>2 DEF none
<1>5. f = [s \in SUBSET S |->
             IF s = {} THEN 0 ELSE W(First(s)) + f[s \ {First(s)}]]
  BY <1>4 DEF Folded
<1>6. \E h : Sums(h, S, balances)
  BY <1>5 DEF Sums, W
<1> QED
  BY <1>6, Zenon DEF Sums, MapThenSumSet, MapThenFoldSet, First

(* The code's total is the exact sum.                                      *)
LEMMA TotalIsExact ==
  ASSUME NEW balances \in [Symbol -> Nat], NEW priced \in SUBSET Symbol
  PROVE  /\ TotalUsd(balances, priced) \in Decimals
         /\ ExactUsd(TotalUsd(balances, priced))
              = MapThenSumSet(LAMBDA s : ExactUsd(Worth(s, balances[s])),
                              {s \in priced : balances[s] > 0})
<1> DEFINE S == {s \in priced : balances[s] > 0}
<1>1. IsFiniteSet(S) /\ S \subseteq Symbol
  BY PriceAssumption, FS_Subset
<1>2. PICK g : Totals(g, S, balances) /\ TotalUsd(balances, priced) = g[S]
  BY TotalUsdFold DEF PricedHoldings
<1>3. PICK h : /\ Sums(h, S, balances)
               /\ MapThenSumSet(LAMBDA s : ExactUsd(Worth(s, balances[s])), S)
                    = h[S]
  BY <1>1, ExactFold
<1> DEFINE Agree(s) == /\ g[s] \in Decimals /\ h[s] \in Int
                       /\ ExactUsd(g[s]) = h[s]
           T == {s \in SUBSET S : ~Agree(s)}
<1>4. T = {}
  <2>1. SUFFICES ASSUME T # {} PROVE FALSE
    OBVIOUS
  <2>2. PICK s \in T : \A r \in T : r \subseteq s => r = s
    <3>1. Family(T, S)
      BY <1>1, <2>1 DEF Family
    <3> HIDE DEF T
    <3> QED
      BY <3>1, LeastSubset
  <2>3. s \in SUBSET S /\ ~Agree(s)
    BY <2>2
  <2>4. s # {}
    <3>1. SUFFICES ASSUME s = {} PROVE Agree(s)
      BY <2>3
    <3>2. g[s] = Zero /\ h[s] = 0
      BY <1>2, <1>3, <2>3, <3>1 DEF Totals, Sums
    <3>3. Finest \in Nat /\ Pow10[Finest - 0] \in Nat
      BY FinestFacts, PowerDef
    <3>4. Zero \in Decimals /\ ExactUsd(Zero) = 0
      BY <3>3 DEF Zero, Decimal, Decimals, ExactUsd
    <3> QED
      BY <3>2, <3>4
  <2> DEFINE x == First(s)
             r == s \ {x}
             w == Worth(x, balances[x])
  <2>5. x \in s /\ x \in Symbol /\ r \in SUBSET S /\ r # s /\ r \subseteq s
    BY <1>1, <2>3, <2>4 DEF First
  <2>6. Agree(r)
    BY <2>2, <2>5
  <2>7. g[s] = Add(g[r], w) /\ h[s] = ExactUsd(w) + h[r]
    BY <1>2, <1>3, <2>3, <2>4 DEF Totals, Sums
  <2>8. w \in Decimals
    BY <2>5, WorthIsDecimal
  <2> HIDE DEF w, r
  <2>9. /\ Add(g[r], w) \in Decimals /\ ExactUsd(w) \in Int
        /\ ExactUsd(Add(g[r], w)) = ExactUsd(g[r]) + ExactUsd(w)
    BY <2>6, <2>8, ExactSum
  <2>10. Agree(s)
    BY <2>6, <2>7, <2>9
  <2> QED
    BY <2>3, <2>10
<1>5. Agree(S)
  BY <1>4
<1> QED
  BY <1>2, <1>3, <1>5

(* An allowed deposit fits under the limit.                                *)
LEMMA AllowedFits ==
  ASSUME NEW balances \in [Symbol -> Nat], NEW priced \in SUBSET Symbol,
         NEW amount \in Nat,
         EvaluateBalanceCap(amount, balances, priced) = "allowed"
  PROVE  ExactUsd(Worth(Deposited, amount))
           + MapThenSumSet(LAMBDA s : ExactUsd(Worth(s, balances[s])),
                           {s \in priced : balances[s] > 0})
         <= ExactUsd(CapUsd)
<1> DEFINE total == TotalUsd(balances, priced)
           deposit == Worth(Deposited, amount)
           projected == Add(total, deposit)
           excess == Add(projected, Minus(CapUsd))
<1>1. ~(excess.units > 0)
  BY DEF EvaluateBalanceCap
<1>2. deposit \in Decimals /\ total \in Decimals /\ CapUsd \in Decimals
  BY PriceAssumption, WorthIsDecimal, TotalIsExact, FinestFacts
<1>3. /\ ExactUsd(total)
           = MapThenSumSet(LAMBDA s : ExactUsd(Worth(s, balances[s])),
                           {s \in priced : balances[s] > 0})
  BY TotalIsExact
<1> HIDE DEF total, deposit
<1>4. /\ projected \in Decimals
      /\ ExactUsd(projected) = ExactUsd(total) + ExactUsd(deposit)
      /\ ExactUsd(total) \in Int /\ ExactUsd(deposit) \in Int
  BY <1>2, ExactSum
<1> HIDE DEF projected
<1>5. /\ excess \in Decimals
      /\ ExactUsd(excess) = ExactUsd(projected) - ExactUsd(CapUsd)
      /\ ExactUsd(CapUsd) \in Int
  <2> DEFINE cap == CapUsd
             limit == Minus(cap)
  <2>1. cap \in Decimals /\ limit \in Decimals /\ ExactUsd(limit) = -ExactUsd(cap)
    BY <1>2, ExactMinus
  <2> HIDE DEF limit
  <2>2. /\ Add(projected, limit) \in Decimals
        /\ ExactUsd(Add(projected, limit)) = ExactUsd(projected) + ExactUsd(limit)
        /\ ExactUsd(projected) \in Int
    BY <1>4, <2>1, ExactSum
  <2>3. ExactUsd(cap) \in Int
    BY <2>1, ExactSum
  <2> QED
    BY <2>1, <2>2, <2>3 DEF limit
<1> HIDE DEF excess
<1>6. ExactUsd(excess) <= 0
  <2>1. excess.units \in Int /\ Finest - excess.scale \in Nat
    BY <1>5, FinestFacts DEF Decimals
  <2>2. Pow10[Finest - excess.scale] \in Nat
    BY <2>1, PowerDef
  <2>3. \A u \in Int, p \in Nat : ~(u > 0) => u * p <= 0
    OBVIOUS
  <2> QED
    BY <1>1, <2>1, <2>2, <2>3 DEF ExactUsd
<1>7. ExactUsd(deposit) + ExactUsd(total) <= ExactUsd(CapUsd)
  BY <1>4, <1>5, <1>6
<1> QED
  BY <1>3, <1>7 DEF deposit

-----------------------------------------------------------------------------
(* The prices that are known are of symbols.                               *)
PricesKnown == job.priced \subseteq Symbol

(* A step that changes other things of the submission than its prices.     *)
KeepsPrices(j) ==
  \E x, y :
    \/ j = job
    \/ j = [job EXCEPT !.quote = x] \/ j = [job EXCEPT !.read = x]
    \/ j = [job EXCEPT !.window = x] \/ j = [job EXCEPT !.retried = x]
    \/ j = [job EXCEPT !.window = x, !.retried = y]
    \/ j = [job EXCEPT !.broadcast = x] \/ j = [job EXCEPT !.receipt = x]
    \/ j = [job EXCEPT !.broadcast = x, !.receipt = y]
    \/ j = [job EXCEPT !.quote = x, !.read = None, !.priced = {}]

LEMMA ContinueKeepsPrices ==
  ASSUME IsJob(job), PricesKnown, NEW j, KeepsPrices(j), NEW todo, Continue(j, todo)
  PROVE  PricesKnown'
<1>1. PICK x, y :
        \/ j = job
        \/ j = [job EXCEPT !.quote = x] \/ j = [job EXCEPT !.read = x]
        \/ j = [job EXCEPT !.window = x] \/ j = [job EXCEPT !.retried = x]
        \/ j = [job EXCEPT !.window = x, !.retried = y]
        \/ j = [job EXCEPT !.broadcast = x] \/ j = [job EXCEPT !.receipt = x]
        \/ j = [job EXCEPT !.broadcast = x, !.receipt = y]
        \/ j = [job EXCEPT !.quote = x, !.read = None, !.priced = {}]
  BY Zenon DEF KeepsPrices
<1>2. IsJob(j) /\ j.priced \in {job.priced, {}}
  <2>1. CASE j = job
    BY <2>1
  <2>2. CASE j = [job EXCEPT !.quote = x] \/ j = [job EXCEPT !.read = x]
    BY <2>2 DEF IsJob
  <2>3. CASE j = [job EXCEPT !.window = x] \/ j = [job EXCEPT !.retried = x]
    BY <2>3 DEF IsJob
  <2>4. CASE j = [job EXCEPT !.window = x, !.retried = y]
    BY <2>4 DEF IsJob
  <2>5. CASE j = [job EXCEPT !.broadcast = x] \/ j = [job EXCEPT !.receipt = x]
    BY <2>5 DEF IsJob
  <2>6. CASE j = [job EXCEPT !.broadcast = x, !.receipt = y]
    BY <2>6 DEF IsJob
  <2>7. CASE j = [job EXCEPT !.quote = x, !.read = None, !.priced = {}]
    BY <2>7 DEF IsJob
  <2> QED
    BY <1>1, <2>1, <2>2, <2>3, <2>4, <2>5, <2>6, <2>7
<1>3. PICK asked : job' = [j EXCEPT !.todo = todo, !.asked = asked]
  BY DEF Continue
<1>4. job'.priced = j.priced
  BY <1>2, <1>3 DEF IsJob
<1> QED
  BY <1>2, <1>4 DEF PricesKnown

LEMMA EndedKeepsPrices == ASSUME Succeed \/ Fail PROVE PricesKnown'
<1>1. job' = NoJob /\ NoJob.priced = {}
  BY DEF Succeed, Fail, Ended, NoJob
<1> QED
  BY <1>1, Zenon DEF PricesKnown

LEMMA StepKeepsPrices ==
  ASSUME IsJob(job), PricesKnown, SubmissionStep PROVE PricesKnown'
<1>1. CASE OpenEvmWallet \/ Finish \/ Rejected \/ Fail
  BY <1>1, EndedKeepsPrices DEF OpenEvmWallet, Finish, Rejected
<1>2. CASE \/ PlainAnswer \/ SuggestEvmFees \/ EnsureEvmNetwork \/ AssertAccount
           \/ AssertChain \/ EpochConnection \/ ApprovalAccepted \/ Solve
           \/ Authorize \/ ReuseOrRefresh \/ RefreshedWindow \/ Simulate
           \/ Continue(job, <<"balances", "prices", "verdict">>)
  <2>1. KeepsPrices(job)
    BY DEF KeepsPrices
  <2>2. \E todo : Continue(job, todo)
    BY <1>2 DEF PlainAnswer, SuggestEvmFees, EnsureEvmNetwork, AssertAccount,
       AssertChain, EpochConnection, ApprovalAccepted, Solve, Authorize,
       ReuseOrRefresh, RefreshedWindow, Simulate, Advance
  <2> QED
    BY <2>1, <2>2, ContinueKeepsPrices
<1>3. CASE FetchCctpQuote \/ FreshWithdrawalQuote \/ FreshEpochQuote \/ FreshBalances
  <2>1. PICK x : \/ Advance([job EXCEPT !.quote = x])
                 \/ Advance([job EXCEPT !.read = x])
    BY <1>3 DEF FetchCctpQuote, FreshWithdrawalQuote, FreshEpochQuote, FreshBalances
  <2>2. KeepsPrices([job EXCEPT !.quote = x]) /\ KeepsPrices([job EXCEPT !.read = x])
    BY DEF KeepsPrices
  <2> QED
    BY <2>1, <2>2, ContinueKeepsPrices DEF Advance
<1>4. CASE \/ DepositBroadcast \/ RequestNote \/ EpochDepositAccepted
           \/ BatchAccepted
  <2>1. PICK x, y : \/ Advance([job EXCEPT !.broadcast = x])
                    \/ Advance([job EXCEPT !.broadcast = x, !.receipt = y])
    BY <1>4 DEF DepositBroadcast, RequestNote, EpochDepositAccepted, BatchAccepted,
                AfterPublish, Broadcast
  <2>2. /\ KeepsPrices([job EXCEPT !.broadcast = x])
        /\ KeepsPrices([job EXCEPT !.broadcast = x, !.receipt = y])
    BY DEF KeepsPrices
  <2> QED
    BY <2>1, <2>2, ContinueKeepsPrices DEF Advance
<1>5. CASE NoteConfirmed \/ BundleRegistered \/ DepositSettled \/ Allocated
  <2>1. PICK x : Advance([job EXCEPT !.receipt = x])
    BY <1>5 DEF NoteConfirmed, BundleRegistered, DepositSettled, Allocated
  <2>2. KeepsPrices([job EXCEPT !.receipt = x])
    BY DEF KeepsPrices
  <2> QED
    BY <2>1, <2>2, ContinueKeepsPrices DEF Advance
<1>6. CASE PreparedBurn \/ ExpiredBurn \/ (SubmitBurn /\ ~Fail)
  <2>1. PICK x, y, todo : \/ Continue([job EXCEPT !.window = x], todo)
                          \/ Continue([job EXCEPT !.window = x, !.retried = y], todo)
    <3>1. CASE PreparedBurn \/ ExpiredBurn
      BY <3>1 DEF PreparedBurn, ExpiredBurn, Advance
    <3>2. CASE SubmitBurn /\ ~Fail
      BY <3>2 DEF SubmitBurn, BurnOrRetry
    <3> QED
      BY <1>6, <3>1, <3>2
  <2>2. /\ KeepsPrices([job EXCEPT !.window = x])
        /\ KeepsPrices([job EXCEPT !.window = x, !.retried = y])
    BY DEF KeepsPrices
  <2> QED
    BY <2>1, <2>2, ContinueKeepsPrices
<1>7. CASE WalletError
  <2>1. KeepsPrices([job EXCEPT !.retried = TRUE])
    BY DEF KeepsPrices
  <2> QED
    BY <1>7, <2>1, ContinueKeepsPrices DEF WalletError, Resubmit
<1>8. CASE StartFlow /\ ~Fail
  <2> DEFINE j == [job EXCEPT !.quote = Reviewed.quote, !.read = None, !.priced = {}]
  <2>1. KeepsPrices(j)
    BY DEF KeepsPrices
  <2>2. PICK steps \in FlowSteps : Continue(j, steps)
    BY <1>8 DEF StartFlow
  <2> HIDE DEF j
  <2> QED
    BY <2>1, <2>2, ContinueKeepsPrices
<1>9. CASE FreshPrices
  <2>1. PICK priced \in SUBSET PriceSymbols(job.read) :
          Advance([job EXCEPT !.priced = priced])
    BY <1>9 DEF FreshPrices
  <2>2. priced \subseteq Symbol
    BY <2>1, PriceAssumption DEF PriceSymbols
  <2> DEFINE j == [job EXCEPT !.priced = priced]
  <2>3. IsJob(j) /\ j.priced = priced
    BY DEF IsJob
  <2>4. PICK todo, asked : job' = [j EXCEPT !.todo = todo, !.asked = asked]
    BY <2>1 DEF Advance, Continue
  <2> HIDE DEF j
  <2>5. job'.priced = priced
    BY <2>3, <2>4 DEF IsJob
  <2> QED
    BY <2>2, <2>5 DEF PricesKnown
<1> QED
  BY <1>1, <1>2, <1>3, <1>4, <1>5, <1>6, <1>7, <1>8, <1>9
     DEF SubmissionStep, ProviderLoaded, Verdict, FlowStep, SharedStep, CctpStep

LEMMA NextKeepsPrices == IInv /\ PricesKnown /\ [Next]_vars => PricesKnown'
<1> SUFFICES ASSUME IInv, PricesKnown, [Next]_vars PROVE PricesKnown'
  OBVIOUS
<1>1. IsJob(job)
  BY DEF IInv, Submitted
<1>2. CASE UNCHANGED job
  BY <1>2 DEF PricesKnown
<1>3. CASE Tick
  <2>1. job' = [job EXCEPT !.quote = Older(@), !.window = CountDown(@)]
    BY <1>3 DEF Tick
  <2> QED
    BY <1>1, <2>1 DEF IsJob, PricesKnown
<1>4. CASE ConfirmReview /\ ~UNCHANGED job
  <2>1. PICK opening :
          job' = [NoJob EXCEPT !.todo = opening, !.evm = evm, !.miden = miden]
    BY <1>4 DEF ConfirmReview
  <2> QED
    BY <2>1 DEF NoJob, PricesKnown
<1>5. CASE SubmissionStep
  BY <1>1, <1>5, StepKeepsPrices
<1> QED
  BY <1>2, <1>3, <1>4, <1>5 DEF Next, FormStep, OpenReview, CancelReview, Change,
                                QuoteAnswer, vars

(* Only a verdict starts a flow from it.                                   *)
LEMMA LeavesByVerdict ==
  ASSUME IInv, [Next]_vars, Step = "verdict", Step' \notin {"none", "verdict"}
  PROVE  Verdict
<1>1. job.todo # <<>> /\ IsJob(job)
  BY DEF Step, IInv, Submitted
<1>2. form.status = "submitting"
  BY <1>1 DEF IInv, Submitted
<1>3. job'.todo # job.todo /\ job' # NoJob
  BY DEF Step, NoJob
<1>4. ~Tick
  <2>1. SUFFICES ASSUME Tick PROVE FALSE
    OBVIOUS
  <2>2. job' = [job EXCEPT !.quote = Older(@), !.window = CountDown(@)]
    BY <2>1 DEF Tick
  <2> QED
    BY <1>1, <1>3, <2>2 DEF IsJob
<1>5. ~(Change \/ QuoteAnswer \/ FormStep \/ UNCHANGED vars)
  BY <1>2, <1>3 DEF Change, QuoteAnswer, FormStep, OpenReview, CancelReview,
                    ConfirmReview, vars
<1>6. ~Fail
  BY <1>3 DEF Fail, Ended
<1>7. SubmissionStep
  BY <1>4, <1>5 DEF Next
<1> QED
  BY <1>6, <1>7 DEF SubmissionStep, OpenEvmWallet, ProviderLoaded, FreshBalances,
   FreshPrices, FlowStep, SharedStep, PlainAnswer, Plain, SuggestEvmFees,
   EnsureEvmNetwork, AssertAccount, AssertChain, Finish, Rejected, CctpStep,
   FetchCctpQuote, Authorize, ReuseOrRefresh, RefreshedWindow, Simulate,
   PreparedBurn, ExpiredBurn, SubmitBurn, DepositBroadcast, FreshWithdrawalQuote,
   FreshEpochQuote, RequestNote, NoteConfirmed, EpochConnection, Solve,
   ApprovalAccepted, WalletError, EpochDepositAccepted, BatchAccepted,
   BundleRegistered, DepositSettled, Allocated

(* For any holdings, amounts, prices and limit, and whatever changed while *)
(* the balances and prices were read: a deposit that passes the limit fits *)
(* under it to the last digit, with the holdings of that moment, all of    *)
(* which a price was asked for (use-balance-cap.ts:40, balance-cap.ts:36). *)
THEOREM LimitHolds == Spec => CapHolds
<1>1. ASSUME IInv, Typed, PricesKnown, [Next]_vars,
             Step = "verdict", Step' \notin {"none", "verdict"}
      PROVE  /\ \A s \in Symbol : held[s] > 0 => s \in PriceSymbols(job.read)
             /\ ExactUsd(Worth(Deposited, Reviewed.amount)) + PricedUsd
                  <= ExactUsd(CapUsd)
  <2>1. Allowed
    BY <1>1, LeavesByVerdict DEF Verdict
  <2>2. /\ PriceSymbols(held) \subseteq PriceSymbols(job.read)
        /\ EvaluateBalanceCap(Reviewed.amount, held, job.priced) = "allowed"
    BY <2>1 DEF Allowed
  <2>3. held \in [Symbol -> Nat] /\ job.priced \in SUBSET Symbol
    BY <1>1, HoldingsAssumption DEF Typed, WorldKept, PricesKnown
  <2>4. Reviewed.amount \in Nat
    <3>1. job.todo # <<>>
      BY <1>1 DEF Step
    <3>2. Reviewed \in Review
      BY <1>1, <3>1 DEF IInv, Submitted, Shown
    <3> QED
      BY <3>2, CostAssumption DEF Review
  <2>5. \A s \in Symbol : held[s] > 0 => s \in PriceSymbols(job.read)
    BY <2>2 DEF PriceSymbols
  <2>6. ExactUsd(Worth(Deposited, Reviewed.amount)) + PricedUsd <= ExactUsd(CapUsd)
    BY <2>2, <2>3, <2>4, AllowedFits DEF PricedUsd
  <2> QED
    BY <2>5, <2>6
<1>2. Init => PricesKnown
  <2>1. NoJob.priced = {}
    BY DEF NoJob
  <2>2. Init => job = NoJob
    BY DEF Init
  <2> QED
    BY <2>1, <2>2, Zenon DEF PricesKnown
<1> QED
  BY <1>1, <1>2, InitHolds, NextHolds, InitTyped, NextTyped, NextKeepsPrices,
     PTL DEF Spec, CapHolds
=============================================================================
