----------------------- MODULE BridgeSubmissionProofs -----------------------
(***************************************************************************)
(* For any accounts, amounts, prices, fees and lifetimes of quotes, and    *)
(* however often quotes are refreshed: a flow starts on a live quote, a    *)
(* wallet is asked to sign what was reviewed, and a burn reaches it within *)
(* its quote's window.                                                     *)
(***************************************************************************)
EXTENDS BridgeSubmission, SequenceTheorems, TLAPS

(* The awaits before a quote is bound to the submission, of Circle's       *)
(* deposit up to its wallet prompt, and of the other flows.                *)
PreAwaits   == {"open", "load", "balances", "prices", "verdict"}
CctpAwaits  == {"recipient", "available", "network", "authorize", "validate",
                "approve", "account", "chain", "quote", "window", "simulate",
                "fees", "prepare", "burn", "expired"}
OtherAwaits == {"recipient", "available", "network", "approve", "account",
                "chain", "estimate", "fees", "deposit", "done", "build",
                "request", "confirm", "fresh", "allocate", "connection",
                "solve", "epoch-approval", "epoch-deposit", "settle", "batch",
                "bundle"}

(* Behind an await `a` there are only awaits of S.                         *)
After(s, a, S) == \A i, j \in 1..Len(s) : i < j /\ s[i] = a => s[j] \in S
Pending(s, a)  == \E i \in 1..Len(s) : s[i] = a

(* What Circle's deposit may still have before it.                         *)
CctpPlan(s) ==
  /\ s \in Seq(CctpAwaits)
  /\ After(s, "burn", {})
  /\ After(s, "simulate", {"fees", "prepare", "account", "burn"})
  /\ After(s, "prepare", {"account", "burn"})
  /\ \A i \in 2..Len(s) : s[i] # "quote"
LastAwaits(s) ==
  /\ s \in Seq({"deposit", "done"})
  /\ \A i \in 2..Len(s) : s[i] = "done"

(* What another flow may: a plain deposit follows a check of the chain.    *)
OtherPlan(s) ==
  /\ s \in Seq(OtherAwaits)
  /\ \A i \in 1..Len(s) : s[i] = "deposit" => i = 1 \/ s[i - 1] = "chain"

-----------------------------------------------------------------------------
LEMMA TailFacts ==
  ASSUME NEW S, NEW s \in Seq(S), s # <<>>
  PROVE  /\ Len(s) \in Nat \ {0}
         /\ Tail(s) \in Seq(S)
         /\ Len(Tail(s)) = Len(s) - 1
         /\ \A i \in 1..Len(s) - 1 : Tail(s)[i] = s[i + 1]
         /\ Head(s) = s[1] /\ Head(s) \in S
<1>1. Len(s) \in Nat \ {0}
  BY EmptySeq
<1>2. Tail(s) \in Seq(S) /\ Len(Tail(s)) = Len(s) - 1 /\ Head(s) \in S
  BY HeadTailProperties
<1>3. \A i \in 1..Len(Tail(s)) : Tail(s)[i] = s[i + 1]
  BY HeadTailProperties
<1>4. Head(s) = s[1]
  OBVIOUS
<1> QED
  BY <1>1, <1>2, <1>3, <1>4

LEMMA TailKeepsPlan ==
  ASSUME NEW s, CctpPlan(s), s # <<>>
  PROVE  /\ CctpPlan(Tail(s))
         /\ Head(s) \in CctpAwaits
         /\ Pending(s, "authorize") /\ Head(s) # "authorize" =>
              Pending(Tail(s), "authorize")
         /\ Head(s) = "prepare" => Tail(s) \in Seq({"account", "burn"})
         /\ Head(s) \in {"burn", "simulate"} => ~Pending(s, "authorize")
<1>1. /\ Len(s) \in Nat \ {0}
      /\ Tail(s) \in Seq(CctpAwaits)
      /\ Len(Tail(s)) = Len(s) - 1
      /\ \A i \in 1..Len(s) - 1 : Tail(s)[i] = s[i + 1]
      /\ Head(s) = s[1] /\ Head(s) \in CctpAwaits
  BY TailFacts DEF CctpPlan
<1> DEFINE t == Tail(s)
<1>2. ASSUME NEW a, NEW S, After(s, a, S)
      PROVE  After(t, a, S) /\ (s[1] = a => \A i \in 1..Len(t) : t[i] \in S)
  BY <1>1, <1>2 DEF After
<1>3. CctpPlan(t)
  BY <1>1, <1>2 DEF CctpPlan
<1>4. Pending(s, "authorize") /\ s[1] # "authorize" => Pending(t, "authorize")
  <2>1. SUFFICES ASSUME NEW i \in 1..Len(s), s[i] = "authorize", i # 1
                 PROVE  Pending(t, "authorize")
    BY DEF Pending
  <2>2. i - 1 \in 1..Len(t) /\ t[i - 1] = "authorize"
    BY <1>1, <2>1
  <2> QED
    BY <2>2 DEF Pending
<1>5. s[1] = "prepare" => t \in Seq({"account", "burn"})
  <2>1. SUFFICES ASSUME \A i \in 1..Len(t) : t[i] \in {"account", "burn"}
                 PROVE  t \in Seq({"account", "burn"})
    BY <1>2 DEF CctpPlan
  <2>2. t \in [1..Len(t) -> CctpAwaits] /\ Len(t) \in Nat
    BY <1>1, LenProperties
  <2>3. t \in [1..Len(t) -> {"account", "burn"}]
    BY <2>1, <2>2
  <2> QED
    BY <2>2, <2>3, SeqDef
<1>6. s[1] \in {"burn", "simulate"} => ~Pending(s, "authorize")
  BY <1>1 DEF CctpPlan, After, Pending
<1> QED
  BY <1>1, <1>3, <1>4, <1>5, <1>6

LEMMA ConcatFacts ==
  ASSUME NEW S, NEW s \in Seq(S), NEW t \in Seq(S)
  PROVE  /\ Len(s) \in Nat /\ Len(t) \in Nat
         /\ s \o t \in Seq(S) /\ Len(s \o t) = Len(s) + Len(t)
         /\ \A i \in 1..Len(s) : (s \o t)[i] = s[i]
         /\ \A i \in 1..Len(s \o t) :
              \/ i \in 1..Len(s) /\ (s \o t)[i] = s[i]
              \/ i - Len(s) \in 1..Len(t) /\ (s \o t)[i] = t[i - Len(s)]
<1> DEFINE u == s \o t
           m == Len(s)
           n == Len(t)
<1>1. m \in Nat /\ n \in Nat
  BY LenProperties
<1>2. /\ u \in Seq(S) /\ Len(u) = m + n
      /\ \A i \in 1..m + n : u[i] = IF i <= m THEN s[i] ELSE t[i - m]
  BY ConcatProperties
<1> HIDE DEF u, m, n
<1>3. \A i \in 1..m : u[i] = s[i]
  BY <1>1, <1>2
<1>4. ASSUME NEW i \in 1..Len(u)
      PROVE  \/ i \in 1..m /\ u[i] = s[i]
             \/ i - m \in 1..n /\ u[i] = t[i - m]
  <2>1. i \in 1..m + n
    BY <1>2
  <2>2. CASE i <= m
    BY <1>1, <1>2, <2>1, <2>2
  <2>3. CASE ~(i <= m)
    BY <1>1, <1>2, <2>1, <2>3
  <2> QED
    BY <2>2, <2>3
<1> QED
  BY <1>1, <1>2, <1>3, <1>4 DEF u, m, n

LEMMA ConcatFirst ==
  ASSUME NEW S, NEW s \in Seq(S), NEW t \in Seq(S), Len(s) # 0
  PROVE  /\ s \o t \in Seq(S) /\ Len(s \o t) # 0
         /\ (s \o t)[1] = s[1]
<1> DEFINE m == Len(s)
           n == Len(t)
           u == s \o t
<1>1. /\ m \in Nat /\ n \in Nat /\ u \in Seq(S) /\ Len(u) = m + n
      /\ \A i \in 1..m : u[i] = s[i]
  BY ConcatFacts
<1>2. m # 0
  OBVIOUS
<1> HIDE DEF m, n, u
<1>3. 1 \in 1..m /\ m + n # 0
  BY <1>1, <1>2
<1> QED
  BY <1>1, <1>3 DEF u

(* What is put in front changes nothing about what is behind an await.     *)
LEMMA ConcatAfter ==
  ASSUME NEW S, NEW s \in Seq(S), NEW t \in Seq(S), NEW a, NEW T,
         \A i \in 1..Len(s) : s[i] # a,
         After(t, a, T)
  PROVE  After(s \o t, a, T)
<1> DEFINE u == s \o t
<1>1. /\ Len(s) \in Nat /\ Len(t) \in Nat /\ Len(u) = Len(s) + Len(t)
      /\ \A i \in 1..Len(u) :
           \/ i \in 1..Len(s) /\ u[i] = s[i]
           \/ i - Len(s) \in 1..Len(t) /\ u[i] = t[i - Len(s)]
  BY ConcatFacts
<1> HIDE DEF u
<1>2. ASSUME NEW i \in 1..Len(u), NEW j \in 1..Len(u), i < j, u[i] = a
      PROVE  u[j] \in T
  <2>1. i - Len(s) \in 1..Len(t) /\ t[i - Len(s)] = a
    BY <1>1, <1>2
  <2>2. j - Len(s) \in 1..Len(t) /\ u[j] = t[j - Len(s)]
    BY <1>1, <1>2, <2>1
  <2>3. i - Len(s) < j - Len(s)
    BY <1>1, <1>2
  <2> QED
    BY <2>1, <2>2, <2>3 DEF After
<1> QED
  BY <1>2 DEF u, After

LEMMA RefreshAwaits ==
  /\ RefreshSteps \in Seq(CctpAwaits) /\ Len(RefreshSteps) = 3
  /\ RefreshSteps[1] = "quote" /\ RefreshSteps[2] = "authorize"
  /\ RefreshSteps[3] = "window"
BY DEF RefreshSteps, CctpAwaits

(* A refresh put in front of what is left.                                 *)
LEMMA RefreshKeepsPlan ==
  ASSUME NEW s, CctpPlan(s), \A i \in 1..Len(s) : s[i] # "quote"
  PROVE  /\ CctpPlan(RefreshSteps \o s)
         /\ Pending(RefreshSteps \o s, "authorize")
<1> DEFINE t == RefreshSteps \o s
<1>1. s \in Seq(CctpAwaits)
  BY DEF CctpPlan
<1>2. \A i \in 1..Len(RefreshSteps) :
        RefreshSteps[i] \notin {"burn", "simulate", "prepare"}
        /\ (i # 1 => RefreshSteps[i] # "quote")
  BY RefreshAwaits
<1>3. /\ t \in Seq(CctpAwaits) /\ Len(s) \in Nat
      /\ Len(t) = Len(RefreshSteps) + Len(s)
      /\ \A i \in 1..Len(RefreshSteps) : t[i] = RefreshSteps[i]
      /\ \A i \in 1..Len(t) :
           \/ i \in 1..Len(RefreshSteps) /\ t[i] = RefreshSteps[i]
           \/ i - Len(RefreshSteps) \in 1..Len(s) /\ t[i] = s[i - Len(RefreshSteps)]
  BY <1>1, ConcatFacts, RefreshAwaits
<1>4. ASSUME NEW a \in {"burn", "simulate", "prepare"}, NEW T, After(s, a, T)
      PROVE  After(t, a, T)
  BY <1>1, <1>2, <1>4, ConcatAfter, RefreshAwaits
<1> HIDE DEF t
<1>5. ASSUME NEW i \in 2..Len(t) PROVE t[i] # "quote"
  <2>1. i \in 1..Len(t) /\ i # 1
    BY <1>3, RefreshAwaits
  <2>2. CASE i \in 1..Len(RefreshSteps) /\ t[i] = RefreshSteps[i]
    BY <1>2, <2>1, <2>2
  <2>3. CASE i - Len(RefreshSteps) \in 1..Len(s) /\ t[i] = s[i - Len(RefreshSteps)]
    BY <2>3
  <2> QED
    BY <1>3, <2>1, <2>2, <2>3
<1>6. CctpPlan(t)
  BY <1>3, <1>4, <1>5 DEF CctpPlan
<1>7. Pending(t, "authorize")
  BY <1>3, RefreshAwaits DEF Pending
<1> QED
  BY <1>6, <1>7 DEF t

LEMMA BurnPlan ==
  /\ CctpPlan(BurnSteps)
  /\ Len(BurnSteps) = 5
  /\ \A i \in 1..Len(BurnSteps) : BurnSteps[i] \notin {"quote", "authorize"}
<1>1. /\ BurnSteps \in Seq(CctpAwaits) /\ Len(BurnSteps) = 5
      /\ BurnSteps[1] = "simulate" /\ BurnSteps[2] = "fees"
      /\ BurnSteps[3] = "prepare" /\ BurnSteps[4] = "account"
      /\ BurnSteps[5] = "burn"
  BY DEF BurnSteps, CctpAwaits
<1>2. 1..5 = {1, 2, 3, 4, 5}
  OBVIOUS
<1> QED
  BY <1>1, <1>2 DEF CctpPlan, After

(* Circle's deposit as it starts.                                          *)
LEMMA DepositPlan ==
  CctpPlan(CctpDepositSteps) /\ Pending(CctpDepositSteps, "authorize")
<1> DEFINE checks == <<"recipient", "available", "network", "authorize",
                       "validate", "approve", "account", "chain", "validate">>
           t == checks \o BurnSteps
<1>1. /\ checks \in Seq(CctpAwaits) /\ Len(checks) = 9
      /\ \A i \in 1..9 : checks[i] \notin {"burn", "simulate", "prepare", "quote"}
      /\ checks[4] = "authorize"
  BY DEF CctpAwaits
<1>2. BurnSteps \in Seq(CctpAwaits) /\ Len(BurnSteps) = 5
  BY BurnPlan DEF CctpPlan
<1> HIDE DEF checks
<1>3. /\ t \in Seq(CctpAwaits) /\ Len(t) = Len(checks) + Len(BurnSteps)
      /\ \A i \in 1..Len(checks) : t[i] = checks[i]
      /\ \A i \in 1..Len(t) :
           \/ i \in 1..Len(checks) /\ t[i] = checks[i]
           \/ i - Len(checks) \in 1..Len(BurnSteps) /\ t[i] = BurnSteps[i - Len(checks)]
  <2>1. checks \in Seq(CctpAwaits)
    BY <1>1
  <2> QED
    BY <1>2, <2>1, ConcatFacts
<1>4. ASSUME NEW a \in {"burn", "simulate", "prepare"}, NEW T, After(BurnSteps, a, T)
      PROVE  After(t, a, T)
  BY <1>1, <1>2, <1>4, ConcatAfter
<1> HIDE DEF t
<1>5. ASSUME NEW i \in 1..Len(t) PROVE t[i] # "quote"
  <2>1. CASE i \in 1..Len(checks) /\ t[i] = checks[i]
    BY <1>1, <2>1
  <2>2. CASE i - Len(checks) \in 1..Len(BurnSteps) /\ t[i] = BurnSteps[i - Len(checks)]
    BY <2>2, BurnPlan
  <2> QED
    BY <1>3, <2>1, <2>2
<1>6. CctpPlan(t)
  BY <1>3, <1>4, <1>5, BurnPlan DEF CctpPlan
<1>7. Pending(t, "authorize")
  BY <1>1, <1>3 DEF Pending
<1> QED
  BY <1>6, <1>7 DEF t, checks, CctpDepositSteps

(* A simulation that has expired leaves out what it precedes.              *)
LEMMA ExpiredPlan ==
  ASSUME NEW s, CctpPlan(s), s # <<>>, Head(s) = "simulate"
  PROVE  CctpPlan(<<"expired">> \o SubSeq(s, 4, Len(s)))
<1>1. s \in Seq(CctpAwaits) /\ Len(s) \in Nat \ {0} /\ s[1] = "simulate"
  BY TailFacts DEF CctpPlan
<1> DEFINE u == SubSeq(s, 4, Len(s))
           first == <<"expired">>
           t == first \o u
<1>2. /\ u \in Seq(CctpAwaits)
      /\ Len(u) = IF 4 <= Len(s) THEN Len(s) - 3 ELSE 0
      /\ \A i \in 1..Len(s) - 3 : u[i] = s[i + 3]
  <2>1. \A i \in 4..Len(s) : s[i] \in CctpAwaits
    BY <1>1, ElementOfSeq
  <2>2. /\ u \in Seq(CctpAwaits)
        /\ Len(u) = IF 4 <= Len(s) THEN Len(s) - 4 + 1 ELSE 0
        /\ \A i \in 1..Len(s) - 4 + 1 : u[i] = s[4 + i - 1]
    BY <1>1, <2>1, SubSeqProperties
  <2> QED
    BY <1>1, <2>2
<1> HIDE DEF u
<1>3. Len(u) \in Nat /\ \A i \in 1..Len(u) : i + 3 \in 2..Len(s) /\ u[i] = s[i + 3]
  BY <1>1, <1>2
<1>4. first \in Seq(CctpAwaits) /\ Len(first) = 1 /\ first[1] = "expired"
  BY DEF CctpAwaits
<1> HIDE DEF first
<1>5. /\ t \in Seq(CctpAwaits) /\ Len(t) = Len(first) + Len(u)
      /\ \A i \in 1..Len(t) :
           \/ i \in 1..Len(first) /\ t[i] = first[i]
           \/ i - Len(first) \in 1..Len(u) /\ t[i] = u[i - Len(first)]
  BY <1>2, <1>4, ConcatFacts
<1>6. ASSUME NEW a \in {"burn", "simulate", "prepare"}, NEW T, After(s, a, T)
      PROVE  After(t, a, T)
  <2>1. After(u, a, T)
    BY <1>1, <1>3, <1>6 DEF After
  <2>2. \A i \in 1..Len(first) : first[i] # a
    BY <1>4
  <2> QED
    BY <1>2, <1>4, <2>1, <2>2, ConcatAfter
<1> HIDE DEF t
<1>7. ASSUME NEW i \in 2..Len(t) PROVE t[i] # "quote"
  <2>1. i - 1 \in 1..Len(u) /\ t[i] = u[i - 1]
    BY <1>3, <1>4, <1>5
  <2> QED
    BY <1>3, <2>1 DEF CctpPlan
<1>8. CctpPlan(t)
  BY <1>5, <1>6, <1>7 DEF CctpPlan
<1> QED
  BY <1>8 DEF t, u, first

-----------------------------------------------------------------------------
(* The other flows.                                                        *)
LEMMA TailKeepsOther ==
  ASSUME NEW s, OtherPlan(s), s # <<>>
  PROVE  /\ OtherPlan(Tail(s)) /\ Head(s) \in OtherAwaits
         /\ Tail(s) # <<>> /\ Head(Tail(s)) = "deposit" => Head(s) = "chain"
<1> DEFINE t == Tail(s)
<1>1. /\ Len(s) \in Nat \ {0} /\ t \in Seq(OtherAwaits) /\ Len(t) = Len(s) - 1
      /\ \A i \in 1..Len(s) - 1 : t[i] = s[i + 1]
      /\ Head(s) = s[1] /\ Head(s) \in OtherAwaits
  BY TailFacts DEF OtherPlan
<1>2. t # <<>> => 1 \in 1..Len(t) /\ Head(t) = t[1]
  BY <1>1, EmptySeq
<1> HIDE DEF t
<1>3. ASSUME NEW i \in 1..Len(t), t[i] = "deposit"
      PROVE  s[i] = "chain" /\ (i = 1 \/ t[i - 1] = "chain")
  <2>1. i + 1 \in 1..Len(s) /\ s[i + 1] = "deposit" /\ (i + 1) - 1 = i
    BY <1>1, <1>3
  <2>2. s[i] = "chain"
    BY <1>1, <2>1 DEF OtherPlan
  <2>3. i # 1 => i - 1 \in 1..Len(s) - 1 /\ (i - 1) + 1 = i
    BY <1>1
  <2> QED
    BY <1>1, <2>2, <2>3
<1> QED
  BY <1>1, <1>2, <1>3 DEF t, OtherPlan

LEMMA ConcatOther ==
  ASSUME NEW s, NEW t, OtherPlan(s), OtherPlan(t), t = <<>> \/ t[1] # "deposit"
  PROVE  OtherPlan(s \o t)
<1> DEFINE u == s \o t
<1>1. s \in Seq(OtherAwaits) /\ t \in Seq(OtherAwaits)
  BY DEF OtherPlan
<1>2. /\ Len(s) \in Nat /\ Len(t) \in Nat
      /\ u \in Seq(OtherAwaits) /\ Len(u) = Len(s) + Len(t)
      /\ \A i \in 1..Len(s) : u[i] = s[i]
      /\ \A i \in 1..Len(u) :
           \/ i \in 1..Len(s) /\ u[i] = s[i]
           \/ i - Len(s) \in 1..Len(t) /\ u[i] = t[i - Len(s)]
  BY <1>1, ConcatFacts
<1>3. t # <<>> => t[1] # "deposit"
  OBVIOUS
<1>4. Len(t) # 0 => t # <<>>
  BY EmptySeq
<1> HIDE DEF u
<1>5. ASSUME NEW i \in 1..Len(u), u[i] = "deposit", i # 1 PROVE u[i - 1] = "chain"
  <2>1. CASE i \in 1..Len(s) /\ u[i] = s[i]
    <3>1. s[i - 1] = "chain" /\ i - 1 \in 1..Len(s)
      BY <1>2, <1>5, <2>1 DEF OtherPlan
    <3> QED
      BY <1>2, <3>1
  <2>2. CASE i - Len(s) \in 1..Len(t) /\ u[i] = t[i - Len(s)]
    <3> DEFINE k == i - Len(s)
    <3>1. k # 1
      BY <1>2, <1>3, <1>4, <1>5, <2>2
    <3>2. t[k - 1] = "chain" /\ k - 1 \in 1..Len(t)
      BY <1>2, <1>5, <2>2, <3>1 DEF OtherPlan
    <3>3. i - 1 \in 1..Len(u) /\ (i - 1) - Len(s) = k - 1 /\ i - 1 \notin 1..Len(s)
      BY <1>2, <2>2, <3>1
    <3> QED
      BY <1>2, <3>2, <3>3
  <2> QED
    BY <1>2, <2>1, <2>2
<1> QED
  BY <1>2, <1>5 DEF u, OtherPlan

LEMMA OtherFlows ==
  ASSUME route \in Route, route # "cctp", NEW steps \in FlowSteps
  PROVE  OtherPlan(steps) /\ steps[1] # "deposit"
<1>1. OtherPlan(ArcDepositSteps) /\ ArcDepositSteps[1] # "deposit"
  BY DEF ArcDepositSteps, OtherPlan, OtherAwaits
<1>2. \A flow \in AgglayerDepositSteps : OtherPlan(flow) /\ flow[1] # "deposit"
  <2> DEFINE first == <<"network", "account", "chain">>
             last  == <<"fees", "account", "chain", "deposit", "done">>
  <2>1. OtherPlan(first) /\ Len(first) = 3 /\ first[1] = "network"
    BY DEF OtherPlan, OtherAwaits
  <2>2. OtherPlan(last) /\ last[1] # "deposit"
    BY DEF OtherPlan, OtherAwaits
  <2>3. OtherPlan(<<>>)
    BY EmptySeq DEF OtherPlan
  <2>4. OtherPlan(<<"approve", "estimate">>) /\ <<"approve", "estimate">>[1] # "deposit"
    BY DEF OtherPlan, OtherAwaits
  <2> HIDE DEF first, last
  <2>5. OtherPlan((first \o <<>>) \o last)
    BY <2>1, <2>2, <2>3, ConcatOther
  <2>6. OtherPlan((first \o <<"approve", "estimate">>) \o last)
    <3>1. OtherPlan(first \o <<"approve", "estimate">>)
      BY <2>1, <2>4, ConcatOther
    <3> QED
      BY <2>2, <3>1, ConcatOther
  <2>7. ASSUME NEW t, OtherPlan(t)
        PROVE  ((first \o t) \o last)[1] # "deposit"
    <3>1. /\ first \o t \in Seq(OtherAwaits) /\ Len(first \o t) # 0
          /\ (first \o t)[1] = first[1]
      BY <2>1, <2>7, ConcatFirst DEF OtherPlan
    <3>2. ((first \o t) \o last)[1] = (first \o t)[1]
      BY <2>2, <3>1, ConcatFirst DEF OtherPlan
    <3> QED
      BY <2>1, <3>1, <3>2
  <2> QED
    BY <2>3, <2>4, <2>5, <2>6, <2>7 DEF AgglayerDepositSteps, first, last
<1>3. /\ OtherPlan(AgglayerSendSteps) /\ AgglayerSendSteps[1] # "deposit"
      /\ OtherPlan(WithdrawalSteps) /\ WithdrawalSteps[1] # "deposit"
      /\ OtherPlan(EpochReceiveSteps) /\ EpochReceiveSteps[1] # "deposit"
  BY DEF AgglayerSendSteps, WithdrawalSteps, EpochReceiveSteps, OtherPlan, OtherAwaits
<1>4. OtherPlan(EpochSendSteps) /\ EpochSendSteps[1] # "deposit"
  <2> DEFINE first == <<"available", "fresh">>
  <2>1. OtherPlan(first) /\ Len(first) = 2 /\ first[1] = "available"
    BY DEF OtherPlan, OtherAwaits
  <2>2. OtherPlan(CrossChainIntent) /\ CrossChainIntent[1] # "deposit"
    BY DEF CrossChainIntent, OtherPlan, OtherAwaits
  <2>3. OtherPlan(<<"done">>) /\ <<"done">>[1] # "deposit"
    BY DEF OtherPlan, OtherAwaits
  <2> HIDE DEF first
  <2>4. OtherPlan(first \o CrossChainIntent)
    BY <2>1, <2>2, ConcatOther
  <2>5. (first \o CrossChainIntent)[1] = "available"
        /\ Len(first \o CrossChainIntent) # 0
    BY <2>1, <2>2, ConcatFirst DEF OtherPlan
  <2>6. ((first \o CrossChainIntent) \o <<"done">>)[1] = "available"
    BY <2>3, <2>4, <2>5, ConcatFirst DEF OtherPlan
  <2>7. OtherPlan((first \o CrossChainIntent) \o <<"done">>)
    BY <2>3, <2>4, ConcatOther
  <2> QED
    BY <2>6, <2>7 DEF EpochSendSteps, first
<1> QED
  BY <1>1, <1>2, <1>3, <1>4 DEF FlowSteps, Route, Receives, Sends

LEMMA EpochPlans ==
  \A plan \in {InBatch, InTurn(<<>>), InTurn(<<"epoch-approval">>)} :
    OtherPlan(plan) /\ plan[1] # "deposit"
<1> DEFINE last == <<"epoch-deposit", "settle", "allocate", "done">>
<1>1. OtherPlan(last) /\ last[1] = "epoch-deposit"
  BY DEF OtherPlan, OtherAwaits
<1>2. OtherPlan(<<>>) /\ last \in Seq(OtherAwaits)
  BY <1>1, EmptySeq DEF OtherPlan
<1>3. InTurn(<<>>) = last
  BY <1>2, ConcatEmptySeq DEF InTurn
<1> DEFINE first == <<"epoch-approval">>
<1>4. OtherPlan(first) /\ Len(first) = 1 /\ first[1] = "epoch-approval"
  BY DEF OtherPlan, OtherAwaits
<1>5. OtherPlan(InBatch) /\ InBatch[1] # "deposit"
  BY DEF InBatch, OtherPlan, OtherAwaits
<1> HIDE DEF first, last
<1>6. OtherPlan(first \o last) /\ (first \o last)[1] # "deposit"
  <2>1. OtherPlan(first \o last)
    BY <1>1, <1>4, ConcatOther
  <2>2. (first \o last)[1] = first[1]
    BY <1>1, <1>4, ConcatFacts DEF OtherPlan
  <2> QED
    BY <1>4, <2>1, <2>2
<1>7. InTurn(first) = first \o last
  BY DEF InTurn, last
<1> QED
  BY <1>1, <1>3, <1>5, <1>6, <1>7 DEF first

-----------------------------------------------------------------------------
(* A quote that is as good as the reviewed one.                            *)
Authorized(quote) == quote.honest /\ quote.cost <= Reviewed.quote.cost

(* What may still be before a submission, given its quote and what is left *)
(* of the quote's window.                                                  *)
CctpPlanned(quote, window, todo) ==
  \/ LastAwaits(todo) /\ Authorized(quote)
  \/ /\ CctpPlan(todo)
     /\ Authorized(quote) \/ Pending(todo, "authorize")
     /\ todo # <<>> /\ Head(todo) = "quote" => Pending(todo, "authorize")
     /\ window > 0 => /\ todo \in Seq({"account", "burn"})
                      /\ window + Headroom <= quote.left
Planned(quote, window, todo) ==
  /\ window \in Nat
  /\ quote = None => window = 0 /\ todo \in Seq(PreAwaits)
  /\ quote # None =>
       /\ quote \in Quote /\ TermsOf(quote) = Request
       /\ IF route = "cctp" THEN CctpPlanned(quote, window, todo)
          ELSE OtherPlan(todo) /\ Authorized(quote)

IsJob(j) ==
  j = [todo |-> j.todo, evm |-> j.evm, miden |-> j.miden, quote |-> j.quote,
       asked |-> j.asked, window |-> j.window, retried |-> j.retried,
       read |-> j.read, priced |-> j.priced, broadcast |-> j.broadcast,
       receipt |-> j.receipt]
Form == [status: {"editing", "reviewing", "submitting"},
         review: Review \cup {None}, error: {"", "failed", "submitted"}]

World ==
  /\ route \in Route /\ draft \in Amount
  /\ evm \in Evm \cup {None} /\ miden \in Miden \cup {None}
Offered ==
  offer # None => offer \in Quote /\ (route # "cctp" => offer.honest)
Shown ==
  /\ form \in Form
  /\ form.status # "editing" =>
       /\ Reviewed \in Review /\ TermsOf(Reviewed.quote) = Request
       /\ route # "cctp" => Reviewed.quote.honest

(* A submission belongs to the review on display.                          *)
Submitted ==
  /\ IsJob(job) /\ job.asked \in Nat
  /\ job.todo # <<>> \/ job.quote # None =>
       /\ form.status = "submitting"
       /\ job.evm = Reviewed.evm /\ job.miden = Reviewed.miden
  /\ Planned(job.quote, job.window, job.todo)

IInv == World /\ Offered /\ Shown /\ Submitted

(* A step asks a wallet, or binds a quote, only when it may.               *)
StepRight ==
  /\ Prompted => /\ UNCHANGED <<route, form>>
                 /\ Step' = "deposit" => chain
                 /\ route = "cctp" => /\ job'.quote = job.quote /\ job.window > 0
                                      /\ job.window + Headroom <= job.quote.left
  /\ job.quote = None /\ job'.quote # None => QuoteHolds

LEMMA QuoteIsNone ==
  /\ \A q \in Quote : q # None /\ q.left \in Nat /\ q.cost \in Nat
                      /\ q.amount \in Amount /\ q.evm \in Evm /\ q.miden \in Miden
  /\ \A r \in Review : r # None
  /\ Amount \subseteq Nat /\ Cost \subseteq Nat
BY NoneAssumption, CostAssumption DEF Quote

LEMMA NoJobPlanned ==
  IsJob(NoJob) /\ NoJob.asked \in Nat /\ NoJob.todo = <<>> /\ NoJob.quote = None
  /\ NoJob.window = 0 /\ Planned(None, 0, <<>>)
BY EmptySeq DEF IsJob, NoJob, Planned

(* A submission that ends.                                                 *)
LEMMA EndedKeeps ==
  ASSUME IInv, UNCHANGED <<route, draft, evm, miden, offer>>,
         NEW error \in {"", "failed", "submitted"}, Ended(error)
  PROVE  IInv' /\ StepRight
<1>1. /\ form' = [status |-> "editing", review |-> None, error |-> error]
      /\ job' = NoJob
  BY DEF Ended
<1>2. Shown'
  BY <1>1 DEF Shown, Form
<1>3. Submitted'
  BY <1>1, NoJobPlanned DEF Submitted, Planned
<1>4. StepRight
  BY <1>1, NoJobPlanned DEF StepRight, Prompted, Prompts, Step
<1> QED
  BY <1>2, <1>3, <1>4 DEF IInv, World, Offered

(* One that goes on with the awaits `todo`.                                *)
LEMMA ContinueKeeps ==
  ASSUME IInv, job.todo # <<>>,
         UNCHANGED <<route, draft, evm, miden, offer>>,
         NEW j, NEW todo, IsJob(j), j.evm = job.evm, j.miden = job.miden,
         Continue(j, todo), Planned(j.quote, j.window, todo),
         todo # <<>> /\ Head(todo) \in Validating => j.quote # None
  PROVE  /\ IInv' /\ form' = form /\ job'.todo = todo
         /\ job'.quote = j.quote /\ job'.window = j.window
<1> DEFINE asked == IF todo # <<>> /\ Head(todo) \in Validating
                    THEN j.quote.left ELSE 0
<1>1. job' = [j EXCEPT !.todo = todo, !.asked = asked] /\ UNCHANGED form
  BY DEF Continue
<1>2. asked \in Nat
  BY QuoteIsNone DEF Planned
<1> HIDE DEF asked
<1>3. job' = [todo |-> todo, evm |-> j.evm, miden |-> j.miden, quote |-> j.quote,
              asked |-> asked, window |-> j.window, retried |-> j.retried,
              read |-> j.read, priced |-> j.priced, broadcast |-> j.broadcast,
              receipt |-> j.receipt]
  BY <1>1 DEF IsJob
<1>4. IsJob(job)' /\ job'.asked \in Nat
  BY <1>2, <1>3 DEF IsJob
<1>5. Planned(job.quote, job.window, job.todo)'
  BY <1>1, <1>3 DEF Planned, CctpPlanned, Authorized, Request, Reviewed
<1>6. Submitted'
  BY <1>1, <1>3, <1>4, <1>5 DEF IInv, Submitted, Reviewed
<1> QED
  BY <1>1, <1>3, <1>6 DEF IInv, World, Offered, Shown, Request, Reviewed

(* The next await, with what it has read or recorded.                      *)
LEMMA TailPlanned ==
  ASSUME IInv, job.todo # <<>>, Step # "authorize" \/ Authorized(job.quote)
  PROVE  Planned(job.quote, job.window, Tail(job.todo))
<1> DEFINE s == job.todo
<1>1. Planned(job.quote, job.window, s)
  BY DEF IInv, Submitted
<1>2. CASE job.quote = None
  BY <1>1, <1>2, TailFacts DEF Planned
<1>3. CASE job.quote # None /\ route # "cctp"
  BY <1>1, <1>3, TailKeepsOther DEF Planned
<1>4. CASE job.quote # None /\ route = "cctp"
  <2>1. CctpPlanned(job.quote, job.window, s)
    BY <1>1, <1>4 DEF Planned
  <2>2. CASE LastAwaits(s) /\ Authorized(job.quote)
    <3>1. LastAwaits(Tail(s))
      BY <2>2, TailFacts DEF LastAwaits
    <3> QED
      BY <1>1, <1>4, <2>2, <3>1 DEF Planned, CctpPlanned
  <2>3. CASE CctpPlan(s) /\ ~LastAwaits(s)
    <3>1. CctpPlan(Tail(s))
      BY <2>3, TailKeepsPlan
    <3>2. Authorized(job.quote) \/ Pending(Tail(s), "authorize")
      BY <2>1, <2>3, TailKeepsPlan DEF CctpPlanned, Step
    <3>3. ~(Tail(s) # <<>> /\ Head(Tail(s)) = "quote")
      <4>1. /\ Len(s) \in Nat \ {0} /\ Len(Tail(s)) = Len(s) - 1
            /\ \A i \in 1..Len(s) - 1 : Tail(s)[i] = s[i + 1]
            /\ Tail(s) \in Seq(CctpAwaits)
        BY <2>3, TailFacts DEF CctpPlan
      <4>2. Tail(s) # <<>> => Head(Tail(s)) = s[2] /\ 2 \in 2..Len(s)
        <5>1. SUFFICES ASSUME Tail(s) # <<>>
                       PROVE  Head(Tail(s)) = s[2] /\ 2 \in 2..Len(s)
          OBVIOUS
        <5>2. Len(Tail(s)) \in Nat \ {0} /\ Head(Tail(s)) = Tail(s)[1]
          BY <4>1, <5>1, TailFacts
        <5> DEFINE n == Len(s)
        <5>3. n \in Nat \ {0} /\ n - 1 \in Nat \ {0}
          BY <4>1, <5>2
        <5> HIDE DEF n
        <5>4. 1 \in 1..n - 1 /\ 2 \in 2..n
          BY <5>3
        <5>5. Tail(s)[1] = s[1 + 1]
          BY <4>1, <5>4 DEF n
        <5> QED
          BY <5>2, <5>4, <5>5 DEF n
      <4> QED
        BY <2>3, <4>2 DEF CctpPlan
    <3>4. job.window > 0 => Tail(s) \in Seq({"account", "burn"})
      BY <2>1, <2>3, TailFacts DEF CctpPlanned
    <3> QED
      BY <1>1, <1>4, <2>1, <2>3, <3>1, <3>2, <3>3, <3>4 DEF Planned, CctpPlanned
  <2>4. ~(LastAwaits(s) /\ CctpPlan(s))
    <3>1. LastAwaits(s) => Head(s) \in {"deposit", "done"}
      BY TailFacts DEF LastAwaits
    <3>2. CctpPlan(s) => Head(s) \in CctpAwaits
      BY TailKeepsPlan
    <3> QED
      BY <3>1, <3>2 DEF CctpAwaits
  <2> QED
    BY <2>1, <2>2, <2>3, <2>4 DEF CctpPlanned
<1> QED
  BY <1>2, <1>3, <1>4

(* Where a submission is tells whether it has its quote, and whose flow.   *)
LEMMA StepTells ==
  ASSUME IInv, job.todo # <<>>
  PROVE  /\ Step = Head(job.todo)
         /\ job.quote = None => Step \in PreAwaits
         /\ job.quote # None /\ route # "cctp" => Step \in OtherAwaits
         /\ job.quote # None /\ route = "cctp" /\ Step \notin {"deposit", "done"} =>
              Step \in CctpAwaits /\ CctpPlan(job.todo) /\ ~LastAwaits(job.todo)
         /\ job.quote # None /\ route = "cctp" /\ Step \in {"deposit", "done"} =>
              LastAwaits(job.todo)
<1>1. Planned(job.quote, job.window, job.todo) /\ Step = Head(job.todo)
  BY DEF IInv, Submitted, Step
<1>2. job.quote = None => Step \in PreAwaits
  BY <1>1, TailFacts DEF Planned
<1>3. job.quote # None /\ route # "cctp" => Step \in OtherAwaits
  BY <1>1, TailKeepsOther DEF Planned
<1>4. LastAwaits(job.todo) => Step \in {"deposit", "done"}
  BY <1>1, TailFacts DEF LastAwaits
<1>5. CctpPlan(job.todo) => Step \in CctpAwaits
  BY <1>1, TailKeepsPlan
<1> QED
  BY <1>1, <1>2, <1>3, <1>4, <1>5 DEF Planned, CctpPlanned, CctpAwaits

-----------------------------------------------------------------------------
(* What Circle, a withdrawal and Epoch's solvers take is a cost.           *)
LEMMA QuotesCost ==
  ASSUME NEW request, request.amount \in Amount
  PROVE  QuoteCosts(request) \subseteq Cost
<1>1. CctpFees(request) \subseteq Cost
  BY DEF CctpFees, CctpReplies
<1>2. WithdrawalFees(request) \subseteq Cost
  BY DEF WithdrawalFees, WithdrawalReplies
<1>3. EpochShortfalls(request, 0) \subseteq Cost
  <2>1. ASSUME NEW out \in TokenOut(request), RequireEstimate(out, 0)
        PROVE  request.amount - out \in Cost
    <3>1. PICK cost \in Cost : out = request.amount - cost
      BY <2>1 DEF TokenOut, RequireEstimate
    <3>2. request.amount \in Nat /\ cost \in Nat
      BY QuoteIsNone
    <3>3. request.amount - out = cost
      BY <3>1, <3>2
    <3> QED
      BY <3>3
  <2> QED
    BY <2>1 DEF EpochShortfalls
<1>4. NoFee \subseteq Cost
  BY CostAssumption DEF NoFee
<1> QED
  BY <1>1, <1>2, <1>3, <1>4 DEF QuoteCosts

(* Time, the user and the quotes, before and beside a submission.          *)
LEMMA OlderQuote ==
  ASSUME NEW q \in Quote \cup {None}
  PROVE  /\ Older(q) \in Quote \cup {None}
         /\ Older(q) = None <=> q = None
         /\ q # None => /\ Older(q).honest = q.honest /\ Older(q).cost = q.cost
                        /\ TermsOf(Older(q)) = TermsOf(q)
                        /\ Older(q).left = CountDown(q.left)
<1>1. CASE q = None
  BY <1>1 DEF Older
<1>2. CASE q # None
  <2>1. q \in Quote
    BY <1>2
  <2>2. Older(q) = [q EXCEPT !.left = CountDown(@)]
    BY <1>2 DEF Older
  <2>3. CountDown(q.left) \in Nat
    BY <2>1, QuoteIsNone DEF CountDown
  <2>4. Older(q) \in Quote
    BY <2>1, <2>2, <2>3 DEF Quote
  <2> QED
    BY <1>2, <2>1, <2>2, <2>4, QuoteIsNone DEF Quote, TermsOf
<1> QED
  BY <1>1, <1>2

LEMMA TickKeeps == ASSUME IInv, Tick PROVE IInv'
<1>1. /\ UNCHANGED <<route, draft, evm, miden>>
      /\ offer' = Older(offer)
      /\ form' = [form EXCEPT !.review = OlderReview(@)]
      /\ job' = [job EXCEPT !.quote = Older(@), !.window = CountDown(@)]
  BY DEF Tick, world
<1>2. Offered'
  BY <1>1, OlderQuote DEF IInv, Offered
<1>3. CASE Reviewed = None
  <2>1. form' = form /\ form.status = "editing"
    BY <1>1, <1>3, QuoteIsNone DEF IInv, Shown, Form, Reviewed, OlderReview
  <2>2. job.todo = <<>> /\ job.quote = None
    BY <2>1 DEF IInv, Submitted
  <2>3. /\ IsJob(job)' /\ job'.todo = <<>> /\ job'.quote = None
        /\ job'.asked = job.asked /\ job'.window = 0
    <3>1. IsJob(job) /\ job.window = 0
      BY <2>2 DEF IInv, Submitted, Planned
    <3>2. Older(job.quote) = None /\ CountDown(job.window) = 0
      BY <2>2, <3>1 DEF Older, CountDown
    <3>3. job' = [job EXCEPT !.quote = None, !.window = 0]
      BY <1>1, <3>2
    <3> QED
      BY <2>2, <3>1, <3>3 DEF IsJob
  <2>4. Submitted'
    BY <2>2, <2>3, EmptySeq DEF IInv, Submitted, Planned
  <2> QED
    BY <1>1, <1>2, <2>1, <2>4 DEF IInv, World, Shown, Request, Reviewed
<1>4. CASE Reviewed # None
  <2>1. Reviewed \in Review
    BY <1>4 DEF IInv, Shown, Form, Reviewed
  <2> DEFINE r == Reviewed
             aged == [r EXCEPT !.quote = Older(@)]
  <2>2. form' = [status |-> form.status, review |-> aged, error |-> form.error]
    <3>1. OlderReview(form.review) = aged
      BY <1>4 DEF Reviewed, OlderReview
    <3> HIDE DEF aged
    <3>2. form \in Form
      BY DEF IInv, Shown
    <3> QED
      BY <1>1, <3>1, <3>2 DEF Form
  <2>3. r.quote \in Quote /\ r.quote # None
    BY <2>1, QuoteIsNone DEF Review
  <2>4. /\ Older(r.quote) \in Quote
        /\ Older(r.quote).honest = r.quote.honest
        /\ Older(r.quote).cost = r.quote.cost
        /\ TermsOf(Older(r.quote)) = TermsOf(r.quote)
    BY <2>3, OlderQuote
  <2>5. /\ aged \in Review /\ aged.quote = Older(r.quote)
        /\ aged.amount = r.amount /\ aged.evm = r.evm /\ aged.miden = r.miden
    BY <2>1, <2>4 DEF Review
  <2>6. Reviewed' = aged /\ form' \in Form /\ form'.status = form.status
    BY <2>2, <2>5 DEF IInv, Shown, Form, Reviewed
  <2> HIDE DEF aged
  <2>7. Request' = Request
    BY <2>5, <2>6 DEF Request
  <2>8. Shown'
    BY <1>1, <2>1, <2>4, <2>5, <2>6, <2>7 DEF IInv, Shown
  <2>9. \A q : Authorized(q)' <=> Authorized(q)
    BY <2>4, <2>5, <2>6 DEF Authorized
  <2>10. Submitted'
    <3> DEFINE q == Older(job.quote)
               w == CountDown(job.window)
    <3>1. job.quote \in Quote \cup {None} /\ job.window \in Nat /\ IsJob(job)
      BY DEF IInv, Submitted, Planned
    <3>2. job' = [todo |-> job.todo, evm |-> job.evm, miden |-> job.miden,
                  quote |-> q, asked |-> job.asked, window |-> w,
                  retried |-> job.retried, read |-> job.read,
                  priced |-> job.priced, broadcast |-> job.broadcast,
                  receipt |-> job.receipt]
      BY <1>1, <3>1 DEF IsJob
    <3>3. /\ q \in Quote \cup {None} /\ (q = None <=> job.quote = None)
          /\ job.quote # None => /\ q.honest = job.quote.honest
                                 /\ q.cost = job.quote.cost
                                 /\ TermsOf(q) = TermsOf(job.quote)
                                 /\ q.left = CountDown(job.quote.left)
                                 /\ job.quote.left \in Nat
      BY <3>1, OlderQuote, QuoteIsNone
    <3>4. w \in Nat /\ (w > 0 => job.window > 0 /\ w = job.window - 1)
          /\ (job.window = 0 => w = 0)
      BY <3>1 DEF CountDown
    <3> HIDE DEF q, w
    <3>5. /\ job'.todo = job.todo /\ job'.quote = q /\ job'.window = w
          /\ job'.evm = job.evm /\ job'.miden = job.miden
          /\ job'.asked = job.asked /\ IsJob(job)'
      BY <3>2 DEF IsJob
    <3>6. Planned(job.quote, job.window, job.todo)
      BY DEF IInv, Submitted
    <3>7. ASSUME job.quote # None, Authorized(job.quote) PROVE Authorized(q)
      BY <3>3, <3>7 DEF Authorized
    <3>8. ASSUME job.quote # None, w > 0, job.window + Headroom <= job.quote.left
          PROVE  w + Headroom <= q.left
      BY <3>1, <3>3, <3>4, <3>8, TimeAssumption DEF CountDown
    <3>9. ASSUME job.quote # None, CctpPlanned(job.quote, job.window, job.todo)
          PROVE  CctpPlanned(q, w, job.todo)
      BY <3>4, <3>7, <3>8, <3>9 DEF CctpPlanned
    <3>10. Planned(q, w, job.todo)
      BY <3>3, <3>4, <3>6, <3>7, <3>9 DEF Planned
    <3>11. Planned(job.quote, job.window, job.todo)'
      BY <1>1, <2>7, <2>9, <3>5, <3>10 DEF Planned, CctpPlanned
    <3> QED
      BY <2>5, <2>6, <3>3, <3>5, <3>11 DEF IInv, Submitted
  <2> QED
    BY <1>1, <1>2, <2>8, <2>10 DEF IInv, World
<1> QED
  BY <1>3, <1>4

LEMMA ChangeKeeps == ASSUME IInv, Change PROVE IInv'
<1>1. UNCHANGED <<route, offer, form, job>>
  BY DEF Change
<1>2. World'
  BY <1>1 DEF Change, IInv, World
<1> QED
  BY <1>1, <1>2 DEF IInv, Offered, Shown, Submitted, Planned, CctpPlanned,
                    Authorized, Request, Reviewed, IsJob

LEMMA QuoteAnswerKeeps == ASSUME IInv, QuoteAnswer PROVE IInv'
<1>1. UNCHANGED <<route, draft, evm, miden, form, job>>
  BY DEF QuoteAnswer, world
<1>2. offer' # None => offer' \in Quote /\ (route # "cctp" => offer'.honest)
  <2>1. SUFFICES ASSUME NEW quote \in
                   [amount: {draft}, evm: {evm}, miden: {miden},
                    cost: QuoteCosts(Requested),
                    honest: IF route = "cctp" THEN BOOLEAN ELSE {TRUE},
                    left: UNION {0..life : life \in Issued}]
                 PROVE  quote \in Quote /\ (route # "cctp" => quote.honest)
    BY DEF QuoteAnswer
  <2>2. evm \in Evm /\ miden \in Miden /\ draft \in Amount
    BY DEF QuoteAnswer, IInv, World
  <2>3. quote.cost \in Cost
    BY <2>2, QuotesCost DEF Requested
  <2>4. quote.left \in Nat
    BY TimeAssumption DEF Issued
  <2> QED
    BY <2>1, <2>2, <2>3, <2>4 DEF Quote
<1>3. Offered'
  BY <1>1, <1>2 DEF Offered
<1> QED
  BY <1>1, <1>3 DEF IInv, World, Shown, Submitted, Planned, CctpPlanned,
                    Authorized, Request, Reviewed, IsJob

(* The form freezes a transfer and the quote for it.                       *)
LEMMA FormKeeps == ASSUME IInv, FormStep PROVE IInv'
<1>1. CASE OpenReview
  <2>1. UNCHANGED <<route, draft, evm, miden, job>> /\ form.status = "editing"
    BY <1>1 DEF OpenReview, world
  <2>2. job.todo = <<>> /\ job.quote = None
    BY <2>1 DEF IInv, Submitted
  <2>3. Submitted'
    BY <2>1, <2>2 DEF IInv, Submitted, IsJob, Planned
  <2>4. CASE form' = Editing("failed") /\ UNCHANGED offer
    BY <2>1, <2>3, <2>4 DEF IInv, World, Offered, Shown, Form, Editing
  <2>5. CASE /\ Live # None /\ offer' = None
             /\ form' = [status |-> "reviewing", error |-> "",
                         review |-> [amount |-> draft, evm |-> evm,
                                     miden |-> miden, quote |-> Live]]
    <3>1. /\ Live = offer /\ Live \in Quote /\ TermsOf(Live) = Requested
          /\ route # "cctp" => Live.honest
      BY <2>5 DEF Live, IInv, Offered
    <3>2. draft \in Amount /\ evm \in Evm /\ miden \in Miden
      BY <3>1, QuoteIsNone DEF TermsOf, Requested
    <3> DEFINE r == [amount |-> draft, evm |-> evm, miden |-> miden, quote |-> Live]
    <3>3. r \in Review /\ TermsOf(r.quote) = [amount |-> r.amount, evm |-> r.evm,
                                              miden |-> r.miden]
      BY <3>1, <3>2 DEF Review, Requested
    <3>4. r.quote = Live
      OBVIOUS
    <3> HIDE DEF r
    <3>5. form' \in Form /\ Reviewed' = r
      BY <2>5, <3>3 DEF r, Form, Reviewed
    <3>6. Shown'
      BY <2>1, <3>1, <3>3, <3>4, <3>5 DEF Shown, Request
    <3> QED
      BY <2>1, <2>3, <2>5, <3>6 DEF IInv, World, Offered
  <2> QED
    BY <1>1, <2>4, <2>5 DEF OpenReview
<1>2. CASE CancelReview
  <2>1. /\ UNCHANGED <<route, draft, evm, miden, offer, job>>
        /\ form.status = "reviewing" /\ form' = Editing("")
    BY <1>2 DEF CancelReview, world
  <2>2. job.todo = <<>> /\ job.quote = None
    BY <2>1 DEF IInv, Submitted
  <2>3. Submitted'
    BY <2>1, <2>2 DEF IInv, Submitted, IsJob, Planned
  <2> QED
    BY <2>1, <2>3 DEF IInv, World, Offered, Shown, Form, Editing
<1>3. CASE ConfirmReview
  <2>1. UNCHANGED <<route, draft, evm, miden, offer>> /\ form.status = "reviewing"
    BY <1>3 DEF ConfirmReview, world
  <2>2. job.todo = <<>> /\ job.quote = None
    BY <2>1 DEF IInv, Submitted
  <2>3. CASE form' = Editing("failed") /\ UNCHANGED job
    <3>1. Submitted'
      BY <2>1, <2>2, <2>3 DEF IInv, Submitted, IsJob, Planned
    <3> QED
      BY <2>1, <2>3, <3>1 DEF IInv, World, Offered, Shown, Form, Editing
  <2>4. CASE ~(form' = Editing("failed") /\ UNCHANGED job)
    <3>1. PICK opening \in Opening :
            /\ ~WalletsChanged
            /\ form' = [form EXCEPT !.status = "submitting"]
            /\ job' = [NoJob EXCEPT !.todo = opening, !.evm = evm, !.miden = miden]
      BY <1>3, <2>4 DEF ConfirmReview
    <3>2. opening \in Seq(PreAwaits)
      <4>1. <<"load">> \in Seq(PreAwaits) /\ <<"open">> \in Seq(PreAwaits)
        BY DEF PreAwaits
      <4> QED
        BY <4>1 DEF Opening
    <3>3. /\ IsJob(job)' /\ job'.todo = opening /\ job'.quote = None
          /\ job'.asked = 0 /\ job'.window = 0
          /\ job'.evm = evm /\ job'.miden = miden
      BY <3>1 DEF NoJob, IsJob
    <3>4. /\ form' \in Form /\ form'.status = "submitting" /\ Reviewed' = Reviewed
          /\ evm = Reviewed.evm /\ miden = Reviewed.miden
      BY <3>1 DEF WalletsChanged, IInv, Shown, Form, Reviewed
    <3>5. Shown'
      BY <2>1, <3>4 DEF IInv, Shown, Request
    <3>6. Submitted'
      BY <3>2, <3>3, <3>4 DEF Submitted, Planned
    <3> QED
      BY <2>1, <3>5, <3>6 DEF IInv, World, Offered
  <2> QED
    BY <2>3, <2>4
<1> QED
  BY <1>1, <1>2, <1>3 DEF FormStep

-----------------------------------------------------------------------------
(* The steps of a submission.                                              *)
AtWork == IInv /\ job.todo # <<>>

(* The submission goes on as planned, with the quote it has.               *)
LEMMA AdvanceKeeps ==
  ASSUME AtWork, UNCHANGED <<route, draft, evm, miden, offer>>,
         Step # "authorize" \/ Authorized(job.quote), Step = "chain" => chain,
         NEW j, IsJob(j), j.evm = job.evm, j.miden = job.miden,
         j.quote = job.quote, j.window = job.window, j.todo = job.todo,
         Advance(j)
  PROVE  IInv' /\ StepRight
<1>1. Planned(job.quote, job.window, Tail(job.todo))
  BY TailPlanned DEF AtWork
<1>2. Continue(j, Tail(job.todo))
  BY DEF Advance
<1>3. ASSUME Tail(job.todo) # <<>>, Head(Tail(job.todo)) \in Validating
      PROVE  job.quote # None
  <2>1. SUFFICES ASSUME job.quote = None PROVE FALSE
    OBVIOUS
  <2>2. Tail(job.todo) \in Seq(PreAwaits)
    BY <1>1, <2>1 DEF Planned
  <2>3. Head(Tail(job.todo)) \in PreAwaits
    BY <1>3, <2>2, TailFacts
  <2> QED
    BY <1>3, <2>3 DEF PreAwaits, Validating
<1>4. /\ IInv' /\ form' = form /\ job'.quote = job.quote
      /\ job'.todo = Tail(job.todo)
  BY <1>1, <1>2, <1>3, ContinueKeeps DEF AtWork
<1>5. ASSUME Prompted
      PROVE  /\ Step' = "deposit" => chain
             /\ route # "cctp"
  <2>1. Tail(job.todo) # <<>> /\ Step' = Head(Tail(job.todo)) /\ Step' \in Prompts
    BY <1>4, <1>5 DEF Prompted, Prompts, Step
  <2>2. Step' \in {"deposit", "request", "epoch-deposit", "batch"}
    BY <2>1 DEF Prompts
  <2>3. job.quote # None
    <3>1. ASSUME job.quote = None PROVE Step' \in PreAwaits
      BY <1>1, <2>1, <3>1, TailFacts DEF Planned
    <3> QED
      BY <2>2, <3>1 DEF PreAwaits
  <2>4. ~CctpPlan(job.todo)
    <3>1. ASSUME CctpPlan(job.todo) PROVE Step' \in CctpAwaits
      BY <2>1, <3>1, TailKeepsPlan DEF AtWork
    <3> QED
      BY <2>2, <3>1 DEF CctpAwaits
  <2>5. ~LastAwaits(job.todo)
    <3>1. SUFFICES ASSUME LastAwaits(job.todo) PROVE Step' = "done"
      BY <2>2
    <3> DEFINE t == Tail(job.todo)
    <3>2. /\ Len(job.todo) \in Nat \ {0} /\ t \in Seq({"deposit", "done"})
          /\ Len(t) = Len(job.todo) - 1
          /\ \A i \in 1..Len(job.todo) - 1 : t[i] = job.todo[i + 1]
      BY <3>1, TailFacts DEF LastAwaits, AtWork
    <3>3. Len(t) \in Nat \ {0} /\ Head(t) = t[1]
      BY <2>1, <3>2, TailFacts
    <3> HIDE DEF t
    <3> DEFINE n == Len(job.todo)
    <3>4. 2 \in 2..n /\ t[1] = job.todo[2]
      <4>1. n \in Nat \ {0} /\ n - 1 \in Nat \ {0}
        BY <3>2, <3>3
      <4>2. \A i \in 1..n - 1 : t[i] = job.todo[i + 1]
        BY <3>2
      <4> HIDE DEF n
      <4>3. 1 \in 1..n - 1 /\ 1 + 1 = 2 /\ 2 \in 2..n
        BY <4>1
      <4>4. t[1] = job.todo[1 + 1]
        BY <4>2, <4>3
      <4> QED
        BY <4>3, <4>4
    <3> QED
      BY <2>1, <3>1, <3>3, <3>4 DEF LastAwaits, t
  <2>6. route # "cctp"
    BY <2>3, <2>4, <2>5 DEF AtWork, IInv, Submitted, Planned, CctpPlanned
  <2>7. OtherPlan(job.todo) /\ Step = Head(job.todo)
    BY <2>3, <2>6 DEF AtWork, IInv, Submitted, Planned, Step
  <2> QED
    BY <2>1, <2>6, <2>7, TailKeepsOther DEF AtWork
<1> QED
  BY <1>4, <1>5 DEF StepRight

LEMMA SharedKeeps == ASSUME AtWork, SharedStep PROVE IInv' /\ StepRight
<1>1. UNCHANGED <<route, draft, evm, miden, offer>>
  BY DEF SharedStep, PlainAnswer, SuggestEvmFees, EnsureEvmNetwork, AssertAccount,
         AssertChain, Finish, Rejected, Still, world
<1>2. CASE Finish \/ Rejected
  <2>1. PICK error \in {"", "failed", "submitted"} : Ended(error)
    BY <1>2 DEF Finish, Rejected, Succeed, Fail, ErrorText
  <2> QED
    BY <1>1, <2>1, EndedKeeps DEF AtWork
<1>3. CASE ~(Finish \/ Rejected)
  <2>1. Advance(job) /\ Step # "authorize" /\ (Step = "chain" => chain)
    BY <1>3 DEF SharedStep, PlainAnswer, Plain, SuggestEvmFees, EnsureEvmNetwork,
                AssertAccount, AssertChain
  <2> QED
    BY <1>1, <2>1, AdvanceKeeps DEF AtWork, IInv, Submitted
<1> QED
  BY <1>2, <1>3

(* The flow starts on the reviewed quote.                                  *)
LEMMA StartKeeps ==
  ASSUME AtWork, UNCHANGED <<route, draft, evm, miden, offer>>,
         job.quote = None, StartFlow
  PROVE  IInv' /\ StepRight
<1>1. CASE Fail
  BY <1>1, EndedKeeps DEF AtWork, Fail, ErrorText
<1>2. CASE ~Fail
  <2> DEFINE j == [job EXCEPT !.quote = Reviewed.quote, !.read = None, !.priced = {}]
  <2>1. PICK steps \in FlowSteps : Continue(j, steps)
    BY <1>2 DEF StartFlow
  <2>2. /\ IsJob(job) /\ job.window = 0 /\ QuoteHolds
        /\ Reviewed \in Review /\ TermsOf(Reviewed.quote) = Request
        /\ (route # "cctp" => Reviewed.quote.honest) /\ route \in Route
    BY <1>2 DEF AtWork, IInv, World, Shown, Submitted, Planned, StartFlow
  <2>3. Reviewed.quote \in Quote /\ Reviewed.quote # None /\ Reviewed.quote.cost \in Nat
    BY <2>2, QuoteIsNone DEF Review
  <2>4. /\ IsJob(j) /\ j.quote = Reviewed.quote /\ j.window = 0
        /\ j.evm = job.evm /\ j.miden = job.miden
    <3>1. PICK k : k = j
      OBVIOUS
    <3>2. /\ IsJob(k) /\ k.quote = Reviewed.quote /\ k.window = job.window
          /\ k.evm = job.evm /\ k.miden = job.miden
      BY <2>2, <3>1 DEF IsJob
    <3> HIDE DEF j
    <3> QED
      BY <2>2, <3>1, <3>2
  <2> HIDE DEF j
  <2>5. CASE route = "cctp"
    <3>1. CctpPlanned(j.quote, 0, steps)
      BY <2>5, DepositPlan DEF FlowSteps, CctpPlanned
    <3>2. Planned(j.quote, j.window, steps)
      BY <2>2, <2>3, <2>4, <2>5, <3>1 DEF Planned
    <3>3. IInv' /\ form' = form /\ job'.todo = steps
      BY <2>1, <2>3, <2>4, <3>2, ContinueKeeps DEF AtWork
    <3>4. ~Prompted
      <4>1. steps # <<>> => Head(steps) \in CctpAwaits
        BY <2>5, DepositPlan, TailKeepsPlan DEF FlowSteps
      <4> QED
        BY <3>3, <4>1 DEF Prompted, Prompts, Step, CctpAwaits
    <3> QED
      BY <2>2, <3>3, <3>4 DEF StepRight
  <2>6. CASE route # "cctp"
    <3>1. OtherPlan(steps) /\ steps[1] # "deposit"
      BY <2>2, <2>6, OtherFlows
    <3>2. Authorized(j.quote)
      BY <2>2, <2>3, <2>4, <2>6 DEF Authorized
    <3>3. Planned(j.quote, j.window, steps)
      BY <2>2, <2>3, <2>4, <2>6, <3>1, <3>2 DEF Planned
    <3>4. IInv' /\ form' = form /\ job'.todo = steps
      BY <2>1, <2>3, <2>4, <3>3, ContinueKeeps DEF AtWork
    <3>5. steps # <<>> => Head(steps) # "deposit"
      BY <3>1, TailFacts DEF OtherPlan
    <3>6. Prompted => Step' # "deposit"
      BY <3>4, <3>5 DEF Prompted, Prompts, Step
    <3> QED
      BY <2>2, <2>6, <3>4, <3>6 DEF StepRight
  <2> QED
    BY <2>5, <2>6
<1> QED
  BY <1>1, <1>2

LEMMA PreKeeps ==
  ASSUME AtWork,
         OpenEvmWallet \/ ProviderLoaded \/ FreshBalances \/ FreshPrices \/ Verdict
  PROVE  IInv' /\ StepRight
<1>1. UNCHANGED <<route, draft, evm, miden, offer>> /\ Step \in PreAwaits
  BY DEF OpenEvmWallet, ProviderLoaded, FreshBalances, FreshPrices, Verdict,
         Still, world, PreAwaits
<1>2. job.quote = None /\ IsJob(job) /\ job.window = 0
  <2>1. PreAwaits \cap (OtherAwaits \cup CctpAwaits \cup {"deposit", "done"}) = {}
    BY DEF PreAwaits, OtherAwaits, CctpAwaits
  <2>2. job.quote = None
    BY <1>1, <2>1, StepTells DEF AtWork
  <2> QED
    BY <2>2 DEF AtWork, IInv, Submitted, Planned
<1>3. CASE OpenEvmWallet
  BY <1>1, <1>3, EndedKeeps DEF AtWork, OpenEvmWallet, Succeed
<1>4. CASE StartFlow
  BY <1>1, <1>2, <1>4, StartKeeps
<1>5. CASE Fail
  BY <1>1, <1>5, EndedKeeps DEF AtWork, Fail, ErrorText
<1>6. CASE FreshBalances \/ FreshPrices
  <2>1. PICK read, priced : Advance([job EXCEPT !.read = read])
                            \/ Advance([job EXCEPT !.priced = priced])
    BY <1>6 DEF FreshBalances, FreshPrices
  <2>2. Step # "authorize" /\ Step # "chain"
    BY <1>6 DEF FreshBalances, FreshPrices
  <2>3. CASE Advance([job EXCEPT !.read = read])
    <3> DEFINE j == [job EXCEPT !.read = read]
    <3>1. IsJob(j) /\ j.evm = job.evm /\ j.miden = job.miden
          /\ j.quote = job.quote /\ j.window = job.window /\ j.todo = job.todo
      BY <1>2 DEF IsJob
    <3> HIDE DEF j
    <3> QED
      BY <1>1, <2>2, <2>3, <3>1, AdvanceKeeps DEF j
  <2>4. CASE Advance([job EXCEPT !.priced = priced])
    <3> DEFINE j == [job EXCEPT !.priced = priced]
    <3>1. IsJob(j) /\ j.evm = job.evm /\ j.miden = job.miden
          /\ j.quote = job.quote /\ j.window = job.window /\ j.todo = job.todo
      BY <1>2 DEF IsJob
    <3> HIDE DEF j
    <3> QED
      BY <1>1, <2>2, <2>4, <3>1, AdvanceKeeps DEF j
  <2> QED
    BY <2>1, <2>3, <2>4
<1>7. CASE ProviderLoaded /\ Continue(job, <<"balances", "prices", "verdict">>)
  <2> DEFINE todo == <<"balances", "prices", "verdict">>
  <2>1. todo \in Seq(PreAwaits) /\ Head(todo) = "balances"
    BY DEF PreAwaits
  <2> HIDE DEF todo
  <2>2. Planned(job.quote, job.window, todo)
    BY <1>2, <2>1 DEF Planned
  <2>3. ~(Head(todo) \in Validating)
    BY <2>1 DEF Validating
  <2>4. IInv' /\ form' = form /\ job'.todo = todo /\ job'.quote = None
    BY <1>1, <1>2, <1>7, <2>2, <2>3, ContinueKeeps DEF AtWork, todo
  <2> QED
    BY <2>1, <2>4 DEF StepRight, Prompted, Prompts, Step
<1> QED
  BY <1>3, <1>4, <1>5, <1>6, <1>7 DEF ProviderLoaded, Verdict

(* The steps of the other flows.                                           *)
LEMMA OtherFlowKeeps ==
  ASSUME AtWork,
         \/ DepositBroadcast \/ RequestNote \/ NoteConfirmed \/ EpochConnection
         \/ ApprovalAccepted \/ EpochDepositAccepted \/ BatchAccepted
         \/ BundleRegistered \/ DepositSettled \/ Allocated
  PROVE  IInv' /\ StepRight
<1>1. /\ UNCHANGED <<route, draft, evm, miden, offer>>
      /\ Step # "authorize" /\ Step # "chain"
  BY DEF DepositBroadcast, RequestNote, NoteConfirmed, EpochConnection,
         ApprovalAccepted, EpochDepositAccepted, BatchAccepted, BundleRegistered,
         DepositSettled, Allocated, Still, world
<1>2. IsJob(job)
  BY DEF AtWork, IInv, Submitted
<1>3. PICK b, receipt : Advance([job EXCEPT !.broadcast = b, !.receipt = receipt])
  <2>1. /\ job = [job EXCEPT !.broadcast = job.broadcast, !.receipt = job.receipt]
        /\ \A r : [job EXCEPT !.receipt = r] =
                   [job EXCEPT !.broadcast = job.broadcast, !.receipt = r]
        /\ \A b : [job EXCEPT !.broadcast = b] =
                   [job EXCEPT !.broadcast = b, !.receipt = job.receipt]
    BY <1>2 DEF IsJob
  <2>2. CASE EpochConnection \/ ApprovalAccepted
    <3>1. Advance(job)
      BY <2>2 DEF EpochConnection, ApprovalAccepted
    <3>2. Advance([job EXCEPT !.broadcast = job.broadcast, !.receipt = job.receipt])
      BY <2>1, <3>1
    <3> QED
      BY <3>2
  <2>3. CASE NoteConfirmed \/ BundleRegistered \/ DepositSettled \/ Allocated
    BY <2>1, <2>3 DEF NoteConfirmed, BundleRegistered, DepositSettled, Allocated
  <2>4. CASE BatchAccepted
    <3>1. Advance([job EXCEPT !.broadcast = job.broadcast + 1])
      BY <2>4 DEF BatchAccepted
    <3>2. Advance([job EXCEPT !.broadcast = job.broadcast + 1, !.receipt = job.receipt])
      BY <2>1, <3>1
    <3> QED
      BY <3>2
  <2>5. CASE DepositBroadcast \/ RequestNote \/ EpochDepositAccepted
    BY <2>5 DEF DepositBroadcast, RequestNote, EpochDepositAccepted, AfterPublish,
                Broadcast
  <2> QED
    BY <2>2, <2>3, <2>4, <2>5
<1> DEFINE j == [job EXCEPT !.broadcast = b, !.receipt = receipt]
<1>4. /\ IsJob(j) /\ j.evm = job.evm /\ j.miden = job.miden
      /\ j.quote = job.quote /\ j.window = job.window /\ j.todo = job.todo
  <2>1. PICK k : k = j
    OBVIOUS
  <2>2. /\ IsJob(k) /\ k.evm = job.evm /\ k.miden = job.miden
        /\ k.quote = job.quote /\ k.window = job.window /\ k.todo = job.todo
    BY <1>2, <2>1 DEF IsJob
  <2> HIDE DEF j
  <2> QED
    BY <2>1, <2>2
<1> HIDE DEF j
<1> QED
  BY <1>1, <1>3, <1>4, AdvanceKeeps DEF j

(* A fresh estimate is no worse than the reviewed one.                     *)
LEMMA FreshKeeps ==
  ASSUME AtWork, FreshWithdrawalQuote \/ FreshEpochQuote PROVE IInv' /\ StepRight
<1>1. /\ UNCHANGED <<route, draft, evm, miden, offer>>
      /\ Step = "fresh" /\ route # "cctp"
  BY DEF FreshWithdrawalQuote, FreshEpochQuote, Still, world
<1>2. job.quote # None /\ IsJob(job) /\ Planned(job.quote, job.window, Tail(job.todo))
  <2>1. "fresh" \notin PreAwaits
    BY DEF PreAwaits
  <2> QED
    BY <1>1, <2>1, StepTells, TailPlanned DEF AtWork, IInv, Submitted
<1>3. /\ job.quote \in Quote /\ job.quote.honest /\ TermsOf(job.quote) = Request
      /\ Reviewed \in Review /\ Reviewed.quote \in Quote /\ Request.amount = Reviewed.amount
  BY <1>1, <1>2 DEF AtWork, IInv, Submitted, Shown, Planned, Authorized, Review, Request
<1>4. PICK cost \in Cost :
        /\ cost <= Reviewed.quote.cost
        /\ Advance([job EXCEPT !.quote = [@ EXCEPT !.cost = cost]])
  <2>1. CASE FreshWithdrawalQuote
    <3>1. WithdrawalFees(Request) \subseteq Cost
      BY DEF WithdrawalFees, WithdrawalReplies
    <3> QED
      BY <2>1, <3>1 DEF FreshWithdrawalQuote, WithinReviewed
  <2>2. CASE FreshEpochQuote
    <3>1. PICK cost \in EpochShortfalls(Request, ReviewedMinTokenOut) :
            Advance([job EXCEPT !.quote = [@ EXCEPT !.cost = cost]])
      BY <2>2 DEF FreshEpochQuote
    <3>2. PICK out \in TokenOut(Request) :
            cost = Request.amount - out /\ RequireEstimate(out, ReviewedMinTokenOut)
      BY DEF EpochShortfalls
    <3>3. out > 0 /\ out >= Reviewed.amount - Reviewed.quote.cost
      BY <3>2 DEF RequireEstimate, ReviewedMinTokenOut
    <3>4. /\ Reviewed.amount \in Nat /\ Reviewed.quote.cost \in Nat
          /\ Request.amount = Reviewed.amount
      BY <1>3, QuoteIsNone DEF Review
    <3>5. PICK c \in Cost : out = Request.amount - c
      BY <3>2, <3>3 DEF TokenOut
    <3>6. cost = c /\ cost <= Reviewed.quote.cost
      BY <3>2, <3>3, <3>4, <3>5, QuoteIsNone
    <3> QED
      BY <3>1, <3>5, <3>6
  <2> QED
    BY <2>1, <2>2
<1> DEFINE q == [job.quote EXCEPT !.cost = cost]
           j == [job EXCEPT !.quote = q]
<1>5. /\ q \in Quote /\ q.honest /\ q.cost = cost /\ TermsOf(q) = Request
      /\ q # None
  <2>1. /\ q \in Quote /\ q.honest /\ q.cost = cost
        /\ q.amount = job.quote.amount /\ q.evm = job.quote.evm
        /\ q.miden = job.quote.miden
    BY <1>3 DEF Quote
  <2> QED
    BY <1>3, <2>1, QuoteIsNone DEF TermsOf
<1> HIDE DEF q
<1>6. /\ IsJob(j) /\ j.evm = job.evm /\ j.miden = job.miden
      /\ j.quote = q /\ j.window = job.window /\ j.todo = job.todo
  BY <1>2 DEF IsJob
<1>7. Continue(j, Tail(job.todo))
  BY <1>4, <1>6 DEF Advance, j, q
<1> HIDE DEF j
<1>8. Planned(q, job.window, Tail(job.todo))
  BY <1>1, <1>2, <1>4, <1>5 DEF Planned, Authorized
<1>9. IInv' /\ form' = form /\ job'.todo = Tail(job.todo)
  BY <1>1, <1>5, <1>6, <1>7, <1>8, ContinueKeeps DEF AtWork
<1>10. Tail(job.todo) # <<>> => Head(Tail(job.todo)) # "deposit"
  <2>1. OtherPlan(job.todo) /\ Step = Head(job.todo)
    BY <1>1, <1>2 DEF AtWork, IInv, Submitted, Planned, Step
  <2> QED
    BY <1>1, <2>1, TailKeepsOther DEF AtWork
<1>11. Prompted => Step' # "deposit"
  BY <1>9, <1>10 DEF Prompted, Prompts, Step
<1> QED
  BY <1>1, <1>2, <1>9, <1>11 DEF StepRight

(* The SDK's plan, and its one resubmission.                               *)
LEMMA SolveKeeps == ASSUME AtWork, Solve \/ WalletError PROVE IInv' /\ StepRight
<1>1. /\ UNCHANGED <<route, draft, evm, miden, offer>>
      /\ Step \in {"solve", "epoch-approval", "epoch-deposit", "batch"}
  BY DEF Solve, WalletError, Still, world
<1>2. job.quote # None /\ route # "cctp" /\ IsJob(job)
  <2>1. {"solve", "epoch-approval", "epoch-deposit", "batch"}
          \cap (PreAwaits \cup CctpAwaits \cup {"deposit", "done"}) = {}
    BY DEF PreAwaits, CctpAwaits
  <2> QED
    BY <1>1, <2>1, StepTells DEF AtWork, IInv, Submitted
<1>3. PICK plan \in {InBatch, InTurn(<<>>), InTurn(<<"epoch-approval">>)},
           retried \in {job.retried, TRUE} :
        Continue([job EXCEPT !.retried = retried], plan)
  <2>1. job = [job EXCEPT !.retried = job.retried]
    BY <1>2 DEF IsJob
  <2>2. CASE Solve
    <3>1. PICK plan \in {InBatch, InTurn(<<>>), InTurn(<<"epoch-approval">>)} :
            Continue(job, plan)
      BY <2>2 DEF Solve
    <3>2. Continue([job EXCEPT !.retried = job.retried], plan)
      BY <2>1, <3>1
    <3> QED
      BY <3>2
  <2>3. CASE WalletError
    BY <2>3 DEF WalletError, Resubmit
  <2> QED
    BY <2>2, <2>3
<1> DEFINE j == [job EXCEPT !.retried = retried]
<1>4. /\ IsJob(j) /\ j.evm = job.evm /\ j.miden = job.miden
      /\ j.quote = job.quote /\ j.window = job.window
  BY <1>2 DEF IsJob
<1> HIDE DEF j
<1>5. Planned(job.quote, job.window, plan)
  BY <1>2, EpochPlans DEF AtWork, IInv, Submitted, Planned
<1>6. IInv' /\ form' = form /\ job'.todo = plan
  BY <1>1, <1>2, <1>3, <1>4, <1>5, ContinueKeeps DEF AtWork, j
<1>7. plan # <<>> => Head(plan) # "deposit"
  BY EpochPlans, TailFacts DEF OtherPlan
<1>8. Prompted => Step' # "deposit"
  BY <1>6, <1>7 DEF Prompted, Prompts, Step
<1> QED
  BY <1>1, <1>2, <1>6, <1>8 DEF StepRight

-----------------------------------------------------------------------------
(* Circle's deposit.                                                       *)
CctpSteps == {"quote", "authorize", "validate", "window", "simulate", "prepare",
              "expired", "burn"}

LEMMA CctpTells ==
  ASSUME AtWork, Step \in CctpSteps
  PROVE  /\ route = "cctp" /\ IsJob(job) /\ job.asked \in Nat
         /\ job.quote \in Quote /\ job.quote # None /\ TermsOf(job.quote) = Request
         /\ job.quote.left \in Nat
         /\ CctpPlan(job.todo) /\ CctpPlan(Tail(job.todo))
         /\ Step \notin {"account", "burn"} => job.window = 0
         /\ job.window > 0 => job.window + Headroom <= job.quote.left
         /\ Authorized(job.quote) \/ Pending(job.todo, "authorize")
         /\ Step = "quote" => Pending(Tail(job.todo), "authorize")
         /\ Step \in {"burn", "simulate"} => Authorized(job.quote)
         /\ \A i \in 1..Len(Tail(job.todo)) : Tail(job.todo)[i] # "quote"
<1>1. CctpSteps \cap (PreAwaits \cup OtherAwaits \cup {"deposit", "done"}) = {}
  BY DEF CctpSteps, PreAwaits, OtherAwaits
<1>2. /\ route = "cctp" /\ job.quote # None /\ CctpPlan(job.todo)
      /\ ~LastAwaits(job.todo) /\ Step = Head(job.todo)
  BY <1>1, StepTells DEF AtWork
<1>3. /\ IsJob(job) /\ job.asked \in Nat /\ job.window \in Nat
      /\ job.quote \in Quote /\ TermsOf(job.quote) = Request
      /\ CctpPlanned(job.quote, job.window, job.todo)
  BY <1>2 DEF AtWork, IInv, Submitted, Planned
<1>4. /\ Authorized(job.quote) \/ Pending(job.todo, "authorize")
      /\ Step = "quote" => Pending(job.todo, "authorize")
      /\ job.window > 0 => /\ job.todo \in Seq({"account", "burn"})
                           /\ job.window + Headroom <= job.quote.left
  BY <1>2, <1>3 DEF CctpPlanned, AtWork
<1>5. Step \notin {"account", "burn"} => job.window = 0
  <2>1. job.window > 0 => Step \in {"account", "burn"}
    BY <1>2, <1>4, TailFacts DEF AtWork
  <2> QED
    BY <1>3, <2>1
<1>6. CctpPlan(Tail(job.todo))
  BY <1>2, TailKeepsPlan DEF AtWork
<1>7. Step = "quote" => Pending(Tail(job.todo), "authorize")
  BY <1>2, <1>4, TailKeepsPlan DEF AtWork
<1>8. Step \in {"burn", "simulate"} => Authorized(job.quote)
  BY <1>2, <1>4, TailKeepsPlan DEF AtWork
<1>9. ASSUME NEW i \in 1..Len(Tail(job.todo)) PROVE Tail(job.todo)[i] # "quote"
  <2> DEFINE t == Tail(job.todo)
             n == Len(job.todo)
  <2>1. /\ n \in Nat \ {0} /\ Len(t) = n - 1
        /\ \A k \in 1..n - 1 : t[k] = job.todo[k + 1]
    BY <1>2, TailFacts DEF AtWork, CctpPlan
  <2>2. \A k \in 2..n : job.todo[k] # "quote"
    BY <1>2 DEF CctpPlan
  <2>3. i \in 1..Len(t)
    OBVIOUS
  <2> HIDE DEF t, n
  <2>4. i \in 1..n - 1 /\ i + 1 \in 2..n
    BY <2>1, <2>3
  <2>5. t[i] # "quote"
    BY <2>1, <2>2, <2>4
  <2> QED
    BY <2>5 DEF t
<1>10. job.quote.left \in Nat
  BY <1>3, QuoteIsNone
<1> QED
  BY <1>2, <1>3, <1>4, <1>5, <1>6, <1>7, <1>8, <1>9, <1>10

(* It goes on with awaits up to its prompt.                                *)
LEMMA CctpGoesOn ==
  ASSUME AtWork, Step \in CctpSteps,
         UNCHANGED <<route, draft, evm, miden, offer>>,
         NEW j, NEW todo, IsJob(j), j.evm = job.evm, j.miden = job.miden,
         j.quote \in Quote, TermsOf(j.quote) = Request, j.window \in Nat,
         CctpPlan(todo), CctpPlanned(j.quote, j.window, todo),
         Continue(j, todo)
  PROVE  IInv' /\ StepRight
<1>1. route = "cctp" /\ job.quote # None /\ j.quote # None
  BY CctpTells, QuoteIsNone
<1>2. Planned(j.quote, j.window, todo)
  BY <1>1 DEF Planned
<1>3. IInv' /\ form' = form /\ job'.todo = todo
  BY <1>1, <1>2, ContinueKeeps DEF AtWork
<1>4. ~Prompted
  <2>1. todo # <<>> => Head(todo) \in CctpAwaits
    BY TailKeepsPlan
  <2> QED
    BY <1>3, <2>1 DEF Prompted, Prompts, Step, CctpAwaits
<1> QED
  BY <1>1, <1>3, <1>4 DEF StepRight

(* The window is counted from before the request.                          *)
LEMMA DeadlineFacts ==
  ASSUME job.asked \in Nat, job.quote.left \in Nat, NEW v \in Validations
  PROVE  /\ SubmissionDeadline(v) \in Nat
         /\ SubmissionDeadline(v) > 0 =>
              SubmissionDeadline(v) + Headroom <= job.quote.left
<1>1. PICK left \in job.quote.left..job.asked : v \in Validation(left)
  BY DEF Validations
<1>2. v.left = left
  BY <1>1 DEF Validation
<1> DEFINE remaining == v.left - (job.asked - job.quote.left)
<1>3. remaining \in Int /\ remaining <= job.quote.left /\ Headroom \in Nat
  BY <1>1, <1>2, TimeAssumption
<1>4. SubmissionDeadline(v) = IF v.claimable /\ remaining > Headroom
                              THEN remaining - Headroom ELSE 0
  BY DEF SubmissionDeadline, Window
<1> HIDE DEF remaining
<1> QED
  BY <1>3, <1>4

LEMMA CctpKeeps == ASSUME AtWork, CctpStep PROVE IInv' /\ StepRight
<1> DEFINE rest == Tail(job.todo)
<1>1. /\ UNCHANGED <<route, draft, evm, miden, offer>>
      /\ Step \in CctpSteps
  BY DEF CctpStep, FetchCctpQuote, Authorize, ReuseOrRefresh, RefreshedWindow,
         Simulate, PreparedBurn, ExpiredBurn, SubmitBurn, Still, world, CctpSteps
<1>2. /\ route = "cctp" /\ IsJob(job) /\ job.asked \in Nat
      /\ job.quote \in Quote /\ job.quote # None /\ TermsOf(job.quote) = Request
      /\ job.quote.left \in Nat
      /\ CctpPlan(job.todo) /\ CctpPlan(rest)
      /\ Step \notin {"account", "burn"} => job.window = 0
      /\ job.window > 0 => job.window + Headroom <= job.quote.left
      /\ Step = "quote" => Pending(rest, "authorize")
      /\ Step \in {"burn", "simulate"} => Authorized(job.quote)
      /\ \A i \in 1..Len(rest) : rest[i] # "quote"
  BY <1>1, CctpTells
<1>3. Step = Head(job.todo) /\ job.todo # <<>>
  BY DEF AtWork, Step
<1>4. rest # <<>> => Head(rest) # "quote"
  <2>1. rest \in Seq(CctpAwaits)
    BY <1>2 DEF CctpPlan
  <2> HIDE DEF rest
  <2>2. rest # <<>> => 1 \in 1..Len(rest) /\ Head(rest) = rest[1]
    BY <2>1, TailFacts
  <2> QED
    BY <1>2, <2>2
<1>5. ASSUME Step # "authorize" \/ Authorized(job.quote), Advance(job)
      PROVE  IInv' /\ StepRight
  <2>1. Step # "chain"
    BY <1>1 DEF CctpSteps
  <2> QED
    BY <1>1, <1>2, <1>5, <2>1, AdvanceKeeps
<1>6. CASE FetchCctpQuote
  <2>1. PICK quote \in [amount: Amount, evm: {Reviewed.evm}, miden: Miden,
                        cost: CctpFees(Request), honest: BOOLEAN,
                        left: CircleLifetime] :
          AssertCctpQuoteMatches(quote) /\ Advance([job EXCEPT !.quote = quote])
    BY <1>6 DEF FetchCctpQuote
  <2>2. /\ Reviewed.evm \in Evm /\ CctpFees(Request) \subseteq Cost
        /\ CircleLifetime \subseteq Nat
    <3>1. Reviewed \in Review
      BY <1>2, <1>3 DEF AtWork, IInv, Submitted, Shown
    <3> QED
      BY <3>1, TimeAssumption DEF Review, CctpFees, CctpReplies
  <2>3. quote \in Quote /\ TermsOf(quote) = Request
    BY <2>1, <2>2 DEF Quote, AssertCctpQuoteMatches
  <2> DEFINE j == [job EXCEPT !.quote = quote]
  <2>4. /\ IsJob(j) /\ j.evm = job.evm /\ j.miden = job.miden
        /\ j.quote = quote /\ j.window = job.window /\ j.todo = job.todo
    BY <1>2 DEF IsJob
  <2>5. Advance(j) /\ Step = "quote"
    BY <1>6, <2>1 DEF FetchCctpQuote
  <2> HIDE DEF j
  <2>6. Continue(j, rest) /\ j.window = 0
    BY <1>2, <2>4, <2>5 DEF Advance
  <2>7. CctpPlanned(j.quote, j.window, rest)
    BY <1>2, <2>5, <2>6 DEF CctpPlanned
  <2> QED
    BY <1>1, <1>2, <2>3, <2>4, <2>6, <2>7, CctpGoesOn
<1>7. CASE Authorize
  BY <1>5, <1>7 DEF Authorize, VerifyAuthorization, Authorized
<1>8. CASE ReuseOrRefresh
  <2>1. CASE Advance(job)
    BY <1>5, <1>8, <2>1 DEF ReuseOrRefresh
  <2>2. CASE Continue(job, RefreshSteps \o rest)
    <3> DEFINE todo == RefreshSteps \o rest
    <3>1. CctpPlan(todo) /\ Pending(todo, "authorize")
      BY <1>2, RefreshKeepsPlan
    <3>2. job.window = 0
      BY <1>2, <1>8 DEF ReuseOrRefresh
    <3> HIDE DEF todo
    <3>3. CctpPlanned(job.quote, job.window, todo)
      BY <3>1, <3>2 DEF CctpPlanned
    <3>4. Continue(job, todo)
      BY <2>2 DEF todo
    <3> QED
      BY <1>1, <1>2, <3>1, <3>2, <3>3, <3>4, CctpGoesOn
  <2> QED
    BY <1>8, <2>1, <2>2 DEF ReuseOrRefresh
<1>9. CASE RefreshedWindow
  BY <1>5, <1>9 DEF RefreshedWindow
<1>10. CASE Simulate
  <2>1. CASE Advance(job)
    BY <1>5, <1>10, <2>1 DEF Simulate
  <2>2. CASE Continue(job, <<"expired">> \o SubSeq(job.todo, 4, Len(job.todo)))
    <3> DEFINE todo == <<"expired">> \o SubSeq(job.todo, 4, Len(job.todo))
    <3>1. Step = "simulate" /\ job.window = 0 /\ Authorized(job.quote)
      BY <1>2, <1>10 DEF Simulate
    <3>2. CctpPlan(todo)
      BY <1>2, <1>3, <3>1, ExpiredPlan
    <3>3. todo # <<>> => Head(todo) # "quote"
      <4>1. /\ <<"expired">> \in Seq(CctpAwaits) /\ Len(<<"expired">>) # 0
            /\ <<"expired">>[1] = "expired"
        BY DEF CctpAwaits
      <4>2. SubSeq(job.todo, 4, Len(job.todo)) \in Seq(CctpAwaits)
        <5>1. job.todo \in Seq(CctpAwaits) /\ Len(job.todo) \in Nat \ {0}
          BY <1>2, <1>3, TailFacts DEF CctpPlan
        <5>2. \A i \in 4..Len(job.todo) : job.todo[i] \in CctpAwaits
          BY <5>1, ElementOfSeq
        <5> QED
          BY <5>1, <5>2, SubSeqProperties
      <4>3. todo[1] = "expired"
        BY <4>1, <4>2, ConcatFirst
      <4> HIDE DEF todo
      <4> QED
        BY <3>2, <4>3, TailFacts DEF CctpPlan
    <3> HIDE DEF todo
    <3>4. CctpPlanned(job.quote, job.window, todo)
      BY <3>1, <3>2, <3>3 DEF CctpPlanned
    <3>5. Continue(job, todo)
      BY <2>2 DEF todo
    <3> QED
      BY <1>1, <1>2, <3>1, <3>2, <3>4, <3>5, CctpGoesOn
  <2> QED
    BY <1>10, <2>1, <2>2 DEF Simulate
<1>11. CASE PreparedBurn
  <2>1. PICK v \in Validations :
          Advance([job EXCEPT !.window = SubmissionDeadline(v)])
    BY <1>11 DEF PreparedBurn
  <2> DEFINE w == SubmissionDeadline(v)
             j == [job EXCEPT !.window = w]
  <2>2. w \in Nat /\ (w > 0 => w + Headroom <= job.quote.left)
    BY <1>2, DeadlineFacts
  <2> HIDE DEF w
  <2>3. /\ IsJob(j) /\ j.evm = job.evm /\ j.miden = job.miden
        /\ j.quote = job.quote /\ j.window = w /\ j.todo = job.todo
    BY <1>2 DEF IsJob
  <2>4. Advance(j)
    BY <2>1 DEF w
  <2> HIDE DEF j
  <2>5. Step = "prepare" /\ Continue(j, rest)
    BY <1>11, <2>3, <2>4 DEF Advance, PreparedBurn
  <2>6. /\ rest \in Seq({"account", "burn"})
        /\ Authorized(job.quote) \/ Pending(rest, "authorize")
    BY <1>1, <1>2, <1>3, <2>5, TailKeepsPlan, CctpTells
  <2>7. CctpPlanned(j.quote, j.window, rest)
    BY <1>2, <1>4, <2>2, <2>3, <2>6 DEF CctpPlanned
  <2> QED
    BY <1>1, <1>2, <2>2, <2>3, <2>5, <2>7, CctpGoesOn
<1>12. CASE ExpiredBurn
  <2> DEFINE j == [job EXCEPT !.window = 0]
  <2>1. Step = "expired" /\ Advance(j)
    BY <1>12 DEF ExpiredBurn
  <2>2. /\ IsJob(j) /\ j.evm = job.evm /\ j.miden = job.miden
        /\ j.quote = job.quote /\ j.window = job.window /\ j.todo = job.todo
    BY <1>2, <2>1 DEF IsJob
  <2> HIDE DEF j
  <2>3. Step # "chain" /\ Step # "authorize"
    BY <2>1
  <2> QED
    BY <1>1, <2>1, <2>2, <2>3, AdvanceKeeps
<1>13. CASE SubmitBurn
  <2>1. /\ Step = "burn" /\ chain /\ Authorized(job.quote)
        /\ BurnOrRetry(HasSubmissionWindow(job.window))
    BY <1>2, <1>13 DEF SubmitBurn
  <2>2. CASE Fail
    BY <1>1, <2>2, EndedKeeps DEF AtWork, Fail, ErrorText
  <2>3. CASE job.window > 0 /\ Continue([job EXCEPT !.window = 0], <<"deposit", "done">>)
    <3> DEFINE j == [job EXCEPT !.window = 0]
               todo == <<"deposit", "done">>
    <3>1. /\ IsJob(j) /\ j.evm = job.evm /\ j.miden = job.miden
          /\ j.quote = job.quote /\ j.window = 0
      BY <1>2 DEF IsJob
    <3>2. LastAwaits(todo) /\ Head(todo) \notin Validating
      BY DEF LastAwaits, Validating
    <3>3. Continue(j, todo)
      BY <2>3
    <3> HIDE DEF j, todo
    <3>4. Planned(j.quote, j.window, todo)
      BY <1>2, <2>1, <3>1, <3>2 DEF Planned, CctpPlanned
    <3>5. IInv' /\ form' = form /\ job'.quote = job.quote
      BY <1>1, <3>1, <3>2, <3>3, <3>4, ContinueKeeps DEF AtWork
    <3> QED
      BY <1>1, <1>2, <2>1, <2>3, <3>5 DEF StepRight
  <2>4. CASE Continue([job EXCEPT !.window = 0, !.retried = TRUE],
                      RefreshSteps \o BurnSteps)
    <3> DEFINE j == [job EXCEPT !.window = 0, !.retried = TRUE]
               todo == RefreshSteps \o BurnSteps
    <3>1. PICK k : k = j
      OBVIOUS
    <3>2. /\ IsJob(k) /\ k.evm = job.evm /\ k.miden = job.miden
          /\ k.quote = job.quote /\ k.window = 0
      BY <1>2, <3>1 DEF IsJob
    <3>3. CctpPlan(todo) /\ Pending(todo, "authorize")
      BY BurnPlan, RefreshKeepsPlan
    <3>4. Continue(k, todo)
      BY <2>4, <3>1
    <3> HIDE DEF j, todo
    <3>5. CctpPlanned(k.quote, k.window, todo)
      BY <3>2, <3>3 DEF CctpPlanned
    <3> QED
      BY <1>1, <1>2, <3>2, <3>3, <3>4, <3>5, CctpGoesOn
  <2> QED
    BY <2>1, <2>2, <2>3, <2>4 DEF BurnOrRetry, HasSubmissionWindow
<1> QED
  BY <1>6, <1>7, <1>8, <1>9, <1>10, <1>11, <1>12, <1>13 DEF CctpStep

-----------------------------------------------------------------------------
LEMMA InitHolds == Init => IInv
<1> SUFFICES ASSUME Init PROVE IInv
  OBVIOUS
<1>1. World /\ Offered /\ Shown
  BY DEF Init, World, Offered, Shown, Editing, Form
<1>2. Submitted
  BY NoJobPlanned DEF Init, Submitted
<1> QED
  BY <1>1, <1>2 DEF IInv

(* Beside the submission nothing is asked of a wallet.                     *)
LEMMA BesideIsRight ==
  ASSUME IInv, Tick \/ Change \/ QuoteAnswer \/ FormStep PROVE StepRight
<1>1. CASE Tick
  <2>1. job.quote \in Quote \cup {None} /\ IsJob(job)
    BY DEF IInv, Submitted, Planned
  <2>2. job' = [job EXCEPT !.quote = Older(@), !.window = CountDown(@)]
    BY <1>1 DEF Tick
  <2>3. job'.todo = job.todo /\ job'.quote = Older(job.quote)
    BY <2>1, <2>2 DEF IsJob
  <2> QED
    BY <2>1, <2>3, OlderQuote DEF StepRight, Prompted
<1>2. CASE Change \/ QuoteAnswer
  BY <1>2 DEF Change, QuoteAnswer, StepRight, Prompted
<1>3. CASE FormStep
  <2>1. CASE UNCHANGED job
    BY <2>1 DEF StepRight, Prompted
  <2>2. CASE ~UNCHANGED job
    <3>1. PICK opening \in Opening :
            job' = [NoJob EXCEPT !.todo = opening, !.evm = evm, !.miden = miden]
      BY <1>3, <2>2 DEF FormStep, OpenReview, CancelReview, ConfirmReview
    <3>2. job'.todo = opening /\ job'.quote = None
      BY <3>1 DEF NoJob
    <3>3. Head(opening) \in {"load", "open"}
      BY DEF Opening
    <3> QED
      BY <3>2, <3>3 DEF StepRight, Prompted, Prompts, Step
  <2> QED
    BY <2>1, <2>2
<1> QED
  BY <1>1, <1>2, <1>3

LEMMA SubmissionAtWork == ASSUME IInv, SubmissionStep PROVE AtWork
BY DEF AtWork, Step, SubmissionStep, OpenEvmWallet, ProviderLoaded,
   FreshBalances, FreshPrices, Verdict, FlowStep, SharedStep, PlainAnswer, Plain,
   SuggestEvmFees, EnsureEvmNetwork, AssertAccount, AssertChain, Finish, Rejected,
   CctpStep, FetchCctpQuote, Authorize, ReuseOrRefresh, RefreshedWindow, Simulate,
   PreparedBurn, ExpiredBurn, SubmitBurn, DepositBroadcast, FreshWithdrawalQuote,
   FreshEpochQuote, RequestNote, NoteConfirmed, EpochConnection, Solve,
   ApprovalAccepted, WalletError, EpochDepositAccepted, BatchAccepted,
   BundleRegistered, DepositSettled, Allocated

LEMMA NextHolds == IInv /\ [Next]_vars => IInv' /\ StepRight
<1> SUFFICES ASSUME IInv, [Next]_vars PROVE IInv' /\ StepRight
  OBVIOUS
<1>1. CASE UNCHANGED vars
  BY <1>1 DEF vars, world, IInv, World, Offered, Shown, Submitted, Planned,
              CctpPlanned, Authorized, Request, Reviewed, IsJob, StepRight, Prompted
<1>2. CASE Tick \/ Change \/ QuoteAnswer \/ FormStep
  BY <1>2, TickKeeps, ChangeKeeps, QuoteAnswerKeeps, FormKeeps, BesideIsRight
<1>3. CASE SubmissionStep
  <2>1. AtWork
    BY <1>3, SubmissionAtWork
  <2> QED
    BY <1>3, <2>1, PreKeeps, SharedKeeps, CctpKeeps, OtherFlowKeeps, FreshKeeps,
       SolveKeeps DEF SubmissionStep, FlowStep
<1> QED
  BY <1>1, <1>2, <1>3 DEF Next

(* However the time, the wallets and the quotes change while the balances  *)
(* and prices are read, a withdrawal or an Epoch transfer starts on a      *)
(* reviewed quote that is still valid (bridge-submission.ts:95).           *)
THEOREM StartIsLive == Spec => StartsOnLiveQuote
<1>1. ASSUME StepRight, job.quote = None, job'.quote # None,
             route \in {"epoch-in", "epoch-out", "withdrawal"}
      PROVE  Reviewed.quote.left > 0
  BY <1>1 DEF StepRight, QuoteHolds, RequiresQuote, IsQuoteReviewable
<1> QED
  BY <1>1, InitHolds, NextHolds, PTL DEF Spec, StartsOnLiveQuote

(* Whatever was refreshed since, a wallet is asked to sign the reviewed    *)
(* transfer for no more than its cost, by a quote whose signed fee is the  *)
(* quoted one, and on the source chain (cctp-quote.ts:75,                  *)
(* xreserve/flows.ts:113, epoch-execute.ts:119).                           *)
THEOREM SignsWhatWasReviewed == Spec => SignsReviewed
<1>1. ASSUME IInv', StepRight, Prompted
      PROVE  /\ Asked' = Request
             /\ job'.quote.cost <= Reviewed.quote.cost
             /\ job'.quote.honest
             /\ (Step' = "deposit" => chain)
  <2>1. /\ route' = route /\ form' = form /\ (Step' = "deposit" => chain)
    BY <1>1 DEF StepRight
  <2>2. job'.todo # <<>> /\ Head(job'.todo) \in Prompts
    BY <1>1 DEF Prompted, Prompts, Step
  <2>3. /\ Planned(job.quote, job.window, job.todo)'
        /\ job'.evm = Reviewed.evm /\ job'.miden = Reviewed.miden
    BY <1>1, <2>1, <2>2 DEF IInv, Submitted, Reviewed
  <2>4. job'.quote # None
    <3>1. job'.quote = None => Head(job'.todo) \in PreAwaits
      BY <2>2, <2>3, TailFacts DEF Planned
    <3> QED
      BY <2>2, <3>1 DEF Prompts, PreAwaits
  <2>5. /\ TermsOf(job'.quote) = Request
        /\ IF route = "cctp" THEN CctpPlanned(job.quote, job.window, job.todo)'
           ELSE Authorized(job.quote)'
    BY <2>1, <2>3, <2>4 DEF Planned, Request, Reviewed
  <2>6. ~CctpPlan(job'.todo)
    <3>1. CctpPlan(job'.todo) => Head(job'.todo) \in CctpAwaits
      BY <2>2, TailKeepsPlan
    <3> QED
      BY <2>2, <3>1 DEF Prompts, CctpAwaits
  <2>7. job'.quote.honest /\ job'.quote.cost <= Reviewed.quote.cost
    BY <2>1, <2>5, <2>6 DEF CctpPlanned, Authorized, Reviewed
  <2>8. Asked' = Request
    BY <2>1, <2>3, <2>5 DEF Asked, Request, Reviewed
  <2> QED
    BY <2>1, <2>7, <2>8
<1> QED
  BY <1>1, InitHolds, NextHolds, PTL DEF Spec, SignsReviewed

(* However long Circle, the simulation and the fees take, and however often*)
(* the quote is refreshed, a burn reaches the wallet with more than        *)
(* Circle's 30 s left on the quote it carries (cctp-deposit.ts:47).        *)
THEOREM BurnIsInWindow == Spec => BurnsInWindow
<1>1. ASSUME IInv, StepRight, Prompted, route = "cctp"
      PROVE  job'.quote.left > Headroom
  <2>1. /\ job'.quote = job.quote /\ job.window > 0
        /\ job.window + Headroom <= job.quote.left
    BY <1>1 DEF StepRight
  <2>2. job.quote # None /\ job.window \in Nat
    BY <1>1, <2>1 DEF IInv, Submitted, Planned
  <2>3. job.quote.left \in Nat
    BY <1>1, <2>2, QuoteIsNone DEF IInv, Submitted, Planned
  <2> QED
    BY <2>1, <2>2, <2>3, TimeAssumption
<1> QED
  BY <1>1, InitHolds, NextHolds, PTL DEF Spec, BurnsInWindow
=============================================================================
