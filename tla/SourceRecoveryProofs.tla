------------------------ MODULE SourceRecoveryProofs ------------------------
(***************************************************************************)
(* For every nonce and every chain: the search of SourceRecovery ends on   *)
(* the block that consumed the nonce, never goes back further than twice   *)
(* that block's age, never reads more often than twice the binary digits   *)
(* of that age and three, and never reports a replacement that did not     *)
(* happen.                                                                 *)
(***************************************************************************)
EXTENDS SourceRecovery, WellFoundedInduction, TLAPS

Searching == {"gallop", "bisect", "block"}

(* The account's count never falls, and a nonce that is taken stays taken. *)
Monotone == \A a, b \in 0..top : a <= b => count[a] <= count[b]
Taken == winner # None => count[top] > Nonce

(* The block searched for lies in low..high from the first read to the     *)
(* last, and the gallop has come half of its next step.                    *)
Bracket ==
  pc \in Searching =>
    /\ low <= high
    /\ count[high] > Nonce
    /\ pc \in {"bisect", "block"} =>
         (low > 0 => count[low - 1] <= Nonce)
    /\ pc = "block" => low = high
Stride ==
  pc = "gallop" =>
    /\ low = high
    /\ \/ high = head /\ distance = 1
       \/ 2 * (head - high) = distance
       \/ high = 0

IInv ==
  /\ TypeOK /\ Monotone /\ Taken
  /\ Bracket /\ Stride
  /\ ReadsStayRecent /\ TruthfulResolution

-----------------------------------------------------------------------------
(* Only the first block past the nonce contains it.                        *)
LEMMA FirstPastNonce ==
  ASSUME TypeOK, Monotone,
         NEW b \in 0..top, NEW c \in 0..top, Contains(b)
  PROVE  /\ count[c] > Nonce => b <= c
         /\ count[c] <= Nonce => c < b
<1>1. /\ b \in Nat /\ c \in Nat /\ top \in Nat /\ Nonce \in Nat
      /\ \A x \in 0..top : count[x] \in Nat
  BY NonceAssumption DEF TypeOK
<1>2. count[c] > Nonce => b <= c
  <2>1. SUFFICES ASSUME count[c] > Nonce, c < b PROVE FALSE
    BY <1>1
  <2>2. b - 1 \in 0..top /\ c <= b - 1
    BY <1>1, <2>1
  <2>3. count[c] <= count[b - 1]
    BY <2>2 DEF Monotone
  <2> QED
    BY <1>1, <2>1, <2>2, <2>3 DEF Contains
<1>3. count[c] <= Nonce => c < b
  <2>1. SUFFICES ASSUME count[c] <= Nonce, b <= c PROVE FALSE
    BY <1>1
  <2>2. count[b] <= count[c]
    BY <2>1 DEF Monotone
  <2> QED
    BY <1>1, <2>1, <2>2 DEF Contains
<1> QED
  BY <1>2, <1>3

LEMMA InitInvariant == Init => IInv
<1> SUFFICES ASSUME Init PROVE IInv
  OBVIOUS
<1>1. /\ top = 0 /\ count = [b \in 0..0 |-> 0] /\ pc = "idle"
      /\ resolution = None /\ winner = None
  BY DEF Init
<1>2. TypeOK
  BY DEF Init, TypeOK
<1>3. Monotone /\ Taken
  BY <1>1 DEF Monotone, Taken
<1>4. Bracket /\ Stride /\ ReadsStayRecent /\ TruthfulResolution
  BY <1>1 DEF Bracket, Stride, ReadsStayRecent, TruthfulResolution,
              Searching, Replacement, None
<1> QED
  BY <1>2, <1>3, <1>4 DEF IInv

-----------------------------------------------------------------------------
(* A new block leaves every read of the search as it was.                  *)
LEMMA MineKeeps ==
  ASSUME IInv, NEW n \in 0..2, Mine(n)
  PROVE  IInv'
<1> USE NonceAssumption
<1>1. /\ top \in Nat /\ top' = top + 1
      /\ count \in [0..top -> Nat]
      /\ \A b \in 0..top : count'[b] = count[b]
      /\ count'[top + 1] = count[top] + n
      /\ count' \in [0..top' -> Nat]
  <2>1. /\ top \in Nat /\ count \in [0..top -> Nat] /\ top' = top + 1
        /\ count' = [b \in 0..(top + 1) |->
                      IF b <= top THEN count[b] ELSE count[top] + n]
    BY DEF Mine, IInv, TypeOK
  <2>2. \A b \in 0..(top + 1) :
           (IF b <= top THEN count[b] ELSE count[top] + n) \in Nat
    BY <2>1
  <2> QED
    BY <2>1, <2>2
<1>2. UNCHANGED <<identity, pc, head, low, high, distance, reads, resolution>>
  BY DEF Mine, search
<1>3. /\ head \in 0..top /\ low \in 0..head /\ high \in 0..head
      /\ low \in 0..top /\ high \in 0..top
  BY <1>1 DEF IInv, TypeOK
<1>4. winner' \in Candidate \cup {None} /\ (winner # None => winner' = winner)
  BY <1>1 DEF Mine, IInv, TypeOK, Taken
<1>5. TypeOK'
  BY <1>1, <1>2, <1>3, <1>4 DEF IInv, TypeOK
<1>6. Monotone'
  <2>1. \A a \in 0..top : count[a] <= count[top]
    BY <1>1 DEF IInv, Monotone
  <2>2. \A a, b \in 0..top : a <= b => count'[a] <= count'[b]
    BY <1>1 DEF IInv, Monotone
  <2>3. \A a \in 0..top : count'[a] <= count'[top + 1]
    BY <1>1, <2>1
  <2> QED
    BY <1>1, <2>2, <2>3 DEF Monotone
<1>7. Taken'
  BY <1>1 DEF Mine, IInv, Taken, TypeOK
<1>8. \A b \in 0..head : Contains(b)' <=> Contains(b)
  <2> TAKE b \in 0..head
  <2>1. /\ b \in 0..top
        /\ b > 0 => b - 1 \in 0..top
    BY <1>1, <1>3
  <2> QED
    BY <1>1, <2>1 DEF Contains
<1>9. Bracket'
  <2>1. count'[high] = count[high] /\ (low > 0 => count'[low - 1] = count[low - 1])
    BY <1>1, <1>3
  <2> QED
    BY <1>2, <2>1 DEF IInv, Bracket
<1>10. Stride'
  BY <1>2 DEF IInv, Stride
<1>11. ReadsStayRecent'
  BY <1>2, <1>8 DEF IInv, ReadsStayRecent
<1>12. TruthfulResolution'
  BY <1>2, <1>4 DEF IInv, TruthfulResolution, Replacement, None
<1> QED
  BY <1>5, <1>6, <1>7, <1>9, <1>10, <1>11, <1>12 DEF IInv

(* A poll that stops, or has not begun to search, leaves only its result.  *)
LEMMA ResolveKeeps ==
  ASSUME IInv, NEW r \in Replacement \cup {None, "warning"}, Resolve(r),
         r \in Replacement => winner = r
  PROVE  IInv'
<1>1. /\ resolution' = r /\ pc' = "idle"
      /\ UNCHANGED <<top, count, winner, identity,
                     head, low, high, distance, reads>>
  BY DEF Resolve, chain, search
<1>2. TypeOK'
  BY <1>1 DEF IInv, TypeOK
<1>3. (Monotone /\ Taken)'
  BY <1>1 DEF IInv, Monotone, Taken
<1>4. (Bracket /\ Stride /\ ReadsStayRecent)'
  BY <1>1 DEF Bracket, Stride, ReadsStayRecent, Searching
<1>5. TruthfulResolution'
  BY <1>1 DEF TruthfulResolution
<1> QED
  BY <1>2, <1>3, <1>4, <1>5 DEF IInv

LEMMA LookupKeeps ==
  ASSUME IInv, Lookup
  PROVE  IInv'
<1>1. /\ resolution' = None /\ identity' \in BOOLEAN /\ pc' \in {"idle", "head"}
      /\ UNCHANGED <<top, count, winner, head, low, high, distance, reads>>
  BY DEF Lookup, IInv, TypeOK, chain, search
<1>2. TypeOK'
  BY <1>1 DEF IInv, TypeOK
<1>3. (Monotone /\ Taken)'
  BY <1>1 DEF IInv, Monotone, Taken
<1>4. (Bracket /\ Stride /\ ReadsStayRecent)'
  BY <1>1 DEF Bracket, Stride, ReadsStayRecent, Searching
<1>5. TruthfulResolution'
  BY <1>1 DEF TruthfulResolution, Replacement, None
<1> QED
  BY <1>2, <1>3, <1>4, <1>5 DEF IInv

(* The search starts at a head whose count exceeds the nonce.              *)
LEMMA ReadHeadKeeps ==
  ASSUME IInv, ReadHead
  PROVE  IInv'
<1> USE NonceAssumption
<1>1. PICK h \in 0..top :
        IF count[h] <= Nonce THEN Resolve(None)
        ELSE /\ head' = h /\ low' = h /\ high' = h /\ distance' = 1
             /\ reads' = 1
             /\ pc' = "gallop"
             /\ UNCHANGED <<chain, identity, resolution>>
  BY DEF ReadHead
<1>2. CASE count[h] <= Nonce
  BY <1>1, <1>2, ResolveKeeps DEF Replacement, None
<1>3. CASE ~(count[h] <= Nonce)
  <2>1. /\ head' = h /\ low' = h /\ high' = h /\ distance' = 1 /\ reads' = 1
        /\ pc' = "gallop"
        /\ UNCHANGED <<top, count, winner, identity, resolution>>
    BY <1>1, <1>3 DEF chain
  <2>2. top \in Nat /\ count \in [0..top -> Nat] /\ h \in Nat /\ count[h] > Nonce
    BY <1>3 DEF IInv, TypeOK
  <2>3. TypeOK'
    BY <2>1, <2>2 DEF IInv, TypeOK
  <2>4. (Monotone /\ Taken)'
    BY <2>1 DEF IInv, Monotone, Taken
  <2>5. (Bracket /\ Stride)'
    BY <2>1, <2>2 DEF Bracket, Stride
  <2>6. ReadsStayRecent'
    <3>1. SUFFICES ASSUME NEW b \in 0..h
                   PROVE  h - h <= IF b = h THEN 1 ELSE 2 * (h - b)
      BY <2>1 DEF ReadsStayRecent
    <3> QED
      BY <2>2
  <2>7. TruthfulResolution'
    BY <2>1 DEF IInv, TruthfulResolution
  <2> QED
    BY <2>3, <2>4, <2>5, <2>6, <2>7 DEF IInv
<1> QED
  BY <1>2, <1>3

(* A doubling step: past the block it looks for, or half of the next step. *)
LEMMA GallopKeeps ==
  ASSUME IInv, Gallop
  PROVE  IInv'
<1> USE NonceAssumption
<1> DEFINE next == IF head > distance THEN head - distance ELSE 0
<1>1. /\ top \in Nat /\ count \in [0..top -> Nat] /\ Nonce \in Nat
      /\ head \in Nat /\ head <= top
      /\ low \in Nat /\ low = high /\ high <= head /\ count[high] > Nonce
      /\ distance \in Nat /\ distance > 0 /\ reads \in Nat /\ pc = "gallop"
      /\ \/ high = head /\ distance = 1
         \/ 2 * (head - high) = distance
         \/ high = 0
  BY DEF Gallop, IInv, TypeOK, Bracket, Stride, Searching
<1>2. UNCHANGED <<top, count, winner, identity, head, resolution>>
  BY DEF Gallop, chain
<1>3. (Monotone /\ Taken /\ TruthfulResolution)'
  BY <1>2 DEF IInv, Monotone, Taken, TruthfulResolution
<1>4. \A b \in 0..head : Contains(b)' <=> Contains(b)
  BY <1>2 DEF Contains
<1>5. CASE low = 0
  <2>1. pc' = "bisect" /\ UNCHANGED <<low, high, distance, reads>>
    BY <1>5 DEF Gallop
  <2>2. TypeOK'
    BY <1>2, <2>1 DEF IInv, TypeOK
  <2>3. Bracket' /\ Stride'
    <3>1. count'[high'] = count[high] /\ low' = low /\ high' = high
      BY <1>2, <2>1
    <3>2. low <= high /\ count[high] > Nonce
      BY <1>1
    <3>3. low' <= high' /\ count'[high'] > Nonce
      BY <3>1, <3>2, Zenon
    <3>4. ~(low' > 0)
      BY <1>5, <3>1
    <3> QED
      BY <2>1, <3>3, <3>4 DEF Bracket, Stride
  <2>4. ReadsStayRecent'
    BY <1>1, <1>2, <1>4, <2>1 DEF IInv, ReadsStayRecent
  <2> QED
    BY <1>3, <2>2, <2>3, <2>4 DEF IInv
<1>6. CASE low # 0
  <2>1. /\ low' = next /\ reads' = reads + 1
        /\ IF count[next] <= Nonce
           THEN pc' = "bisect" /\ UNCHANGED <<high, distance>>
           ELSE high' = next /\ distance' = 2 * distance /\ pc' = pc
    BY <1>6 DEF Gallop
  <2>2. /\ next \in Nat /\ next <= high /\ next <= head /\ next <= top
        /\ next = head - distance \/ next = 0
        /\ head - next <= distance
    BY <1>1, <1>6
  <2>3. TypeOK'
    <3>1. low' \in 0..head /\ high' \in 0..head /\ reads' \in Nat
      BY <1>1, <2>1, <2>2
    <3>2. distance' \in Nat \ {0} /\ pc' \in {"gallop", "bisect"}
      BY <1>1, <2>1
    <3> QED
      BY <1>2, <3>1, <3>2 DEF IInv, TypeOK
  <2>4. CASE count[next] <= Nonce
    <3>1. low' = next /\ high' = high /\ distance' = distance /\ pc' = "bisect"
      BY <2>1, <2>4
    <3>2. next > 0 => count[next - 1] <= Nonce
      <4>1. SUFFICES ASSUME next > 0 PROVE count[next - 1] <= Nonce
        OBVIOUS
      <4>2. next - 1 \in 0..top /\ next \in 0..top /\ next - 1 <= next
        BY <1>1, <2>2, <4>1
      <4>3. count[next - 1] <= count[next]
        BY <4>2 DEF IInv, Monotone
      <4> QED
        BY <1>1, <2>4, <4>2, <4>3
    <3>3. (Bracket /\ Stride)'
      BY <1>1, <1>2, <2>2, <3>1, <3>2 DEF Bracket, Stride
    <3>4. ReadsStayRecent'
      <4>1. SUFFICES ASSUME NEW b \in 0..head, Contains(b)
                     PROVE  head - next <= IF b = head THEN 1 ELSE 2 * (head - b)
        BY <1>2, <1>4, <3>1 DEF ReadsStayRecent
      <4>2. b \in 0..top /\ next \in 0..top /\ high \in 0..top
        BY <1>1, <2>2
      <4>3. b <= high /\ next < b
        BY <1>1, <2>4, <4>1, <4>2, FirstPastNonce DEF IInv
      <4>4. high # 0
        BY <1>1, <1>6
      <4>5. CASE high = head /\ distance = 1
        BY <1>1, <2>2, <4>2, <4>3, <4>5
      <4>6. CASE 2 * (head - high) = distance
        BY <1>1, <2>2, <4>2, <4>3, <4>6
      <4> QED
        BY <1>1, <4>4, <4>5, <4>6
    <3> QED
      BY <1>3, <2>3, <3>3, <3>4 DEF IInv
  <2>5. CASE ~(count[next] <= Nonce)
    <3>1. /\ low' = next /\ high' = next /\ distance' = 2 * distance
          /\ pc' = "gallop"
      BY <1>1, <2>1, <2>5
    <3>2. count[next] > Nonce /\ count[next] \in Nat
      BY <1>1, <2>2, <2>5
    <3>3. Bracket'
      BY <1>2, <2>2, <3>1, <3>2 DEF Bracket
    <3>4. Stride'
      BY <1>1, <1>2, <2>2, <3>1 DEF Stride
    <3>5. ReadsStayRecent'
      <4>1. SUFFICES ASSUME NEW b \in 0..head, Contains(b)
                     PROVE  head - next <= IF b = head THEN 1 ELSE 2 * (head - b)
        BY <1>2, <1>4, <3>1 DEF ReadsStayRecent
      <4>2. b \in 0..top /\ next \in 0..top
        BY <1>1, <2>2
      <4>3. b <= next
        BY <3>2, <4>1, <4>2, FirstPastNonce DEF IInv
      <4> QED
        BY <1>1, <2>2, <4>2, <4>3
    <3> QED
      BY <1>3, <2>3, <3>3, <3>4, <3>5 DEF IInv
  <2> QED
    BY <2>4, <2>5
<1> QED
  BY <1>5, <1>6

(* Bisection keeps the block between low and high, and only raises low.    *)
LEMMA BisectKeeps ==
  ASSUME IInv, Bisect
  PROVE  IInv'
<1> USE NonceAssumption
<1> DEFINE middle == (low + high) \div 2
<1>1. /\ top \in Nat /\ count \in [0..top -> Nat] /\ Nonce \in Nat
      /\ head \in Nat /\ head <= top
      /\ low \in Nat /\ high \in Nat /\ low <= high /\ high <= head
      /\ count[high] > Nonce /\ (low > 0 => count[low - 1] <= Nonce)
      /\ reads \in Nat /\ pc = "bisect"
  BY DEF Bisect, IInv, TypeOK, Bracket, Searching
<1>2. UNCHANGED <<top, count, winner, identity, head, distance, resolution>>
  BY DEF Bisect, chain
<1>3. (Monotone /\ Taken /\ TruthfulResolution)'
  BY <1>2 DEF IInv, Monotone, Taken, TruthfulResolution
<1>4. /\ low' \in Nat /\ low <= low' /\ low' <= high' /\ high' <= high
      /\ count[high'] > Nonce /\ (low' > 0 => count[low' - 1] <= Nonce)
      /\ reads' \in Nat
      /\ pc' = "bisect" \/ (pc' = "block" /\ low' = high')
  <2>1. CASE low < high
    <3>1. middle \in Nat /\ low <= middle /\ middle < high
      BY <1>1, <2>1
    <3>2. /\ reads' = reads + 1 /\ pc' = "bisect"
          /\ IF count[middle] > Nonce THEN high' = middle /\ low' = low
             ELSE low' = middle + 1 /\ high' = high
      BY <1>1, <2>1 DEF Bisect
    <3>3. count[middle] \in Nat
      BY <1>1, <3>1
    <3>4. CASE count[middle] > Nonce
      BY <1>1, <3>1, <3>2, <3>4
    <3>5. CASE ~(count[middle] > Nonce)
      BY <1>1, <3>1, <3>2, <3>3, <3>5
    <3> QED
      BY <3>4, <3>5
  <2>2. CASE ~(low < high)
    <3>1. low' = low /\ high' = high /\ reads' = reads /\ pc' = "block"
      BY <2>2 DEF Bisect
    <3> QED
      BY <1>1, <2>2, <3>1
  <2> QED
    BY <2>1, <2>2
<1>5. high' \in 0..head /\ low' \in 0..head
  <2>1. high' \in {high, middle, high'} /\ high' \in Int
    <3>1. CASE low < high
      BY <1>1, <3>1 DEF Bisect
    <3>2. CASE ~(low < high)
      BY <1>1, <3>2 DEF Bisect
    <3> QED
      BY <3>1, <3>2
  <2> QED
    BY <1>1, <1>4, <2>1
<1>6. TypeOK'
  BY <1>2, <1>4, <1>5 DEF IInv, TypeOK
<1>7. (Bracket /\ Stride)'
  BY <1>2, <1>4 DEF Bracket, Stride
<1>8. ReadsStayRecent'
  <2>1. SUFFICES ASSUME NEW b \in 0..head, Contains(b)
                 PROVE  head - low' <= IF b = head THEN 1 ELSE 2 * (head - b)
    BY <1>2 DEF ReadsStayRecent, Contains
  <2>2. head - low <= IF b = head THEN 1 ELSE 2 * (head - b)
    BY <1>1, <2>1 DEF IInv, ReadsStayRecent
  <2>3. \A x, y, z \in Nat, bound \in Int :
           z - x <= bound /\ x <= y => z - y <= bound
    OBVIOUS
  <2>4. (IF b = head THEN 1 ELSE 2 * (head - b)) \in Int
    BY <1>1
  <2> QED
    BY <1>1, <1>4, <2>2, <2>3, <2>4, Zenon
<1> QED
  BY <1>3, <1>6, <1>7, <1>8 DEF IInv

LEMMA ReadBlockKeeps ==
  ASSUME IInv, ReadBlock
  PROVE  IInv'
<1>1. Resolve(IF winner = "original" THEN None ELSE winner)
  BY DEF ReadBlock
<1>2. winner \in Candidate \cup {None}
  BY DEF IInv, TypeOK
<1>3. CASE winner = "original"
  BY <1>1, <1>3, ResolveKeeps DEF Replacement, None
<1>4. CASE winner # "original"
  <2>1. winner \in Replacement \cup {None, "warning"}
    BY <1>2, <1>4 DEF Candidate
  <2> QED
    BY <1>1, <1>4, <2>1, ResolveKeeps
<1> QED
  BY <1>3, <1>4

LEMMA NextKeeps == IInv /\ [Next]_vars => IInv'
<1> SUFFICES ASSUME IInv, [Next]_vars PROVE IInv'
  OBVIOUS
<1>1. ASSUME NEW n \in 0..2, Mine(n) PROVE IInv'
  BY <1>1, MineKeeps
<1>2. CASE Lookup
  BY <1>2, LookupKeeps
<1>3. CASE ReadHead
  BY <1>3, ReadHeadKeeps
<1>4. CASE Gallop
  BY <1>4, GallopKeeps
<1>5. CASE Bisect
  BY <1>5, BisectKeeps
<1>6. CASE ReadBlock
  BY <1>6, ReadBlockKeeps
<1>7. CASE Warn
  <2>1. Resolve("warning")
    BY <1>7 DEF Warn
  <2> QED
    BY <2>1, ResolveKeeps DEF Replacement
<1>8. CASE UNCHANGED vars
  <2>1. UNCHANGED <<top, count, winner, identity, pc, head, low, high,
                    distance, reads, resolution>>
    BY <1>8 DEF vars
  <2>2. \A b : Contains(b)' <=> Contains(b)
    BY <2>1 DEF Contains
  <2> QED
    BY <2>1, <2>2 DEF IInv, TypeOK, Monotone, Taken, Bracket, Stride,
                 ReadsStayRecent, TruthfulResolution
<1> QED
  BY <1>1, <1>2, <1>3, <1>4, <1>5, <1>6, <1>7, <1>8 DEF Next

-----------------------------------------------------------------------------
(***************************************************************************)
(* Binary digits.  Bits is defined by recursion, so that it is what its    *)
(* definition says, and grows, is shown by least counterexamples.          *)
(***************************************************************************)
LEMMA LeastBy ==
  ASSUME NEW T, T \subseteq Nat, T # {}, NEW R, IsWellFoundedOn(R, Nat),
         \A x, y \in Nat : y < x => <<y, x>> \in R
  PROVE  \E x \in T : \A y \in T : x <= y
<1>1. PICK x \in T : \A y \in T : ~(<<y, x>> \in R)
  BY WFMin
<1>2. ASSUME NEW y \in T PROVE x <= y
  <2>1. x \in Nat /\ y \in Nat /\ ~(y < x)
    BY <1>1
  <2> QED
    BY <2>1
<1> QED
  BY <1>2

(* A nonempty set of numbers has a least element.                          *)
LEMMA LeastNat ==
  ASSUME NEW T, T \subseteq Nat, T # {}
  PROVE  \E x \in T : \A y \in T : x <= y
<1>1. IsWellFoundedOn(OpToRel(<, Nat), Nat)
  BY NatLessThanWellFounded
<1>2. \A x, y \in Nat : y < x => <<y, x>> \in OpToRel(<, Nat)
  BY DEF OpToRel
<1> QED
  BY <1>1, <1>2, LeastBy

(* The digits of the numbers up to n.                                      *)
Digits(g, n) ==
  /\ g \in [0..n -> Nat]
  /\ \A i \in 0..n : g[i] = IF i = 0 THEN 0 ELSE 1 + g[i \div 2]

LEMMA DigitsUnique ==
  ASSUME NEW n \in Nat, NEW m \in 0..n, NEW g, NEW h, Digits(g, n), Digits(h, m)
  PROVE  \A i \in 0..m : g[i] = h[i]
<1> DEFINE T == {i \in 0..m : g[i] # h[i]}
<1>1. SUFFICES ASSUME T # {} PROVE FALSE
  OBVIOUS
<1>2. PICK i \in T : \A j \in T : i <= j
  <2>1. T \subseteq Nat
    OBVIOUS
  <2> QED
    BY <1>1, <2>1, LeastNat
<1>3. i \in 0..m /\ i \in 0..n /\ g[i] # h[i] /\ i # 0
  BY <1>2 DEF Digits
<1>4. i \div 2 \in 0..m /\ i \div 2 < i
  BY <1>3
<1>5. g[i \div 2] = h[i \div 2]
  BY <1>2, <1>3, <1>4
<1> QED
  BY <1>3, <1>5 DEF Digits

LEMMA DigitsExist ==
  ASSUME NEW n \in Nat
  PROVE  \E g : Digits(g, n)
<1> DEFINE T == {k \in Nat : ~ \E g : Digits(g, k)}
<1>1. SUFFICES ASSUME T # {} PROVE FALSE
  OBVIOUS
<1>2. PICK k \in T : \A j \in T : k <= j
  BY <1>1, LeastNat
<1>3. k # 0
  <2>1. Digits([i \in 0..0 |-> 0], 0)
    BY DEF Digits
  <2> QED
    BY <1>2, <2>1
<1>4. PICK g : Digits(g, k - 1)
  <2>1. k - 1 \in Nat /\ ~(k <= k - 1)
    BY <1>2, <1>3
  <2> QED
    BY <1>2, <2>1
<1> DEFINE h == [i \in 0..k |-> IF i < k THEN g[i] ELSE 1 + g[k \div 2]]
<1>5. /\ k \in Nat /\ k \div 2 \in 0..(k - 1)
      /\ \A i \in 0..k : i < k => i \in 0..(k - 1)
      /\ g \in [0..(k - 1) -> Nat]
  BY <1>2, <1>3, <1>4 DEF Digits
<1>6. h \in [0..k -> Nat]
  BY <1>5
<1>7. ASSUME NEW i \in 0..k
      PROVE  h[i] = IF i = 0 THEN 0 ELSE 1 + h[i \div 2]
  <2>1. i # 0 => i \div 2 \in 0..k /\ i \div 2 < k
    BY <1>5
  <2>2. i # 0 => h[i \div 2] = g[i \div 2]
    BY <2>1
  <2>3. CASE i < k
    BY <1>4, <1>5, <2>2, <2>3 DEF Digits
  <2>4. CASE ~(i < k)
    BY <1>3, <1>5, <2>2, <2>4
  <2> QED
    BY <2>3, <2>4
<1>8. Digits(h, k)
  BY <1>6, <1>7 DEF Digits
<1> QED
  BY <1>2, <1>8

(* Bits satisfies the equation that defines it.                            *)
LEMMA BitsDef ==
  /\ Bits \in [Nat -> Nat]
  /\ \A n \in Nat : Bits[n] = IF n = 0 THEN 0 ELSE 1 + Bits[n \div 2]
<1> DEFINE G(n) == CHOOSE g : Digits(g, n)
           f == [n \in Nat |-> G(n)[n]]
<1>1. \A n \in Nat : Digits(G(n), n)
  BY DigitsExist
<1> HIDE DEF G
<1>2. ASSUME NEW n \in Nat
      PROVE  f[n] \in Nat /\ f[n] = IF n = 0 THEN 0 ELSE 1 + f[n \div 2]
  <2>1. G(n)[n] \in Nat /\ G(n)[n] = IF n = 0 THEN 0 ELSE 1 + G(n)[n \div 2]
    BY <1>1 DEF Digits
  <2>2. n \div 2 \in 0..n /\ n \div 2 \in Nat
    OBVIOUS
  <2>3. G(n)[n \div 2] = G(n \div 2)[n \div 2]
    BY <1>1, <2>2, DigitsUnique
  <2> QED
    BY <2>1, <2>2, <2>3
<1>3. f = [n \in Nat |-> IF n = 0 THEN 0 ELSE 1 + f[n \div 2]]
  BY <1>2
<1> HIDE DEF f
<1>4. Bits = [n \in Nat |-> IF n = 0 THEN 0 ELSE 1 + Bits[n \div 2]]
  BY <1>3, Zenon DEF Bits
<1>5. \A n \in Nat : Bits[n] = IF n = 0 THEN 0 ELSE 1 + Bits[n \div 2]
  BY <1>4, Zenon
<1>6. \A n \in Nat : Bits[n] \in Nat
  <2> DEFINE T == {k \in Nat : Bits[k] \notin Nat}
  <2>1. SUFFICES ASSUME T # {} PROVE FALSE
    OBVIOUS
  <2>2. PICK k \in T : \A j \in T : k <= j
    BY <2>1, LeastNat
  <2>3. k # 0 /\ k \in Nat /\ k \div 2 \in Nat /\ k \div 2 < k
    BY <1>5, <2>2
  <2>4. Bits[k \div 2] \in Nat
    BY <2>2, <2>3
  <2> QED
    BY <1>5, <2>2, <2>3, <2>4
<1> QED
  BY <1>4, <1>5, <1>6

LEMMA BitsGrow ==
  ASSUME NEW n \in Nat, NEW m \in 0..n
  PROVE  Bits[m] <= Bits[n]
<1> DEFINE T == {k \in Nat : \E j \in 0..k : ~(Bits[j] <= Bits[k])}
<1>1. SUFFICES ASSUME T # {} PROVE FALSE
  OBVIOUS
<1>2. PICK k \in T : \A j \in T : k <= j
  BY <1>1, LeastNat
<1>3. PICK j \in 0..k : ~(Bits[j] <= Bits[k])
  BY <1>2
<1>4. j \in Nat /\ k \in Nat /\ j # 0 /\ k # 0
  BY <1>2, <1>3, BitsDef
<1>5. /\ j \div 2 \in 0..(k \div 2)
      /\ k \div 2 \in Nat /\ k \div 2 < k
  BY <1>3, <1>4
<1>6. Bits[j \div 2] <= Bits[k \div 2]
  BY <1>2, <1>4, <1>5
<1> QED
  BY <1>3, <1>4, <1>5, <1>6, BitsDef

LEMMA BitsDouble ==
  ASSUME NEW n \in Nat \ {0}
  PROVE  Bits[2 * n] = 1 + Bits[n]
<1>1. 2 * n \in Nat /\ 2 * n # 0 /\ (2 * n) \div 2 = n
  OBVIOUS
<1> QED
  BY <1>1, BitsDef

-----------------------------------------------------------------------------
(* While the step doubles, there is one read per digit of it, and it stays *)
(* below four times the head; then the digits of what is left to bisect    *)
(* bound the reads to come.                                                *)
Budget ==
  /\ pc = "gallop" => /\ reads = Bits[distance]
                      /\ distance = 1 \/ distance < 4 * head
  /\ pc \in {"bisect", "block"} =>
       \A b \in 0..head : Contains(b) =>
         reads + Bits[high - low] <= 2 * Bits[head - b] + 3

(* Half a step back from the head, the reads so far are within the bound.  *)
LEMMA HalfStep ==
  ASSUME NEW age \in Nat, NEW d \in Nat \ {0}, d = 1 \/ d <= 2 * age
  PROVE  Bits[d] <= 1 + Bits[age]
<1>1. Bits[0] = 0 /\ Bits[1] = 1 + Bits[0]
  <2>1. 1 \div 2 = 0
    OBVIOUS
  <2> QED
    BY <2>1, BitsDef
<1>2. Bits[d] \in Nat /\ Bits[age] \in Nat
  BY BitsDef
<1>3. CASE d = 1
  BY <1>1, <1>2, <1>3
<1>4. CASE d # 1
  <2>1. age # 0 /\ d \in 0..(2 * age) /\ 2 * age \in Nat
    BY <1>4
  <2>2. Bits[d] <= Bits[2 * age] /\ Bits[2 * age] = 1 + Bits[age]
    BY <2>1, BitsGrow, BitsDouble
  <2> QED
    BY <2>2
<1> QED
  BY <1>3, <1>4

LEMMA QuarterStep ==
  ASSUME NEW age \in Nat, NEW d \in Nat \ {0}, d = 1 \/ d < 4 * age
  PROVE  Bits[d] <= 2 + Bits[age]
<1>1. d = 1 \/ d <= 2 * (2 * age)
  OBVIOUS
<1>2. 2 * age \in Nat
  OBVIOUS
<1>3. Bits[d] <= 1 + Bits[2 * age]
  BY <1>1, <1>2, HalfStep
<1>4. Bits[2 * age] <= 1 + Bits[age]
  <2>1. CASE age = 0
    <3>1. 2 * age = age
      BY <2>1
    <3> QED
      BY <3>1, BitsDef
  <2>2. CASE age # 0
    BY <2>2, BitsDouble, BitsDef
  <2> QED
    BY <2>1, <2>2
<1>5. Bits[d] \in Nat /\ Bits[2 * age] \in Nat /\ Bits[age] \in Nat
  BY <1>2, BitsDef
<1> QED
  BY <1>3, <1>4, <1>5

LEMMA BudgetIsEnough == IInv /\ Budget => LogarithmicReads
<1> SUFFICES ASSUME IInv, Budget, pc \in Searching,
                    NEW b \in 0..head, Contains(b)
             PROVE  reads <= 2 * Bits[head - b] + 3
  BY DEF LogarithmicReads, Searching
<1>1. /\ top \in Nat /\ head \in Nat /\ head <= top /\ b \in 0..top
      /\ head - b \in Nat /\ reads \in Nat
      /\ distance \in Nat \ {0}
      /\ low \in Nat /\ high \in 0..top /\ high <= head
      /\ low <= high /\ count[high] > Nonce /\ high - low \in Nat
  BY DEF IInv, TypeOK, Bracket
<1>2. b <= high
  BY <1>1, FirstPastNonce DEF IInv
<1>3. Bits[head - b] \in Nat /\ Bits[high - low] \in Nat
  BY <1>1, BitsDef
<1>4. CASE pc = "gallop"
  <2>1. \/ high = head /\ distance = 1
        \/ 2 * (head - high) = distance
        \/ high = 0 /\ (distance = 1 \/ distance < 4 * head)
    BY <1>4 DEF IInv, Stride, Budget
  <2>2. \/ distance = 1 \/ distance <= 2 * (head - b)
        \/ distance < 4 * (head - b)
    BY <1>1, <1>2, <2>1
  <2>3. Bits[distance] <= 2 + Bits[head - b]
    <3>1. distance = 1 \/ distance <= 2 * (head - b) =>
            Bits[distance] <= 1 + Bits[head - b]
      BY <1>1, HalfStep
    <3>2. distance < 4 * (head - b) => Bits[distance] <= 2 + Bits[head - b]
      BY <1>1, QuarterStep
    <3>3. Bits[distance] \in Nat
      BY <1>1, BitsDef
    <3> QED
      BY <1>3, <2>2, <3>1, <3>2, <3>3
  <2> QED
    BY <1>1, <1>3, <1>4, <2>3 DEF Budget
<1>5. CASE pc \in {"bisect", "block"}
  <2>1. reads + Bits[high - low] <= 2 * Bits[head - b] + 3
    BY <1>5 DEF Budget
  <2> QED
    BY <1>1, <1>3, <2>1
<1> QED
  BY <1>4, <1>5 DEF Searching

LEMMA GallopInBudget ==
  ASSUME IInv, Budget, Gallop, IInv'
  PROVE  Budget'
<1> USE NonceAssumption
<1> DEFINE next == IF head > distance THEN head - distance ELSE 0
<1>1. /\ top \in Nat /\ count \in [0..top -> Nat] /\ Nonce \in Nat
      /\ head \in Nat /\ head <= top
      /\ low \in Nat /\ low = high /\ high <= head /\ count[high] > Nonce
      /\ distance \in Nat /\ distance > 0 /\ reads \in Nat /\ pc = "gallop"
      /\ \/ high = head /\ distance = 1
         \/ 2 * (head - high) = distance
         \/ high = 0
      /\ reads = Bits[distance] /\ (distance = 1 \/ distance < 4 * head)
  BY DEF Gallop, IInv, TypeOK, Bracket, Stride, Searching, Budget
<1>2. UNCHANGED <<top, count, head>>
  BY DEF Gallop, chain
<1>3. \A b \in 0..head : Contains(b)' <=> Contains(b)
  BY <1>2 DEF Contains
<1>4. Bits[0] = 0
  BY BitsDef
<1>5. CASE low = 0
  <2>1. pc' = "bisect" /\ UNCHANGED <<low, high, distance, reads>>
    BY <1>5 DEF Gallop
  <2>2. ASSUME NEW b \in 0..head, Contains(b)
        PROVE  reads + Bits[high - low] <= 2 * Bits[head - b] + 3
    <3>1. reads <= 2 * Bits[head - b] + 3
      BY <2>2, <1>1, BudgetIsEnough DEF LogarithmicReads
    <3>2. high - low = 0
      BY <1>1
    <3> QED
      BY <1>1, <1>4, <3>1, <3>2
  <2> QED
    BY <1>2, <1>3, <2>1, <2>2 DEF Budget
<1>6. CASE low # 0
  <2>1. /\ low' = next /\ reads' = reads + 1
        /\ IF count[next] <= Nonce
           THEN pc' = "bisect" /\ UNCHANGED <<high, distance>>
           ELSE high' = next /\ distance' = 2 * distance /\ pc' = pc
    BY <1>6 DEF Gallop
  <2>2. /\ next \in Nat /\ next <= high /\ next <= top
        /\ next = head - distance \/ next = 0
        /\ head - next <= distance
    BY <1>1, <1>6
  <2>3. /\ high # 0
        /\ \/ high = head /\ distance = 1
           \/ 2 * (head - high) = distance
    BY <1>1, <1>6
  <2>4. CASE count[next] <= Nonce
    <3>1. /\ low' = next /\ high' = high /\ reads' = reads + 1 /\ pc' = "bisect"
      BY <2>1, <2>4
    <3>2. ASSUME NEW b \in 0..head, Contains(b)
          PROVE  (reads + 1) + Bits[high - next] <= 2 * Bits[head - b] + 3
      <4>1. b \in 0..top /\ high \in 0..top /\ head - b \in Nat
        BY <1>1
      <4>2. b <= high
        BY <1>1, <3>2, <4>1, FirstPastNonce DEF IInv
      <4>3. Bits[distance] <= 1 + Bits[head - b]
        <5>1. distance = 1 \/ distance <= 2 * (head - b)
          BY <1>1, <2>3, <4>1, <4>2
        <5> QED
          BY <1>1, <4>1, <5>1, HalfStep
      <4>4. /\ high - next \in Nat /\ Bits[high - next] \in Nat
            /\ Bits[head - b] \in Nat /\ Bits[distance] \in Nat
        <5>1. high - next \in Nat
          BY <1>1, <2>2
        <5> QED
          BY <1>1, <4>1, <5>1, BitsDef
      <4> HIDE DEF next
      <4>5. CASE distance = 1
        <5>1. high - next \in 0..1 /\ distance \in 0..1
          BY <1>1, <2>2, <4>5
        <5>2. Bits[high - next] <= Bits[1]
          BY <5>1, BitsGrow
        <5>3. Bits[1] = 1
          <6>1. 1 \div 2 = 0
            OBVIOUS
          <6> QED
            BY <6>1, BitsDef
        <5> QED
          BY <1>1, <4>4, <4>5, <5>2, <5>3
      <4>6. CASE distance # 1
        <5>1. /\ head - high \in Nat \ {0} /\ distance = 2 * (head - high)
              /\ high - next \in 0..(head - high)
              /\ head - high \in 0..(head - b)
          BY <1>1, <2>2, <2>3, <4>1, <4>2, <4>6
        <5>2. Bits[distance] = 1 + Bits[head - high]
          BY <5>1, BitsDouble
        <5>3. /\ Bits[high - next] <= Bits[head - high]
              /\ Bits[head - high] <= Bits[head - b]
          BY <4>1, <5>1, BitsGrow
        <5>4. Bits[head - high] \in Nat
          BY <5>1, BitsDef
        <5>5. reads + 1 = 2 + Bits[head - high]
          BY <1>1, <5>2, <5>4
        <5>6. \A x, y, z \in Nat : x <= y /\ y <= z => (2 + y) + x <= 2 * z + 3
          OBVIOUS
        <5> QED
          BY <4>4, <5>3, <5>4, <5>5, <5>6
      <4> QED
        BY <4>5, <4>6
    <3> QED
      BY <1>2, <1>3, <3>1, <3>2 DEF Budget
  <2>5. CASE ~(count[next] <= Nonce)
    <3>1. /\ distance' = 2 * distance /\ reads' = reads + 1 /\ pc' = "gallop"
      BY <1>1, <2>1, <2>5
    <3>2. Bits[2 * distance] = 1 + Bits[distance]
      BY <1>1, BitsDouble
    <3>3. 2 * distance < 4 * head
      BY <1>1, <2>3
    <3>4. reads + 1 = Bits[2 * distance]
      BY <1>1, <3>2, BitsDef
    <3> QED
      BY <1>2, <3>1, <3>3, <3>4 DEF Budget
  <2> QED
    BY <2>4, <2>5
<1> QED
  BY <1>5, <1>6

LEMMA BisectInBudget ==
  ASSUME IInv, Budget, Bisect
  PROVE  Budget'
<1> DEFINE middle == (low + high) \div 2
<1>1. /\ top \in Nat /\ head \in Nat /\ head <= top
      /\ low \in Nat /\ high \in Nat /\ low <= high /\ high <= head
      /\ reads \in Nat /\ pc = "bisect"
  BY DEF Bisect, IInv, TypeOK, Bracket, Searching
<1>2. UNCHANGED <<top, count, head>>
  BY DEF Bisect, chain
<1>3. \A b \in 0..head : Contains(b)' <=> Contains(b)
  BY <1>2 DEF Contains
<1>4. pc' \in {"bisect", "block"} /\ pc' # "gallop"
  BY <1>1 DEF Bisect
<1>5. /\ high' - low' \in Nat
      /\ reads' + Bits[high' - low'] <= reads + Bits[high - low]
      /\ reads' \in Nat
  <2>1. CASE low < high
    <3>1. /\ reads' = reads + 1
          /\ \/ high' = middle /\ low' = low
             \/ high' = high /\ low' = middle + 1
      BY <2>1 DEF Bisect
    <3>2. high - low \in Nat \ {0} /\ high' - low' \in 0..((high - low) \div 2)
      <4>1. /\ middle \in Nat /\ low <= middle /\ middle < high
            /\ (high - low) \div 2 \in Nat
            /\ middle - low <= (high - low) \div 2
            /\ high - (middle + 1) <= (high - low) \div 2
        BY <1>1, <2>1
      <4> HIDE DEF middle
      <4> QED
        BY <1>1, <2>1, <3>1, <4>1
    <3>3. (high - low) \div 2 \in Nat
      BY <3>2
    <3>4. Bits[high - low] = 1 + Bits[(high - low) \div 2]
      BY <3>2, BitsDef
    <3>5. Bits[high' - low'] <= Bits[(high - low) \div 2]
      BY <3>2, <3>3, BitsGrow
    <3>6. /\ Bits[high' - low'] \in Nat /\ Bits[(high - low) \div 2] \in Nat
      BY <3>2, <3>3, BitsDef
    <3>7. reads' + Bits[high' - low'] <= reads + Bits[high - low]
      BY <1>1, <3>1, <3>4, <3>5, <3>6
    <3> QED
      BY <1>1, <3>1, <3>2, <3>3, <3>7
  <2>2. CASE ~(low < high)
    <3>1. low' = low /\ high' = high /\ reads' = reads
      BY <2>2 DEF Bisect
    <3>2. high - low \in Nat /\ Bits[high - low] \in Nat
      BY <1>1, BitsDef
    <3> QED
      BY <1>1, <3>1, <3>2
  <2> QED
    BY <2>1, <2>2
<1>6. ASSUME NEW b \in 0..head, Contains(b)
      PROVE  reads' + Bits[high' - low'] <= 2 * Bits[head - b] + 3
  <2>1. reads + Bits[high - low] <= 2 * Bits[head - b] + 3
    BY <1>1, <1>6 DEF Budget
  <2>2. /\ high - low \in Nat /\ head - b \in Nat
        /\ Bits[high - low] \in Nat /\ Bits[head - b] \in Nat
        /\ Bits[high' - low'] \in Nat
    BY <1>1, <1>5, BitsDef
  <2> QED
    BY <1>1, <1>5, <2>1, <2>2
<1> QED
  BY <1>2, <1>3, <1>4, <1>6 DEF Budget

LEMMA NextInBudget == IInv /\ Budget /\ [Next]_vars => Budget'
<1> SUFFICES ASSUME IInv, Budget, [Next]_vars PROVE Budget'
  OBVIOUS
<1>0. IInv'
  BY NextKeeps
<1>1. ASSUME NEW n \in 0..2, Mine(n) PROVE Budget'
  <2>1. UNCHANGED <<pc, head, low, high, distance, reads>>
    BY <1>1 DEF Mine, search
  <2>2. \A b \in 0..head : Contains(b)' <=> Contains(b)
    <3> TAKE b \in 0..head
    <3>1. /\ top \in Nat /\ count \in [0..top -> Nat]
          /\ b \in 0..top /\ (b > 0 => b - 1 \in 0..top)
      BY DEF IInv, TypeOK
    <3>2. \A c \in 0..top : count'[c] = count[c]
      BY <1>1, <3>1 DEF Mine
    <3> QED
      BY <3>1, <3>2 DEF Contains
  <2> QED
    BY <2>1, <2>2 DEF Budget
<1>2. CASE Lookup
  <2>1. pc' \in {"idle", "head"}
    BY <1>2 DEF Lookup
  <2> QED
    BY <2>1 DEF Budget
<1>3. CASE ReadHead
  <2>1. PICK h \in 0..top :
          IF count[h] <= Nonce THEN Resolve(None)
          ELSE /\ head' = h /\ low' = h /\ high' = h /\ distance' = 1
               /\ reads' = 1
               /\ pc' = "gallop"
               /\ UNCHANGED <<chain, identity, resolution>>
    BY <1>3 DEF ReadHead
  <2>2. CASE count[h] <= Nonce
    BY <2>1, <2>2 DEF Resolve, Budget
  <2>3. CASE ~(count[h] <= Nonce)
    <3>1. Bits[1] = 1
      <4>1. 1 \div 2 = 0
        OBVIOUS
      <4> QED
        BY <4>1, BitsDef
    <3> QED
      BY <2>1, <2>3, <3>1 DEF Budget
  <2> QED
    BY <2>2, <2>3
<1>4. CASE Gallop
  BY <1>0, <1>4, GallopInBudget
<1>5. CASE Bisect
  BY <1>5, BisectInBudget
<1>6. CASE ReadBlock
  BY <1>6 DEF ReadBlock, Resolve, Budget
<1>7. CASE Warn
  BY <1>7 DEF Warn, Resolve, Budget
<1>8. CASE UNCHANGED vars
  <2>1. UNCHANGED <<top, count, pc, head, low, high, distance, reads>>
    BY <1>8 DEF vars
  <2>2. \A b : Contains(b)' <=> Contains(b)
    BY <2>1 DEF Contains
  <2> QED
    BY <2>1, <2>2 DEF Budget
<1> QED
  BY <1>1, <1>2, <1>3, <1>4, <1>5, <1>6, <1>7, <1>8 DEF Next

-----------------------------------------------------------------------------
(* The search keeps its block between its bounds, whatever the chain does. *)
THEOREM Invariance == Spec => []IInv
BY InitInvariant, NextKeeps, PTL DEF Spec

(* Every block the search names exists: no read before the genesis block,  *)
(* none past the head it started from.                                     *)
THEOREM TypeCorrect == Spec => []TypeOK
<1>1. IInv => TypeOK
  BY DEF IInv
<1> QED
  BY Invariance, <1>1, PTL

(* findNonceBlock returns the one block that consumed the nonce.           *)
THEOREM SearchFindsTheBlock == Spec => []FirstCrossing
<1>1. IInv => FirstCrossing
  BY DEF IInv, Bracket, Searching, FirstCrossing, Contains
<1> QED
  BY Invariance, <1>1, PTL

(* Neither time nor a lagging node makes a transfer cancelled or replaced. *)
THEOREM ResolutionsAreTrue == Spec => []TruthfulResolution
<1>1. IInv => TruthfulResolution
  BY DEF IInv
<1> QED
  BY Invariance, <1>1, PTL

(* No read is older than twice the age of the block searched for.          *)
THEOREM ReadsNeedNoArchive == Spec => []ReadsStayRecent
<1>1. IInv => ReadsStayRecent
  BY DEF IInv
<1> QED
  BY Invariance, <1>1, PTL

(* The number of historical reads is logarithmic in the age of the block   *)
(* searched for, however long the chain before it.                         *)
THEOREM ReadsAreLogarithmic == Spec => []LogarithmicReads
<1>1. Init => Budget
  BY DEF Init, Budget
<1>2. IInv /\ Budget /\ [Next]_vars => Budget'
  BY NextInBudget
<1> QED
  BY Invariance, <1>1, <1>2, BudgetIsEnough, PTL DEF Spec
=============================================================================
