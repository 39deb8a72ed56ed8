-------------------------- MODULE MidenWalletProofs --------------------------
(***************************************************************************)
(* For any accounts and any number of commands and events: the session and *)
(* the store of MidenWalletSession implement WalletOwner, the extension is *)
(* asked only on behalf of the present owner, nobody is served while it is *)
(* being disconnected, and a disconnect stays one.                         *)
(***************************************************************************)
EXTENDS MidenWalletSession, FiniteSetTheorems, TLAPS

Signer   == [wallet: Wallet, version: Nat]
Snapshot == [address: Account \cup {None}, connected: BOOLEAN,
             notes: Grant \cup {None}, signer: Signer \cup {None}]
Run      == [wallet: Wallet, version: Nat, signer: Signer \cup {None},
             grant: Grant, stage: {"balances", "notes"}]
Held     == [signer: Signer, grant: Grant]

(* What is captured is finitely much, so that a fresh number exists.       *)
Shape ==
  /\ TypeOK
  /\ version \in Nat /\ snapshot \in Snapshot
  /\ runs \subseteq Run /\ (held # None => held \in Held)
  /\ IsFiniteSet(reads) /\ IsFiniteSet(runs)

(* A read of the present session reads its account, and so do the cached   *)
(* balances and the notes shown.                                           *)
ReadsOwned == \A r \in reads : r.session = midenVersion => GrantOf(r) = Owner
DataOwned  == \A a \in Account : query[a].data # None => query[a].data = Owner
NotesOwned == snapshot.notes # None => snapshot.notes = Owner

(* The store's account is the one the session shows as connected.          *)
SessionShown ==
  wallet # None =>
    /\ snapshot.address = wallet.address
    /\ midenSession = IF snapshot.connected /\ snapshot.address \notin Foreign
                      THEN snapshot.address ELSE None

(* The signing request shown is of the present wallet, version and owner.  *)
SignerShown ==
  snapshot.signer # None =>
    /\ snapshot.signer = [wallet |-> wallet, version |-> version]
    /\ snapshot.address \in Account
    /\ midenSession = snapshot.address

(* What was captured in the present version was captured for its owner.    *)
RunsOwned ==
  \A run \in runs :
    /\ run.stage = "notes" => run.signer # None
    /\ run.signer # None /\ run.version = version /\ wallet # None =>
         run.grant = Owner
HeldOwned ==
  held # None =>
    /\ held.signer # None
    /\ held.signer.version = version /\ wallet # None => held.grant = Owner

IInv ==
  /\ Shape
  /\ ReadsOwned /\ DataOwned /\ NotesOwned
  /\ SessionShown /\ SignerShown /\ RunsOwned /\ HeldOwned

-----------------------------------------------------------------------------
(* Numbers nothing captured refers to.                                     *)
LEMMA FreshExists ==
  ASSUME NEW S, IsFiniteSet(S)
  PROVE  Fresh(S) \in Nat /\ Fresh(S) \notin S
<1>1. Cardinality(S) \in Nat
  BY FS_CardinalityType
<1>2. \E n \in 0..Cardinality(S) : n \notin S
  <2>1. SUFFICES ASSUME \A n \in 0..Cardinality(S) : n \in S PROVE FALSE
    OBVIOUS
  <2>2. 0..Cardinality(S) \in SUBSET S
    BY <2>1
  <2>3. Cardinality(0..Cardinality(S)) <= Cardinality(S)
    BY <2>2, FS_Subset
  <2>4. Cardinality(0..Cardinality(S)) = Cardinality(S) - 0 + 1
    BY <1>1, FS_Interval
  <2> QED
    BY <1>1, <2>3, <2>4
<1>3. Fresh(S) \in 0..Cardinality(S) /\ Fresh(S) \notin S
  BY <1>2 DEF Fresh
<1> QED
  BY <1>1, <1>3

LEMMA FiniteRange ==
  ASSUME NEW S, IsFiniteSet(S), NEW f, DOMAIN f = S
  PROVE  IsFiniteSet({f[x] : x \in S})
<1> DEFINE T == {f[x] : x \in S}
           g == [x \in S |-> f[x]]
<1>1. g \in Surjection(S, T)
  BY DEF Surjection
<1> QED
  BY <1>1, FS_Surjection

LEMMA NextVersionFresh ==
  ASSUME Shape
  PROVE  /\ NextVersion \in Nat
         /\ \A run \in runs : run.version # NextVersion
         /\ held # None /\ held.signer # None =>
              held.signer.version # NextVersion
<1> DEFINE V == [run \in runs |-> run.version]
           G == [run \in runs |-> run.signer]
           W == [s \in Signers |-> s.version]
           C == {version} \cup {run.version : run \in runs}
                  \cup {s.version : s \in Signers}
<1>1. IsFiniteSet({V[run] : run \in runs}) /\ IsFiniteSet({G[run] : run \in runs})
  BY FiniteRange DEF Shape
<1>2. /\ {V[run] : run \in runs} = {run.version : run \in runs}
      /\ {G[run] : run \in runs} = {run.signer : run \in runs}
  OBVIOUS
<1>3. IsFiniteSet(Signers)
  BY <1>1, <1>2, FS_Singleton, FS_Union, FS_Difference DEF Signers
<1>4. IsFiniteSet({W[s] : s \in Signers})
  BY <1>3, FiniteRange
<1>5. {W[s] : s \in Signers} = {s.version : s \in Signers}
  OBVIOUS
<1>6. IsFiniteSet(C)
  BY <1>1, <1>2, <1>4, <1>5, FS_Singleton, FS_Union
<1>7. NextVersion \in Nat /\ NextVersion \notin C
  BY <1>6, FreshExists DEF NextVersion
<1>8. held # None /\ held.signer # None => held.signer \in Signers
  BY DEF Signers
<1> QED
  BY <1>7, <1>8

LEMMA NextSessionFresh ==
  ASSUME Shape, DataOwned
  PROVE  NextSession \in Nat /\ \A r \in reads : r.session # NextSession
<1> DEFINE G == [run \in runs |-> run.grant]
           R == [r \in reads |-> GrantOf(r)]
           H == IF held = None THEN None ELSE held.grant
           D == {query[a].data : a \in Account}
           N == [g \in Grants |-> g.session]
           C == {midenVersion} \cup {g.session : g \in Grants}
<1>1. IsFiniteSet({G[run] : run \in runs}) /\ IsFiniteSet({R[r] : r \in reads})
  BY FiniteRange DEF Shape
<1>2. /\ {G[run] : run \in runs} = {run.grant : run \in runs}
      /\ {R[r] : r \in reads} = {GrantOf(r) : r \in reads}
  OBVIOUS
<1>3. IsFiniteSet(D)
  <2>1. D \in SUBSET ({None} \cup {Owner})
    BY DEF DataOwned
  <2>2. IsFiniteSet({None} \cup {Owner})
    BY FS_Singleton, FS_Union
  <2> QED
    BY <2>1, <2>2, FS_Subset
<1>4. IsFiniteSet(Grants)
  <2>1. IsFiniteSet({run.grant : run \in runs} \cup {GrantOf(r) : r \in reads})
    BY <1>1, <1>2, FS_Union
  <2>2. IsFiniteSet({run.grant : run \in runs} \cup {GrantOf(r) : r \in reads} \cup D)
    BY <1>3, <2>1, FS_Union
  <2>3. IsFiniteSet({snapshot.notes}) /\ IsFiniteSet({H})
    BY FS_Singleton
  <2>4. IsFiniteSet({run.grant : run \in runs} \cup {GrantOf(r) : r \in reads}
                      \cup D \cup {snapshot.notes})
    BY <2>2, <2>3, FS_Union
  <2>5. IsFiniteSet({run.grant : run \in runs} \cup {GrantOf(r) : r \in reads}
                      \cup D \cup {snapshot.notes} \cup {H})
    BY <2>3, <2>4, FS_Union
  <2> QED
    BY <2>5, FS_Difference DEF Grants
<1>5. IsFiniteSet({N[g] : g \in Grants})
  BY <1>4, FiniteRange
<1>6. {N[g] : g \in Grants} = {g.session : g \in Grants}
  OBVIOUS
<1>7. IsFiniteSet(C)
  BY <1>5, <1>6, FS_Singleton, FS_Union
<1>8. NextSession \in Nat /\ NextSession \notin C
  BY <1>7, FreshExists DEF NextSession
<1>9. ASSUME NEW r \in reads PROVE r.session # NextSession
  <2>1. GrantOf(r) \in Grant /\ GrantOf(r).session = r.session
    BY DEF Shape, TypeOK, StoreTypeOK, Read, Grant, GrantOf
  <2>2. GrantOf(r) \in Grants
    BY <2>1, NoneAssumption DEF Grants
  <2> QED
    BY <1>8, <2>1, <2>2
<1> QED
  BY <1>8, <1>9

LEMMA NextAdapterNumber == ASSUME Shape PROVE NextAdapter \in Nat
<1> DEFINE V == [run \in runs |-> run.wallet.adapter]
           G == [run \in runs |-> run.signer]
           A == [s \in Signers |-> s.wallet.adapter]
           W == [w \in {wallet} \ {None} |-> w.adapter]
<1>1. IsFiniteSet({V[run] : run \in runs}) /\ IsFiniteSet({G[run] : run \in runs})
  BY FiniteRange DEF Shape
<1>2. /\ {V[run] : run \in runs} = {run.wallet.adapter : run \in runs}
      /\ {G[run] : run \in runs} = {run.signer : run \in runs}
  OBVIOUS
<1>3. IsFiniteSet(Signers)
  BY <1>1, <1>2, FS_Singleton, FS_Union, FS_Difference DEF Signers
<1>4. IsFiniteSet({wallet} \ {None})
  BY FS_Singleton, FS_Difference
<1>5. /\ IsFiniteSet({A[s] : s \in Signers})
      /\ IsFiniteSet({W[w] : w \in {wallet} \ {None}})
  BY <1>3, <1>4, FiniteRange
<1>6. /\ {A[s] : s \in Signers} = {s.wallet.adapter : s \in Signers}
      /\ {W[w] : w \in {wallet} \ {None}}
           = {w.adapter : w \in {wallet} \ {None}}
  OBVIOUS
<1>7. IsFiniteSet({0, adapter.id, sdk.adapter})
  <2>1. IsFiniteSet({0} \cup {adapter.id})
    BY FS_Singleton, FS_Union
  <2>2. IsFiniteSet({0} \cup {adapter.id} \cup {sdk.adapter})
    BY <2>1, FS_Singleton, FS_Union
  <2>3. {0, adapter.id, sdk.adapter} = {0} \cup {adapter.id} \cup {sdk.adapter}
    OBVIOUS
  <2> QED
    BY <2>2, <2>3
<1>8. IsFiniteSet({0, adapter.id, sdk.adapter}
                    \cup {run.wallet.adapter : run \in runs})
  BY <1>1, <1>2, <1>7, FS_Union
<1>9. IsFiniteSet({0, adapter.id, sdk.adapter}
                    \cup {run.wallet.adapter : run \in runs}
                    \cup {s.wallet.adapter : s \in Signers})
  BY <1>5, <1>6, <1>8, FS_Union
<1>10. IsFiniteSet({0, adapter.id, sdk.adapter}
                     \cup {run.wallet.adapter : run \in runs}
                     \cup {s.wallet.adapter : s \in Signers}
                     \cup {w.adapter : w \in {wallet} \ {None}})
  BY <1>5, <1>6, <1>9, FS_Union
<1> QED
  BY <1>10, FreshExists DEF NextAdapter

-----------------------------------------------------------------------------
(* The store alone.                                                        *)
StoreInv == StoreTypeOK /\ IsFiniteSet(reads) /\ ReadsOwned /\ DataOwned

LEMMA OwnerFacts ==
  ASSUME StoreTypeOK
  PROVE  /\ Owner \in Grant \cup {None}
         /\ Owner = None <=> midenSession = None
         /\ midenSession # None =>
              /\ Owner.account = midenSession /\ Owner.session = midenVersion
              /\ midenSession \in Account
<1>1. CASE midenSession = None
  BY <1>1 DEF Owner
<1>2. CASE midenSession # None
  <2>1. midenSession \in Account /\ midenVersion \in Nat
    BY <1>2 DEF StoreTypeOK
  <2>2. Owner = [account |-> midenSession, session |-> midenVersion]
    BY <1>2 DEF Owner
  <2>3. Owner \in Grant
    BY <2>1, <2>2 DEF Grant
  <2> QED
    BY <1>2, <2>1, <2>2, <2>3, NoneAssumption
<1> QED
  BY <1>1, <1>2

(* A fetch adds at most a read of the account and version it is for.       *)
LEMMA FetchFacts ==
  ASSUME NEW a \in Account, NEW v \in Nat, NEW q \in [Account -> Query],
         NEW R, R \subseteq Read, IsFiniteSet(R), NEW refresh \in BOOLEAN,
         Fetch(a, v, q, R, refresh)
  PROVE  /\ query' \in [Account -> Query]
         /\ \A b \in Account : query'[b].data = q[b].data
         /\ reads' \subseteq Read /\ IsFiniteSet(reads')
         /\ \A r \in reads' \ R :
              r.account = a /\ r.session = v /\ r.stage = "loading"
<1> DEFINE r == [account |-> a, session |-> v, stage |-> "loading",
                 attached |-> TRUE, expired |-> FALSE]
           q1 == [q EXCEPT ![a].status =
                    IF q[a].data = None THEN "pending" ELSE @]
<1>1. \/ query' = q /\ reads' = R
      \/ query' = q1 /\ reads' = R \cup {r}
  BY DEF Fetch
<1>2. CASE query' = q /\ reads' = R
  BY <1>2
<1>3. CASE query' = q1 /\ reads' = R \cup {r}
  <2>1. r \in Read
    BY DEF Read
  <2>2. IsFiniteSet(R \cup {r})
    BY FS_AddElement
  <2>3. q1 \in [Account -> Query] /\ \A b \in Account : q1[b].data = q[b].data
    BY DEF Query
  <2>4. query' \in [Account -> Query] /\ \A b \in Account : query'[b].data = q[b].data
    BY <1>3, <2>3
  <2>5. reads' \subseteq Read /\ IsFiniteSet(reads')
    BY <1>3, <2>1, <2>2
  <2>6. r.account = a /\ r.session = v /\ r.stage = "loading"
    OBVIOUS
  <2>7. \A x \in reads' \ R : x = r
    BY <1>3
  <2> HIDE DEF r
  <2> QED
    BY <2>4, <2>5, <2>6, <2>7
<1> QED
  BY <1>1, <1>2, <1>3

(* Reads given up keep the session they were started in.                   *)
LEMMA AbandonedFacts ==
  ASSUME StoreTypeOK, IsFiniteSet(reads), NEW expired \in BOOLEAN
  PROVE  /\ Abandoned(expired) \subseteq Read /\ IsFiniteSet(Abandoned(expired))
         /\ \A r \in Abandoned(expired) :
              /\ \E old \in reads : GrantOf(r) = GrantOf(old) /\ r.session = old.session
              /\ r \notin reads => r.stage = "loading"
<1> DEFINE early == {r \in reads : r.attached /\ r.stage = "loading"}
           U == [r \in early |-> [r EXCEPT !.attached = FALSE, !.expired = expired]]
<1>1. reads \subseteq Read
  BY DEF StoreTypeOK
<1>2. CASE early = {}
  <2>1. Abandoned(expired) = {r \in reads : ~r.attached}
    BY <1>2 DEF Abandoned
  <2>2. {r \in reads : ~r.attached} \in SUBSET reads
    OBVIOUS
  <2>3. IsFiniteSet({r \in reads : ~r.attached})
    BY <2>2, FS_Subset
  <2> QED
    BY <1>1, <2>1, <2>3
<1>3. CASE early # {}
  <2>1. Abandoned(expired) = {U[r] : r \in early}
    BY <1>3 DEF Abandoned
  <2>2. IsFiniteSet(early)
    <3>1. early \in SUBSET reads
      OBVIOUS
    <3> QED
      BY <3>1, FS_Subset
  <2>3. IsFiniteSet({U[r] : r \in early})
    <3>1. DOMAIN U = early
      OBVIOUS
    <3> HIDE DEF U, early
    <3> QED
      BY <2>2, <3>1, FiniteRange
  <2>4. ASSUME NEW r \in early
        PROVE  /\ U[r] \in Read /\ U[r].session = r.session
               /\ U[r].account = r.account /\ U[r].stage = "loading" /\ r \in reads
    BY <1>1 DEF Read
  <2>5. \A r \in early : GrantOf(U[r]) = GrantOf(r)
    BY <2>4 DEF GrantOf
  <2> HIDE DEF U
  <2> QED
    BY <2>1, <2>3, <2>4, <2>5
<1> QED
  BY <1>2, <1>3

(* A change of account begins a session nothing was read in before.        *)
LEMMA SessionChange ==
  ASSUME StoreInv, NEW a \in Account \cup {None}, NEW n \in Nat,
         \A r \in reads : r.session # n, SetMidenSession(a, n)
  PROVE  /\ StoreInv'
         /\ midenSession' = a
         /\ a = midenSession => Owner' = Owner /\ query' = query /\ reads' = reads
         /\ a # midenSession => \A b \in Account : query'[b].data = None
         /\ \A r \in reads' \ reads : r.stage = "loading"
<1>1. midenSession' = a
  BY DEF SetMidenSession
<1>2. CASE a = midenSession
  <2>1. UNCHANGED <<midenSession, midenVersion, query, reads>>
    BY <1>1, <1>2 DEF SetMidenSession
  <2>2. Owner' = Owner
    BY <2>1 DEF Owner
  <2> QED
    BY <1>1, <1>2, <2>1, <2>2
       DEF StoreInv, StoreTypeOK, ReadsOwned, DataOwned
<1>3. CASE a # midenSession
  <2> DEFINE unread == [b \in Account |-> Unread]
             under  == Abandoned(FALSE)
  <2>1. midenVersion' = n
    BY <1>3 DEF SetMidenSession
  <2>2. /\ unread \in [Account -> Query]
        /\ \A b \in Account : unread[b].data = None
    BY DEF Unread, Query
  <2>3. /\ under \subseteq Read /\ IsFiniteSet(under)
        /\ \A r \in under : r.session # n /\ (r \notin reads => r.stage = "loading")
    BY AbandonedFacts DEF StoreInv
  <2>4. /\ query' \in [Account -> Query]
        /\ \A b \in Account : query'[b].data = None
        /\ reads' \subseteq Read /\ IsFiniteSet(reads')
        /\ \A r \in reads' \ under :
             r.account = a /\ r.session = n /\ r.stage = "loading" /\ a # None
    <3> HIDE DEF unread, under
    <3>1. CASE a # None
      <4>1. Fetch(a, n, unread, under, FALSE) /\ a \in Account
        BY <1>3, <3>1 DEF SetMidenSession, unread, under
      <4>2. /\ query' \in [Account -> Query]
            /\ \A b \in Account : query'[b].data = unread[b].data
            /\ reads' \subseteq Read /\ IsFiniteSet(reads')
            /\ \A r \in reads' \ under :
                 r.account = a /\ r.session = n /\ r.stage = "loading"
        <5>1. PICK refresh \in BOOLEAN : Fetch(a, n, unread, under, refresh)
          BY <4>1, Zenon
        <5> QED
          BY <2>2, <2>3, <4>1, <5>1, FetchFacts
      <4> QED
        BY <2>2, <3>1, <4>2
    <3>2. CASE a = None
      <4>1. query' = unread /\ reads' = under
        BY <1>3, <3>2 DEF SetMidenSession, unread, under
      <4> QED
        BY <2>2, <2>3, <4>1
    <3> QED
      BY <3>1, <3>2
  <2> HIDE DEF unread, under
  <2>5. StoreTypeOK'
    BY <1>1, <2>1, <2>4 DEF StoreTypeOK
  <2>6. ReadsOwned'
    <3>1. ASSUME NEW r \in reads', r.session = midenVersion'
          PROVE  GrantOf(r) = Owner'
      <4>1. r.account = a /\ r.session = n /\ a # None
        BY <2>1, <2>3, <2>4, <3>1
      <4> QED
        BY <1>1, <2>1, <4>1 DEF GrantOf, Owner
    <3> QED
      BY <3>1 DEF ReadsOwned, GrantOf
  <2>7. DataOwned'
    BY <2>4 DEF DataOwned
  <2>8. \A r \in reads' \ reads : r.stage = "loading"
    BY <2>3, <2>4
  <2> QED
    BY <1>1, <1>3, <2>4, <2>5, <2>6, <2>7, <2>8 DEF StoreInv
<1> QED
  BY <1>2, <1>3

(* Asking again reads for the present session, if at all.                  *)
LEMMA RequestKeeps ==
  ASSUME StoreInv, NEW a, NEW refresh \in BOOLEAN, RequestMiden(a, refresh)
  PROVE  /\ StoreInv'
         /\ UNCHANGED <<midenSession, midenVersion>>
         /\ \A r \in reads' \ reads : r.stage = "loading"
<1>1. UNCHANGED <<midenSession, midenVersion>>
  BY DEF RequestMiden
<1>2. Owner' = Owner
  BY <1>1 DEF Owner
<1>3. CASE midenSession # None /\ a = midenSession
  <2>1. a \in Account /\ midenVersion \in Nat /\ query \in [Account -> Query]
        /\ reads \subseteq Read
    BY <1>3 DEF StoreInv, StoreTypeOK
  <2>2. Fetch(a, midenVersion, query, reads, refresh)
    BY <1>3 DEF RequestMiden
  <2>3. /\ query' \in [Account -> Query]
        /\ \A b \in Account : query'[b].data = query[b].data
        /\ reads' \subseteq Read /\ IsFiniteSet(reads')
        /\ \A r \in reads' \ reads :
             r.account = a /\ r.session = midenVersion /\ r.stage = "loading"
    BY <2>1, <2>2, FetchFacts DEF StoreInv
  <2>4. StoreTypeOK'
    BY <1>1, <2>3 DEF StoreInv, StoreTypeOK
  <2>5. DataOwned'
    BY <1>2, <2>3 DEF StoreInv, DataOwned
  <2>6. ReadsOwned'
    <3>1. ASSUME NEW r \in reads', r.session = midenVersion PROVE GrantOf(r) = Owner
      <4>1. CASE r \in reads
        BY <3>1, <4>1 DEF StoreInv, ReadsOwned
      <4>2. CASE r \notin reads
        BY <1>3, <2>3, <3>1, <4>2 DEF GrantOf, Owner
      <4> QED
        BY <4>1, <4>2
    <3> QED
      BY <1>1, <1>2, <3>1 DEF ReadsOwned, GrantOf
  <2> QED
    BY <1>1, <2>3, <2>4, <2>5, <2>6 DEF StoreInv
<1>4. CASE ~(midenSession # None /\ a = midenSession)
  <2>1. UNCHANGED <<query, reads>>
    BY <1>4 DEF RequestMiden
  <2> QED
    BY <1>1, <1>2, <2>1 DEF StoreInv, StoreTypeOK, ReadsOwned, DataOwned
<1> QED
  BY <1>3, <1>4

(* A read's own steps prompt, and fill the cache, for the owner only.      *)
LEMMA ReadStepKeeps ==
  ASSUME StoreInv, NEW r \in reads, ReadStep(r)
  PROVE  /\ StoreInv'
         /\ UNCHANGED <<midenSession, midenVersion>>
         /\ \A x \in reads' \ reads : x.stage = "asked" => GrantOf(x) = Owner
<1>1. UNCHANGED <<midenSession, midenVersion>>
  BY DEF ReadStep, AskAssets, FinishRead, ExpireRead, Fails
<1>2. Owner' = Owner
  BY <1>1 DEF Owner
<1>3. r \in Read /\ r.account \in Account /\ query \in [Account -> Query]
      /\ reads \subseteq Read
  BY DEF StoreInv, StoreTypeOK, Read
<1>4. IsFiniteSet(reads \ {r})
  BY FS_RemoveElement DEF StoreInv
<1> DEFINE failed == [query EXCEPT ![r.account].status = "error"]
<1>5. failed \in [Account -> Query] /\ \A b \in Account : failed[b].data = query[b].data
  BY <1>3 DEF Query
<1> HIDE DEF failed
<1>6. CASE Fails(r)
  <2>1. reads' = reads \ {r} /\ query' \in {query, failed}
    BY <1>6 DEF Fails, failed
  <2> QED
    BY <1>1, <1>2, <1>3, <1>4, <1>5, <2>1
       DEF StoreInv, StoreTypeOK, ReadsOwned, DataOwned
<1>7. CASE AskAssets(r) /\ ~Fails(r)
  <2> DEFINE asked == [r EXCEPT !.stage = "asked"]
  <2>1. /\ Current(r) /\ reads' = (reads \ {r}) \cup {asked}
        /\ query' = query
    BY <1>7 DEF AskAssets
  <2>2. asked \in Read /\ asked.session = r.session /\ GrantOf(asked) = GrantOf(r)
    BY <1>3 DEF Read, GrantOf
  <2> HIDE DEF asked
  <2>3. IsFiniteSet(reads')
    BY <1>4, <2>1, FS_AddElement
  <2>4. GrantOf(asked) = Owner
    BY <2>1, <2>2 DEF Current, StoreInv, ReadsOwned
  <2> QED
    BY <1>1, <1>2, <1>3, <2>1, <2>2, <2>3, <2>4
       DEF StoreInv, StoreTypeOK, ReadsOwned, DataOwned
<1>8. CASE FinishRead(r) /\ ~Fails(r)
  <2> DEFINE full == [query EXCEPT ![r.account] =
                        [status |-> "success", data |-> GrantOf(r)]]
  <2>1. Current(r) /\ reads' = reads \ {r} /\ query' = full
    BY <1>8 DEF FinishRead
  <2>2. GrantOf(r) = Owner /\ GrantOf(r) \in Grant
    BY <1>3, <2>1 DEF Current, StoreInv, ReadsOwned, GrantOf, Read, Grant
  <2>3. /\ full \in [Account -> Query]
        /\ \A b \in Account : full[b].data \in {query[b].data, Owner}
    BY <1>3, <2>2 DEF Query
  <2> HIDE DEF full
  <2>4. DataOwned'
    BY <1>2, <2>1, <2>3 DEF StoreInv, DataOwned
  <2> QED
    BY <1>1, <1>2, <1>3, <1>4, <2>1, <2>3, <2>4
       DEF StoreInv, StoreTypeOK, ReadsOwned
<1>9. CASE ExpireRead(r)
  <2>1. reads' = Abandoned(TRUE) /\ query' = failed
    BY <1>9 DEF ExpireRead, failed
  <2>2. /\ reads' \subseteq Read /\ IsFiniteSet(reads')
        /\ \A x \in reads' :
             /\ \E old \in reads : GrantOf(x) = GrantOf(old) /\ x.session = old.session
             /\ x \notin reads => x.stage = "loading"
    BY <2>1, AbandonedFacts DEF StoreInv
  <2>3. ReadsOwned'
    BY <1>1, <1>2, <2>2 DEF StoreInv, ReadsOwned, GrantOf
  <2> QED
    BY <1>1, <1>2, <1>5, <2>1, <2>2, <2>3 DEF StoreInv, StoreTypeOK, DataOwned
<1> QED
  BY <1>6, <1>7, <1>8, <1>9 DEF ReadStep

-----------------------------------------------------------------------------
(* What every step does: it keeps the invariant, it changes the owner only *)
(* by forgetting its data, and asks on behalf of the owner.                *)
Handover ==
  \/ Owner' = Owner
  \/ /\ Owner' # Owner /\ snapshot.notes' = None
     /\ \A a \in Account : query'[a].data = None
Asks ==
  /\ \A r \in reads' \ reads : r.stage = "asked" => GrantOf(r) = Owner
  /\ \A run \in runs' \ runs : run.stage = "notes" => run.grant = Owner
Keeps == IInv' /\ Handover /\ Asks

Adapter  == [id: Nat, address: Account \cup {None}, retired: BOOLEAN]
Settled  == /\ adapter' \in Adapter /\ sdk' \in Wallet
            /\ connection' # None => connection' \in Attempt

LEMMA StoreOf == ASSUME IInv PROVE StoreInv
BY DEF IInv, Shape, TypeOK, StoreInv

LEMMA StartedAttempt ==
  ASSUME NEW kind \in {"connect", "reconnect", "disconnect"}, NEW w \in Wallet
  PROVE  Started(kind, w) \in Attempt
BY DEF Started, Attempt, Wallet

LEMMA SameOwner ==
  ASSUME UNCHANGED <<midenSession, midenVersion>>
  PROVE  Owner' = Owner
BY DEF Owner

(* Steps of the adapter, the extension, renders and attempts.              *)
LEMMA QuietKeeps ==
  ASSUME IInv, Settled, held' \in {held, None},
         UNCHANGED <<storeVars, wallet, snapshot, version, runs>>
  PROVE  Keeps
<1>1. /\ midenSession' = midenSession /\ midenVersion' = midenVersion
      /\ query' = query /\ reads' = reads /\ wallet' = wallet
      /\ snapshot' = snapshot /\ version' = version /\ runs' = runs
  BY DEF storeVars
<1>2. Owner' = Owner
  BY <1>1, SameOwner
<1>3. Shape'
  BY <1>1 DEF IInv, Shape, TypeOK, StoreTypeOK, Settled, Adapter
<1>4. ReadsOwned' /\ DataOwned' /\ NotesOwned'
  BY <1>1, <1>2 DEF IInv, ReadsOwned, DataOwned, NotesOwned, GrantOf
<1>5. SessionShown' /\ SignerShown' /\ RunsOwned' /\ HeldOwned'
  BY <1>1, <1>2 DEF IInv, SessionShown, SignerShown, RunsOwned, HeldOwned
<1> QED
  BY <1>1, <1>2, <1>3, <1>4, <1>5 DEF Keeps, IInv, Handover, Asks

(* disconnect, reset and the deadline.                                     *)
LEMMA InvalidateKeeps ==
  ASSUME IInv, Settled, Invalidate, UNCHANGED <<runs, held>>
  PROVE  Keeps
<1>1. /\ wallet' = None /\ snapshot' = EmptySnapshot /\ version' = NextVersion
      /\ SetMidenSession(None, NextSession) /\ runs' = runs /\ held' = held
  BY DEF Invalidate
<1>2. NextSession \in Nat /\ \A r \in reads : r.session # NextSession
  BY NextSessionFresh DEF IInv
<1>3. /\ StoreInv' /\ midenSession' = None
      /\ None = midenSession => Owner' = Owner
      /\ None # midenSession => \A b \in Account : query'[b].data = None
      /\ \A r \in reads' \ reads : r.stage = "loading"
  BY <1>1, <1>2, StoreOf, SessionChange
<1>4. /\ NextVersion \in Nat
      /\ \A run \in runs : run.version # NextVersion
      /\ held # None => held.signer.version # NextVersion
  BY NextVersionFresh DEF IInv, HeldOwned
<1>5. EmptySnapshot \in Snapshot /\ EmptySnapshot.notes = None
      /\ EmptySnapshot.signer = None
  BY DEF EmptySnapshot, Snapshot
<1>6. Shape'
  BY <1>1, <1>3, <1>4, <1>5
     DEF IInv, Shape, TypeOK, StoreInv, Settled, Adapter, Snapshot
<1>7. RunsOwned' /\ HeldOwned' /\ SessionShown'
  BY <1>1, <1>4 DEF IInv, RunsOwned, HeldOwned, SessionShown
<1>8. SignerShown' /\ NotesOwned'
  BY <1>1, <1>5 DEF SignerShown, NotesOwned
<1>9. Handover
  <2>1. CASE midenSession = None
    BY <1>3, <2>1 DEF Handover
  <2>2. CASE midenSession # None
    <3>1. Owner' = None /\ Owner # None
      BY <1>3, <2>2, StoreOf, OwnerFacts DEF Owner, StoreInv
    <3> QED
      BY <1>1, <1>3, <1>5, <2>2, <3>1 DEF Handover
  <2> QED
    BY <2>1, <2>2
<1> QED
  BY <1>1, <1>3, <1>6, <1>7, <1>8, <1>9 DEF Keeps, IInv, StoreInv, Asks

LEMMA UpdateWalletKeeps == ASSUME IInv, UpdateWallet PROVE Keeps
<1> DEFINE connected == Holds(sdk) /\ ~Disconnecting
           changed   == \/ wallet = None \/ wallet.adapter # sdk.adapter
                        \/ snapshot.address # sdk.address
                        \/ snapshot.connected # connected
           now       == IF changed THEN NextVersion ELSE version
           usable    == connected /\ sdk.address \notin Foreign
           account   == IF usable THEN sdk.address ELSE None
<1>1. /\ wallet' = sdk /\ version' = now
      /\ SetMidenSession(account, NextSession)
      /\ snapshot' = [address |-> sdk.address, connected |-> connected,
           notes |-> IF changed THEN None ELSE snapshot.notes,
           signer |-> IF usable THEN [wallet |-> sdk, version |-> now] ELSE None]
      /\ UNCHANGED <<adapter, sdk, runs, held>>
  BY DEF UpdateWallet
<1>2. connection' # None => connection' \in Attempt
  BY StartedAttempt DEF UpdateWallet, IInv, Shape, TypeOK
<1>3. /\ sdk \in Wallet /\ sdk.address \in Account \cup {None}
      /\ connected \in BOOLEAN /\ (usable => sdk.address \in Account)
      /\ account \in Account \cup {None}
  BY DEF IInv, Shape, TypeOK, Wallet, Holds
<1>4. NextSession \in Nat /\ \A r \in reads : r.session # NextSession
  BY NextSessionFresh DEF IInv
<1>5. /\ StoreInv' /\ midenSession' = account
      /\ account = midenSession => Owner' = Owner
      /\ account # midenSession => \A b \in Account : query'[b].data = None
      /\ \A r \in reads' \ reads : r.stage = "loading"
  <2> HIDE DEF account
  <2> QED
    BY <1>1, <1>3, <1>4, StoreOf, SessionChange
<1>6. /\ NextVersion \in Nat
      /\ \A run \in runs : run.version # NextVersion
      /\ held # None => held.signer.version # NextVersion
  BY NextVersionFresh DEF IInv, HeldOwned
<1>7. now \in Nat
  BY <1>6 DEF IInv, Shape
<1>8. ~changed => wallet # None /\ account = midenSession
  BY DEF IInv, SessionShown
<1>9. ~changed => Owner' = Owner
  BY <1>5, <1>8
<1> HIDE DEF connected, changed, usable
<1>10. /\ snapshot'.address = sdk.address /\ snapshot'.connected = connected
       /\ snapshot'.notes = (IF changed THEN None ELSE snapshot.notes)
       /\ snapshot'.signer = (IF usable THEN [wallet |-> sdk, version |-> now] ELSE None)
  BY <1>1
<1>11. snapshot' \in Snapshot
  <2>1. [wallet |-> sdk, version |-> now] \in Signer
    BY <1>3, <1>7 DEF Signer
  <2>2. snapshot.notes \in Grant \cup {None}
    BY DEF IInv, Shape, Snapshot
  <2> QED
    BY <1>1, <1>3, <2>1, <2>2 DEF Snapshot
<1>12. Shape'
  BY <1>1, <1>2, <1>3, <1>5, <1>7, <1>11
     DEF IInv, Shape, TypeOK, StoreInv, Snapshot
<1>13. NotesOwned'
  BY <1>9, <1>10 DEF IInv, NotesOwned
<1>14. SessionShown'
  <2>1. account = IF connected /\ sdk.address \notin Foreign THEN sdk.address ELSE None
    BY DEF usable, connected
  <2> QED
    BY <1>1, <1>5, <1>10, <2>1 DEF SessionShown
<1>15. SignerShown'
  BY <1>1, <1>3, <1>5, <1>10 DEF SignerShown
<1>16. RunsOwned' /\ HeldOwned'
  BY <1>1, <1>6, <1>8, <1>9 DEF IInv, RunsOwned, HeldOwned
<1>17. Handover
  <2>1. CASE account = midenSession
    BY <1>5, <2>1 DEF Handover
  <2>2. CASE account # midenSession
    <3>1. Owner' # Owner
      <4>1. StoreTypeOK /\ StoreTypeOK'
        BY <1>5, StoreOf DEF StoreInv
      <4> HIDE DEF account
      <4> QED
        BY <1>5, <2>2, <4>1, NoneAssumption DEF Owner, StoreTypeOK, Grant
    <3>2. snapshot'.notes = None
      BY <1>8, <1>10, <2>2
    <3> QED
      BY <1>5, <2>2, <3>1, <3>2 DEF Handover
  <2> QED
    BY <2>1, <2>2
<1> QED
  BY <1>1, <1>5, <1>12, <1>13, <1>14, <1>15, <1>16, <1>17
     DEF Keeps, IInv, StoreInv, Asks

LEMMA IsCurrentFacts ==
  ASSUME NEW w, NEW v, IsCurrent(w, v)
  PROVE  version = v /\ wallet # None /\ w.address # None
BY DEF IsCurrent, Holds

(* The frame of the steps below: the session's owner, and who captured     *)
(* what, stay; runs, the snapshot's notes or the held request change.      *)
LEMMA OwnedKeeps ==
  ASSUME IInv, StoreInv', Settled,
         UNCHANGED <<midenSession, midenVersion, wallet, version>>,
         \A r \in reads' \ reads : r.stage = "asked" => GrantOf(r) = Owner,
         NEW notes \in Grant \cup {None}, notes # None => notes = Owner,
         snapshot' = [snapshot EXCEPT !.notes = notes],
         runs' \subseteq Run, IsFiniteSet(runs'),
         \A run \in runs' \ runs :
           /\ run.stage = "notes" => run.signer # None
           /\ run.stage = "notes" => run.grant = Owner
           /\ run.signer # None => run.grant = Owner,
         held' # None => /\ held' \in Held /\ held'.signer # None
                         /\ held' = held \/ held'.grant = Owner
  PROVE  Keeps
<1>1. Owner' = Owner
  BY SameOwner
<1>2. /\ snapshot' \in Snapshot /\ snapshot'.notes = notes
      /\ snapshot'.address = snapshot.address
      /\ snapshot'.connected = snapshot.connected
      /\ snapshot'.signer = snapshot.signer
  BY DEF IInv, Shape, Snapshot
<1>3. Shape'
  BY <1>2 DEF IInv, Shape, TypeOK, StoreInv, Settled, Adapter, Snapshot
<1>4. NotesOwned' /\ SessionShown' /\ SignerShown'
  BY <1>1, <1>2 DEF IInv, NotesOwned, SessionShown, SignerShown
<1>5. RunsOwned'
  BY <1>1 DEF IInv, RunsOwned
<1>6. HeldOwned'
  BY <1>1 DEF IInv, HeldOwned
<1> QED
  BY <1>1, <1>3, <1>4, <1>5, <1>6 DEF Keeps, IInv, StoreInv, Handover, Asks

LEMMA HeldFacts ==
  ASSUME IInv, held # None
  PROVE  held \in Held /\ held.signer # None
BY DEF IInv, Shape, HeldOwned

LEMMA SnapshotAsIs ==
  ASSUME IInv
  PROVE  /\ snapshot.notes \in Grant \cup {None}
         /\ snapshot.notes # None => snapshot.notes = Owner
         /\ snapshot = [snapshot EXCEPT !.notes = snapshot.notes]
BY DEF IInv, Shape, Snapshot, NotesOwned

LEMMA RefreshKeeps == ASSUME IInv, Refresh PROVE Keeps
<1> DEFINE run == [wallet |-> wallet, version |-> version, signer |-> snapshot.signer,
                   grant |-> [account |-> wallet.address, session |-> midenVersion],
                   stage |-> "balances"]
<1>1. /\ wallet # None /\ IsCurrent(wallet, version)
      /\ RequestMiden(wallet.address, TRUE)
      /\ snapshot' = [snapshot EXCEPT !.notes = None]
      /\ runs' = runs \cup {run}
      /\ UNCHANGED <<wallet, version, connection, adapter, sdk, held>>
  BY DEF Refresh, outside
<1>2. /\ StoreInv' /\ UNCHANGED <<midenSession, midenVersion>>
      /\ \A r \in reads' \ reads : r.stage = "loading"
  <2>1. PICK refresh \in BOOLEAN : RequestMiden(wallet.address, refresh)
    BY <1>1, Zenon
  <2> QED
    BY <2>1, StoreOf, RequestKeeps
<1>3. wallet \in Wallet /\ wallet.address \in Account /\ midenVersion \in Nat
  BY <1>1, IsCurrentFacts DEF IInv, Shape, TypeOK, StoreTypeOK, Wallet
<1>4. run \in Run /\ run.stage = "balances" /\ run.signer = snapshot.signer
  <2>1. run.grant \in Grant
    BY <1>3 DEF Grant
  <2>2. snapshot.signer \in Signer \cup {None}
    BY DEF IInv, Shape, Snapshot
  <2> QED
    BY <1>3, <2>1, <2>2 DEF Run, IInv, Shape
<1>5. run.signer # None => run.grant = Owner
  <2>1. SUFFICES ASSUME snapshot.signer # None PROVE run.grant = Owner
    OBVIOUS
  <2>2. snapshot.address = wallet.address /\ midenSession = wallet.address
    BY <1>1, <2>1 DEF IInv, SessionShown, SignerShown
  <2> QED
    BY <1>3, <2>2, NoneAssumption DEF Owner
<1> HIDE DEF run
<1>6. IsFiniteSet(runs') /\ runs' \subseteq Run
  BY <1>1, <1>4, FS_AddElement DEF IInv, Shape
<1>7. Settled
  BY <1>1 DEF Settled, Adapter, IInv, Shape, TypeOK
<1>8. held' # None => held' \in Held /\ held'.signer # None /\ held' = held
  BY <1>1, HeldFacts
<1>9. \A x \in runs' \ runs : x = run
  BY <1>1
<1> QED
  BY <1>1, <1>2, <1>4, <1>5, <1>6, <1>7, <1>8, <1>9, OwnedKeeps

LEMMA ShowBalanceKeeps == ASSUME IInv, ShowBalance PROVE Keeps
<1>1. PICK refresh \in BOOLEAN : RequestMiden(snapshot.address, refresh)
  BY DEF ShowBalance
<1>2. /\ StoreInv' /\ UNCHANGED <<midenSession, midenVersion>>
      /\ \A r \in reads' \ reads : r.stage = "loading"
  BY <1>1, StoreOf, RequestKeeps
<1>3. UNCHANGED <<wallet, version, snapshot, connection, runs, adapter, sdk, held>>
  BY DEF ShowBalance, sessionVars, outside
<1>4. Settled /\ runs' \subseteq Run /\ IsFiniteSet(runs')
  BY <1>3 DEF Settled, Adapter, IInv, Shape, TypeOK
<1>5. held' # None => held' \in Held /\ held'.signer # None /\ held' = held
  BY <1>3, HeldFacts
<1> QED
  BY <1>2, <1>3, <1>4, <1>5, SnapshotAsIs, OwnedKeeps

LEMMA TakeSignerKeeps == ASSUME IInv, TakeSigner PROVE Keeps
<1> DEFINE taken == [signer |-> snapshot.signer,
              grant |-> [account |-> snapshot.address, session |-> midenVersion]]
<1>1. /\ snapshot.signer # None /\ held' = taken
      /\ UNCHANGED <<storeVars, wallet, version, snapshot, connection, runs,
                     adapter, sdk>>
  BY DEF TakeSigner, sessionVars, outside
<1>2. UNCHANGED <<midenSession, midenVersion, query, reads>>
  BY <1>1 DEF storeVars
<1>3. Owner' = Owner
  BY <1>2, SameOwner
<1>4. StoreInv'
  BY <1>2, <1>3, StoreOf
     DEF StoreInv, StoreTypeOK, ReadsOwned, DataOwned, GrantOf
<1>5. /\ snapshot.address \in Account /\ midenSession = snapshot.address
      /\ midenVersion \in Nat /\ snapshot.signer \in Signer
  BY <1>1 DEF IInv, SignerShown, Shape, Snapshot, TypeOK, StoreTypeOK
<1>6. taken \in Held /\ taken.signer # None /\ taken.grant = Owner
  BY <1>1, <1>5, NoneAssumption DEF Held, Grant, Owner
<1> HIDE DEF taken
<1>7. Settled /\ runs' \subseteq Run /\ IsFiniteSet(runs') /\ runs' = runs
  BY <1>1 DEF Settled, Adapter, IInv, Shape, TypeOK
<1> QED
  BY <1>1, <1>2, <1>4, <1>6, <1>7, SnapshotAsIs, OwnedKeeps

LEMMA StoreStepKeeps ==
  ASSUME IInv, NEW r \in reads, StoreStep(r) PROVE Keeps
<1>1. /\ StoreInv' /\ UNCHANGED <<midenSession, midenVersion>>
      /\ \A x \in reads' \ reads : x.stage = "asked" => GrantOf(x) = Owner
  BY StoreOf, ReadStepKeeps DEF StoreStep
<1>2. UNCHANGED <<wallet, version, snapshot, connection, runs, adapter, sdk, held>>
  BY DEF StoreStep, sessionVars, outside
<1>3. Settled /\ runs' \subseteq Run /\ IsFiniteSet(runs')
  BY <1>2 DEF Settled, Adapter, IInv, Shape, TypeOK
<1>4. held' # None => held' \in Held /\ held'.signer # None /\ held' = held
  BY <1>2, HeldFacts
<1> QED
  BY <1>1, <1>2, <1>3, <1>4, SnapshotAsIs, OwnedKeeps

LEMMA RefreshStepKeeps ==
  ASSUME IInv, NEW run \in runs, RefreshNotes(run) \/ NotesAnswered(run)
  PROVE  Keeps
<1> DEFINE asked == [run EXCEPT !.stage = "notes"]
<1>1. UNCHANGED <<storeVars, wallet, version, connection, adapter, sdk, held>>
  BY DEF RefreshNotes, NotesAnswered, RunFrame, outside
<1>2. UNCHANGED <<midenSession, midenVersion, query, reads>>
  BY <1>1 DEF storeVars
<1>3. Owner' = Owner
  BY <1>2, SameOwner
<1>4. StoreInv'
  BY <1>2, <1>3, StoreOf
     DEF StoreInv, StoreTypeOK, ReadsOwned, DataOwned, GrantOf
<1>5. Settled
  BY <1>1 DEF Settled, Adapter, IInv, Shape, TypeOK
<1>6. held' # None => held' \in Held /\ held'.signer # None /\ held' = held
  BY <1>1, HeldFacts
<1>7. runs \ {run} \subseteq Run /\ IsFiniteSet(runs \ {run})
  BY FS_RemoveElement DEF IInv, Shape
<1>8. /\ run \in Run
      /\ asked \in Run /\ asked.signer = run.signer /\ asked.grant = run.grant
  BY DEF IInv, Shape, Run
<1>9. run.signer # None /\ IsCurrent(run.wallet, run.version) => run.grant = Owner
  BY IsCurrentFacts DEF IInv, RunsOwned
<1> HIDE DEF asked
<1>10. CASE RefreshNotes(run)
  <2>1. snapshot' = snapshot
    BY <1>10 DEF RefreshNotes
  <2>2. \/ runs' = runs \ {run}
        \/ /\ runs' = (runs \ {run}) \cup {asked}
           /\ IsCurrent(run.wallet, run.version) /\ run.signer # None
    BY <1>10 DEF RefreshNotes, asked
  <2>3. runs' \subseteq Run /\ IsFiniteSet(runs')
    BY <1>7, <1>8, <2>2, FS_AddElement
  <2>4. \A x \in runs' \ runs : x.signer # None /\ x.grant = Owner
    BY <1>8, <1>9, <2>2
  <2> QED
    BY <1>1, <1>2, <1>4, <1>5, <1>6, <2>1, <2>3, <2>4, SnapshotAsIs, OwnedKeeps
<1>11. CASE NotesAnswered(run)
  <2>1. runs' = runs \ {run} /\ run.signer # None
    BY <1>11 DEF NotesAnswered, IInv, RunsOwned
  <2>2. \/ snapshot' = snapshot
        \/ /\ snapshot' = [snapshot EXCEPT !.notes = run.grant]
           /\ IsCurrent(run.wallet, run.version)
    BY <1>11 DEF NotesAnswered
  <2>3. CASE snapshot' = snapshot
    BY <1>1, <1>2, <1>4, <1>5, <1>6, <1>7, <2>1, <2>3, SnapshotAsIs, OwnedKeeps
  <2>4. CASE snapshot' # snapshot
    <3>1. /\ snapshot' = [snapshot EXCEPT !.notes = run.grant]
          /\ run.grant = Owner /\ run.grant \in Grant
      BY <1>8, <1>9, <2>1, <2>2, <2>4 DEF Run
    <3> QED
      BY <1>1, <1>2, <1>4, <1>5, <1>6, <1>7, <2>1, <3>1, OwnedKeeps
  <2> QED
    BY <2>3, <2>4
<1> QED
  BY <1>10, <1>11

LEMMA ReloadKeeps == ASSUME IInv, Reload PROVE Keeps
<1>1. /\ adapter' = NewAdapter(NextAdapter) /\ sdk' = NoSdk
      /\ wallet' = None /\ snapshot' = EmptySnapshot /\ version' = NextVersion
      /\ connection' = None /\ runs' = {} /\ held' = None
      /\ midenSession' = None /\ midenVersion' = NextSession
      /\ query' = [a \in Account |-> Unread] /\ reads' = {}
  BY DEF Reload
<1>2. NextSession \in Nat /\ NextVersion \in Nat /\ NextAdapter \in Nat
  BY NextSessionFresh, NextVersionFresh, NextAdapterNumber DEF IInv
<1>3. /\ Unread \in Query /\ Unread.data = None
      /\ EmptySnapshot \in Snapshot /\ EmptySnapshot.notes = None
      /\ EmptySnapshot.signer = None
      /\ NoSdk \in Wallet /\ NewAdapter(NextAdapter) \in Adapter
  BY <1>2 DEF Unread, Query, EmptySnapshot, Snapshot, NoSdk, Wallet, NewAdapter,
              Adapter
<1>4. query' \in [Account -> Query] /\ \A a \in Account : query'[a].data = None
  BY <1>1, <1>3
<1>5. StoreTypeOK'
  BY <1>1, <1>2, <1>4 DEF StoreTypeOK
<1>6. Shape'
  BY <1>1, <1>2, <1>3, <1>5, FS_EmptySet
     DEF Shape, TypeOK, Adapter, Snapshot
<1>7. ReadsOwned' /\ DataOwned' /\ NotesOwned' /\ RunsOwned' /\ HeldOwned'
  BY <1>1, <1>3, <1>4 DEF ReadsOwned, DataOwned, NotesOwned, RunsOwned, HeldOwned
<1>8. SessionShown' /\ SignerShown'
  BY <1>1, <1>3 DEF SessionShown, SignerShown
<1>9. Handover /\ Asks
  BY <1>1, <1>3, <1>4 DEF Handover, Asks
<1> QED
  BY <1>6, <1>7, <1>8, <1>9 DEF Keeps, IInv

LEMMA ConnectionKeeps ==
  ASSUME IInv, NEW kind \in {"connect", "reconnect", "disconnect"},
         StartConnection(kind), wallet # None
  PROVE  Keeps
<1>1. wallet \in Wallet
  BY DEF IInv, Shape, TypeOK
<1>2. connection' # None => connection' \in Attempt
  BY <1>1, StartedAttempt DEF StartConnection, IInv, Shape, TypeOK
<1>3. UNCHANGED <<storeVars, wallet, snapshot, version, runs, adapter, sdk, held>>
  BY DEF StartConnection, outside
<1>4. Settled
  BY <1>2, <1>3 DEF Settled, Adapter, IInv, Shape, TypeOK
<1> QED
  BY <1>3, <1>4, QuietKeeps

(* What the extension reports to the adapter.                              *)
LEMMA AdapterTyped ==
  ASSUME IInv, NEW request, NEW a \in Account \cup {None}, AdapterGets(request, a)
  PROVE  adapter' \in Adapter
BY DEF AdapterGets, Adapter, IInv, Shape, TypeOK

LEMMA AnswerKeeps ==
  ASSUME IInv,
         \/ Connected \/ Disconnected \/ Refused
         \/ \E request \in stray : StrayAnswer(request)
  PROVE  Keeps
<1>1. UNCHANGED <<storeVars, wallet, snapshot, version, runs, sdk, held>>
  BY DEF Connected, Disconnected, Refused, StrayAnswer, SettleFrame
<1>2. adapter' \in Adapter
  <2>1. CASE UNCHANGED adapter
    BY <2>1 DEF Adapter, IInv, Shape, TypeOK
  <2>2. CASE \E request : \E a \in Account \cup {None} : AdapterGets(request, a)
    BY <2>2, AdapterTyped
  <2> QED
    BY <2>1, <2>2 DEF Connected, Disconnected, Refused, StrayAnswer
<1>3. connection' # None => connection' \in Attempt
  BY DEF Connected, Disconnected, Refused, StrayAnswer, SettleFrame, Settles,
         Attempt, IInv, Shape, TypeOK
<1>4. Settled
  BY <1>1, <1>2, <1>3 DEF Settled, IInv, Shape, TypeOK
<1> QED
  BY <1>1, <1>4, QuietKeeps

LEMMA ForgetKeeps == ASSUME IInv, Disconnect \/ DoReset PROVE Keeps
<1>1. Invalidate /\ UNCHANGED <<runs, sdk, held>>
  BY DEF Disconnect, DoReset, outside
<1>2. wallet # None => wallet \in Wallet
  BY DEF IInv, Shape, TypeOK
<1>3. connection' # None => connection' \in Attempt
  BY <1>2, StartedAttempt DEF Disconnect, DoReset
<1>4. adapter' \in Adapter
  BY DEF Disconnect, DoReset, outside, Adapter, IInv, Shape, TypeOK
<1>5. Settled
  BY <1>1, <1>3, <1>4 DEF Settled, IInv, Shape, TypeOK
<1> QED
  BY <1>1, <1>5, InvalidateKeeps

(* Sign, and what happens to the adapter and its renders.                  *)
LEMMA OutsideKeeps ==
  ASSUME IInv,
         Sign \/ SignRefused \/ SwitchAccount \/ Render \/ Remount
           \/ UNCHANGED vars
  PROVE  Keeps
<1>1. /\ UNCHANGED <<storeVars, wallet, snapshot, version, runs, connection>>
      /\ held' \in {held, None}
  BY DEF Sign, SignRefused, SwitchAccount, Render, Remount, vars, sessionVars,
         outside
<1>2. adapter' \in Adapter
  <2>1. NewAdapter(NextAdapter) \in Adapter
    BY NextAdapterNumber DEF IInv, NewAdapter, Adapter
  <2> QED
    BY <2>1 DEF Sign, SignRefused, SwitchAccount, Render, Remount, vars,
                sessionVars, outside, Adapter, IInv, Shape, TypeOK
<1>3. sdk' \in Wallet
  <2>1. sdk \in Wallet /\ NoSdk \in Wallet /\ Rendered \in Wallet
    BY DEF Wallet, Rendered, NoSdk, IInv, Shape, TypeOK
  <2> QED
    BY <2>1 DEF Sign, SignRefused, SwitchAccount, Render, Remount, vars,
                sessionVars, outside
<1>4. Settled
  BY <1>1, <1>2, <1>3 DEF Settled, IInv, Shape, TypeOK
<1> QED
  BY <1>1, <1>4, QuietKeeps

LEMMA InitInvariant == Init => IInv
<1> SUFFICES ASSUME Init PROVE IInv
  OBVIOUS
<1>1. /\ midenSession = None /\ midenVersion = 0
      /\ query = [a \in Account |-> Unread] /\ reads = {}
      /\ adapter = NewAdapter(1) /\ sdk = NoSdk /\ wallet = None
      /\ snapshot = EmptySnapshot /\ version = 0 /\ connection = None
      /\ runs = {} /\ held = None
  BY DEF Init, StoreInit
<1>2. /\ Unread \in Query /\ Unread.data = None
      /\ EmptySnapshot \in Snapshot /\ EmptySnapshot.notes = None
      /\ EmptySnapshot.signer = None
      /\ NoSdk \in Wallet /\ NewAdapter(1) \in Adapter
  BY DEF Unread, Query, EmptySnapshot, Snapshot, NoSdk, Wallet, NewAdapter, Adapter
<1>3. Shape
  BY <1>1, <1>2, FS_EmptySet DEF Shape, TypeOK, StoreTypeOK, Adapter, Snapshot
<1>4. ReadsOwned /\ DataOwned /\ NotesOwned /\ RunsOwned /\ HeldOwned
  BY <1>1, <1>2 DEF ReadsOwned, DataOwned, NotesOwned, RunsOwned, HeldOwned
<1>5. SessionShown /\ SignerShown
  BY <1>1, <1>2 DEF SessionShown, SignerShown
<1> QED
  BY <1>3, <1>4, <1>5 DEF IInv

LEMMA NextKeeps == ASSUME IInv, [Next]_vars PROVE Keeps
<1>1. CASE Connect
  <2>1. CASE wallet # None /\ Ready(wallet)
    BY <1>1, <2>1, ConnectionKeeps DEF Connect
  <2>2. CASE ~(wallet # None /\ Ready(wallet))
    <3>1. UNCHANGED <<storeVars, wallet, snapshot, version, runs, connection,
                      adapter, sdk, held>>
      BY <1>1, <2>2 DEF Connect, outside
    <3>2. Settled
      BY <3>1 DEF Settled, Adapter, IInv, Shape, TypeOK
    <3> QED
      BY <3>1, <3>2, QuietKeeps
  <2> QED
    BY <2>1, <2>2
<1>2. CASE Reconnect
  BY <1>2, ConnectionKeeps DEF Reconnect
<1>3. CASE Disconnect \/ Reset \/ Timeout
  BY <1>3, ForgetKeeps DEF Reset, Timeout
<1>4. CASE Refresh
  BY <1>4, RefreshKeeps
<1>5. CASE ShowBalance
  BY <1>5, ShowBalanceKeeps
<1>6. CASE TakeSigner
  BY <1>6, TakeSignerKeeps
<1>7. CASE UpdateWallet
  BY <1>7, UpdateWalletKeeps
<1>8. CASE Sign \/ SignRefused \/ SwitchAccount \/ Render \/ Remount
             \/ UNCHANGED vars
  BY <1>8, OutsideKeeps
<1>9. CASE Reload
  BY <1>9, ReloadKeeps
<1>10. CASE \/ Connected \/ Disconnected \/ Refused
            \/ \E request \in stray : StrayAnswer(request)
  BY <1>10, AnswerKeeps
<1>11. CASE \E r \in reads : StoreStep(r)
  BY <1>11, StoreStepKeeps
<1>12. CASE \E run \in runs : RefreshNotes(run) \/ NotesAnswered(run)
  BY <1>12, RefreshStepKeeps
<1> QED
  BY <1>1, <1>2, <1>3, <1>4, <1>5, <1>6, <1>7, <1>8, <1>9, <1>10, <1>11, <1>12
     DEF Next, User

-----------------------------------------------------------------------------
(* Every captured number, account and grant belongs to the owner it was    *)
(* captured for, as long as that one is served.                            *)
THEOREM Invariance == Spec => []IInv
<1>1. IInv /\ [Next]_vars => IInv'
  BY NextKeeps DEF Keeps
<1> QED
  BY InitInvariant, <1>1, PTL DEF Spec

(* Fields of the session and of the store keep their types, for any        *)
(* accounts and however long the page is used.                             *)
THEOREM TypeCorrect == Spec => []TypeOK
<1>1. IInv => TypeOK
  BY DEF IInv, Shape
<1> QED
  BY Invariance, <1>1, PTL

(* The extension is asked only on behalf of the owner of that time.        *)
THEOREM RequestsAreTheOwners == Spec => AsksForOwner
<1>1. ASSUME IInv, [Next]_vars
      PROVE  [/\ \A r \in reads' \ reads : r.stage = "asked" => GrantOf(r) = Owner
              /\ \A run \in runs' \ runs : run.stage = "notes" => run.grant = Owner
              /\ Sign => held.grant = Owner]_vars
  <2>1. Asks
    BY <1>1, NextKeeps DEF Keeps
  <2>2. Sign => held.grant = Owner
    BY <1>1, IsCurrentFacts DEF Sign, Guard, IInv, HeldOwned
  <2> QED
    BY <2>1, <2>2 DEF Asks
<1> QED
  BY Invariance, <1>1, PTL DEF Spec, AsksForOwner

(* The session and the store serve one owner at a time, and forget its     *)
(* data with it.                                                           *)
THEOREM ImplementsWalletOwner == Spec => ServesOneOwner
<1> DEFINE Shown == Balances \cup ({snapshot.notes} \ {None})
<1>1. Init => WalletOwner!Init
  <2> SUFFICES ASSUME Init PROVE Owner = None /\ Shown = {}
    BY DEF WalletOwner!Init
  <2>1. Owner = None
    BY DEF Init, StoreInit, Owner
  <2>2. Balances = {} /\ snapshot.notes = None
    BY DEF Init, StoreInit, Balances, Unread, EmptySnapshot
  <2> QED
    BY <2>1, <2>2
<1>2. ASSUME IInv, [Next]_vars
      PROVE  [WalletOwner!Next]_<<Owner, Shown>>
  <2>1. IInv' /\ Handover
    BY <1>2, NextKeeps DEF Keeps
  <2>2. Shown' \subseteq {Owner'} \ {None}
    BY <2>1 DEF IInv, DataOwned, NotesOwned, Balances
  <2>3. CASE Owner' = Owner
    <3>1. CASE Owner = None
      BY <2>2, <2>3, <3>1 DEF WalletOwner!Next, WalletOwner!Forget
    <3>2. CASE Owner # None
      BY <2>2, <2>3, <3>2 DEF WalletOwner!Next, WalletOwner!Show
    <3> QED
      BY <3>1, <3>2
  <2>4. CASE Owner' # Owner
    <3>1. Shown' = {}
      BY <2>1, <2>4 DEF Handover, Balances
    <3> QED
      BY <2>4, <3>1 DEF WalletOwner!Next, WalletOwner!Change
  <2> QED
    BY <2>3, <2>4
<1> QED
  BY Invariance, <1>1, <1>2, PTL DEF Spec, ServesOneOwner, WalletOwner!Spec

-----------------------------------------------------------------------------
(* A disconnect or a reset leaves only its own attempt, which remembers    *)
(* nothing.                                                                *)
Latched ==
  forgotten =>
    /\ ~remembered
    /\ connection # None =>
         connection.kind = "disconnect" /\ connection.stage = "disconnecting"

LEMMA LatchedKept == Latched /\ [Next]_vars => Latched'
<1> SUFFICES ASSUME Latched, [Next]_vars PROVE Latched'
  OBVIOUS
<1>1. CASE Connect \/ Reconnect
  BY <1>1 DEF Connect, Reconnect, Command, Latched
<1>2. CASE Disconnect
  BY <1>2 DEF Disconnect, Started, Latched
<1>3. CASE Reset \/ Timeout
  BY <1>3 DEF Reset, Timeout, DoReset, Latched
<1>4. CASE UpdateWallet
  BY <1>4 DEF UpdateWallet, bounds, Latched
<1>5. CASE Refresh \/ ShowBalance \/ TakeSigner
  BY <1>5 DEF Refresh, ShowBalance, TakeSigner, Command, sessionVars, Latched
<1>6. CASE Sign \/ SignRefused \/ Render \/ Remount \/ UNCHANGED vars
  BY <1>6 DEF Sign, SignRefused, Render, Remount, sessionVars, bounds, vars, Latched
<1>7. CASE SwitchAccount \/ Reload
  BY <1>7 DEF SwitchAccount, Reload, Event, sessionVars, Latched
<1>8. CASE Connected \/ Disconnected \/ Refused
  BY <1>8 DEF Connected, Disconnected, Refused, Settles, SettleFrame, bounds, Latched
<1>9. CASE \E request \in stray : StrayAnswer(request)
  BY <1>9 DEF StrayAnswer, Event, Latched
<1>10. CASE \/ \E r \in reads : StoreStep(r)
            \/ \E run \in runs : RefreshNotes(run) \/ NotesAnswered(run)
  BY <1>10 DEF StoreStep, RefreshNotes, NotesAnswered, RunFrame, sessionVars,
               bounds, Latched
<1> QED
  BY <1>1, <1>2, <1>3, <1>4, <1>5, <1>6, <1>7, <1>8, <1>9, <1>10 DEF Next, User

(* No attempt that succeeds late makes the portal reconnect by itself.     *)
THEOREM ForgottenForGood == Spec => []StaysForgotten
<1>1. Init => Latched
  BY DEF Init, Latched
<1>2. Latched => StaysForgotten
  BY DEF Latched, StaysForgotten
<1> QED
  BY <1>1, <1>2, LatchedKept, PTL DEF Spec

LEMMA NobodyKept ==
  IInv /\ NobodyWhileDisconnecting /\ [Next]_vars => NobodyWhileDisconnecting'
<1> SUFFICES ASSUME IInv, NobodyWhileDisconnecting, [Next]_vars
             PROVE  NobodyWhileDisconnecting'
  OBVIOUS
<1> DEFINE Same == UNCHANGED <<midenSession, snapshot>>
<1>1. CASE Connect \/ Reconnect
  <2>1. Same
    BY <1>1 DEF Connect, Reconnect, StartConnection, storeVars
  <2>2. connection' # None =>
          connection' = connection \/ connection'.kind \in {"connect", "reconnect"}
    <3>1. ASSUME NEW kind \in {"connect", "reconnect"}, StartConnection(kind)
          PROVE  connection' = connection \/ connection'.kind = kind
      BY <3>1 DEF StartConnection, Started
    <3>2. CASE Connect
      BY <3>1, <3>2 DEF Connect
    <3>3. CASE Reconnect
      BY <3>1, <3>3 DEF Reconnect
    <3> QED
      BY <1>1, <3>2, <3>3
  <2> QED
    BY <2>1, <2>2 DEF NobodyWhileDisconnecting
<1>2. CASE Disconnect \/ Reset \/ Timeout
  <2>1. Invalidate
    BY <1>2 DEF Disconnect, Reset, Timeout, DoReset
  <2> QED
    BY <2>1 DEF Invalidate, SetMidenSession, EmptySnapshot, NobodyWhileDisconnecting
<1>3. CASE UpdateWallet
  <2>1. CASE Disconnecting
    <3>1. /\ ~snapshot.connected' /\ snapshot.signer' = None
      BY <1>3, <2>1 DEF UpdateWallet
    <3>2. midenSession' = None
      BY <1>3, <2>1 DEF UpdateWallet, SetMidenSession
    <3> QED
      BY <3>1, <3>2 DEF NobodyWhileDisconnecting
  <2>2. CASE ~Disconnecting
    BY <1>3, <2>2 DEF UpdateWallet, Started, Disconnecting, NobodyWhileDisconnecting
  <2> QED
    BY <2>1, <2>2
<1>4. CASE Refresh
  <2>1. UNCHANGED <<midenSession, connection>>
        /\ snapshot' = [snapshot EXCEPT !.notes = None]
    BY <1>4 DEF Refresh, RequestMiden
  <2> QED
    BY <2>1 DEF NobodyWhileDisconnecting, IInv, Shape, Snapshot
<1>5. CASE ShowBalance \/ TakeSigner
  BY <1>5 DEF ShowBalance, TakeSigner, RequestMiden, storeVars, sessionVars,
              NobodyWhileDisconnecting
<1>6. CASE Sign \/ SignRefused \/ SwitchAccount \/ Render \/ Remount
             \/ UNCHANGED vars
  BY <1>6 DEF Sign, SignRefused, SwitchAccount, Render, Remount, storeVars,
              sessionVars, vars, NobodyWhileDisconnecting
<1>7. CASE Reload
  BY <1>7 DEF Reload, NobodyWhileDisconnecting
<1>8. CASE \/ Connected \/ Disconnected \/ Refused
           \/ \E request \in stray : StrayAnswer(request)
  <2>1. Same
    BY <1>8 DEF Connected, Disconnected, Refused, StrayAnswer, SettleFrame, storeVars
  <2>2. connection' # None =>
          connection # None /\ connection'.kind = connection.kind
    BY <1>8 DEF Connected, Disconnected, Refused, StrayAnswer, SettleFrame,
                Settles, IInv, Shape, TypeOK, Attempt
  <2> QED
    BY <2>1, <2>2 DEF NobodyWhileDisconnecting
<1>9. CASE \E r \in reads : StoreStep(r)
  <2>1. UNCHANGED <<midenSession, snapshot, connection>>
    BY <1>9 DEF StoreStep, ReadStep, AskAssets, FinishRead, ExpireRead, Fails,
                sessionVars
  <2> QED
    BY <2>1 DEF NobodyWhileDisconnecting
<1>10. CASE \E run \in runs : RefreshNotes(run) \/ NotesAnswered(run)
  <2>1. UNCHANGED <<midenSession, connection>>
    BY <1>10 DEF RefreshNotes, NotesAnswered, RunFrame, storeVars
  <2>2. snapshot.connected' = snapshot.connected /\ snapshot.signer' = snapshot.signer
    BY <1>10 DEF RefreshNotes, NotesAnswered, IInv, Shape, Snapshot
  <2> QED
    BY <2>1, <2>2 DEF NobodyWhileDisconnecting
<1> QED
  BY <1>1, <1>2, <1>3, <1>4, <1>5, <1>6, <1>7, <1>8, <1>9, <1>10 DEF Next, User

(* Nobody is shown, readable or able to sign during a disconnect.          *)
THEOREM NobodyDuringDisconnect == Spec => []NobodyWhileDisconnecting
<1>1. Init => NobodyWhileDisconnecting
  BY DEF Init, NobodyWhileDisconnecting
<1> QED
  BY Invariance, <1>1, NobodyKept, PTL DEF Spec
=============================================================================
