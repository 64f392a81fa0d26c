---------------------------- MODULE IssuerProofs ----------------------------
(***************************************************************************)
(* The safety properties of module Issuer, for any number of concurrent    *)
(* requests, families and pairs, any lifetimes, and either store.          *)
(***************************************************************************)
EXTENDS Issuer, TLAPS

Presented(q) == pc[q] # "idle"

\* A request that goes on presents a pair that was minted; what it is late for
\* did happen to that pair.
ReqMinted ==
    \A q \in Requests :
        /\ Presented(q) => req[q] \in Pairs /\ minted[req[q]] # None
        /\ "spent" \in late[q] => req[q] \in spent
        /\ "out" \in late[q] => req[q] \in out

\* Ids are used in order, so that a fresh one is above all others, and an older
\* pair expires first.
MintedInOrder ==
    /\ \A n, m \in Pairs : minted[n] # None /\ m < n => minted[m] # None
    /\ \A n \in Pairs : minted[n] # None => minted[n].at <= now
    /\ \A n, m \in Pairs : minted[n] # None /\ m < n => minted[m].at <= minted[n].at

\* The active id of a family is a minted one of that family, and not a spent one.
ActiveIsUnspent ==
    /\ \A f \in Fids : family[f] # None =>
          /\ minted[family[f].jti] # None
          /\ minted[family[f].jti].fid = f
          /\ family[f].jti \notin spent
    /\ \A n \in spent : minted[n] # None

\* A family that was revoked and not raced has no record, nobody about to write
\* one, and was issued before.
RevokedStaysOut ==
    /\ \A f \in revoked \ raced :
          /\ family[f] = None
          /\ \A q \in Requests : pc[q] = "mint" => FamilyOf(q) # f
    /\ \A f \in revoked : \E n \in Pairs : minted[n] # None /\ minted[n].fid = f

\* The record of a family never revoked names its newest pair and ends with that
\* pair's refresh token.
RecordOfNewest ==
    \A n \in Pairs : minted[n] # None /\ minted[n].fid \notin revoked =>
        LET f == family[minted[n].fid]
        IN f # None /\ n <= f.jti /\ f.exp = Exp("R", f.jti)

\* A Logout's block lasts exactly as long as the token.
BlockedToTheEnd ==
    \A n \in out : minted[n] # None /\ block["A"][n] = Exp("A", n)

IInv ==
    /\ TypeOK /\ ReqMinted /\ MintedInOrder /\ ActiveIsUnspent
    /\ SequentialSingleUse /\ RevokedStaysOut /\ RecordOfNewest /\ BlockedToTheEnd

-----------------------------------------------------------------------------
\* Expiry times are numbers.
LEMMA ExpType ==
    ASSUME TypeOK, NEW k \in Kinds, NEW n \in Pairs, minted[n] # None
    PROVE  Exp(k, n) \in Nat
BY TTLAssumption DEF TypeOK, Exp, Kinds

\* A request that begins with a minted pair.
LEMMA BeginKeeps ==
    ASSUME IInv, NEW q \in Requests, NEW n \in Pairs, NEW ks \in SUBSET Kinds,
           NEW s \in {"family", "logoutA", "check"}, NEW pasts \in SUBSET Pasts,
           minted[n] # None, Begin(q, n, ks, s, pasts)
    PROVE  IInv'
<1> USE DEF IInv
<1>1. /\ pc[q] = "idle" /\ pc' = [pc EXCEPT ![q] = s] /\ req' = [req EXCEPT ![q] = n]
      /\ kinds' = [kinds EXCEPT ![q] = ks]
      /\ late' = [late EXCEPT ![q] = {g \in pasts : Past(g, n)}]
      /\ UNCHANGED <<now, minted, family, block, lost, spent, out, revoked, raced>>
  BY DEF Begin, Idle, Goto, store
<1>2. TypeOK'
  BY <1>1 DEF TypeOK, Kinds, Pasts
<1>3. ReqMinted'
  <2>1. "spent" \in {g \in pasts : Past(g, n)} => n \in spent
    BY DEF Past
  <2>2. "out" \in {g \in pasts : Past(g, n)} => n \in out
    BY DEF Past
  <2> QED
    BY <1>1, <2>1, <2>2 DEF TypeOK, ReqMinted, Presented
<1>4. MintedInOrder' /\ ActiveIsUnspent' /\ BlockedToTheEnd'
  BY <1>1 DEF MintedInOrder, ActiveIsUnspent, BlockedToTheEnd, Exp
<1>5. SequentialSingleUse'
  BY <1>1 DEF TypeOK, SequentialSingleUse
<1>6. RevokedStaysOut'
  BY <1>1 DEF TypeOK, RevokedStaysOut, FamilyOf
<1>7. RecordOfNewest'
  BY <1>1 DEF RecordOfNewest, Exp
<1> QED
  BY <1>2, <1>3, <1>4, <1>5, <1>6, <1>7

\* A request that ends without touching anything but a block on a refresh token.
LEMMA ReturnKeeps ==
    ASSUME IInv, NEW q \in Requests, Return(q),
           UNCHANGED <<now, minted, family, lost, spent, out, revoked, raced>>,
           block' \in [Kinds -> [Pairs -> Nat \cup {None}]], block'["A"] = block["A"]
    PROVE  IInv'
<1> USE DEF IInv
<1>1. /\ pc' = [pc EXCEPT ![q] = "idle"] /\ req' = [req EXCEPT ![q] = None]
      /\ kinds' = [kinds EXCEPT ![q] = {}] /\ late' = [late EXCEPT ![q] = {}]
  BY DEF Return, Goto
<1>2. TypeOK'
  BY <1>1 DEF TypeOK
<1>3. ReqMinted' /\ SequentialSingleUse'
  BY <1>1 DEF TypeOK, ReqMinted, Presented, SequentialSingleUse
<1>4. MintedInOrder' /\ ActiveIsUnspent' /\ BlockedToTheEnd'
  BY DEF MintedInOrder, ActiveIsUnspent, BlockedToTheEnd, Exp
<1>5. RevokedStaysOut'
  BY <1>1 DEF TypeOK, RevokedStaysOut, FamilyOf
<1>6. RecordOfNewest'
  BY DEF RecordOfNewest, Exp
<1> QED
  BY <1>2, <1>3, <1>4, <1>5, <1>6

\* A request that revokes its family and ends. Whoever is about to mint for that
\* family makes it a raced one.
LEMMA RevokeKeeps ==
    ASSUME IInv, NEW q \in Requests, Presented(q), pc[q] # "mint",
           RevokeFamily(FamilyOf(q)), Return(q),
           UNCHANGED <<now, minted, block, lost, spent, out>>
    PROVE  IInv'
<1> USE DEF IInv
<1> DEFINE f == FamilyOf(q)
<1>1. /\ pc' = [pc EXCEPT ![q] = "idle"] /\ req' = [req EXCEPT ![q] = None]
      /\ kinds' = [kinds EXCEPT ![q] = {}] /\ late' = [late EXCEPT ![q] = {}]
  BY DEF Return, Goto
<1>2. /\ req[q] \in Pairs /\ minted[req[q]] # None
      /\ minted[req[q]] \in [fid : Fids, at : Nat] /\ f = minted[req[q]].fid /\ f \in Fids
  BY DEF TypeOK, ReqMinted, FamilyOf
<1> HIDE DEF f
<1>3. /\ family' = [family EXCEPT ![f] = None] /\ revoked' = revoked \cup {f}
      /\ raced \subseteq raced' /\ raced' \subseteq raced \cup {f}
      /\ (\E p \in Requests : pc[p] = "mint" /\ FamilyOf(p) = f) => f \in raced'
  BY DEF RevokeFamily, FamilyOf, f
<1>4. TypeOK'
  BY <1>1, <1>2, <1>3 DEF TypeOK
<1>5. ReqMinted' /\ SequentialSingleUse'
  BY <1>1 DEF TypeOK, ReqMinted, Presented, SequentialSingleUse
<1>6. MintedInOrder' /\ BlockedToTheEnd'
  BY DEF MintedInOrder, BlockedToTheEnd, Exp
<1>7. ActiveIsUnspent'
  BY <1>3 DEF TypeOK, ActiveIsUnspent
<1>8. RevokedStaysOut'
  <2>1. \A p \in Requests : pc'[p] = "mint" => pc[p] = "mint" /\ FamilyOf(p)' = FamilyOf(p)
    BY <1>1 DEF TypeOK, FamilyOf
  <2>2. ASSUME NEW g \in revoked' \ raced'
        PROVE  family'[g] = None /\ \A p \in Requests : pc'[p] = "mint" => FamilyOf(p)' # g
    <3>1. CASE g = f
      BY <1>2, <1>3, <2>1, <3>1 DEF TypeOK
    <3>2. CASE g # f
      <4>1. g \in revoked \ raced /\ g \in Fids
        BY <1>3, <3>2 DEF TypeOK
      <4> QED
        BY <1>3, <2>1, <3>2, <4>1 DEF TypeOK, RevokedStaysOut
    <3> QED
      BY <3>1, <3>2
  <2>3. \A g \in revoked' : \E n \in Pairs : minted[n] # None /\ minted[n].fid = g
    BY <1>2, <1>3 DEF RevokedStaysOut
  <2> QED
    BY <2>2, <2>3 DEF RevokedStaysOut
<1>9. RecordOfNewest'
  BY <1>3 DEF TypeOK, RecordOfNewest, Exp
<1> QED
  BY <1>4, <1>5, <1>6, <1>7, <1>8, <1>9

\* What is fresh about the next pair: no minted one is above it, no record, no
\* ghost and no request knows it.
LEMMA FreshPair ==
    ASSUME IInv, NEW n \in Pairs, NextPair(n)
    PROVE  /\ n \notin spent /\ n \notin out
           /\ \A m \in Pairs : minted[m] # None => m < n
           /\ \A f \in Fids : family[f] # None => family[f].jti # n
           /\ \A q \in Requests : Presented(q) => req[q] # n
<1>1. minted[n] = None /\ n \in Nat /\ \A m \in Pairs : m \in Nat
  BY DEF NextPair, Pairs
<1>2. \A m \in Pairs : minted[m] # None => m < n
  BY <1>1 DEF IInv, MintedInOrder
<1> QED
  BY <1>1, <1>2 DEF IInv, TypeOK, ActiveIsUnspent, BlockedToTheEnd, ReqMinted

\* Minting pair n for family f, by Issue for a new family or by a Refresh that
\* spends a pair of that family; requests stay where they are, or end.
LEMMA MintKeeps ==
    ASSUME IInv, NEW f \in Fids, NEW n \in Pairs, NextPair(n),
           minted' = [minted EXCEPT ![n] = [fid |-> f, at |-> now]],
           SetFamily(f, n),
           \A m \in spent' : m \in spent \/ (m \in Pairs /\ minted[m] # None /\ minted[m].fid = f),
           spent \subseteq spent',
           f \notin revoked \ raced,
           UNCHANGED <<now, block, out, revoked, raced>>,
           pc' \in [Requests -> {"idle", "family", "reuse", "mint", "rotated", "logoutA",
                                 "logoutR", "check", "granted"}],
           req' \in [Requests -> Pairs \cup {None}],
           kinds' \in [Requests -> SUBSET Kinds],
           late' \in [Requests -> SUBSET Pasts],
           lost' \subseteq Pairs,
           \A q \in Requests :
               \/ pc'[q] = "idle" /\ late'[q] = {}
               \/ /\ req'[q] = req[q] /\ late'[q] = late[q]
                  /\ pc'[q] = "mint" => pc[q] = "mint"
                  /\ Presented(q)' => Presented(q)
    PROVE  IInv'
<1> USE DEF IInv
<1>1. /\ family' = [family EXCEPT ![f] = [jti |-> n, exp |-> now + RefreshTTL]]
      /\ minted[n] = None /\ now \in Nat /\ n \in Nat
  BY PairAssumption DEF SetFamily, NextPair, TypeOK, Pairs
<1>2. /\ [fid |-> f, at |-> now] \in [fid : Fids, at : Nat]
      /\ [jti |-> n, exp |-> now + RefreshTTL] \in [jti : Pairs, exp : Nat]
      /\ [fid |-> f, at |-> now] # None
      /\ [jti |-> n, exp |-> now + RefreshTTL] # None
  BY <1>1, TTLAssumption, NoneAssumption
<1>3. TypeOK'
  BY <1>1, <1>2 DEF TypeOK
<1>4. /\ minted'[n] # None /\ minted'[n].fid = f /\ minted'[n].at = now
      /\ \A m \in Pairs : m # n => minted'[m] = minted[m]
      /\ \A m \in Pairs : minted[m] # None => m # n /\ m < n /\ minted'[m] # None
      /\ family'[f].jti = n /\ family'[f].exp = now + RefreshTTL /\ family'[f] # None
      /\ \A g \in Fids : g # f => family'[g] = family[g]
  BY <1>1, <1>2, FreshPair DEF TypeOK
<1>5. ReqMinted'
  <2> SUFFICES ASSUME NEW q \in Requests
               PROVE  /\ Presented(q)' => req'[q] \in Pairs /\ minted'[req'[q]] # None
                      /\ "spent" \in late'[q] => req'[q] \in spent'
                      /\ "out" \in late'[q] => req'[q] \in out'
    BY DEF ReqMinted
  <2>1. CASE pc'[q] = "idle" /\ late'[q] = {}
    BY <2>1 DEF Presented
  <2>2. CASE req'[q] = req[q] /\ late'[q] = late[q] /\ (Presented(q)' => Presented(q))
    BY <1>4, <2>2 DEF ReqMinted
  <2> QED
    BY <2>1, <2>2
<1>6. MintedInOrder'
  <2>1. \A i, m \in Pairs : minted'[i] # None /\ m < i => minted'[m] # None
    BY <1>4 DEF MintedInOrder, NextPair
  <2>2. \A i \in Pairs : minted'[i] # None => minted'[i].at <= now
    <3> SUFFICES ASSUME NEW i \in Pairs, minted'[i] # None PROVE minted'[i].at <= now
      OBVIOUS
    <3>1. CASE i = n
      BY <1>1, <1>4, <3>1
    <3>2. CASE i # n
      BY <1>4, <3>2 DEF MintedInOrder
    <3> QED
      BY <3>1, <3>2
  <2>3. ASSUME NEW i \in Pairs, NEW m \in Pairs, minted'[i] # None, m < i
        PROVE  minted'[m].at <= minted'[i].at
    <3>1. CASE i = n
      BY <1>1, <1>4, <2>1, <2>2, <2>3, <3>1
    <3>2. CASE i # n
      <4>1. minted[i] # None /\ minted'[i] = minted[i] /\ minted[m] # None
        BY <1>4, <2>3, <3>2 DEF MintedInOrder
      <4> QED
        BY <1>4, <2>3, <4>1 DEF MintedInOrder
    <3> QED
      BY <3>1, <3>2
  <2> QED
    BY <2>1, <2>2, <2>3 DEF MintedInOrder
<1>7. ActiveIsUnspent'
  <2>1. \A m \in spent' : minted'[m] # None
    BY <1>4 DEF TypeOK, ActiveIsUnspent
  <2>2. ASSUME NEW g \in Fids, family'[g] # None
        PROVE  /\ minted'[family'[g].jti] # None /\ minted'[family'[g].jti].fid = g
               /\ family'[g].jti \notin spent'
    <3>1. CASE g = f
      BY <1>1, <1>4, <3>1, FreshPair
    <3>2. CASE g # f
      <4>1. /\ family[g] # None /\ family[g].jti \in Pairs /\ family[g].jti \notin spent
            /\ minted[family[g].jti] # None /\ minted[family[g].jti].fid = g
        BY <1>4, <2>2, <3>2 DEF TypeOK, ActiveIsUnspent
      <4> QED
        BY <1>4, <3>2, <4>1
    <3> QED
      BY <3>1, <3>2
  <2> QED
    BY <2>1, <2>2 DEF ActiveIsUnspent
<1>8. SequentialSingleUse'
  BY DEF SequentialSingleUse, Presented
<1>9. RevokedStaysOut'
  <2>1. ASSUME NEW g \in revoked \ raced PROVE family'[g] = None
    BY <1>4, <2>1 DEF TypeOK, RevokedStaysOut
  <2>2. ASSUME NEW g \in revoked \ raced, NEW q \in Requests, pc'[q] = "mint"
        PROVE  FamilyOf(q)' # g
    <3>1. req'[q] = req[q] /\ req[q] \in Pairs /\ minted[req[q]] # None /\ FamilyOf(q) # g
      BY <2>2 DEF ReqMinted, RevokedStaysOut, Presented
    <3> QED
      BY <1>4, <3>1 DEF FamilyOf
  <2>3. ASSUME NEW g \in revoked PROVE \E m \in Pairs : minted'[m] # None /\ minted'[m].fid = g
    BY <1>4, <2>3 DEF RevokedStaysOut
  <2> QED
    BY <2>1, <2>2, <2>3 DEF RevokedStaysOut
<1>10. RecordOfNewest'
  <2> SUFFICES ASSUME NEW m \in Pairs, minted'[m] # None, minted'[m].fid \notin revoked
               PROVE  /\ family'[minted'[m].fid] # None
                      /\ m <= family'[minted'[m].fid].jti
                      /\ family'[minted'[m].fid].exp
                           = minted'[family'[minted'[m].fid].jti].at + RefreshTTL
    BY DEF RecordOfNewest, Exp
  <2>1. CASE minted'[m].fid = f
    <3>1. m \in Nat /\ m <= n
      BY <1>1, <1>4 DEF Pairs
    <3> QED
      BY <1>4, <2>1, <3>1
  <2>2. CASE minted'[m].fid # f
    <3>1. m # n /\ minted[m] # None /\ minted'[m] = minted[m] /\ minted[m].fid \in Fids
      BY <1>4, <2>2 DEF TypeOK
    <3>2. family[minted[m].fid].jti \in Pairs /\ minted[family[minted[m].fid].jti] # None
      BY <3>1 DEF TypeOK, RecordOfNewest, ActiveIsUnspent
    <3> QED
      BY <1>4, <2>2, <3>1, <3>2 DEF RecordOfNewest, Exp
  <2> QED
    BY <2>1, <2>2
<1>11. BlockedToTheEnd'
  BY <1>4 DEF TypeOK, BlockedToTheEnd, Exp
<1> QED
  BY <1>3, <1>5, <1>6, <1>7, <1>8, <1>9, <1>10, <1>11

-----------------------------------------------------------------------------
\* A request that goes on, with nothing else changed: to mint only when its pair is
\* the active one of its family.
LEMMA GoKeeps ==
    ASSUME IInv, NEW q \in Requests, Presented(q),
           NEW s \in {"reuse", "mint", "logoutR", "granted"}, Goto(q, s),
           s = "mint" => Family(FamilyOf(q)) = req[q],
           UNCHANGED <<now, minted, family, block, req, kinds, lost, ghosts>>
    PROVE  IInv'
<1> USE DEF IInv
<1>1. /\ pc' = [pc EXCEPT ![q] = s]
      /\ UNCHANGED <<now, minted, family, block, req, kinds, lost, spent, out, late, revoked,
                     raced>>
  BY DEF Goto, ghosts
<1>2. TypeOK'
  BY <1>1 DEF TypeOK
<1>3. ReqMinted'
  BY <1>1 DEF TypeOK, ReqMinted, Presented
<1>4. MintedInOrder' /\ ActiveIsUnspent' /\ BlockedToTheEnd' /\ RecordOfNewest'
  BY <1>1 DEF MintedInOrder, ActiveIsUnspent, BlockedToTheEnd, RecordOfNewest, Exp
<1>5. /\ req[q] \in Pairs /\ req[q] # None /\ FamilyOf(q) \in Fids
  BY NoneAssumption DEF TypeOK, ReqMinted, FamilyOf, Pairs
<1>6. s = "mint" => family[FamilyOf(q)] # None /\ family[FamilyOf(q)].jti = req[q]
  BY <1>5 DEF Family
<1>7. SequentialSingleUse'
  <2>1. s = "mint" => "spent" \notin late[q]
    BY <1>5, <1>6 DEF ActiveIsUnspent, ReqMinted
  <2> QED
    BY <1>1, <2>1 DEF TypeOK, SequentialSingleUse
<1>8. RevokedStaysOut'
  <2>1. s = "mint" => FamilyOf(q) \notin revoked \ raced
    BY <1>6 DEF RevokedStaysOut
  <2> QED
    BY <1>1, <2>1 DEF TypeOK, RevokedStaysOut, FamilyOf
<1> QED
  BY <1>2, <1>3, <1>4, <1>7, <1>8

\* A Logout's first half: the access token is blocked to its end, or nothing
\* happens, and the request goes on.
LEMMA LogoutAccessKeeps ==
    ASSUME IInv, NEW q \in Requests, LogoutAccess(q)
    PROVE  IInv'
<1> USE DEF IInv
<1>1. /\ pc[q] = "logoutA" /\ Goto(q, "logoutR")
      /\ UNCHANGED <<now, minted, family, req, kinds, lost, spent, late, revoked, raced>>
  BY DEF LogoutAccess
<1>2. req[q] \in Pairs /\ minted[req[q]] # None
  BY <1>1 DEF ReqMinted, Presented
<1>3. CASE UNCHANGED <<block, out>>
  BY <1>1, <1>3, GoKeeps DEF Presented, ghosts
<1>4. CASE parseValid("A", req[q]) /\ Block("A", req[q]) /\ out' = out \cup {req[q]}
  <2>1. Exp("A", req[q]) \in Nat /\ now \in Nat /\ now < Exp("A", req[q])
    BY <1>2, <1>4, ExpType, PairAssumption DEF TypeOK, Kinds, parseValid
  <2>2. block' = [block EXCEPT !["A"][req[q]] = Exp("A", req[q])]
    BY <1>4, <2>1 DEF Block
  <2> DEFINE e == Exp("A", req[q])
  <2>3. e = minted[req[q]].at + AccessTTL
    BY DEF Exp
  <2> HIDE DEF e
  <2>4. block' = [block EXCEPT !["A"][req[q]] = e] /\ e \in Nat
    BY <2>1, <2>2 DEF e
  <2>5. /\ block' \in [Kinds -> [Pairs -> Nat \cup {None}]]
        /\ block'["A"][req[q]] = e
        /\ \A n \in Pairs : n # req[q] => block'["A"][n] = block["A"][n]
    BY <1>2, <2>4 DEF TypeOK, Kinds
  <2>6. TypeOK'
    BY <1>1, <1>2, <1>4, <2>5 DEF TypeOK, Goto
  <2>7. ReqMinted' /\ SequentialSingleUse'
    BY <1>1, <1>4 DEF TypeOK, ReqMinted, SequentialSingleUse, Presented, Goto
  <2>8. MintedInOrder' /\ ActiveIsUnspent' /\ RecordOfNewest'
    BY <1>1 DEF MintedInOrder, ActiveIsUnspent, RecordOfNewest, Exp
  <2>9. RevokedStaysOut'
    BY <1>1 DEF TypeOK, RevokedStaysOut, FamilyOf, Goto
  <2>10. BlockedToTheEnd'
    BY <1>1, <1>2, <1>4, <2>3, <2>5 DEF TypeOK, BlockedToTheEnd, Exp
  <2> QED
    BY <2>6, <2>7, <2>8, <2>9, <2>10
<1> QED
  BY <1>3, <1>4 DEF LogoutAccess

\* The inductive invariant holds in every reachable state.
THEOREM Inductive == Spec => []IInv
<1>1. Init => IInv
  <2> SUFFICES ASSUME Init PROVE IInv
    OBVIOUS
  <2>1. /\ now \in 0..MaxTime
        /\ minted \in [Pairs -> [fid : Fids, at : Nat] \cup {None}]
        /\ family \in [Fids -> [jti : Pairs, exp : Nat] \cup {None}]
        /\ block \in [Kinds -> [Pairs -> Nat \cup {None}]]
    BY PairAssumption DEF Init
  <2>2. TypeOK
    BY <2>1 DEF Init, TypeOK
  <2>3. ReqMinted /\ MintedInOrder /\ ActiveIsUnspent
    BY DEF Init, ReqMinted, MintedInOrder, ActiveIsUnspent, Presented
  <2>4. SequentialSingleUse /\ RevokedStaysOut /\ RecordOfNewest /\ BlockedToTheEnd
    BY DEF Init, SequentialSingleUse, RevokedStaysOut, RecordOfNewest, BlockedToTheEnd
  <2> QED
    BY <2>2, <2>3, <2>4 DEF IInv
<1>2. IInv /\ [Next]_vars => IInv'
  <2> SUFFICES ASSUME IInv, [Next]_vars PROVE IInv'
    OBVIOUS
  <2>1. ASSUME NEW f \in Fids, Issue(f) PROVE IInv'
    <3>1. PICK n \in Pairs : /\ NextPair(n)
                             /\ minted' = [minted EXCEPT ![n] = [fid |-> f, at |-> now]]
                             /\ SetFamily(f, n)
                             /\ lost' \in {lost, lost \cup {n}}
      BY <2>1 DEF Issue, mint
    <3>2. /\ f \notin revoked \ raced
      BY <2>1 DEF Issue, IInv, RevokedStaysOut
    <3>3. /\ UNCHANGED <<now, block, req, kinds, out, late, revoked, raced>>
          /\ pc' = pc /\ spent' = spent
      BY <2>1 DEF Issue, ghosts
    <3>4. /\ pc' \in [Requests -> {"idle", "family", "reuse", "mint", "rotated", "logoutA",
                                   "logoutR", "check", "granted"}]
          /\ req' \in [Requests -> Pairs \cup {None}] /\ kinds' \in [Requests -> SUBSET Kinds]
          /\ late' \in [Requests -> SUBSET Pasts] /\ lost' \subseteq Pairs
          /\ \A q \in Requests : /\ req'[q] = req[q] /\ late'[q] = late[q]
                                 /\ pc'[q] = "mint" => pc[q] = "mint"
                                 /\ Presented(q)' => Presented(q)
      BY <3>1, <3>3 DEF IInv, TypeOK, Presented
    <3> QED
      BY <3>1, <3>2, <3>3, <3>4, MintKeeps
  <2>2. ASSUME NEW q \in Requests, NEW n \in Pairs,
               \/ Refresh(q, n) \/ Authenticate(q, n)
               \/ \E ks \in SUBSET Kinds : Logout(q, n, ks)
        PROVE  IInv'
    <3>1. CASE Refresh(q, n)
      BY <3>1, BeginKeeps DEF Refresh, parseValid, Kinds, Pasts
    <3>2. CASE Authenticate(q, n)
      BY <3>2, BeginKeeps DEF Authenticate, parseValid, Kinds, Pasts
    <3>3. CASE \E ks \in SUBSET Kinds : Logout(q, n, ks)
      BY <3>3, BeginKeeps DEF Logout, parseValid, Pasts
    <3> QED
      BY <2>2, <3>1, <3>2, <3>3
  <2>3. ASSUME NEW q \in Requests, RefreshFamily(q) PROVE IInv'
    <3>1. CASE Return(q)
      BY <2>3, <3>1, ReturnKeeps DEF RefreshFamily, store, IInv, TypeOK
    <3>2. CASE Goto(q, IF Family(FamilyOf(q)) = req[q] THEN "mint" ELSE "reuse")
               /\ UNCHANGED <<req, kinds, late>>
      <4>1. Presented(q) /\ UNCHANGED <<now, minted, family, block, req, kinds, lost, ghosts>>
        BY <2>3, <3>2 DEF RefreshFamily, Presented, store, ghosts
      <4>2. CASE Family(FamilyOf(q)) = req[q]
        BY <3>2, <4>1, <4>2, GoKeeps
      <4>3. CASE Family(FamilyOf(q)) # req[q]
        BY <3>2, <4>1, <4>3, GoKeeps
      <4> QED
        BY <4>2, <4>3
    <3> QED
      BY <2>3, <3>1, <3>2 DEF RefreshFamily
  <2>4. ASSUME NEW q \in Requests, RefreshReuse(q) PROVE IInv'
    <3>1. CASE RevokeFamily(FamilyOf(q)) /\ UNCHANGED block
      BY <2>4, <3>1, RevokeKeeps DEF RefreshReuse, Presented
    <3>2. CASE UNCHANGED <<store, revoked, raced>>
      BY <2>4, <3>2, ReturnKeeps DEF RefreshReuse, store, IInv, TypeOK
    <3> QED
      BY <2>4, <3>1, <3>2 DEF RefreshReuse
  <2>5. ASSUME NEW q \in Requests, RefreshMint(q) PROVE IInv'
    <3> DEFINE f == FamilyOf(q)
    <3>1. PICK n \in Pairs : /\ NextPair(n)
                             /\ minted' = [minted EXCEPT ![n] = [fid |-> f, at |-> now]]
                             /\ SetFamily(f, n)
                             /\ lost' = lost
      BY <2>5 DEF RefreshMint, mint
    <3>2. req[q] \in Pairs /\ minted[req[q]] # None /\ minted[req[q]].fid = f /\ f \in Fids
      BY <2>5 DEF RefreshMint, IInv, ReqMinted, Presented, FamilyOf, TypeOK
    <3>3. f \notin revoked \ raced
      BY <2>5 DEF RefreshMint, IInv, RevokedStaysOut
    <3>4. /\ UNCHANGED <<now, block, req, kinds, out, late, revoked, raced>>
          /\ pc[q] = "mint" /\ pc' = [pc EXCEPT ![q] = "rotated"] /\ spent' = spent \cup {req[q]}
      BY <2>5 DEF RefreshMint, Goto
    <3>5. /\ pc' \in [Requests -> {"idle", "family", "reuse", "mint", "rotated", "logoutA",
                                   "logoutR", "check", "granted"}]
          /\ req' \in [Requests -> Pairs \cup {None}] /\ kinds' \in [Requests -> SUBSET Kinds]
          /\ late' \in [Requests -> SUBSET Pasts] /\ lost' \subseteq Pairs
          /\ \A p \in Requests : /\ req'[p] = req[p] /\ late'[p] = late[p]
                                 /\ pc'[p] = "mint" => pc[p] = "mint"
                                 /\ Presented(p)' => Presented(p)
      BY <3>1, <3>4 DEF IInv, TypeOK, Presented
    <3>6. \A m \in spent' : m \in spent \/ (m \in Pairs /\ minted[m] # None /\ minted[m].fid = f)
      BY <3>2, <3>4
    <3> HIDE DEF f
    <3> QED
      BY <3>1, <3>2, <3>3, <3>4, <3>5, <3>6, MintKeeps
  <2>6. ASSUME NEW q \in Requests, RefreshMintErr(q) PROVE IInv'
    <3>1. CASE UNCHANGED <<minted, family, lost, spent>>
      BY <2>6, <3>1, ReturnKeeps DEF RefreshMintErr, IInv, TypeOK
    <3>2. CASE mint(FamilyOf(q), FALSE) /\ spent' = spent \cup {req[q]}
      <4> DEFINE f == FamilyOf(q)
      <4>1. PICK n \in Pairs : /\ NextPair(n)
                               /\ minted' = [minted EXCEPT ![n] = [fid |-> f, at |-> now]]
                               /\ SetFamily(f, n)
                               /\ lost' = lost \cup {n}
        BY <3>2 DEF mint
      <4>2. req[q] \in Pairs /\ minted[req[q]] # None /\ minted[req[q]].fid = f /\ f \in Fids
        BY <2>6 DEF RefreshMintErr, IInv, ReqMinted, Presented, FamilyOf, TypeOK
      <4>3. f \notin revoked \ raced
        BY <2>6 DEF RefreshMintErr, IInv, RevokedStaysOut
      <4>4. /\ UNCHANGED <<now, block, out, revoked, raced>>
            /\ pc' = [pc EXCEPT ![q] = "idle"] /\ req' = [req EXCEPT ![q] = None]
            /\ kinds' = [kinds EXCEPT ![q] = {}] /\ late' = [late EXCEPT ![q] = {}]
        BY <2>6 DEF RefreshMintErr, Return, Goto
      <4>5. /\ pc' \in [Requests -> {"idle", "family", "reuse", "mint", "rotated", "logoutA",
                                     "logoutR", "check", "granted"}]
            /\ req' \in [Requests -> Pairs \cup {None}] /\ kinds' \in [Requests -> SUBSET Kinds]
            /\ late' \in [Requests -> SUBSET Pasts] /\ lost' \subseteq Pairs
        BY <4>1, <4>4 DEF IInv, TypeOK
      <4>6. \A p \in Requests :
               \/ pc'[p] = "idle" /\ late'[p] = {}
               \/ /\ req'[p] = req[p] /\ late'[p] = late[p]
                  /\ pc'[p] = "mint" => pc[p] = "mint"
                  /\ Presented(p)' => Presented(p)
        BY <4>4 DEF IInv, TypeOK, Presented
      <4>7. \A m \in spent' : m \in spent \/ (m \in Pairs /\ minted[m] # None /\ minted[m].fid = f)
        BY <3>2, <4>2
      <4> HIDE DEF f
      <4> QED
        BY <3>2, <4>1, <4>2, <4>3, <4>4, <4>5, <4>6, <4>7, MintKeeps
    <3> QED
      BY <2>6, <3>1, <3>2 DEF RefreshMintErr
  <2>7. ASSUME NEW q \in Requests, RefreshBlock(q) PROVE IInv'
    <3>1. req[q] \in Pairs /\ minted[req[q]] # None
      BY <2>7 DEF RefreshBlock, IInv, ReqMinted, Presented
    <3>2. Exp("R", req[q]) \in Nat
      BY <3>1, ExpType DEF IInv, Kinds
    <3>3. block' = [block EXCEPT !["R"][req[q]] = Exp("R", req[q])] \/ block' = block
      BY <2>7 DEF RefreshBlock, Block
    <3>4. /\ block' \in [Kinds -> [Pairs -> Nat \cup {None}]]
          /\ block'["A"] = block["A"]
      BY <3>1, <3>2, <3>3 DEF IInv, TypeOK, Kinds
    <3> QED
      BY <2>7, <3>4, ReturnKeeps DEF RefreshBlock
  <2>8. ASSUME NEW q \in Requests, LogoutAccess(q) PROVE IInv'
    BY <2>8, LogoutAccessKeeps
  <2>9. ASSUME NEW q \in Requests, LogoutRefresh(q) PROVE IInv'
    <3>1. CASE RevokeFamily(FamilyOf(q))
      BY <2>9, <3>1, RevokeKeeps DEF LogoutRefresh, Presented
    <3>2. CASE UNCHANGED <<family, revoked, raced>>
      BY <2>9, <3>2, ReturnKeeps DEF LogoutRefresh, IInv, TypeOK
    <3> QED
      BY <2>9, <3>1, <3>2 DEF LogoutRefresh
  <2>10. ASSUME NEW q \in Requests, CheckBlocklist(q) PROVE IInv'
    <3>1. CASE Return(q)
      BY <2>10, <3>1, ReturnKeeps DEF CheckBlocklist, store, IInv, TypeOK
    <3>2. CASE Goto(q, "granted") /\ UNCHANGED <<req, kinds, late>>
      BY <2>10, <3>2, GoKeeps DEF CheckBlocklist, Presented, store, ghosts
    <3> QED
      BY <2>10, <3>1, <3>2 DEF CheckBlocklist
  <2>11. ASSUME NEW q \in Requests, Served(q) PROVE IInv'
    BY <2>11, ReturnKeeps DEF Served, store, IInv, TypeOK
  <2>12. CASE Tick
    <3>1. /\ now' \in 0..MaxTime /\ now <= now'
          /\ UNCHANGED <<minted, family, block, pc, req, kinds, lost, spent, out, late, revoked,
                         raced>>
      BY <2>12, PairAssumption DEF Tick, store, ghosts, IInv, TypeOK
    <3>2. MintedInOrder'
      BY <3>1 DEF IInv, TypeOK, MintedInOrder
    <3> QED
      BY <3>1, <3>2 DEF IInv, TypeOK, ReqMinted, ActiveIsUnspent, SequentialSingleUse,
        RevokedStaysOut, RecordOfNewest, BlockedToTheEnd, Presented, FamilyOf, Exp
  <2>13. CASE UNCHANGED vars
    <3>1. UNCHANGED <<now, minted, family, block, pc, req, kinds, lost, spent, out, late, revoked,
                      raced>>
      BY <2>13 DEF vars, store, ghosts
    <3> QED
      BY <3>1 DEF IInv, TypeOK, ReqMinted, MintedInOrder, ActiveIsUnspent, SequentialSingleUse,
        RevokedStaysOut, RecordOfNewest, BlockedToTheEnd, Presented, FamilyOf, Exp
  <2> QED
    BY <2>1, <2>2, <2>3, <2>4, <2>5, <2>6, <2>7, <2>8, <2>9, <2>10, <2>11, <2>12, <2>13 DEF Next
<1> QED
  BY <1>1, <1>2, PTL DEF Spec

\* Type correctness.
THEOREM TypeCorrect == Spec => []TypeOK
<1>1. IInv => TypeOK
  BY DEF IInv
<1> QED
  BY <1>1, Inductive, PTL

\* Reuse detection: a Refresh that begins after its token was rotated never mints.
THEOREM SequentialSingleUseTheorem == Spec => []SequentialSingleUse
<1>1. IInv => SequentialSingleUse
  BY DEF IInv
<1> QED
  BY <1>1, Inductive, PTL

\* A revoked family stays unusable, unless the revocation fell between the check
\* and the mint of a Refresh.
THEOREM RevokedUnlessRacedTheorem == Spec => []RevokedUnlessRaced
<1>1. IInv => RevokedUnlessRaced
  BY DEF IInv, RevokedStaysOut, RevokedUnlessRaced
<1> QED
  BY <1>1, Inductive, PTL

\* The newest refresh token a client holds is usable until it expires, with either
\* store's notion of expiry, unless a younger pair of its family was lost with the
\* reply of its SetFamily.  That pair's record outlives the token.
THEOREM NewestUsableUnlessLostTheorem == Spec => []NewestUsableUnlessLost
<1>1. IInv => NewestUsableUnlessLost
  <2> SUFFICES ASSUME IInv, NEW n \in Pairs \ lost,
                      parseValid("R", n), minted[n].fid \notin revoked,
                      \A m \in Pairs \ lost :
                          minted[m] # None /\ minted[m].fid = minted[n].fid => m <= n
               PROVE  \/ Family(minted[n].fid) = n
                      \/ Family(minted[n].fid) \in lost /\ Family(minted[n].fid) > n
    BY DEF NewestUsableUnlessLost
  <2> DEFINE f == minted[n].fid
             k == family[f].jti
  <2>1. minted[n] # None /\ now < Exp("R", n) /\ f \in Fids /\ n \in Nat /\ now \in Nat
    BY DEF parseValid, IInv, TypeOK, Pairs
  <2>2. family[f] # None /\ n <= k /\ family[f].exp = Exp("R", k) /\ k \in Pairs
    BY <2>1 DEF IInv, RecordOfNewest, TypeOK
  <2>3. minted[k] # None /\ minted[k].fid = f
    BY <2>1, <2>2 DEF IInv, ActiveIsUnspent
  <2>4. k \in Nat /\ minted[n].at \in Nat /\ minted[k].at \in Nat
    BY <2>1, <2>2, <2>3 DEF IInv, TypeOK, Pairs
  <2>5. minted[n].at <= minted[k].at
    BY <2>1, <2>2, <2>3, <2>4 DEF IInv, MintedInOrder
  <2>6. Exp("R", n) \in Nat /\ Exp("R", k) \in Nat /\ Exp("R", n) <= Exp("R", k)
    BY <2>1, <2>3, <2>4, <2>5, TTLAssumption DEF Exp
  <2>7. Live(family[f].exp)
    BY <2>1, <2>2, <2>6 DEF Live
  <2>8. Family(f) = k
    BY <2>2, <2>7 DEF Family
  <2>9. k \in lost \/ k <= n
    BY <2>2, <2>3
  <2>10. CASE k <= n
    <3>1. k = n
      BY <2>1, <2>2, <2>4, <2>10
    <3> QED
      BY <2>8, <3>1
  <2>11. CASE k \in lost /\ k # n
    BY <2>1, <2>2, <2>4, <2>8, <2>11
  <2> QED
    BY <2>9, <2>10, <2>11
<1> QED
  BY <1>1, Inductive, PTL

\* A request that begins after a Logout blocked its access token is not admitted
\* while the token is valid.
THEOREM LogoutSticksTheorem == Spec => LogoutSticks
<1> DEFINE A == \A q \in Requests :
                   pc[q] = "check" /\ pc'[q] = "granted" /\ "out" \in late[q]
                     => ~parseValid("A", req[q])
<1>1. IInv /\ [Next]_vars => [A]_vars
  <2> SUFFICES ASSUME IInv, Next, NEW q \in Requests, pc[q] = "check", pc'[q] = "granted",
                      "out" \in late[q], parseValid("A", req[q])
               PROVE  FALSE
    OBVIOUS
  <2>1. req[q] \in out /\ req[q] \in Pairs /\ minted[req[q]] # None
    BY DEF IInv, ReqMinted, Presented
  <2>2. block["A"][req[q]] = Exp("A", req[q]) /\ Exp("A", req[q]) \in Nat
    BY <2>1, ExpType DEF IInv, BlockedToTheEnd, Kinds
  <2>3. now < Exp("A", req[q]) /\ now \in Nat
    BY DEF parseValid, IInv, TypeOK
  <2>4. IsBlocked("A", req[q])
    BY <2>2, <2>3, NoneAssumption DEF IsBlocked, Live
  <2>5. pc \in [Requests -> {"idle", "family", "reuse", "mint", "rotated", "logoutA",
                             "logoutR", "check", "granted"}]
    BY DEF IInv, TypeOK
  <2>6. CASE \E p \in Requests : CheckBlocklist(p)
    <3>1. PICK p \in Requests : CheckBlocklist(p)
      BY <2>6
    <3>2. p = q
      BY <2>5, <3>1 DEF CheckBlocklist, Return, Goto
    <3> QED
      BY <2>4, <2>5, <3>1, <3>2 DEF CheckBlocklist, Return, Goto
  <2>7. CASE ~ \E p \in Requests : CheckBlocklist(p)
    <3>1. pc'[q] # "granted"
      BY <2>5, <2>7 DEF Next, Issue, Refresh, Authenticate, Logout, Begin, RefreshFamily,
        RefreshReuse, RefreshMint, RefreshMintErr, RefreshBlock, LogoutAccess, LogoutRefresh,
        Served, Tick, Return, Goto
    <3> QED
      BY <3>1
  <2> QED
    BY <2>6, <2>7
<1> QED
  BY <1>1, Inductive, PTL DEF Spec, LogoutSticks
=============================================================================
