------------------------------- MODULE Issuer -------------------------------
(***************************************************************************)
(* Package auth: the Issuer mints, rotates and revokes token pairs, the    *)
(* TokenStore holds the active refresh id of each family and the revoked   *)
(* ids, and the middleware admits requests by access token.                *)
(*                                                                         *)
(* Requests run concurrently, on any replica; each call to the store is    *)
(* one atomic step and may fail.  Pair n is the access and the refresh     *)
(* token minted together; its ids ("A", n) and ("R", n) are drawn fresh    *)
(* by newID.                                                               *)
(***************************************************************************)
EXTENDS Integers, FiniteSets

CONSTANTS
    Requests,     \* requests in progress
    Fids,         \* token families
    MaxPair,      \* bound: pairs ever minted
    MaxTime,      \* bound: the clock stops here
    AccessTTL, RefreshTTL,
    RedisBacked,  \* RedisStore, or else MemoryStore
    None

ASSUME PairAssumption == MaxPair \in Nat /\ MaxTime \in Nat
ASSUME TTLAssumption  == AccessTTL \in Nat \ {0} /\ RefreshTTL \in Nat \ {0}
ASSUME NoneAssumption ==
    /\ None \notin Nat /\ None \notin Fids
    /\ None \notin [fid : Fids, at : Nat] /\ None \notin [jti : Nat, exp : Nat]
ASSUME StoreAssumption == RedisBacked \in BOOLEAN

VARIABLES
    now,
    minted,   \* minted[n]: the family and the mint time of pair n, or None
    family,   \* family[f]: the store's active refresh id and expiry, or None
    block,    \* block[k][n]: the expiry of the block on that id, or None
    pc,       \* pc[q]: where request q is
    req,      \* req[q]: the pair whose token q presented
    kinds,    \* kinds[q]: the tokens q presented, of "A" and "R"
    lost,     \* pairs nobody holds: SetFamily took effect, but its reply was lost
    spent,    \* ghost: pairs whose refresh token was rotated
    out,      \* ghost: pairs whose access token a Logout blocked
    late,     \* ghost: late[q]: what had happened to req[q] when q began
    revoked,  \* ghost: families on which RevokeFamily was executed
    raced     \* ghost: those of them revoked while a Refresh was about to mint

store == <<family, block>>
ghosts == <<spent, out, late, revoked, raced>>
vars == <<now, minted, store, pc, req, kinds, lost, ghosts>>

Pairs == 1..MaxPair
Kinds == {"A", "R"}
Pasts == {"spent", "out"}

TypeOK ==
    /\ now \in 0..MaxTime
    /\ minted \in [Pairs -> [fid : Fids, at : Nat] \cup {None}]
    /\ family \in [Fids -> [jti : Pairs, exp : Nat] \cup {None}]
    /\ block \in [Kinds -> [Pairs -> Nat \cup {None}]]
    /\ pc \in [Requests -> {"idle", "family", "reuse", "mint", "rotated", "logoutA",
                            "logoutR", "check", "granted"}]
    /\ req \in [Requests -> Pairs \cup {None}]
    /\ kinds \in [Requests -> SUBSET Kinds]
    /\ lost \subseteq Pairs /\ spent \subseteq Pairs /\ out \subseteq Pairs
    /\ late \in [Requests -> SUBSET Pasts]
    /\ revoked \subseteq Fids /\ raced \subseteq Fids

Init ==
    /\ now = 0
    /\ minted = [n \in Pairs |-> None]
    /\ family = [f \in Fids |-> None]
    /\ block = [k \in Kinds |-> [n \in Pairs |-> None]]
    /\ pc = [q \in Requests |-> "idle"]
    /\ req = [q \in Requests |-> None]
    /\ kinds = [q \in Requests |-> {}]
    /\ lost = {} /\ spent = {} /\ out = {} /\ revoked = {} /\ raced = {}
    /\ late = [q \in Requests |-> {}]

-----------------------------------------------------------------------------
(* Tokens and the store. *)

\* The exp claim of a token.
Exp(k, n) == minted[n].at + (IF k = "A" THEN AccessTTL ELSE RefreshTTL)

\* jwt.ValidateToken: signature and exp.
parseValid(k, n) == minted[n] # None /\ now < Exp(k, n)

\* Is a store entry with this expiry still there?  MemoryStore drops an entry
\* when now is after its expiry, Redis at its expiry.
Live(e) == IF RedisBacked THEN now < e ELSE now <= e

Family(f) == IF family[f] # None /\ Live(family[f].exp) THEN family[f].jti ELSE None

IsBlocked(k, n) == block[k][n] # None /\ Live(block[k][n])

SetFamilyShort(f, n) ==   \* mutant: the record gets the access token's lifetime
    family' = [family EXCEPT ![f] = [jti |-> n, exp |-> now + AccessTTL]]

SetFamily(f, n) ==
    family' = [family EXCEPT ![f] = [jti |-> n, exp |-> now + RefreshTTL]]

\* Block(jti, remainingTTL); an expired token is not blocked.
Block(k, n) ==
    block' = IF Exp(k, n) - now > 0 THEN [block EXCEPT ![k][n] = Exp(k, n)] ELSE block

RevokeFamily(f) ==
    /\ family' = [family EXCEPT ![f] = None]
    /\ revoked' = revoked \cup {f}
    /\ raced' = raced \cup {g \in {f} : \E q \in Requests :
                              pc[q] = "mint" /\ minted[req[q]].fid = g}

FamilyOf(q) == minted[req[q]].fid

\* The first id not used yet.
NextPair(n) == minted[n] = None /\ \A m \in Pairs : m < n => minted[m] # None

-----------------------------------------------------------------------------
(* Requests. *)

Idle(q) == pc[q] = "idle"
Goto(q, s) == pc' = [pc EXCEPT ![q] = s]

\* What is over when a request that presents pair n begins: the rotation of its
\* refresh token, the blocking of its access token.
Past(g, n) ==
    \/ g = "spent" /\ n \in spent
    \/ g = "out" /\ n \in out

\* Only a token that was handed out is presented.
Begin(q, n, ks, s, pasts) ==
    /\ Idle(q) /\ n \notin lost
    /\ Goto(q, s)
    /\ req' = [req EXCEPT ![q] = n]
    /\ kinds' = [kinds EXCEPT ![q] = ks]
    /\ late' = [late EXCEPT ![q] = {g \in pasts : Past(g, n)}]
    /\ UNCHANGED <<now, minted, store, lost, spent, out, revoked, raced>>

Return(q) ==
    /\ Goto(q, "idle")
    /\ req' = [req EXCEPT ![q] = None]
    /\ kinds' = [kinds EXCEPT ![q] = {}]
    /\ late' = [late EXCEPT ![q] = {}]

\* mint: fresh ids, both tokens signed, then SetFamily.  Without its reply the
\* pair is not returned, but the family's record names it.
mint(f, reply) ==
    \E n \in Pairs :
       /\ NextPair(n)
       /\ minted' = [minted EXCEPT ![n] = [fid |-> f, at |-> now]]
       /\ SetFamily(f, n)
       /\ lost' = IF reply THEN lost ELSE lost \cup {n}

\* Issue: a new family and its first pair.
Issue(f) ==
    /\ \A n \in Pairs : minted[n] # None => minted[n].fid # f
    /\ \E reply \in BOOLEAN : mint(f, reply)
    /\ UNCHANGED <<now, block, pc, req, kinds, ghosts>>

\* Refresh parses the token; a token that is not valid ends the call.
Refresh(q, n) == parseValid("R", n) /\ Begin(q, n, {"R"}, "family", {"spent"})

RefreshAnyActive(q) ==     \* mutant: any token of a living family is rotated
    /\ pc[q] = "family"
    /\ IF Family(FamilyOf(q)) = None THEN Return(q)
                                     ELSE Goto(q, "mint") /\ UNCHANGED <<req, kinds, late>>
    /\ UNCHANGED <<now, minted, store, lost, spent, out, revoked, raced>>

\* store.Family, then the comparison with the presented id.
RefreshFamily(q) ==
    /\ pc[q] = "family"
    /\ LET active == Family(FamilyOf(q)) IN
         \/ Return(q)       \* a store error, or below: no such family
         \/ /\ active # None
            /\ Goto(q, IF active = req[q] THEN "mint" ELSE "reuse")
            /\ UNCHANGED <<req, kinds, late>>
    /\ UNCHANGED <<now, minted, store, lost, spent, out, revoked, raced>>

RefreshReuseIgnored(q) ==  \* mutant: ErrTokenReuse without revoking the family
    /\ pc[q] = "reuse"
    /\ Return(q)
    /\ revoked' = revoked \cup {FamilyOf(q)}
    /\ UNCHANGED <<now, minted, store, lost, spent, out, raced>>

\* ErrTokenReuse; an error of RevokeFamily is dropped.
RefreshReuse(q) ==
    /\ pc[q] = "reuse"
    /\ \/ RevokeFamily(FamilyOf(q)) /\ UNCHANGED block
       \/ UNCHANGED <<store, revoked, raced>>
    /\ Return(q)
    /\ UNCHANGED <<now, minted, lost, spent, out>>

RefreshMint(q) ==
    /\ pc[q] = "mint"
    /\ mint(FamilyOf(q), TRUE)
    /\ spent' = spent \cup {req[q]}
    /\ Goto(q, "rotated")
    /\ UNCHANGED <<now, block, req, kinds, out, late, revoked, raced>>

\* newID or SetFamily fails: the error is returned, and no pair.  SetFamily may
\* have taken effect all the same; then the old token is spent for nothing.
RefreshMintErr(q) ==
    /\ pc[q] = "mint"
    /\ Return(q)
    /\ \/ UNCHANGED <<minted, family, lost, spent>>
       \/ mint(FamilyOf(q), FALSE) /\ spent' = spent \cup {req[q]}
    /\ UNCHANGED <<now, block, out, revoked, raced>>

\* The rotated refresh token's id is blocked; an error is dropped.
RefreshBlock(q) ==
    /\ pc[q] = "rotated"
    /\ Block("R", req[q]) \/ UNCHANGED block
    /\ Return(q)
    /\ UNCHANGED <<now, minted, family, lost, spent, out, revoked, raced>>

\* Logout with an access token, a refresh token or both.
Logout(q, n, ks) ==
    /\ \E k \in ks : parseValid(k, n)
    /\ Begin(q, n, ks, "logoutA", {})

LogoutNoBlock(q) ==        \* mutant: only the family is revoked
    /\ pc[q] = "logoutA"
    /\ out' = IF "A" \in kinds[q] /\ parseValid("A", req[q]) THEN out \cup {req[q]} ELSE out
    /\ Goto(q, "logoutR")
    /\ UNCHANGED <<now, minted, store, req, kinds, lost, spent, late, revoked, raced>>

LogoutAccess(q) ==
    /\ pc[q] = "logoutA"
    /\ \/ /\ "A" \in kinds[q] /\ parseValid("A", req[q])
          /\ Block("A", req[q])
          /\ out' = out \cup {req[q]}
       \/ UNCHANGED <<block, out>>       \* no valid access token, or a store error
    /\ Goto(q, "logoutR")
    /\ UNCHANGED <<now, minted, family, req, kinds, lost, spent, late, revoked, raced>>

LogoutRefresh(q) ==
    /\ pc[q] = "logoutR"
    /\ \/ /\ "R" \in kinds[q] /\ parseValid("R", req[q])
          /\ RevokeFamily(FamilyOf(q))
       \/ UNCHANGED <<family, revoked, raced>>
    /\ Return(q)
    /\ UNCHANGED <<now, minted, block, lost, spent, out>>

\* RequireAuth and Optional with WithBlocklist: parse the bearer token ...
Authenticate(q, n) == parseValid("A", n) /\ Begin(q, n, {"A"}, "check", {"out"})

\* ... and look its id up; a store error does not admit the caller (RequireAuth
\* answers 401, Optional goes on without claims).
CheckBlocklist(q) ==
    /\ pc[q] = "check"
    /\ \/ Return(q)
       \/ /\ ~IsBlocked("A", req[q])
          /\ Goto(q, "granted")
          /\ UNCHANGED <<req, kinds, late>>
    /\ UNCHANGED <<now, minted, store, lost, spent, out, revoked, raced>>

\* The handler behind the middleware answers.
Served(q) ==
    /\ pc[q] = "granted"
    /\ Return(q)
    /\ UNCHANGED <<now, minted, store, lost, spent, out, revoked, raced>>

Tick ==
    /\ now < MaxTime
    /\ now' = now + 1
    /\ UNCHANGED <<minted, store, pc, req, kinds, lost, ghosts>>

Next ==
    \/ \E f \in Fids : Issue(f)
    \/ \E q \in Requests :
          \/ \E n \in Pairs : \/ Refresh(q, n) \/ Authenticate(q, n)
                              \/ \E ks \in SUBSET Kinds : Logout(q, n, ks)
          \/ RefreshFamily(q) \/ RefreshReuse(q) \/ RefreshMint(q) \/ RefreshMintErr(q)
          \/ RefreshBlock(q) \/ LogoutAccess(q) \/ LogoutRefresh(q)
          \/ CheckBlocklist(q) \/ Served(q)
    \/ Tick

Spec == Init /\ [][Next]_vars

-----------------------------------------------------------------------------
(* Properties. *)

\* Reuse detection: a Refresh that begins after a token was rotated never rotates
\* that token again, whatever other requests do meanwhile (the family pointer
\* only ever moves to fresh ids).
SequentialSingleUse ==
    \A q \in Requests : pc[q] = "mint" => "spent" \notin late[q]

\* A family revoked by Logout or by reuse stays unusable, unless the revocation
\* fell between the check and the mint of a Refresh of that family.
RevokedUnlessRaced ==
    \A f \in revoked \ raced : family[f] = None

\* A request that begins after a Logout blocked its access token is not admitted
\* while that token is valid: the block lasts to the token's last instant.  (A
\* request that was parsed before that instant and looks the block up after it
\* does get through.)
LogoutSticks ==
    [][\A q \in Requests :
          pc[q] = "check" /\ pc'[q] = "granted" /\ "out" \in late[q]
            => ~parseValid("A", req[q])]_vars

\* The newest refresh token handed out for a family that was never revoked can be
\* refreshed until it expires, unless a later pair of that family was lost with
\* the reply of its SetFamily: then the record names the lost one, and the client's
\* good token will be taken for reuse.  Nothing else takes a session away: not a
\* rotation that failed, nor one that lost a race, nor the record's own expiry.
NewestUsableUnlessLost ==
    \A n \in Pairs \ lost :
        /\ parseValid("R", n)
        /\ minted[n].fid \notin revoked
        /\ \A m \in Pairs \ lost : minted[m] # None /\ minted[m].fid = minted[n].fid => m <= n
        => \/ Family(minted[n].fid) = n
           \/ Family(minted[n].fid) \in lost /\ Family(minted[n].fid) > n

=============================================================================
