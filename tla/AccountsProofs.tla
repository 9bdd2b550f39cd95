--------------------------- MODULE AccountsProofs ---------------------------
(***************************************************************************)
(* Proofs about Accounts for any emails, slugs, requests, limits, window   *)
(* and bounds.                                                             *)
(*                                                                         *)
(* The parts of the inductive invariant are written over the rows they     *)
(* speak of (C and D: codes, K and J: keys, f: requests, l: a log), so     *)
(* that what a change of rows preserves is a lemma of its own.             *)
(***************************************************************************)
EXTENDS Accounts, FiniteSetTheorems, TLAPS

(***************************************************************************)
(* Codes and keys are numbered together in the order they are made.        *)
(***************************************************************************)
Numbered(C, K) ==
  /\ IsFiniteSet(C) /\ IsFiniteSet(K)
  /\ \A x \in C \cup K : x.id \in 1..Cardinality(C) + Cardinality(K)
  /\ \A x, y \in C : x.id = y.id => x = y
  /\ \A x, y \in K : x.id = y.id => x = y
  /\ \A x \in C, y \in K : x.id # y.id

(***************************************************************************)
(* A request is at a row that is there, from its first step on.            *)
(***************************************************************************)
Steps == {"idle", "signup", "bootstrap", "invite", "exchange", "issue", "refresh", "count"}
Call == [step : Steps, user : Emails \cup {None}, ws : Slugs \cup {None}, role : Roles,
         id : Ids \cup {None}, at : Nat]

CallOK(r, C, K, t) ==
  /\ r \in Call /\ r.at <= t
  /\ r.step \in {"idle", "signup", "bootstrap", "invite"} => r.id = None
  /\ r.step \in {"signup", "bootstrap", "invite"} => r.user \in Emails /\ r.ws \in Slugs
  /\ r.step \in {"exchange", "issue"} =>
       \E c \in C : c.id = r.id /\ c.ws = r.ws /\ c.user = r.user
  /\ r.step = "refresh" => \E k \in K : k.id = r.id /\ k.kind = "refresh"
  /\ r.step = "count" => \E k \in K : k.id = r.id /\ LimitOf(k) # 0

(***************************************************************************)
(* Tokens, and no other keys, come from a credential and go back to a code.*)
(***************************************************************************)
KeyOK(k, C) ==
  IF k.kind \in {"access", "refresh"}
    THEN k.from \in Ids /\ \E c \in C : c.id = k.grant
    ELSE k.from = None /\ k.grant = None

Pending(f) == {q \in Requests : f[q].step # "idle"}

TypeInv ==
  /\ now \in 0..MaxNow
  /\ users \in Seq(Emails) /\ spaces \subseteq Slugs /\ members \subseteq Member
  /\ codes \subseteq Code /\ keys \subseteq Key
  /\ DOMAIN call = Requests
  /\ count \in 0..MaxCalls
  /\ doubled \in [Ids -> Nat]
  /\ raced \in BOOLEAN

RowsInv ==
  /\ Numbered(codes, keys)
  /\ IsFiniteSet(Pending(call))
  /\ Cardinality(codes) + Cardinality(keys) + 2 * Cardinality(Pending(call)) <= 2 * count
  /\ \A q \in Requests : CallOK(call[q], codes, keys, now)
  /\ \A k \in keys : KeyOK(k, codes)

-----------------------------------------------------------------------------
(***************************************************************************)
(* Changes of rows: what a row keeps, a row that takes the place of        *)
(* another, rows that are added.                                           *)
(***************************************************************************)
SameCode(c, d) == d.id = c.id /\ d.ws = c.ws /\ d.user = c.user /\ (c.used => d.used)
SameKey(k, j) ==
  /\ j.id = k.id /\ j.kind = k.kind /\ j.user = k.user /\ j.limit = k.limit
  /\ j.from = k.from /\ j.grant = k.grant
  /\ k.revoked => j.revoked

Kept(C, D, K, J) ==
  /\ \A c \in C : \E d \in D : SameCode(c, d)
  /\ \A k \in K : \E j \in J : SameKey(k, j)

Swap(S, x, y) == (S \ {x}) \cup {y}

LEMMA SwapFinite ==
  ASSUME NEW S, IsFiniteSet(S), NEW x \in S, NEW y, y \notin S \ {x}
  PROVE  IsFiniteSet(Swap(S, x, y)) /\ Cardinality(Swap(S, x, y)) = Cardinality(S)
<1>1. /\ IsFiniteSet(S \ {x})
      /\ Cardinality(S \ {x}) = Cardinality(S) - 1
  BY FS_RemoveElement
<1>2. /\ IsFiniteSet((S \ {x}) \cup {y})
      /\ Cardinality((S \ {x}) \cup {y}) = Cardinality(S \ {x}) + 1
  BY <1>1, FS_AddElement
<1>3. Cardinality(S) \in Nat
  BY FS_CardinalityType
<1>. QED  BY <1>1, <1>2, <1>3 DEF Swap

LEMMA NumberedSwapKey ==
  ASSUME NEW C, NEW K, Numbered(C, K), NEW k \in K, NEW j, j.id = k.id
  PROVE  Numbered(C, Swap(K, k, j)) /\ Cardinality(Swap(K, k, j)) = Cardinality(K)
<1>1. j \notin K \ {k}
  BY DEF Numbered
<1>2. IsFiniteSet(Swap(K, k, j)) /\ Cardinality(Swap(K, k, j)) = Cardinality(K)
  BY <1>1, SwapFinite DEF Numbered
<1>. QED  BY <1>2 DEF Numbered, Swap

LEMMA NumberedSwapCode ==
  ASSUME NEW C, NEW K, Numbered(C, K), NEW c \in C, NEW d, d.id = c.id
  PROVE  Numbered(Swap(C, c, d), K) /\ Cardinality(Swap(C, c, d)) = Cardinality(C)
<1>1. d \notin C \ {c}
  BY DEF Numbered
<1>2. IsFiniteSet(Swap(C, c, d)) /\ Cardinality(Swap(C, c, d)) = Cardinality(C)
  BY <1>1, SwapFinite DEF Numbered
<1>. QED  BY <1>2 DEF Numbered, Swap

LEMMA NumberedAddKey ==
  ASSUME NEW C, NEW K, Numbered(C, K), NEW j, j.id = 1 + Cardinality(C) + Cardinality(K)
  PROVE  Numbered(C, K \cup {j}) /\ Cardinality(K \cup {j}) = Cardinality(K) + 1
<1>1. Cardinality(C) \in Nat /\ Cardinality(K) \in Nat
  BY FS_CardinalityType DEF Numbered
<1>2. j \notin K
  BY <1>1 DEF Numbered
<1>3. IsFiniteSet(K \cup {j}) /\ Cardinality(K \cup {j}) = Cardinality(K) + 1
  BY <1>2, FS_AddElement DEF Numbered
<1>. QED  BY <1>1, <1>3 DEF Numbered

LEMMA NumberedAddCode ==
  ASSUME NEW C, NEW K, Numbered(C, K), NEW d, d.id = 1 + Cardinality(C) + Cardinality(K)
  PROVE  Numbered(C \cup {d}, K) /\ Cardinality(C \cup {d}) = Cardinality(C) + 1
<1>1. Cardinality(C) \in Nat /\ Cardinality(K) \in Nat
  BY FS_CardinalityType DEF Numbered
<1>2. d \notin C
  BY <1>1 DEF Numbered
<1>3. IsFiniteSet(C \cup {d}) /\ Cardinality(C \cup {d}) = Cardinality(C) + 1
  BY <1>2, FS_AddElement DEF Numbered
<1>. QED  BY <1>1, <1>3 DEF Numbered

LEMMA NumberedAddPair ==
  ASSUME NEW C, NEW K, Numbered(C, K), NEW i, NEW j,
         i.id = 1 + Cardinality(C) + Cardinality(K), j.id = i.id + 1
  PROVE  Numbered(C, K \cup {j, i}) /\ Cardinality(K \cup {j, i}) = Cardinality(K) + 2
<1>1. Cardinality(C) \in Nat /\ Cardinality(K) \in Nat
  BY FS_CardinalityType DEF Numbered
<1>2. Numbered(C, K \cup {i}) /\ Cardinality(K \cup {i}) = Cardinality(K) + 1
  BY NumberedAddKey
<1>3. /\ Numbered(C, (K \cup {i}) \cup {j})
      /\ Cardinality((K \cup {i}) \cup {j}) = Cardinality(K \cup {i}) + 1
  <2>1. j.id = 1 + Cardinality(C) + Cardinality(K \cup {i})
    BY <1>1, <1>2
  <2>. QED  BY <1>2, <2>1, NumberedAddKey
<1>4. K \cup {j, i} = (K \cup {i}) \cup {j}
  OBVIOUS
<1>. QED  BY <1>1, <1>2, <1>3, <1>4

LEMMA KeptRequest ==
  ASSUME NEW C, NEW D, NEW K, NEW J, Kept(C, D, K, J), NEW r, NEW t \in Nat, NEW u \in Nat,
         t <= u, CallOK(r, C, K, t)
  PROVE  CallOK(r, D, J, u)
<1>1. r \in Call /\ r.at <= u
  BY DEF CallOK, Call
<1>2. ASSUME r.step \in {"exchange", "issue"}
      PROVE  \E c \in D : c.id = r.id /\ c.ws = r.ws /\ c.user = r.user
  BY <1>2 DEF CallOK, Kept, SameCode
<1>3. ASSUME r.step = "refresh" PROVE \E k \in J : k.id = r.id /\ k.kind = "refresh"
  BY <1>3 DEF CallOK, Kept, SameKey
<1>4. ASSUME r.step = "count" PROVE \E k \in J : k.id = r.id /\ LimitOf(k) # 0
  BY <1>4 DEF CallOK, Kept, SameKey, LimitOf
<1>. QED  BY <1>1, <1>2, <1>3, <1>4 DEF CallOK

LEMMA KeptKey ==
  ASSUME NEW C, NEW D, Kept(C, D, {}, {}), NEW k, NEW j, SameKey(k, j), KeyOK(k, C)
  PROVE  KeyOK(j, D)
BY DEF KeyOK, SameKey, Kept, SameCode

-----------------------------------------------------------------------------
(***************************************************************************)
(* The fields of the records that the actions build.                       *)
(***************************************************************************)
LEMMA RevokedFacts ==
  ASSUME NEW k \in Key
  PROVE  LET j == [k EXCEPT !.revoked = TRUE]
         IN  /\ j \in Key /\ SameKey(k, j) /\ j.revoked = TRUE
             /\ j.start = k.start /\ j.count = k.count
BY DEF Key, SameKey

\* A request falls in the window of its key or, when that is over, begins one.
Over(k, began) == k.start = None \/ began >= k.start + Window

LEMMA CountedFacts ==
  ASSUME NEW k \in Key, NEW began \in Nat
  PROVE  /\ Counted(k, began) \in Key
         /\ SameKey(k, Counted(k, began))
         /\ Counted(k, began).revoked = k.revoked
         /\ Over(k, began) => Counted(k, began).start = began /\ Counted(k, began).count = 1
         /\ ~Over(k, began) => /\ Counted(k, began).start = k.start
                               /\ Counted(k, began).count = k.count + 1
<1>1. CASE Over(k, began)
  <2>1. Counted(k, began) = [k EXCEPT !.start = began, !.count = 1]
    BY <1>1 DEF Counted, Over
  <2>. DEFINE j == [k EXCEPT !.start = began, !.count = 1]
  <2>2. j \in Key
    BY DEF Key
  <2>3. SameKey(k, j) /\ j.revoked = k.revoked
    BY DEF Key, SameKey
  <2>4. j.start = began /\ j.count = 1
    BY DEF Key
  <2>. QED  BY <1>1, <2>1, <2>2, <2>3, <2>4
<1>2. CASE ~Over(k, began)
  <2>1. Counted(k, began) = [k EXCEPT !.count = k.count + 1]
    BY <1>2 DEF Counted, Over, Key
  <2>. QED  BY <1>2, <2>1 DEF Key, SameKey
<1>. QED  BY <1>1, <1>2

LEMMA SpentIsSwap ==
  ASSUME NEW c \in codes, codes \subseteq Code, \A x, y \in codes : x.id = y.id => x = y
  PROVE  LET d == [c EXCEPT !.used = TRUE]
         IN  /\ Spent(c.id) = Swap(codes, c, d)
             /\ d \in Code /\ SameCode(c, d) /\ d.used = TRUE
<1>. DEFINE d == [c EXCEPT !.used = TRUE]
            e(x) == [x EXCEPT !.used = (@ \/ x.id = c.id)]
<1>1. d \in Code /\ SameCode(c, d) /\ d.used = TRUE
  BY DEF Code, SameCode
<1>2. e(c) = d
  BY DEF Code
<1>3. \A x \in codes \ {c} : e(x) = x
  <2>1. TAKE x \in codes \ {c}
  <2>2. x.id # c.id
    OBVIOUS
  <2>3. x \in Code /\ x.used \in BOOLEAN
    BY DEF Code
  <2>4. (x.used \/ x.id = c.id) = x.used
    BY <2>2, <2>3
  <2>5. x = [x EXCEPT !.used = x.used]
    BY <2>3 DEF Code
  <2>. QED  BY <2>4, <2>5
<1>4. Spent(c.id) = {e(x) : x \in codes}
  BY DEF Spent
<1>. HIDE DEF d, e
<1>5. {e(x) : x \in codes} = Swap(codes, c, d)
  BY <1>2, <1>3 DEF Swap
<1>. QED  BY <1>1, <1>4, <1>5 DEF d

-----------------------------------------------------------------------------
(***************************************************************************)
(* Requests begin, go on and stop.                                         *)
(***************************************************************************)
LEMMA CountsAreNat ==
  ASSUME RowsInv
  PROVE  /\ Cardinality(codes) \in Nat /\ Cardinality(keys) \in Nat
         /\ Cardinality(Pending(call)) \in Nat
         /\ Cardinality(codes) + Cardinality(keys) + 2 * Cardinality(Pending(call)) <= 2 * count
BY FS_CardinalityType DEF RowsInv, Numbered

LEMMA RequestBegins ==
  ASSUME TypeInv, RowsInv, NEW q \in Requests, At(q, "idle"), count < MaxCalls, NEW r,
         r.step # "idle", CallOK(r, codes, keys, now),
         call' = [call EXCEPT ![q] = r], count' = count + 1,
         UNCHANGED <<now, codes, keys>>
  PROVE  RowsInv' /\ DOMAIN call' = Requests /\ count' \in 0..MaxCalls
<1>1. /\ DOMAIN call' = Requests /\ call'[q] = r
      /\ \A p \in Requests \ {q} : call'[p] = call[p]
  BY DEF TypeInv
<1>2. Pending(call') = Pending(call) \cup {q} /\ q \notin Pending(call)
  BY <1>1 DEF Pending, At
<1>3. /\ IsFiniteSet(Pending(call'))
      /\ Cardinality(Pending(call')) = Cardinality(Pending(call)) + 1
  BY <1>2, FS_AddElement DEF RowsInv
<1>4. \A p \in Requests : CallOK(call'[p], codes, keys, now)
  BY <1>1 DEF RowsInv
<1>5. Cardinality(codes) + Cardinality(keys) + 2 * Cardinality(Pending(call')) <= 2 * count'
  BY <1>3, CountsAreNat DEF RowsInv, TypeInv
<1>6. count' \in 0..MaxCalls
  BY AccountsAssumption DEF TypeInv
<1>. QED  BY <1>1, <1>3, <1>4, <1>5, <1>6 DEF RowsInv

LEMMA IdleOK ==
  ASSUME NEW C, NEW K, NEW t \in Nat
  PROVE  CallOK(Idle, C, K, t)
BY DEF CallOK, Call, Idle, Steps, Roles

LEMMA RequestStops ==
  ASSUME TypeInv, RowsInv, NEW q \in Requests, ~At(q, "idle"), Stop(q),
         Numbered(codes, keys)', Kept(codes, codes', keys, keys'),
         Cardinality(codes') + Cardinality(keys') <= Cardinality(codes) + Cardinality(keys) + 2,
         \A k \in keys' : KeyOK(k, codes'),
         now' = now, count' = count
  PROVE  RowsInv' /\ DOMAIN call' = Requests
<1>1. /\ DOMAIN call' = Requests /\ call'[q] = Idle
      /\ \A p \in Requests \ {q} : call'[p] = call[p]
  BY DEF TypeInv, Stop
<1>2. Pending(call') = Pending(call) \ {q} /\ q \in Pending(call)
  BY <1>1 DEF Pending, At, Idle
<1>3. /\ IsFiniteSet(Pending(call'))
      /\ Cardinality(Pending(call')) = Cardinality(Pending(call)) - 1
  BY <1>2, FS_RemoveElement DEF RowsInv
<1>4. \A p \in Requests : CallOK(call'[p], codes', keys', now')
  <2>1. now \in Nat
    BY AccountsAssumption DEF TypeInv
  <2>2. CallOK(call'[q], codes', keys', now)
    BY <1>1, <2>1, IdleOK
  <2>3. ASSUME NEW p \in Requests, p # q PROVE CallOK(call'[p], codes', keys', now)
    <3>1. CallOK(call[p], codes, keys, now)
      BY DEF RowsInv
    <3>2. CallOK(call[p], codes', keys', now)
      BY <2>1, <3>1, KeptRequest
    <3>. QED  BY <1>1, <2>3, <3>2
  <2>. QED  BY <2>2, <2>3
<1>5. Cardinality(codes') \in Nat /\ Cardinality(keys') \in Nat
  BY FS_CardinalityType DEF Numbered
<1>6. Cardinality(codes') + Cardinality(keys') + 2 * Cardinality(Pending(call')) <= 2 * count'
  <2>1. count \in Nat
    BY AccountsAssumption DEF TypeInv
  <2>. QED  BY <1>3, <1>5, <2>1, CountsAreNat
<1>. QED  BY <1>1, <1>3, <1>4, <1>6 DEF RowsInv

LEMMA RequestsStay ==
  ASSUME TypeInv, RowsInv, call' = call,
         Numbered(codes, keys)', Kept(codes, codes', keys, keys'),
         Cardinality(codes') + Cardinality(keys') - Cardinality(codes) - Cardinality(keys)
           <= 2 * (count' - count),
         \A k \in keys' : KeyOK(k, codes'),
         now' \in 0..MaxNow, now <= now', count' \in Nat
  PROVE  RowsInv'
<1>1. \A p \in Requests : CallOK(call'[p], codes', keys', now')
  <2>1. now \in Nat /\ now' \in Nat
    BY AccountsAssumption DEF TypeInv
  <2>. QED  BY <2>1, KeptRequest DEF RowsInv
<1>2. Cardinality(codes') \in Nat /\ Cardinality(keys') \in Nat
  BY FS_CardinalityType DEF Numbered
<1>3. Cardinality(codes') + Cardinality(keys') + 2 * Cardinality(Pending(call')) <= 2 * count'
  <2>1. count \in Nat
    BY AccountsAssumption DEF TypeInv
  <2>. QED  BY <1>2, <2>1, CountsAreNat
<1>. QED  BY <1>1, <1>3 DEF RowsInv

LEMMA KeptSame ==
  ASSUME NEW C, NEW K
  PROVE  Kept(C, C, K, K)
BY DEF Kept, SameCode, SameKey

LEMMA KeptSwap ==
  ASSUME NEW C, NEW K, NEW k \in K, NEW j, SameKey(k, j)
  PROVE  Kept(C, C, K, Swap(K, k, j))
BY DEF Kept, SameCode, SameKey, Swap

LEMMA KeptMore ==
  ASSUME NEW C, NEW D, NEW K, NEW J, NEW A, NEW B, Kept(C, D, K, J)
  PROVE  Kept(C, D \cup A, K, J \cup B)
BY DEF Kept

\* The number of the next row is one of Ids while a request may add one.
LEMMA NextId ==
  ASSUME TypeInv, RowsInv
  PROVE  /\ NewId \in Nat
         /\ count < MaxCalls => NewId \in Ids /\ NewId + 1 \in Ids
         /\ \A q \in Requests : ~At(q, "idle") => NewId \in Ids /\ NewId + 1 \in Ids
<1>1. NewId \in Nat \ {0} /\ NewId = 1 + Cardinality(codes) + Cardinality(keys)
  BY CountsAreNat DEF NewId
<1>2. MaxCalls \in Nat /\ count \in Nat /\ count <= MaxCalls
  BY AccountsAssumption DEF TypeInv
<1>3. NewId + 2 * Cardinality(Pending(call)) <= 2 * count + 1
  BY <1>1, CountsAreNat DEF RowsInv, TypeInv
<1>4. ASSUME count < MaxCalls PROVE NewId \in Ids /\ NewId + 1 \in Ids
  BY <1>1, <1>2, <1>3, <1>4, CountsAreNat DEF Ids
<1>5. ASSUME NEW q \in Requests, ~At(q, "idle") PROVE NewId \in Ids /\ NewId + 1 \in Ids
  <2>1. q \in Pending(call)
    BY <1>5 DEF Pending, At
  <2>2. Cardinality(Pending(call)) # 0
    BY <2>1, FS_EmptySet DEF RowsInv
  <2>. QED  BY <1>1, <1>2, <1>3, <2>2, CountsAreNat DEF Ids
<1>. QED  BY <1>1, <1>4, <1>5

-----------------------------------------------------------------------------
(***************************************************************************)
(* Types and rows, one action after the other.                             *)
(***************************************************************************)
LEMMA UserFacts ==
  ASSUME TypeInv, NEW e \in Range(users)
  PROVE  e \in Emails
BY DEF TypeInv, Range

\* A request that reads begins, and no row changes.
LEMMA ReadStep ==
  ASSUME TypeInv, RowsInv, NEW q \in Requests, NEW step \in Steps \ {"idle"},
         NEW e \in Emails \cup {None}, NEW w \in Slugs \cup {None}, NEW i \in Ids \cup {None},
         step \in {"signup", "bootstrap", "invite"} => e \in Emails /\ w \in Slugs /\ i = None,
         step = "exchange" => \E c \in codes : c.id = i /\ c.ws = w /\ c.user = e,
         step = "refresh" => \E k \in keys : k.id = i /\ k.kind = "refresh",
         step \notin {"issue", "count"},
         Begin(q, step, e, w, i), UNCHANGED <<now, codes, keys>>
  PROVE  RowsInv' /\ DOMAIN call' = Requests /\ count' \in 0..MaxCalls
<1>. DEFINE r == [Idle EXCEPT !.step = step, !.user = e, !.ws = w, !.id = i]
<1>1. /\ r \in Call
      /\ r.step = step /\ r.user = e /\ r.ws = w /\ r.id = i /\ r.at = 0
  <2>1. step \in Steps /\ Idle \in Call /\ Idle.at = 0
    BY DEF Idle, Call, Steps, Roles
  <2>. QED  BY <2>1 DEF Call
<1>. HIDE DEF r
<1>2. r.at <= now
  BY <1>1, AccountsAssumption DEF TypeInv
<1>3. CallOK(r, codes, keys, now)
  BY <1>1, <1>2 DEF CallOK
<1>4. call' = [call EXCEPT ![q] = r]
  BY DEF Begin, r
<1>. QED  BY <1>1, <1>3, <1>4, RequestBegins DEF Begin

LEMMA RowsSignup ==
  ASSUME TypeInv, RowsInv, NEW q \in Requests, NEW e \in Emails, NEW w \in Slugs,
         SignupRead(q, e, w) \/ BootstrapRead(q, e, w)
  PROVE  TypeInv' /\ RowsInv'
<1>1. CASE SignupRead(q, e, w)
  <2>1. RowsInv' /\ DOMAIN call' = Requests /\ count' \in 0..MaxCalls
    BY <1>1, ReadStep DEF SignupRead, Steps, tokens
  <2>. QED  BY <1>1, <2>1 DEF SignupRead, TypeInv, tokens, accounts, Starting
<1>2. CASE BootstrapRead(q, e, w)
  <2>1. RowsInv' /\ DOMAIN call' = Requests /\ count' \in 0..MaxCalls
    BY <1>2, ReadStep DEF BootstrapRead, Steps, tokens
  <2>. QED  BY <1>2, <2>1 DEF BootstrapRead, TypeInv, tokens, accounts, Starting
<1>. QED  BY <1>1, <1>2

LEMMA RowsInviteRead ==
  ASSUME TypeInv, RowsInv, NEW q \in Requests, NEW e \in Emails, NEW w \in spaces,
         InviteRead(q, w, e)
  PROVE  TypeInv' /\ RowsInv'
<1>1. RowsInv' /\ DOMAIN call' = Requests /\ count' \in 0..MaxCalls
  BY ReadStep DEF InviteRead, Steps, tokens, TypeInv
<1>. QED  BY <1>1 DEF InviteRead, TypeInv, tokens, accounts

\* One more exchange of a credential is counted for its grant.
LEMMA DoublingFacts ==
  ASSUME TypeInv, NEW i, NEW g \in Ids, Doubling(i, g)
  PROVE  /\ doubled' \in [Ids -> Nat]
         /\ \A h \in Ids \ {g} : doubled'[h] = doubled[h]
         /\ doubled'[g] = doubled[g]
              + IF \E p \in Requests : call[p].id = i /\ call[p].step # "count" THEN 1 ELSE 0
BY DEF Doubling, TypeInv

LEMMA RowsExchangeRead ==
  ASSUME TypeInv, RowsInv, NEW q \in Requests, NEW c \in codes, ExchangeRead(q, c)
  PROVE  TypeInv' /\ RowsInv'
<1>1. c.id \in Ids /\ c.user \in Emails /\ c.ws \in Slugs
  BY DEF TypeInv, Code
<1>2. RowsInv' /\ DOMAIN call' = Requests /\ count' \in 0..MaxCalls
  BY <1>1, ReadStep DEF ExchangeRead, Steps
<1>3. doubled' \in [Ids -> Nat]
  BY <1>1, DoublingFacts DEF ExchangeRead
<1>. QED  BY <1>2, <1>3 DEF ExchangeRead, TypeInv, accounts

LEMMA GrantFacts ==
  ASSUME TypeInv, RowsInv, NEW k \in keys, k.kind = "refresh"
  PROVE  k.from \in Ids /\ k.grant \in Ids /\ \E c \in codes : c.id = k.grant
BY DEF TypeInv, RowsInv, KeyOK, Code

LEMMA RowsRefreshRead ==
  ASSUME TypeInv, RowsInv, NEW q \in Requests, NEW k \in keys, RefreshRead(q, k)
  PROVE  TypeInv' /\ RowsInv'
<1>1. k.id \in Ids /\ k.user \in Emails \cup {None} /\ k.ws \in Slugs /\ k.grant \in Ids
  BY GrantFacts DEF TypeInv, Key, RefreshRead
<1>2. RowsInv' /\ DOMAIN call' = Requests /\ count' \in 0..MaxCalls
  BY <1>1, ReadStep DEF RefreshRead, Steps
<1>3. doubled' \in [Ids -> Nat]
  BY <1>1, DoublingFacts DEF RefreshRead
<1>. QED  BY <1>2, <1>3 DEF RefreshRead, TypeInv, accounts

LEMMA RowsCallRead ==
  ASSUME TypeInv, RowsInv, NEW q \in Requests, NEW k \in keys, CallRead(q, k)
  PROVE  TypeInv' /\ RowsInv'
<1>. DEFINE r == [Idle EXCEPT !.step = "count", !.id = k.id, !.at = now]
<1>0. k.id \in Ids /\ now \in Nat
  BY AccountsAssumption DEF TypeInv, Key
<1>1. r \in Call /\ r.step = "count" /\ r.id = k.id /\ r.at = now
  <2>1. Idle \in Call
    BY DEF Idle, Call, Steps, Roles
  <2>. QED  BY <1>0, <2>1 DEF Call, Steps
<1>2. call' = [call EXCEPT ![q] = r]
  BY DEF CallRead
<1>. HIDE DEF r
<1>3. CallOK(r, codes, keys, now)
  BY <1>0, <1>1 DEF CallOK, CallRead
<1>4. RowsInv' /\ DOMAIN call' = Requests /\ count' \in 0..MaxCalls
  BY <1>1, <1>2, <1>3, RequestBegins DEF CallRead, tokens
<1>. QED  BY <1>4 DEF CallRead, TypeInv, tokens, accounts

LEMMA RowsAbandon ==
  ASSUME TypeInv, RowsInv, NEW q \in Requests, Abandon(q)
  PROVE  TypeInv' /\ RowsInv'
<1>1. RowsInv' /\ DOMAIN call' = Requests
  BY RequestStops, KeptSame, CountsAreNat DEF Abandon, tokens, RowsInv
<1>. QED  BY <1>1 DEF Abandon, TypeInv, tokens, accounts

LEMMA RowsInviteCommit ==
  ASSUME TypeInv, RowsInv, NEW q \in Requests, InviteCommit(q)
  PROVE  TypeInv' /\ RowsInv'
<1>1. RowsInv' /\ DOMAIN call' = Requests
  <2>1. ~At(q, "idle")
    BY DEF InviteCommit, At
  <2>. QED  BY <2>1, RequestStops, KeptSame, CountsAreNat DEF InviteCommit, tokens, RowsInv
<1>2. members' \subseteq Member
  <2>1. call[q].ws \in Slugs /\ call[q].user \in Emails
    BY DEF RowsInv, CallOK, InviteCommit, At
  <2>2. [ws |-> call[q].ws, user |-> call[q].user, role |-> "member"] \in Member
    BY <2>1 DEF Member, Roles
  <2>. QED  BY <2>2 DEF InviteCommit, TypeInv
<1>. QED  BY <1>1, <1>2 DEF InviteCommit, TypeInv, tokens

\* The row of a request's credential is the one with its number.
LEMMA KeyOfFacts ==
  ASSUME RowsInv, NEW i, \E k \in keys : k.id = i
  PROVE  KeyOf(i) \in keys /\ KeyOf(i).id = i
BY DEF KeyOf

\* What a sign-up or a bootstrap commits.
LEMMA RowsSettle ==
  ASSUME TypeInv, RowsInv, NEW q \in Requests, call[q].step \in {"signup", "bootstrap"},
         NEW new, Settle(q, new),
         new = {} \/ new = {NewKey(NewId, call[q].ws, call[q].user, "admin", "bootstrap")}
  PROVE  TypeInv' /\ RowsInv'
<1>. DEFINE k == NewKey(NewId, call[q].ws, call[q].user, "admin", "bootstrap")
<1>1. ~At(q, "idle") /\ call[q].user \in Emails /\ call[q].ws \in Slugs
  BY DEF At, RowsInv, CallOK
<1>2. NewId \in Ids /\ NewId = 1 + Cardinality(codes) + Cardinality(keys)
  BY <1>1, NextId DEF NewId
<1>3. k \in Key /\ k.id = NewId /\ k.kind = "bootstrap" /\ k.from = None /\ k.grant = None
  <2>1. /\ "admin" \in Roles /\ "bootstrap" \in Kinds
        /\ call[q].user \in Emails \cup {None}
    BY <1>1 DEF Roles, Kinds
  <2>. QED  BY <1>1, <1>2, <2>1 DEF NewKey, Key
<1>. HIDE DEF k
<1>4. /\ codes' = codes
      /\ keys' = keys \/ keys' = keys \cup {k}
  BY DEF Settle, accounts, k
<1>5. keys' \subseteq Key /\ \A j \in keys' : KeyOK(j, codes')
  BY <1>3, <1>4 DEF TypeInv, RowsInv, KeyOK
<1>6. /\ Numbered(codes, keys)'
      /\ Cardinality(codes') + Cardinality(keys') <= Cardinality(codes) + Cardinality(keys) + 2
  <2>1. CASE keys' = keys
    BY <1>4, <2>1, CountsAreNat DEF RowsInv
  <2>2. CASE keys' = keys \cup {k}
    <3>1. /\ Numbered(codes, keys \cup {k})
          /\ Cardinality(keys \cup {k}) = Cardinality(keys) + 1
      BY <1>2, <1>3, NumberedAddKey DEF RowsInv
    <3>. QED  BY <1>4, <2>2, <3>1, CountsAreNat
  <2>. QED  BY <1>4, <2>1, <2>2
<1>7. Kept(codes, codes', keys, keys')
  <2>1. Kept(codes, codes \cup {}, keys, keys \cup {}) /\ Kept(codes, codes \cup {}, keys, keys \cup {k})
    BY KeptSame, KeptMore
  <2>2. codes \cup {} = codes /\ keys \cup {} = keys
    OBVIOUS
  <2>. QED  BY <1>4, <2>1, <2>2
<1>8. Stop(q) /\ now' = now /\ count' = count /\ raced' = raced /\ doubled' = doubled
  BY DEF Settle
<1>9. RowsInv' /\ DOMAIN call' = Requests
  BY <1>1, <1>5, <1>6, <1>7, <1>8, RequestStops
<1>10. users' \in Seq(Emails) /\ spaces' \subseteq Slugs /\ members' \subseteq Member
  <2>1. [ws |-> call[q].ws, user |-> call[q].user, role |-> "owner"] \in Member
    BY <1>1 DEF Member, Roles
  <2>2. Append(users, call[q].user) \in Seq(Emails)
    BY <1>1 DEF TypeInv
  <2>. QED  BY <1>1, <2>1, <2>2 DEF Settle, TypeInv, accounts
<1>. QED  BY <1>4, <1>5, <1>8, <1>9, <1>10 DEF TypeInv

LEMMA RowsCommit ==
  ASSUME TypeInv, RowsInv, NEW q \in Requests, SignupCommit(q) \/ BootstrapCommit(q)
  PROVE  TypeInv' /\ RowsInv'
<1>1. CASE SignupCommit(q)
  BY <1>1, RowsSettle DEF SignupCommit, At
<1>2. CASE BootstrapCommit(q)
  BY <1>2, RowsSettle DEF BootstrapCommit, At
<1>. QED  BY <1>1, <1>2

LEMMA RowsRemoveMember ==
  ASSUME TypeInv, RowsInv, NEW m \in members, RemoveMember(m)
  PROVE  TypeInv' /\ RowsInv'
<1>1. count' \in 0..MaxCalls /\ count' = count + 1 /\ count \in Nat
  BY AccountsAssumption DEF TypeInv, RemoveMember
<1>2. RowsInv'
  <2>1. now \in Nat
    BY AccountsAssumption DEF TypeInv
  <2>. QED  BY <1>1, <2>1, RequestsStay, KeptSame, CountsAreNat DEF RemoveMember, tokens, RowsInv, TypeInv
<1>. QED  BY <1>1, <1>2 DEF RemoveMember, TypeInv, tokens

LEMMA RowsTick ==
  ASSUME TypeInv, RowsInv, Tick
  PROVE  TypeInv' /\ RowsInv'
<1>1. now' \in 0..MaxNow /\ now <= now' /\ count \in Nat
  BY AccountsAssumption DEF TypeInv, Tick
<1>2. RowsInv'
  BY <1>1, RequestsStay, KeptSame, CountsAreNat DEF Tick, tokens, RowsInv
<1>. QED  BY <1>1, <1>2 DEF Tick, TypeInv, tokens, accounts

LEMMA RowsSame ==
  ASSUME TypeInv, RowsInv, UNCHANGED vars
  PROVE  TypeInv' /\ RowsInv'
BY DEF TypeInv, RowsInv, vars, Numbered, CallOK, LimitOf

LEMMA RowsExchangeMember ==
  ASSUME TypeInv, RowsInv, NEW q \in Requests, ExchangeMember(q)
  PROVE  TypeInv' /\ RowsInv'
<1>1. PICK m \in members : call' = [call EXCEPT ![q].step = "issue", ![q].role = m.role]
  BY DEF ExchangeMember
<1>. DEFINE r == [call[q] EXCEPT !.step = "issue", !.role = m.role]
<1>2. call[q] \in Call /\ call[q].step = "exchange"
  BY DEF RowsInv, CallOK, ExchangeMember, At
<1>3. r \in Call /\ r.step = "issue" /\ r.id = call[q].id /\ r.ws = call[q].ws
        /\ r.user = call[q].user /\ r.at = call[q].at
  BY <1>2 DEF Call, TypeInv, Member, Steps
<1>4. call'[q] = r /\ DOMAIN call' = Requests /\ \A p \in Requests \ {q} : call'[p] = call[p]
  BY <1>1 DEF TypeInv
<1>. HIDE DEF r
<1>5. CallOK(r, codes, keys, now)
  BY <1>2, <1>3 DEF RowsInv, CallOK
<1>6. Pending(call') = Pending(call)
  BY <1>2, <1>3, <1>4 DEF Pending
<1>7. UNCHANGED <<now, codes, keys, count>>
  BY DEF ExchangeMember, tokens
<1>8. RowsInv'
  BY <1>4, <1>5, <1>6, <1>7 DEF RowsInv
<1>. QED  BY <1>4, <1>8 DEF ExchangeMember, TypeInv, tokens, accounts

LEMMA RowsExchangeRefused ==
  ASSUME TypeInv, RowsInv, NEW q \in Requests, ExchangeRefused(q)
  PROVE  TypeInv' /\ RowsInv'
<1>1. RowsInv' /\ DOMAIN call' = Requests
  <2>1. ~At(q, "idle")
    BY DEF ExchangeRefused, At
  <2>. QED  BY <2>1, RequestStops, KeptSame, CountsAreNat DEF ExchangeRefused, AfterRefusal, RowsInv
<1>. QED  BY <1>1 DEF ExchangeRefused, AfterRefusal, TypeInv, accounts

LEMMA RowsAuthorize ==
  ASSUME TypeInv, RowsInv, NEW m \in members, Authorize(m)
  PROVE  TypeInv' /\ RowsInv'
<1>. DEFINE c == [id |-> NewId, ws |-> m.ws, user |-> m.user, until |-> now + Window, used |-> FALSE]
<1>1. count \in Nat /\ now \in Nat /\ Window \in Nat /\ count' = count + 1 /\ count' \in 0..MaxCalls
  BY AccountsAssumption DEF TypeInv, Authorize
<1>2. NewId \in Ids /\ NewId = 1 + Cardinality(codes) + Cardinality(keys)
  BY NextId DEF NewId, Authorize
<1>3. c \in Code /\ c.id = NewId
  BY <1>1, <1>2 DEF Code, TypeInv, Member
<1>. HIDE DEF c
<1>4. codes' = codes \cup {c} /\ keys' = keys
  BY DEF Authorize, c
<1>5. Numbered(codes \cup {c}, keys) /\ Cardinality(codes \cup {c}) = Cardinality(codes) + 1
  BY <1>2, <1>3, NumberedAddCode DEF RowsInv
<1>6. Kept(codes, codes \cup {c}, keys, keys)
  BY DEF Kept, SameCode, SameKey
<1>7. \A k \in keys' : KeyOK(k, codes')
  BY <1>4 DEF RowsInv, KeyOK
<1>8. RowsInv'
  <2>1. call' = call /\ now' = now
    BY DEF Authorize
  <2>2. Cardinality(codes') + Cardinality(keys') - Cardinality(codes) - Cardinality(keys)
          <= 2 * (count' - count)
    BY <1>1, <1>4, <1>5, CountsAreNat
  <2>3. now' \in 0..MaxNow /\ now <= now' /\ count' \in Nat
    BY <1>1, <2>1 DEF TypeInv
  <2>4. Numbered(codes, keys)' /\ Kept(codes, codes', keys, keys')
    BY <1>4, <1>5, <1>6
  <2>. QED  BY <1>7, <2>1, <2>2, <2>3, <2>4, RequestsStay
<1>. QED  BY <1>1, <1>3, <1>4, <1>8 DEF TypeInv, Authorize, accounts

\* A new key that no credential stands behind.
LEMMA RowsNewKey ==
  ASSUME TypeInv, RowsInv, NEW k, k \in Key, k.id = NewId, k.kind = "manual",
         k.from = None, k.grant = None,
         count < MaxCalls, count' = count + 1, codes' = codes, keys' = keys \cup {k},
         UNCHANGED <<now, call>>
  PROVE  RowsInv' /\ keys' \subseteq Key /\ count' \in 0..MaxCalls
<1>1. count \in Nat /\ now \in Nat /\ count' \in 0..MaxCalls
  BY AccountsAssumption DEF TypeInv
<1>2. /\ Numbered(codes, keys \cup {k})
      /\ Cardinality(keys \cup {k}) = Cardinality(keys) + 1
  BY NumberedAddKey DEF RowsInv, NewId
<1>3. Kept(codes, codes, keys, keys \cup {k})
  BY DEF Kept, SameCode, SameKey
<1>4. \A j \in keys' : KeyOK(j, codes')
  BY DEF RowsInv, KeyOK
<1>5. Cardinality(codes') + Cardinality(keys') - Cardinality(codes) - Cardinality(keys)
        <= 2 * (count' - count)
  BY <1>1, <1>2, CountsAreNat
<1>. QED  BY <1>1, <1>2, <1>3, <1>4, <1>5, RequestsStay DEF TypeInv

LEMMA RowsCreateKey ==
  ASSUME TypeInv, RowsInv, NEW w \in spaces, NEW n \in Limits, CreateKey(w, n)
  PROVE  TypeInv' /\ RowsInv'
<1>. DEFINE j == NewKey(NewId, w, None, "member", "manual")
            k == [j EXCEPT !.limit = n]
<1>1. NewId \in Ids /\ w \in Slugs
  BY NextId DEF CreateKey, TypeInv
<1>2. j \in Key /\ j.id = NewId /\ j.kind = "manual" /\ j.from = None /\ j.grant = None
  BY <1>1 DEF NewKey, Key, Roles, Kinds
<1>. HIDE DEF j
<1>3. k \in Key /\ k.id = NewId /\ k.kind = "manual" /\ k.from = None /\ k.grant = None
  BY <1>2 DEF Key
<1>4. /\ codes' = codes /\ keys' = keys \cup {k}
      /\ count < MaxCalls /\ count' = count + 1 /\ UNCHANGED <<now, call>>
  BY DEF CreateKey, j
<1>. HIDE DEF k
<1>5. RowsInv' /\ keys' \subseteq Key /\ count' \in 0..MaxCalls
  BY <1>3, <1>4, RowsNewKey
<1>. QED  BY <1>4, <1>5 DEF TypeInv, CreateKey, accounts

\* A row that takes the place of another with the same number.
LEMMA SwapRows ==
  ASSUME TypeInv, RowsInv, NEW k \in keys, NEW j, j \in Key, SameKey(k, j)
  PROVE  /\ Numbered(codes, Swap(keys, k, j))
         /\ Cardinality(Swap(keys, k, j)) = Cardinality(keys)
         /\ Kept(codes, codes, keys, Swap(keys, k, j))
         /\ Swap(keys, k, j) \subseteq Key
         /\ \A x \in Swap(keys, k, j) : KeyOK(x, codes)
<1>1. j.id = k.id
  BY DEF SameKey
<1>2. /\ Numbered(codes, Swap(keys, k, j))
      /\ Cardinality(Swap(keys, k, j)) = Cardinality(keys)
  BY <1>1, NumberedSwapKey DEF RowsInv
<1>3. Kept(codes, codes, keys, Swap(keys, k, j))
  BY KeptSwap
<1>4. Swap(keys, k, j) \subseteq Key
  BY DEF Swap, TypeInv
<1>5. \A x \in Swap(keys, k, j) : KeyOK(x, codes)
  BY DEF Swap, RowsInv, KeyOK, SameKey
<1>. QED  BY <1>2, <1>3, <1>4, <1>5

LEMMA RevokedIsSwap ==
  ASSUME TypeInv, NEW k \in keys
  PROVE  /\ Revoked(k) = Swap(keys, k, [k EXCEPT !.revoked = TRUE])
         /\ [k EXCEPT !.revoked = TRUE] \in Key
         /\ SameKey(k, [k EXCEPT !.revoked = TRUE])
         /\ [k EXCEPT !.revoked = TRUE].revoked = TRUE
         /\ [k EXCEPT !.revoked = TRUE].start = k.start
         /\ [k EXCEPT !.revoked = TRUE].count = k.count
<1>1. k \in Key
  BY DEF TypeInv
<1>. QED  BY <1>1, RevokedFacts DEF Revoked, Swap

LEMMA RowsRevokeKey ==
  ASSUME TypeInv, RowsInv, NEW k \in keys, RevokeKey(k)
  PROVE  TypeInv' /\ RowsInv'
<1>. DEFINE j == [k EXCEPT !.revoked = TRUE]
<1>1. keys' = Swap(keys, k, j) /\ codes' = codes
  BY RevokedIsSwap DEF RevokeKey
<1>2. j \in Key /\ SameKey(k, j)
  BY RevokedIsSwap
<1>. HIDE DEF j
<1>3. count \in Nat /\ now \in Nat /\ count' = count + 1 /\ count' \in 0..MaxCalls
  BY AccountsAssumption DEF TypeInv, RevokeKey
<1>4. RowsInv' /\ keys' \subseteq Key
  <2>1. call' = call /\ now' = now
    BY DEF RevokeKey
  <2>. QED  BY <1>1, <1>2, <1>3, <2>1, SwapRows, RequestsStay, CountsAreNat DEF TypeInv
<1>. QED  BY <1>1, <1>3, <1>4 DEF TypeInv, RevokeKey, accounts

\* What a count commits, the row of the key under the time the request began.
LEMMA CountingFacts ==
  ASSUME TypeInv, RowsInv, NEW q \in Requests, CallCount(q)
  PROVE  /\ call[q].at \in Nat /\ call[q].at <= now
         /\ \E k \in keys :
              LET j == Counted(k, call[q].at)
              IN  /\ k.id = call[q].id /\ LimitOf(k) # 0
                  /\ j \in Key /\ SameKey(k, j) /\ j.revoked = k.revoked
                  /\ keys' = Swap(keys, k, j) /\ codes' = codes
                  /\ log' = Append(log, [key |-> k.id, began |-> call[q].at, at |-> now,
                                        start |-> j.start, passed |-> j.count <= LimitOf(k)])
<1>1. /\ call[q].step = "count" /\ call[q].at \in Nat /\ call[q].at <= now
      /\ \E k \in keys : k.id = call[q].id /\ LimitOf(k) # 0
  BY DEF CallCount, At, RowsInv, CallOK, Call
<1>2. PICK k \in keys : k.id = call[q].id /\ LimitOf(k) # 0
  BY <1>1
<1>3. k = KeyOf(call[q].id)
  BY <1>2, KeyOfFacts DEF RowsInv, Numbered
<1>4. LET j == Counted(k, call[q].at)
      IN  j \in Key /\ SameKey(k, j) /\ j.revoked = k.revoked
  BY <1>1, CountedFacts DEF TypeInv
<1>. QED  BY <1>1, <1>2, <1>3, <1>4 DEF CallCount, Swap

LEMMA RowsCallCount ==
  ASSUME TypeInv, RowsInv, NEW q \in Requests, CallCount(q)
  PROVE  TypeInv' /\ RowsInv'
<1>1. PICK k, j : k \in keys /\ j \in Key /\ SameKey(k, j) /\ keys' = Swap(keys, k, j) /\ codes' = codes
  BY CountingFacts
<1>2. ~At(q, "idle") /\ Stop(q) /\ now' = now /\ count' = count
  BY DEF CallCount, At
<1>3. RowsInv' /\ DOMAIN call' = Requests /\ keys' \subseteq Key
  BY <1>1, <1>2, SwapRows, RequestStops, CountsAreNat
<1>. QED  BY <1>1, <1>3 DEF TypeInv, CallCount, accounts

\* The access and the refresh token of _issue_tokens.
TokenOf(k, i, kind, from, grant) ==
  /\ k \in Key /\ k.id = i /\ k.kind = kind /\ k.from = from /\ k.grant = grant
  /\ k.revoked = FALSE /\ k.start = None /\ k.count = 0

PairOf(a, r, i, from, grant) ==
  TokenOf(a, i, "access", from, grant) /\ TokenOf(r, i + 1, "refresh", from, grant)

Issues(S, a, r, i, from, grant) == S = {r, a} /\ PairOf(a, r, i, from, grant)

LEMMA PairFacts ==
  ASSUME NewId \in Ids, NewId + 1 \in Ids, NEW ws \in Slugs, NEW user, user \in Emails \cup {None},
         NEW role \in Roles, NEW from \in Ids, NEW grant \in Ids
  PROVE  \E a, r : Issues(Pair(ws, user, role, from, grant), a, r, NewId, from, grant)
<1>. DEFINE x == NewKey(NewId, ws, user, role, "access")
            y == NewKey(NewId + 1, ws, user, role, "refresh")
            a == [x EXCEPT !.from = from, !.grant = grant]
            r == [y EXCEPT !.from = from, !.grant = grant]
<1>1. x \in Key /\ x.id = NewId /\ x.kind = "access" /\ x.revoked = FALSE /\ x.start = None
        /\ x.count = 0
  BY DEF NewKey, Key, Kinds
<1>2. y \in Key /\ y.id = NewId + 1 /\ y.kind = "refresh" /\ y.revoked = FALSE /\ y.start = None
        /\ y.count = 0
  BY DEF NewKey, Key, Kinds
<1>3. Pair(ws, user, role, from, grant) = {r, a}
  BY DEF Pair
<1>. HIDE DEF x, y
<1>4. TokenOf(a, NewId, "access", from, grant)
  BY <1>1 DEF TokenOf, Key
<1>5. TokenOf(r, NewId + 1, "refresh", from, grant)
  BY <1>2 DEF TokenOf, Key
<1>. QED  BY <1>3, <1>4, <1>5 DEF PairOf, Issues

\* Rows that come from C and K, with n more than before.
RowsFrom(C, K, D, J, n) ==
  /\ Numbered(D, J) /\ Kept(C, D, K, J) /\ J \subseteq Key
  /\ \A k \in J : KeyOK(k, D)
  /\ Cardinality(D) + Cardinality(J) = Cardinality(C) + Cardinality(K) + n

\* The pair beside rows of which one took the place of another.
LEMMA AddedPair ==
  ASSUME NEW C, NEW K, NEW D, NEW J, RowsFrom(C, K, D, J, 0),
         Cardinality(C) \in Nat, Cardinality(K) \in Nat,
         NEW a, NEW r, NEW from, NEW grant,
         PairOf(a, r, 1 + Cardinality(C) + Cardinality(K), from, grant),
         from \in Ids, \E c \in D : c.id = grant
  PROVE  RowsFrom(C, K, D, J \cup {r, a}, 2)
<1>1. Cardinality(D) \in Nat /\ Cardinality(J) \in Nat
  BY FS_CardinalityType DEF RowsFrom, Numbered
<1>2. a.id = 1 + Cardinality(D) + Cardinality(J) /\ r.id = a.id + 1
  BY <1>1 DEF TokenOf, PairOf, RowsFrom
<1>3. Numbered(D, J \cup {r, a}) /\ Cardinality(J \cup {r, a}) = Cardinality(J) + 2
  BY <1>2, NumberedAddPair DEF RowsFrom
<1>4. Kept(C, D, K, J \cup {r, a})
  BY DEF Kept, RowsFrom
<1>5. J \cup {r, a} \subseteq Key
  BY DEF TokenOf, PairOf, RowsFrom
<1>6. \A k \in J \cup {r, a} : KeyOK(k, D)
  BY DEF TokenOf, PairOf, KeyOK, RowsFrom
<1>7. Cardinality(D) + Cardinality(J \cup {r, a}) = Cardinality(C) + Cardinality(K) + 2
  BY <1>1, <1>3 DEF RowsFrom
<1>. QED  BY <1>3, <1>4, <1>5, <1>6, <1>7 DEF RowsFrom

\* What an exchange commits: the code is marked, and the pair is made.
Exchanged(c, a, r) ==
  LET d == [c EXCEPT !.used = TRUE]
  IN  /\ codes' = Swap(codes, c, d) /\ d \in Code /\ SameCode(c, d) /\ d.used = TRUE
      /\ keys' = keys \cup {r, a}
      /\ PairOf(a, r, NewId, c.id, c.id)

LEMMA ExchangeFacts ==
  ASSUME TypeInv, RowsInv, NEW q \in Requests, ExchangeCommit(q)
  PROVE  \E c \in codes : \E a, r : c.id = call[q].id /\ Exchanged(c, a, r)
<1>1. /\ call[q].step = "issue" /\ ~At(q, "idle") /\ call[q] \in Call
      /\ \E c \in codes : c.id = call[q].id /\ c.ws = call[q].ws /\ c.user = call[q].user
  BY DEF ExchangeCommit, At, RowsInv, CallOK
<1>2. PICK c \in codes : c.id = call[q].id /\ c.ws = call[q].ws /\ c.user = call[q].user
  BY <1>1
<1>. DEFINE role == call[q].role
<1>3. c.id \in Ids /\ c.ws \in Slugs /\ c.user \in Emails \cup {None} /\ role \in Roles
  BY <1>1 DEF TypeInv, Code, Call
<1>4. NewId \in Ids /\ NewId + 1 \in Ids
  BY <1>1, NextId
<1>5. keys' = keys \cup Pair(c.ws, c.user, role, c.id, c.id) /\ codes' = Spent(c.id)
  BY <1>2 DEF ExchangeCommit
<1>. HIDE DEF role
<1>6. PICK a, r : Issues(Pair(c.ws, c.user, role, c.id, c.id), a, r, NewId, c.id, c.id)
  BY <1>3, <1>4, PairFacts
<1>7. LET d == [c EXCEPT !.used = TRUE]
      IN  Spent(c.id) = Swap(codes, c, d) /\ d \in Code /\ SameCode(c, d) /\ d.used = TRUE
  BY SpentIsSwap DEF TypeInv, RowsInv, Numbered
<1>. QED  BY <1>2, <1>5, <1>6, <1>7 DEF Exchanged, Issues

LEMMA RowsExchangeCommit ==
  ASSUME TypeInv, RowsInv, NEW q \in Requests, ExchangeCommit(q)
  PROVE  TypeInv' /\ RowsInv'
<1>1. PICK c, a, r : c \in codes /\ c.id = call[q].id /\ Exchanged(c, a, r)
  BY ExchangeFacts
<1>. DEFINE d == [c EXCEPT !.used = TRUE]
            D == Swap(codes, c, d)
<1>2. /\ d \in Code /\ SameCode(c, d) /\ codes' = D /\ keys' = keys \cup {r, a}
      /\ PairOf(a, r, NewId, c.id, c.id)
  BY <1>1 DEF Exchanged
<1>. HIDE DEF d
<1>3. Numbered(D, keys) /\ Cardinality(D) = Cardinality(codes)
  BY <1>1, <1>2, NumberedSwapCode DEF RowsInv, SameCode
<1>4. Kept(codes, D, keys, keys) /\ D \subseteq Code
  BY <1>2 DEF Kept, SameCode, SameKey, Swap, TypeInv
<1>5. \A k \in keys : KeyOK(k, D)
  BY <1>4 DEF RowsInv, KeyOK, Kept, SameCode
<1>6. c.id \in Ids /\ \E x \in D : x.id = c.id
  BY <1>2 DEF TypeInv, Code, Swap, SameCode
<1>. HIDE DEF D
<1>7. RowsFrom(codes, keys, D, keys, 0)
  BY <1>3, <1>4, <1>5, CountsAreNat DEF RowsFrom, TypeInv
<1>8. RowsFrom(codes, keys, D, keys \cup {r, a}, 2)
  BY <1>2, <1>6, <1>7, CountsAreNat, AddedPair DEF NewId
<1>9. RowsInv' /\ DOMAIN call' = Requests
  <2>1. ~At(q, "idle") /\ Stop(q) /\ now' = now /\ count' = count
    BY DEF ExchangeCommit, At
  <2>2. /\ Numbered(codes, keys)' /\ Kept(codes, codes', keys, keys')
        /\ \A k \in keys' : KeyOK(k, codes')
        /\ Cardinality(codes') + Cardinality(keys') <= Cardinality(codes) + Cardinality(keys) + 2
    BY <1>2, <1>8, CountsAreNat DEF RowsFrom
  <2>. QED  BY <2>1, <2>2, RequestStops
<1>. QED  BY <1>2, <1>4, <1>8, <1>9 DEF TypeInv, RowsFrom, ExchangeCommit, accounts

\* What a refresh commits: the token is revoked, and the pair is made.
Refreshed(k, a, r) ==
  LET j == [k EXCEPT !.revoked = TRUE]
  IN  /\ j \in Key /\ SameKey(k, j) /\ j.revoked = TRUE /\ j.start = k.start /\ j.count = k.count
      /\ keys' = Swap(keys, k, j) \cup {r, a} /\ codes' = codes
      /\ PairOf(a, r, NewId, k.id, k.grant)

LEMMA RefreshFacts ==
  ASSUME TypeInv, RowsInv, NEW q \in Requests, RefreshCommit(q)
  PROVE  \E k \in keys : \E a, r : k.id = call[q].id /\ k.kind = "refresh" /\ Refreshed(k, a, r)
<1>1. /\ call[q].step = "refresh" /\ ~At(q, "idle")
      /\ \E k \in keys : k.id = call[q].id /\ k.kind = "refresh"
  BY DEF RefreshCommit, At, RowsInv, CallOK
<1>2. PICK k \in keys : k.id = call[q].id /\ k.kind = "refresh"
  BY <1>1
<1>3. k = KeyOf(call[q].id)
  BY <1>2, KeyOfFacts DEF RowsInv, Numbered
<1>4. /\ k.id \in Ids /\ k.ws \in Slugs /\ k.user \in Emails \cup {None} /\ k.role \in Roles
      /\ k.grant \in Ids
  BY <1>2, GrantFacts DEF TypeInv, Key
<1>5. NewId \in Ids /\ NewId + 1 \in Ids
  BY <1>1, NextId
<1>6. keys' = Revoked(k) \cup Pair(k.ws, k.user, k.role, k.id, k.grant) /\ codes' = codes
  BY <1>3 DEF RefreshCommit, Rotated
<1>7. PICK a, r : Issues(Pair(k.ws, k.user, k.role, k.id, k.grant), a, r, NewId, k.id, k.grant)
  BY <1>4, <1>5, PairFacts
<1>. QED  BY <1>2, <1>6, <1>7, RevokedIsSwap DEF Refreshed, Issues

LEMMA RowsRefreshCommit ==
  ASSUME TypeInv, RowsInv, NEW q \in Requests, RefreshCommit(q)
  PROVE  TypeInv' /\ RowsInv'
<1>1. PICK k, a, r : k \in keys /\ k.id = call[q].id /\ k.kind = "refresh" /\ Refreshed(k, a, r)
  BY RefreshFacts
<1>. DEFINE j == [k EXCEPT !.revoked = TRUE]
            J == Swap(keys, k, j)
<1>2. /\ j \in Key /\ SameKey(k, j) /\ keys' = J \cup {r, a} /\ codes' = codes
      /\ PairOf(a, r, NewId, k.id, k.grant)
  BY <1>1 DEF Refreshed
<1>. HIDE DEF j
<1>3. RowsFrom(codes, keys, codes, J, 0)
  BY <1>1, <1>2, SwapRows, CountsAreNat DEF RowsFrom
<1>. HIDE DEF J
<1>4. k.id \in Ids /\ \E c \in codes : c.id = k.grant
  BY <1>1, GrantFacts DEF TypeInv, Key
<1>5. RowsFrom(codes, keys, codes, J \cup {r, a}, 2)
  BY <1>2, <1>3, <1>4, CountsAreNat, AddedPair DEF NewId
<1>6. RowsInv' /\ DOMAIN call' = Requests
  <2>1. ~At(q, "idle") /\ Stop(q) /\ now' = now /\ count' = count
    BY DEF RefreshCommit, At
  <2>2. /\ Numbered(codes, keys)' /\ Kept(codes, codes', keys, keys')
        /\ \A x \in keys' : KeyOK(x, codes')
        /\ Cardinality(codes') + Cardinality(keys') <= Cardinality(codes) + Cardinality(keys) + 2
    BY <1>2, <1>5, CountsAreNat DEF RowsFrom
  <2>. QED  BY <2>1, <2>2, RequestStops
<1>. QED  BY <1>2, <1>5, <1>6 DEF TypeInv, RowsFrom, RefreshCommit, accounts

LEMMA RowsInit ==
  ASSUME Init
  PROVE  TypeInv /\ RowsInv
<1>1. DOMAIN call = Requests /\ Pending(call) = {} /\ \A q \in Requests : call[q] = Idle
  BY DEF Init, Pending, Idle
<1>2. TypeInv
  <2>1. /\ users \in Seq(Emails) /\ spaces \subseteq Slugs /\ members \subseteq Member
        /\ codes \subseteq Code /\ keys \subseteq Key
    BY DEF Init
  <2>2. now \in 0..MaxNow /\ count \in 0..MaxCalls
    BY AccountsAssumption DEF Init
  <2>3. doubled \in [Ids -> Nat] /\ raced \in BOOLEAN
    BY DEF Init
  <2>. QED  BY <1>1, <2>1, <2>2, <2>3 DEF TypeInv
<1>3. Numbered({}, {})
  BY FS_EmptySet DEF Numbered
<1>4. \A q \in Requests : CallOK(call[q], codes, keys, now)
  BY <1>1, IdleOK DEF Init
<1>5. codes = {} /\ keys = {} /\ count = 0 /\ IsFiniteSet({}) /\ Cardinality({}) = 0
  BY FS_EmptySet DEF Init
<1>. QED  BY <1>1, <1>2, <1>3, <1>4, <1>5 DEF RowsInv

LEMMA RowsNext ==
  ASSUME TypeInv, RowsInv, [Next]_vars
  PROVE  TypeInv' /\ RowsInv'
<1>1. ASSUME NEW q \in Requests, \E e \in Emails, w \in Slugs : SignupRead(q, e, w) \/ BootstrapRead(q, e, w)
      PROVE  TypeInv' /\ RowsInv'
  BY <1>1, RowsSignup
<1>2. ASSUME NEW q \in Requests, \E e \in Emails, w \in spaces : InviteRead(q, w, e)
      PROVE  TypeInv' /\ RowsInv'
  BY <1>2, RowsInviteRead
<1>3. ASSUME NEW q \in Requests, \E c \in codes : ExchangeRead(q, c)
      PROVE  TypeInv' /\ RowsInv'
  BY <1>3, RowsExchangeRead
<1>4. ASSUME NEW q \in Requests, \E k \in keys : RefreshRead(q, k) \/ CallRead(q, k)
      PROVE  TypeInv' /\ RowsInv'
  BY <1>4, RowsRefreshRead, RowsCallRead
<1>. QED
  BY <1>1, <1>2, <1>3, <1>4, RowsCommit, RowsInviteCommit, RowsExchangeMember, RowsExchangeRefused,
     RowsExchangeCommit, RowsRefreshCommit, RowsCallCount, RowsAbandon, RowsTick,
     RowsRemoveMember, RowsAuthorize, RowsCreateKey, RowsRevokeKey, RowsSame DEF Next

-----------------------------------------------------------------------------
(***************************************************************************)
(* What a step does to the rows of codes and keys.                         *)
(***************************************************************************)
NewRow(k) ==
  /\ k \in Key /\ k.id = NewId /\ k.kind \in {"manual", "bootstrap"}
  /\ k.revoked = FALSE /\ k.start = None /\ k.count = 0 /\ k.from = None /\ k.grant = None

\* The key of the request q is counted under the time the request began.
CountedRow(q, k, j) ==
  /\ k.id = call[q].id /\ LimitOf(k) # 0 /\ j = Counted(k, call[q].at)
  /\ j \in Key /\ SameKey(k, j) /\ j.revoked = k.revoked
  /\ keys' = Swap(keys, k, j) /\ codes' = codes
  /\ log' = Append(log, [key |-> k.id, began |-> call[q].at, at |-> now,
                        start |-> j.start, passed |-> j.count <= LimitOf(k)])

KeyAdded(k) == keys' = keys \cup {k} /\ codes' = codes /\ NewRow(k)
KeyRevoked(k, j) ==
  /\ keys' = Swap(keys, k, j) /\ codes' = codes /\ asked' = asked \cup {k.id}
  /\ j \in Key /\ SameKey(k, j) /\ j.revoked = TRUE /\ j.start = k.start /\ j.count = k.count
CodeAdded(c) ==
  codes' = codes \cup {c} /\ keys' = keys /\ c.id = NewId /\ c.used = FALSE /\ call' = call

Quiet ==
  \/ Tick \/ UNCHANGED vars
  \/ \E q \in Requests :
       \/ \E e \in Emails, w \in Slugs : SignupRead(q, e, w) \/ BootstrapRead(q, e, w)
       \/ \E e \in Emails, w \in spaces : InviteRead(q, w, e)
       \/ \E c \in codes : ExchangeRead(q, c)
       \/ \E k \in keys : RefreshRead(q, k) \/ CallRead(q, k)
       \/ InviteCommit(q) \/ ExchangeMember(q) \/ ExchangeRefused(q) \/ Abandon(q)
       \/ SignupCommit(q)
  \/ \E m \in members : RemoveMember(m)

LEMMA QuietRows ==
  ASSUME Quiet
  PROVE  UNCHANGED <<codes, keys, log, asked>>
<1>1. ASSUME NEW q \in Requests,
             \/ \E e \in Emails, w \in Slugs : SignupRead(q, e, w) \/ BootstrapRead(q, e, w)
             \/ \E e \in Emails, w \in spaces : InviteRead(q, w, e)
             \/ \E c \in codes : ExchangeRead(q, c)
             \/ \E k \in keys : RefreshRead(q, k) \/ CallRead(q, k)
      PROVE  UNCHANGED <<codes, keys, log, asked>>
  BY <1>1 DEF SignupRead, BootstrapRead, InviteRead, ExchangeRead, RefreshRead, CallRead, tokens
<1>2. ASSUME NEW q \in Requests,
             InviteCommit(q) \/ ExchangeMember(q) \/ Abandon(q) \/ SignupCommit(q)
      PROVE  UNCHANGED <<codes, keys, log, asked>>
  BY <1>2 DEF InviteCommit, ExchangeMember, Abandon, tokens, SignupCommit, Settle
<1>3. ASSUME NEW q \in Requests, ExchangeRefused(q)
      PROVE  UNCHANGED <<codes, keys, log, asked>>
  BY <1>3 DEF ExchangeRefused, AfterRefusal
<1>4. ASSUME Tick \/ UNCHANGED vars \/ \E m \in members : RemoveMember(m)
      PROVE  UNCHANGED <<codes, keys, log, asked>>
  BY <1>4 DEF Tick, vars, RemoveMember, tokens
<1>. QED  BY <1>1, <1>2, <1>3, <1>4 DEF Quiet

PlainStep ==
  \/ UNCHANGED <<codes, keys, log, asked>>
  \/ UNCHANGED <<log, asked>> /\ \E c : CodeAdded(c)
  \/ UNCHANGED <<log, asked>> /\ \E k : KeyAdded(k)
  \/ UNCHANGED log /\ \E k \in keys : \E j : KeyRevoked(k, j)
  \/ UNCHANGED asked /\ \E q \in Requests, k \in keys : \E j : At(q, "count") /\ CountedRow(q, k, j)

RowStep ==
  \/ PlainStep
  \/ UNCHANGED <<log, asked>> /\ \E c \in codes : \E a, r : Exchanged(c, a, r)
  \/ UNCHANGED <<log, asked>> /\ \E k \in keys : \E a, r : k.kind = "refresh" /\ Refreshed(k, a, r)

Commits(q) == ExchangeCommit(q) \/ RefreshCommit(q)

LEMMA RowSteps ==
  ASSUME TypeInv, RowsInv, [Next]_vars
  PROVE  RowStep /\ (PlainStep \/ \E q \in Requests : Commits(q))
<1>1. ASSUME Quiet PROVE PlainStep
  BY <1>1, QuietRows DEF PlainStep
<1>2. ASSUME NEW q \in Requests, BootstrapCommit(q) PROVE PlainStep
  <2>. DEFINE k == NewKey(NewId, call[q].ws, call[q].user, "admin", "bootstrap")
  <2>1. call[q].ws \in Slugs /\ call[q].user \in Emails /\ ~At(q, "idle")
    BY <1>2 DEF BootstrapCommit, At, RowsInv, CallOK
  <2>2. NewId \in Ids
    BY <2>1, NextId
  <2>3. NewRow(k)
    BY <2>1, <2>2 DEF NewRow, NewKey, Key, Roles, Kinds
  <2>4. codes' = codes /\ UNCHANGED <<log, asked>> /\ (keys' = keys \/ keys' = keys \cup {k})
    BY <1>2 DEF BootstrapCommit, Settle
  <2>. HIDE DEF k
  <2>. QED  BY <2>3, <2>4 DEF PlainStep, KeyAdded
<1>3. ASSUME NEW q \in Requests, ExchangeCommit(q) PROVE RowStep
  BY <1>3, ExchangeFacts DEF RowStep, ExchangeCommit
<1>4. ASSUME NEW q \in Requests, RefreshCommit(q) PROVE RowStep
  BY <1>4, RefreshFacts DEF RowStep, RefreshCommit
<1>5. ASSUME NEW w \in spaces, NEW n \in Limits, CreateKey(w, n) PROVE PlainStep
  <2>. DEFINE j == NewKey(NewId, w, None, "member", "manual")
              k == [j EXCEPT !.limit = n]
  <2>1. NewId \in Ids /\ w \in Slugs
    BY <1>5, NextId DEF CreateKey, TypeInv
  <2>2. NewRow(j) /\ j.kind = "manual"
    BY <2>1 DEF NewRow, NewKey, Key, Roles, Kinds
  <2>3. keys' = keys \cup {k} /\ codes' = codes /\ UNCHANGED <<log, asked>>
    BY <1>5 DEF CreateKey
  <2>. HIDE DEF j
  <2>4. NewRow(k)
    BY <2>2 DEF NewRow, Key
  <2>. QED  BY <2>3, <2>4 DEF PlainStep, KeyAdded
<1>6. ASSUME NEW k \in keys, RevokeKey(k) PROVE PlainStep
  <2>1. KeyRevoked(k, [k EXCEPT !.revoked = TRUE]) /\ UNCHANGED log
    BY <1>6, RevokedIsSwap DEF RevokeKey, KeyRevoked
  <2>. QED  BY <2>1 DEF PlainStep
<1>7. ASSUME NEW q \in Requests, CallCount(q) PROVE PlainStep
  <2>1. PICK k \in keys : CountedRow(q, k, Counted(k, call[q].at))
    BY <1>7, CountingFacts DEF CountedRow
  <2>2. At(q, "count") /\ UNCHANGED asked
    BY <1>7 DEF CallCount
  <2>. QED  BY <2>1, <2>2 DEF PlainStep
<1>8. ASSUME NEW m \in members, Authorize(m) PROVE PlainStep
  <2>. DEFINE c == [id |-> NewId, ws |-> m.ws, user |-> m.user, until |-> now + Window, used |-> FALSE]
  <2>1. CodeAdded(c) /\ UNCHANGED <<log, asked>>
    BY <1>8 DEF Authorize, CodeAdded
  <2>. QED  BY <2>1 DEF PlainStep
<1>. QED  BY <1>1, <1>2, <1>3, <1>4, <1>5, <1>6, <1>7, <1>8 DEF Next, Quiet, RowStep, Commits

\* Rows stay: a code stays used, a key stays revoked, and nothing else of theirs that
\* a request or a token refers to changes.
LEMMA KeptNext ==
  ASSUME TypeInv, RowsInv, [Next]_vars
  PROVE  Kept(codes, codes', keys, keys')
<1>1. CASE UNCHANGED <<codes, keys>>
  BY <1>1, KeptSame
<1>2. ASSUME NEW c, CodeAdded(c) PROVE Kept(codes, codes', keys, keys')
  BY <1>2 DEF CodeAdded, Kept, SameCode, SameKey
<1>3. ASSUME NEW k, KeyAdded(k) PROVE Kept(codes, codes', keys, keys')
  BY <1>3 DEF KeyAdded, Kept, SameCode, SameKey
<1>4. ASSUME NEW c \in codes, NEW a, NEW r, Exchanged(c, a, r)
      PROVE  Kept(codes, codes', keys, keys')
  BY <1>4 DEF Exchanged, Kept, SameCode, SameKey, Swap
<1>5. ASSUME NEW k \in keys, NEW a, NEW r, Refreshed(k, a, r)
      PROVE  Kept(codes, codes', keys, keys')
  BY <1>5 DEF Refreshed, Kept, SameCode, SameKey, Swap
<1>6. ASSUME NEW k \in keys, NEW j, KeyRevoked(k, j)
      PROVE  Kept(codes, codes', keys, keys')
  BY <1>6, KeptSwap DEF KeyRevoked
<1>7. ASSUME NEW q, NEW k \in keys, NEW j, CountedRow(q, k, j)
      PROVE  Kept(codes, codes', keys, keys')
  BY <1>7, KeptSwap DEF CountedRow
<1>. QED  BY <1>1, <1>2, <1>3, <1>4, <1>5, <1>6, <1>7, RowSteps DEF RowStep, PlainStep

-----------------------------------------------------------------------------
(***************************************************************************)
(* Users and bootstrap.  While no bootstrap overlapped anything, at most   *)
(* one request is at a sign-up or a bootstrap, and one at a bootstrap      *)
(* found no user.                                                          *)
(***************************************************************************)
BootstrapInv ==
  ~raced =>
    /\ \A p, q \in Requests :
         {call[p].step, call[q].step} \subseteq {"signup", "bootstrap"} => p = q
    /\ \A q \in Requests : call[q].step = "bootstrap" => users = <<>>
    /\ \A k \in keys : k.kind = "bootstrap" => users # <<>> /\ k.user = Head(users)

\* A key is made with its kind: the keys of a step come from keys of the same kind
\* and user, but for those it makes.
OldKeys(new) == \A j \in keys' : j.kind \in new \/ \E k \in keys : SameKey(k, j)

LEMMA BootstrapKeeps ==
  ASSUME TypeInv, BootstrapInv, users' = users, raced' = raced, OldKeys({"manual", "access", "refresh"}),
         \A q \in Requests : call'[q].step \in {"signup", "bootstrap"} => call'[q] = call[q]
  PROVE  BootstrapInv'
<1>. SUFFICES ASSUME ~raced' PROVE BootstrapInv'
  BY DEF BootstrapInv
<1>1. ~raced
  OBVIOUS
<1>2. \A p, q \in Requests :
         {call'[p].step, call'[q].step} \subseteq {"signup", "bootstrap"} => p = q
  BY <1>1 DEF BootstrapInv
<1>3. \A q \in Requests : call'[q].step = "bootstrap" => users' = <<>>
  BY <1>1 DEF BootstrapInv
<1>4. \A k \in keys' : k.kind = "bootstrap" => users' # <<>> /\ k.user = Head(users')
  <2>1. TAKE k \in keys'
  <2>2. HAVE k.kind = "bootstrap"
  <2>3. PICK j \in keys : SameKey(j, k)
    BY <2>2 DEF OldKeys
  <2>. QED  BY <1>1, <2>2, <2>3 DEF BootstrapInv, SameKey
<1>. QED  BY <1>2, <1>3, <1>4 DEF BootstrapInv

LEMMA BootstrapBegins ==
  ASSUME TypeInv, BootstrapInv, NEW q \in Requests, NEW step \in {"signup", "bootstrap"}, NEW e, NEW w,
         Begin(q, step, e, w, None), raced' = (raced \/ Starting(q)), UNCHANGED <<users, keys>>,
         step = "bootstrap" => users = <<>>
  PROVE  BootstrapInv'
<1>. SUFFICES ASSUME ~raced' PROVE BootstrapInv'
  BY DEF BootstrapInv
<1>1. ~raced /\ ~Starting(q)
  BY DEF TypeInv, Starting
<1>2. call'[q].step = step /\ \A p \in Requests \ {q} : call'[p] = call[p]
  BY DEF Begin, TypeInv, Idle
<1>3. \A p \in Requests \ {q} : call'[p].step \notin {"signup", "bootstrap"}
  BY <1>1, <1>2 DEF Starting
<1>. QED  BY <1>1, <1>2, <1>3 DEF BootstrapInv

LEMMA BootstrapSettles ==
  ASSUME TypeInv, RowsInv, BootstrapInv, NEW q \in Requests,
         SignupCommit(q) \/ BootstrapCommit(q)
  PROVE  BootstrapInv'
<1>. SUFFICES ASSUME ~raced' PROVE BootstrapInv'
  BY DEF BootstrapInv
<1>. DEFINE k == NewKey(NewId, call[q].ws, call[q].user, "admin", "bootstrap")
<1>1. /\ call[q].step \in {"signup", "bootstrap"} /\ raced' = raced /\ Stop(q)
      /\ \/ users' = users /\ keys' = keys
         \/ /\ users' = Append(users, call[q].user)
            /\ \/ keys' = keys
               \/ call[q].step = "bootstrap" /\ keys' = keys \cup {k}
  BY DEF SignupCommit, BootstrapCommit, Settle, At, accounts
<1>2. k.user = call[q].user
  BY DEF NewKey
<1>. HIDE DEF k
<1>3. call'[q].step = "idle" /\ \A p \in Requests \ {q} : call'[p] = call[p]
  BY <1>1 DEF Stop, TypeInv, Idle
<1>4. \A p \in Requests : call'[p].step \notin {"signup", "bootstrap"}
  BY <1>1, <1>3 DEF BootstrapInv
<1>5. call[q].user \in Emails /\ users \in Seq(Emails)
  BY <1>1 DEF RowsInv, CallOK, TypeInv
<1>6. ASSUME NEW j \in keys', j.kind = "bootstrap"
      PROVE  users' # <<>> /\ j.user = Head(users')
  <2>1. CASE j \in keys
    BY <1>1, <1>5, <1>6, <2>1 DEF BootstrapInv
  <2>2. CASE j = k /\ users' = Append(users, call[q].user) /\ call[q].step = "bootstrap"
    BY <1>1, <1>2, <1>5, <2>2 DEF BootstrapInv
  <2>. QED  BY <1>1, <1>6, <2>1, <2>2
<1>. QED  BY <1>1, <1>4, <1>6 DEF BootstrapInv

\* The steps that are neither of a sign-up nor of a bootstrap.
LEMMA OtherKeys ==
  ASSUME TypeInv, RowsInv, [Next]_vars,
         ~ \E q \in Requests : BootstrapCommit(q)
  PROVE  OldKeys({"manual", "access", "refresh"})
<1>1. CASE UNCHANGED keys
  BY <1>1 DEF OldKeys, SameKey
<1>2. ASSUME NEW q \in Requests, SignupCommit(q) PROVE UNCHANGED keys
  BY <1>2 DEF SignupCommit, Settle
<1>3. ASSUME NEW q \in Requests, ExchangeCommit(q)
      PROVE  OldKeys({"manual", "access", "refresh"})
  <2>1. PICK c, a, r : c \in codes /\ Exchanged(c, a, r)
    BY <1>3, ExchangeFacts
  <2>. QED  BY <2>1 DEF Exchanged, PairOf, TokenOf, OldKeys, SameKey
<1>4. ASSUME NEW q \in Requests, RefreshCommit(q)
      PROVE  OldKeys({"manual", "access", "refresh"})
  <2>1. PICK k, a, r : k \in keys /\ Refreshed(k, a, r)
    BY <1>4, RefreshFacts
  <2>. QED  BY <2>1 DEF Refreshed, PairOf, TokenOf, OldKeys, SameKey, Swap
<1>5. ASSUME NEW w \in spaces, NEW n \in Limits, CreateKey(w, n)
      PROVE  OldKeys({"manual", "access", "refresh"})
  <2>. DEFINE j == NewKey(NewId, w, None, "member", "manual")
              k == [j EXCEPT !.limit = n]
  <2>1. k.kind = "manual"
    BY DEF NewKey
  <2>2. keys' = keys \cup {k}
    BY <1>5 DEF CreateKey
  <2>. HIDE DEF k
  <2>. QED  BY <2>1, <2>2 DEF OldKeys, SameKey
<1>6. ASSUME NEW k \in keys, RevokeKey(k)
      PROVE  OldKeys({"manual", "access", "refresh"})
  <2>1. keys' = Swap(keys, k, [k EXCEPT !.revoked = TRUE]) /\ SameKey(k, [k EXCEPT !.revoked = TRUE])
    BY <1>6, RevokedIsSwap DEF RevokeKey
  <2>. QED  BY <2>1 DEF OldKeys, SameKey, Swap
<1>7. ASSUME NEW q \in Requests, CallCount(q)
      PROVE  OldKeys({"manual", "access", "refresh"})
  <2>1. PICK k, j : k \in keys /\ SameKey(k, j) /\ keys' = Swap(keys, k, j)
    BY <1>7, CountingFacts
  <2>. QED  BY <2>1 DEF OldKeys, SameKey, Swap
<1>8. ASSUME NEW q \in Requests,
             \/ \E e \in Emails, w \in Slugs : SignupRead(q, e, w) \/ BootstrapRead(q, e, w)
             \/ \E e \in Emails, w \in spaces : InviteRead(q, w, e)
             \/ \E c \in codes : ExchangeRead(q, c)
             \/ \E k \in keys : RefreshRead(q, k) \/ CallRead(q, k)
      PROVE  UNCHANGED keys
  BY <1>8 DEF SignupRead, BootstrapRead, InviteRead, ExchangeRead, RefreshRead, CallRead, tokens
<1>9. ASSUME NEW q \in Requests,
             InviteCommit(q) \/ ExchangeMember(q) \/ ExchangeRefused(q) \/ Abandon(q)
      PROVE  UNCHANGED keys
  BY <1>9 DEF InviteCommit, ExchangeMember, ExchangeRefused, Abandon, tokens
<1>10. ASSUME Tick \/ UNCHANGED vars \/ \E m \in members : RemoveMember(m) \/ Authorize(m)
       PROVE  UNCHANGED keys
  BY <1>10 DEF Tick, vars, RemoveMember, Authorize, tokens
<1>. QED  BY <1>1, <1>2, <1>3, <1>4, <1>5, <1>6, <1>7, <1>8, <1>9, <1>10 DEF Next

\* Only a sign-up or a bootstrap begins at one.
OtherCalls == \A q \in Requests : call'[q].step \in {"signup", "bootstrap"} => call'[q] = call[q]

LEMMA OtherBegins ==
  ASSUME TypeInv, NEW q \in Requests, NEW r, call' = [call EXCEPT ![q] = r],
         r.step \notin {"signup", "bootstrap"}
  PROVE  OtherCalls
BY DEF TypeInv, OtherCalls

LEMMA BootstrapNext ==
  ASSUME TypeInv, RowsInv, BootstrapInv, [Next]_vars
  PROVE  BootstrapInv'
<1>1. ASSUME NEW q \in Requests, NEW e \in Emails, NEW w \in Slugs,
             SignupRead(q, e, w) \/ BootstrapRead(q, e, w)
      PROVE  BootstrapInv'
  <2>1. CASE SignupRead(q, e, w)
    BY <2>1, BootstrapBegins DEF SignupRead, accounts, tokens
  <2>2. CASE BootstrapRead(q, e, w)
    BY <2>2, BootstrapBegins DEF BootstrapRead, BootstrapOpen, accounts, tokens
  <2>. QED  BY <1>1, <2>1, <2>2
<1>2. ASSUME NEW q \in Requests, SignupCommit(q) \/ BootstrapCommit(q) PROVE BootstrapInv'
  BY <1>2, BootstrapSettles
<1>3. ASSUME OtherCalls, users' = users, raced' = raced, ~ \E q \in Requests : BootstrapCommit(q)
      PROVE  BootstrapInv'
  BY <1>3, OtherKeys, BootstrapKeeps DEF OtherCalls
<1>4. ASSUME NEW q \in Requests, NEW step, step \notin {"signup", "bootstrap"}, NEW e, NEW w, NEW i,
             Begin(q, step, e, w, i)
      PROVE  OtherCalls
  BY <1>4, OtherBegins DEF Begin, Idle
<1>5. ASSUME NEW q \in Requests, Stop(q) PROVE OtherCalls
  BY <1>5, OtherBegins DEF Stop, Idle
<1>6. ASSUME NEW q \in Requests,
             \/ \E e \in Emails, w \in spaces : InviteRead(q, w, e)
             \/ \E c \in codes : ExchangeRead(q, c)
             \/ \E k \in keys : RefreshRead(q, k)
      PROVE  OtherCalls /\ users' = users /\ raced' = raced
  BY <1>4, <1>6 DEF InviteRead, ExchangeRead, RefreshRead, accounts
<1>7. ASSUME NEW q \in Requests, NEW k \in keys, CallRead(q, k)
      PROVE  OtherCalls /\ users' = users /\ raced' = raced
  BY <1>7, OtherBegins DEF CallRead, accounts, Idle
<1>8. ASSUME NEW q \in Requests, ExchangeMember(q)
      PROVE  OtherCalls /\ users' = users /\ raced' = raced
  <2>1. PICK m \in members : call' = [call EXCEPT ![q].step = "issue", ![q].role = m.role]
    BY <1>8 DEF ExchangeMember
  <2>2. call[q] \in Call
    BY DEF RowsInv, CallOK
  <2>3. call'[q].step = "issue" /\ \A p \in Requests \ {q} : call'[p] = call[p]
    BY <2>1, <2>2 DEF TypeInv, Call
  <2>. QED  BY <1>8, <2>3 DEF OtherCalls, ExchangeMember, accounts
<1>9. ASSUME NEW q \in Requests,
             \/ InviteCommit(q) \/ ExchangeRefused(q) \/ ExchangeCommit(q)
             \/ RefreshCommit(q) \/ CallCount(q) \/ Abandon(q)
      PROVE  OtherCalls /\ users' = users /\ raced' = raced
  BY <1>5, <1>9 DEF InviteCommit, ExchangeRefused, ExchangeCommit, RefreshCommit, CallCount, Abandon,
                    accounts
<1>10. ASSUME \/ Tick \/ UNCHANGED vars
              \/ \E m \in members : RemoveMember(m) \/ Authorize(m)
              \/ \E w \in spaces, l \in Limits : CreateKey(w, l)
              \/ \E k \in keys : RevokeKey(k)
       PROVE  OtherCalls /\ users' = users /\ raced' = raced
  BY <1>10 DEF Tick, vars, RemoveMember, Authorize, CreateKey, RevokeKey, accounts, OtherCalls
<1>. QED
  BY <1>1, <1>2, <1>3, <1>6, <1>7, <1>8, <1>9, <1>10 DEF Next

-----------------------------------------------------------------------------
(***************************************************************************)
(* Tokens.  A pair is issued for a credential by keys that stay: once      *)
(* issued, always issued.                                                  *)
(***************************************************************************)
Issued(K, i) == {k.kind : k \in {x \in K : x.from = i}} = {"access", "refresh"}

SpentInv ==
  /\ \A c \in codes : c.used => Issued(keys, c.id)
  /\ \A k \in keys : k.kind = "refresh" /\ k.revoked /\ k.id \notin asked => Issued(keys, k.id)

LEMMA IssuedStays ==
  ASSUME NEW C, NEW D, NEW K, NEW J, Kept(C, D, K, J), NEW i \in Ids, Issued(K, i),
         \A j \in J : KeyOK(j, D)
  PROVE  Issued(J, i)
<1>1. ASSUME NEW j \in J, j.from = i PROVE j.kind \in {"access", "refresh"}
  <2>1. i # None
    BY AccountsAssumption DEF Ids
  <2>. QED  BY <1>1, <2>1 DEF KeyOK
<1>2. \E j \in J : j.from = i /\ j.kind = "access"
  BY DEF Issued, Kept, SameKey
<1>3. \E j \in J : j.from = i /\ j.kind = "refresh"
  BY DEF Issued, Kept, SameKey
<1>. QED  BY <1>1, <1>2, <1>3 DEF Issued

LEMMA IssuedPair ==
  ASSUME NEW J, NEW D, NEW a \in J, NEW r \in J, NEW i \in Ids, NEW n, NEW g,
         PairOf(a, r, n, i, g), \A j \in J : KeyOK(j, D)
  PROVE  Issued(J, i)
<1>1. ASSUME NEW j \in J, j.from = i PROVE j.kind \in {"access", "refresh"}
  <2>1. i # None
    BY AccountsAssumption DEF Ids
  <2>. QED  BY <1>1, <2>1 DEF KeyOK
<1>. QED  BY <1>1 DEF Issued, PairOf, TokenOf

\* What was spent stays paid for; a step that spends pays in the same commit.
OldSpent ==
  /\ \A d \in codes' : d.used => \/ \E c \in codes : c.used /\ c.id = d.id
                                 \/ d.id \in Ids /\ Issued(keys', d.id)
  /\ \A j \in keys' : j.kind = "refresh" /\ j.revoked /\ j.id \notin asked' =>
       \/ \E k \in keys : k.kind = "refresh" /\ k.revoked /\ k.id \notin asked /\ k.id = j.id
       \/ j.id \in Ids /\ Issued(keys', j.id)

LEMMA SpentSteps ==
  ASSUME TypeInv, RowsInv, TypeInv', RowsInv', RowStep
  PROVE  OldSpent
<1>1. CASE UNCHANGED <<codes, keys, log, asked>>
  BY <1>1 DEF OldSpent
<1>2. ASSUME NEW c, CodeAdded(c), UNCHANGED <<log, asked>> PROVE OldSpent
  BY <1>2 DEF CodeAdded, OldSpent
<1>3. ASSUME NEW k, KeyAdded(k), UNCHANGED <<log, asked>> PROVE OldSpent
  BY <1>3 DEF KeyAdded, NewRow, OldSpent
<1>4. ASSUME NEW c \in codes, NEW a, NEW r, Exchanged(c, a, r), UNCHANGED <<log, asked>> PROVE OldSpent
  <2>1. c.id \in Ids
    BY DEF TypeInv, Code
  <2>2. Issued(keys', c.id)
    <3>1. a \in keys' /\ r \in keys' /\ PairOf(a, r, NewId, c.id, c.id)
      BY <1>4 DEF Exchanged
    <3>2. \A k \in keys' : KeyOK(k, codes')
      BY DEF RowsInv
    <3>. QED  BY <2>1, <3>1, <3>2, IssuedPair
  <2>3. \A d \in codes' : d.used => (d \in codes \/ d.id = c.id)
    BY <1>4 DEF Exchanged, Swap, SameCode
  <2>4. \A j \in keys' : j.kind = "refresh" /\ j.revoked => j \in keys
    BY <1>4 DEF Exchanged, PairOf, TokenOf
  <2>. QED  BY <1>4, <2>1, <2>2, <2>3, <2>4 DEF OldSpent
<1>5. ASSUME NEW k \in keys, NEW a, NEW r, Refreshed(k, a, r), UNCHANGED <<log, asked>> PROVE OldSpent
  <2>1. k.id \in Ids
    BY DEF TypeInv, Key
  <2>2. Issued(keys', k.id)
    <3>1. a \in keys' /\ r \in keys' /\ PairOf(a, r, NewId, k.id, k.grant)
      BY <1>5 DEF Refreshed
    <3>2. \A j \in keys' : KeyOK(j, codes')
      BY DEF RowsInv
    <3>. QED  BY <2>1, <3>1, <3>2, IssuedPair
  <2>3. \A j \in keys' : j.kind = "refresh" /\ j.revoked => (j \in keys \/ j.id = k.id)
    BY <1>5 DEF Refreshed, Swap, SameKey, PairOf, TokenOf
  <2>4. codes' = codes
    BY <1>5 DEF Refreshed
  <2>. QED  BY <1>5, <2>1, <2>2, <2>3, <2>4 DEF OldSpent
<1>6. ASSUME NEW k \in keys, NEW j, KeyRevoked(k, j) PROVE OldSpent
  BY <1>6 DEF KeyRevoked, SameKey, Swap, OldSpent
<1>7. ASSUME NEW q, NEW k \in keys, NEW j, CountedRow(q, k, j), UNCHANGED asked PROVE OldSpent
  BY <1>7 DEF CountedRow, SameKey, Swap, OldSpent
<1>. QED  BY <1>1, <1>2, <1>3, <1>4, <1>5, <1>6, <1>7 DEF RowStep, PlainStep

LEMMA SpentNext ==
  ASSUME TypeInv, RowsInv, TypeInv', RowsInv', SpentInv, [Next]_vars
  PROVE  SpentInv'
<1>1. OldSpent
  BY RowSteps, SpentSteps
<1>2. ASSUME NEW i \in Ids, Issued(keys, i) PROVE Issued(keys', i)
  <2>1. Kept(codes, codes', keys, keys') /\ \A j \in keys' : KeyOK(j, codes')
    BY KeptNext DEF RowsInv
  <2>. QED  BY <1>2, <2>1, IssuedStays
<1>3. ASSUME NEW d \in codes', d.used PROVE Issued(keys', d.id)
  <2>1. ASSUME NEW c \in codes, c.used, c.id = d.id PROVE Issued(keys', d.id)
    BY <1>2, <2>1 DEF SpentInv, TypeInv, Code
  <2>. QED  BY <1>1, <1>3, <2>1 DEF OldSpent
<1>4. ASSUME NEW j \in keys', j.kind = "refresh", j.revoked, j.id \notin asked'
      PROVE  Issued(keys', j.id)
  <2>1. ASSUME NEW k \in keys, k.kind = "refresh", k.revoked, k.id \notin asked, k.id = j.id
        PROVE  Issued(keys', j.id)
    BY <1>2, <2>1 DEF SpentInv, TypeInv, Key
  <2>. QED  BY <1>1, <1>4, <2>1 DEF OldSpent
<1>. QED  BY <1>3, <1>4 DEF SpentInv

-----------------------------------------------------------------------------
(***************************************************************************)
(* Grants.  The credentials of a grant that nothing is at, and the         *)
(* requests that are at one, are together no more than one and what was    *)
(* doubled: a request takes the credential it is at, and gives back one.   *)
(***************************************************************************)
AtCredential(r) == r.step \in {"exchange", "issue", "refresh"}
Taken(f, i) == \E q \in Requests : AtCredential(f[q]) /\ f[q].id = i

Live(C, K, g, i) ==
  \/ \E c \in C : c.id = i /\ i = g /\ ~c.used
  \/ \E k \in K : k.id = i /\ k.grant = g /\ k.kind = "refresh" /\ ~k.revoked

Resting(C, K, f, g) == {i \in Ids : Live(C, K, g, i) /\ ~Taken(f, i)}

BackTo(K, g, i) == i = g \/ \E k \in K : k.id = i /\ k.grant = g
Underway(K, f, g) == {q \in Requests : AtCredential(f[q]) /\ BackTo(K, g, f[q].id)}

GrantInv ==
  \A c \in codes :
    Cardinality(Resting(codes, keys, call, c.id)) + Cardinality(Underway(keys, call, c.id))
      <= 1 + doubled[c.id]

\* What a step may do to the two sets A and B of a grant doubled d times.
Balanced(A, B, d, A2, B2, d2) ==
  \/ A2 \subseteq A /\ B2 \subseteq B /\ d2 = d
  \/ \E i, q : A2 \subseteq A \cup {i} /\ q \in B /\ B2 \subseteq B \ {q} /\ d2 = d
  \/ \E i, q : i \in A /\ A2 \subseteq A \ {i} /\ B2 \subseteq B \cup {q} /\ d2 = d
  \/ \E q : A2 \subseteq A /\ B2 \subseteq B \cup {q} /\ d2 = d + 1

LEMMA SmallerSet ==
  ASSUME NEW S, IsFiniteSet(S), NEW T, T \subseteq S
  PROVE  /\ IsFiniteSet(T) /\ Cardinality(S) \in Nat /\ Cardinality(T) \in Nat
         /\ Cardinality(T) <= Cardinality(S)
BY FS_Subset, FS_CardinalityType

LEMMA OneMore ==
  ASSUME NEW S, IsFiniteSet(S), NEW x, NEW T, T \subseteq S \cup {x}
  PROVE  /\ IsFiniteSet(T) /\ Cardinality(S) \in Nat /\ Cardinality(T) \in Nat
         /\ Cardinality(T) <= Cardinality(S) + 1
<1>1. Cardinality(S) \in Nat
  BY FS_CardinalityType
<1>2. /\ IsFiniteSet(S \cup {x})
      /\ Cardinality(S \cup {x}) = IF x \in S THEN Cardinality(S) ELSE Cardinality(S) + 1
  BY FS_AddElement
<1>3. Cardinality(T) \in Nat /\ Cardinality(T) <= Cardinality(S \cup {x}) /\ IsFiniteSet(T)
  BY <1>2, SmallerSet
<1>. QED  BY <1>1, <1>2, <1>3

LEMMA OneLess ==
  ASSUME NEW S, IsFiniteSet(S), NEW x \in S, NEW T, T \subseteq S \ {x}
  PROVE  /\ IsFiniteSet(T) /\ Cardinality(S) \in Nat /\ Cardinality(T) \in Nat
         /\ Cardinality(T) + 1 <= Cardinality(S)
<1>1. IsFiniteSet(S \ {x}) /\ Cardinality(S \ {x}) = Cardinality(S) - 1
  BY FS_RemoveElement
<1>. QED  BY <1>1, SmallerSet, FS_CardinalityType

LEMMA BalancedBound ==
  ASSUME NEW A, NEW B, NEW d \in Nat, NEW A2, NEW B2, NEW d2,
         IsFiniteSet(A), IsFiniteSet(B), Balanced(A, B, d, A2, B2, d2),
         Cardinality(A) + Cardinality(B) <= 1 + d
  PROVE  Cardinality(A2) + Cardinality(B2) <= 1 + d2
<1>1. CASE A2 \subseteq A /\ B2 \subseteq B /\ d2 = d
  BY <1>1, SmallerSet
<1>2. ASSUME NEW i, NEW q \in B, A2 \subseteq A \cup {i}, B2 \subseteq B \ {q}, d2 = d
      PROVE  Cardinality(A2) + Cardinality(B2) <= 1 + d2
  <2>1. Cardinality(A) \in Nat /\ Cardinality(A2) \in Nat /\ Cardinality(A2) <= Cardinality(A) + 1
    BY <1>2, OneMore
  <2>2. Cardinality(B) \in Nat /\ Cardinality(B2) \in Nat /\ Cardinality(B2) + 1 <= Cardinality(B)
    BY <1>2, OneLess
  <2>. QED  BY <1>2, <2>1, <2>2
<1>3. ASSUME NEW i \in A, NEW q, A2 \subseteq A \ {i}, B2 \subseteq B \cup {q}, d2 = d
      PROVE  Cardinality(A2) + Cardinality(B2) <= 1 + d2
  <2>1. Cardinality(A) \in Nat /\ Cardinality(A2) \in Nat /\ Cardinality(A2) + 1 <= Cardinality(A)
    BY <1>3, OneLess
  <2>2. Cardinality(B) \in Nat /\ Cardinality(B2) \in Nat /\ Cardinality(B2) <= Cardinality(B) + 1
    BY <1>3, OneMore
  <2>. QED  BY <1>3, <2>1, <2>2
<1>4. ASSUME NEW q, A2 \subseteq A, B2 \subseteq B \cup {q}, d2 = d + 1
      PROVE  Cardinality(A2) + Cardinality(B2) <= 1 + d2
  <2>1. Cardinality(A) \in Nat /\ Cardinality(A2) \in Nat /\ Cardinality(A2) <= Cardinality(A)
    BY <1>4, SmallerSet
  <2>2. Cardinality(B) \in Nat /\ Cardinality(B2) \in Nat /\ Cardinality(B2) <= Cardinality(B) + 1
    BY <1>4, OneMore
  <2>. QED  BY <1>4, <2>1, <2>2
<1>. QED  BY <1>1, <1>2, <1>3, <1>4 DEF Balanced

LEMMA GrantSetsFinite ==
  ASSUME RowsInv, NEW g
  PROVE  IsFiniteSet(Resting(codes, keys, call, g)) /\ IsFiniteSet(Underway(keys, call, g))
<1>1. IsFiniteSet(Ids)
  <2>1. 2 * MaxCalls \in Int /\ 1 \in Int
    BY AccountsAssumption
  <2>. QED  BY <2>1, FS_Interval DEF Ids
<1>2. Resting(codes, keys, call, g) \subseteq Ids
  BY DEF Resting
<1>3. Underway(keys, call, g) \subseteq Pending(call)
  BY DEF Underway, Pending, AtCredential
<1>. QED  BY <1>1, <1>2, <1>3, SmallerSet DEF RowsInv

\* Every row is older than the next one, and a request's credential is a row.
LEMMA Older ==
  ASSUME TypeInv, RowsInv
  PROVE  /\ NewId \in Nat
         /\ \A c \in codes : c.id \in Ids /\ c.id < NewId
         /\ \A k \in keys : k.id \in Ids /\ k.id < NewId
         /\ \A q \in Requests : AtCredential(call[q]) => call[q].id \in Ids /\ call[q].id < NewId
         /\ \A k \in keys : k.grant # None => k.grant \in Ids /\ k.grant < NewId
<1>1. NewId \in Nat /\ NewId = 1 + Cardinality(codes) + Cardinality(keys)
  BY CountsAreNat DEF NewId
<1>2. \A c \in codes : c.id \in Ids /\ c.id < NewId
  BY <1>1, CountsAreNat DEF TypeInv, Code, RowsInv, Numbered
<1>3. \A k \in keys : k.id \in Ids /\ k.id < NewId
  BY <1>1, CountsAreNat DEF TypeInv, Key, RowsInv, Numbered
<1>4. \A q \in Requests : AtCredential(call[q]) => call[q].id \in Ids /\ call[q].id < NewId
  BY <1>2, <1>3 DEF RowsInv, CallOK, AtCredential
<1>5. \A k \in keys : k.grant # None => k.grant \in Ids /\ k.grant < NewId
  BY <1>2 DEF RowsInv, KeyOK
<1>. QED  BY <1>1, <1>2, <1>3, <1>4, <1>5

Balance(g) ==
  Balanced(Resting(codes, keys, call, g), Underway(keys, call, g), doubled[g],
           Resting(codes', keys', call', g), Underway(keys', call', g), doubled'[g])

\* No credential of the grant is new, and what was there goes back to it as before.
NoneNew(g) == \A i \in Ids : Live(codes', keys', g, i) => Live(codes, keys, g, i)
SameWay(g) == \A i \in Ids : i < NewId /\ BackTo(keys', g, i) => BackTo(keys, g, i)

LEMMA GrantRows ==
  ASSUME TypeInv, RowsInv, RowStep, NEW b \in codes
  PROVE  SameWay(b.id) /\ (PlainStep => NoneNew(b.id))
<1>. DEFINE g == b.id
<1>1. g \in Ids /\ g < NewId /\ NewId \in Nat /\ g # None
  BY Older, AccountsAssumption DEF Ids
<1>. HIDE DEF g
<1>2. CASE UNCHANGED <<codes, keys>>
  BY <1>2 DEF NoneNew, SameWay
<1>3. ASSUME NEW c, CodeAdded(c) PROVE SameWay(g) /\ NoneNew(g)
  <2>1. \A i \in Ids : Live(codes', keys', g, i) => Live(codes, keys, g, i)
    BY <1>1, <1>3 DEF CodeAdded, Live
  <2>. QED  BY <1>3, <2>1 DEF NoneNew, SameWay, CodeAdded
<1>4. ASSUME NEW k, KeyAdded(k) PROVE SameWay(g) /\ NoneNew(g)
  BY <1>1, <1>4 DEF KeyAdded, NewRow, NoneNew, SameWay, Live, BackTo
<1>5. ASSUME NEW k \in keys, NEW j, SameKey(k, j), keys' = Swap(keys, k, j), codes' = codes
      PROVE  SameWay(g) /\ NoneNew(g)
  <2>1. j.id = k.id /\ j.grant = k.grant /\ j.kind = k.kind /\ (k.revoked => j.revoked)
    BY <1>5 DEF SameKey
  <2>2. \A i : BackTo(keys', g, i) => BackTo(keys, g, i)
    BY <1>5, <2>1 DEF Swap, BackTo
  <2>3. \A i : Live(codes', keys', g, i) => Live(codes, keys, g, i)
    BY <1>5, <2>1 DEF Swap, Live
  <2>. QED  BY <2>2, <2>3 DEF NoneNew, SameWay
<1>6. ASSUME NEW c \in codes, NEW a, NEW r, Exchanged(c, a, r) PROVE SameWay(g)
  BY <1>1, <1>6 DEF Exchanged, PairOf, TokenOf, SameWay, BackTo
<1>7. ASSUME NEW k \in keys, NEW a, NEW r, Refreshed(k, a, r) PROVE SameWay(g)
  <2>1. \A x \in keys' : \/ x.id \in {NewId, NewId + 1}
                        \/ \E y \in keys : y.id = x.id /\ y.grant = x.grant
    BY <1>7 DEF Refreshed, PairOf, TokenOf, Swap, SameKey
  <2>2. \A i \in Ids : i < NewId => i \notin {NewId, NewId + 1}
    BY <1>1 DEF Ids
  <2>. QED  BY <2>1, <2>2 DEF SameWay, BackTo
<1>8. ASSUME NEW k \in keys, NEW j, KeyRevoked(k, j) PROVE SameWay(g) /\ NoneNew(g)
  BY <1>5, <1>8 DEF KeyRevoked
<1>9. ASSUME NEW q, NEW k \in keys, NEW j, CountedRow(q, k, j) PROVE SameWay(g) /\ NoneNew(g)
  BY <1>5, <1>9 DEF CountedRow
<1>. QED  BY <1>2, <1>3, <1>4, <1>6, <1>7, <1>8, <1>9 DEF RowStep, PlainStep, g

\* The credentials that requests are at stay the same.
CredentialsStay ==
  \A q \in Requests : /\ AtCredential(call'[q]) <=> AtCredential(call[q])
                      /\ AtCredential(call[q]) => call'[q].id = call[q].id

LEMMA BalanceStays ==
  ASSUME TypeInv, RowsInv, NEW g, SameWay(g), NoneNew(g), CredentialsStay, doubled'[g] = doubled[g]
  PROVE  Balance(g)
<1>1. Resting(codes', keys', call', g) \subseteq Resting(codes, keys, call, g)
  BY DEF Resting, NoneNew, Taken, CredentialsStay
<1>2. Underway(keys', call', g) \subseteq Underway(keys, call, g)
  BY Older DEF Underway, SameWay, CredentialsStay
<1>. QED  BY <1>1, <1>2 DEF Balance, Balanced

\* A request that stops gives back no more than one credential, new or the one it was at.
GivesBack(q, g) ==
  /\ BackTo(keys, g, call[q].id) =>
       \E n : \A i \in Ids \ {n} : Live(codes', keys', g, i) => Live(codes, keys, g, i) /\ i # call[q].id
  /\ ~BackTo(keys, g, call[q].id) => NoneNew(g)

LEMMA BackToLive ==
  ASSUME NEW g, NEW i, Live(codes, keys, g, i)
  PROVE  BackTo(keys, g, i)
BY DEF Live, BackTo

LEMMA BalanceStops ==
  ASSUME TypeInv, RowsInv, NEW g, SameWay(g), NEW q \in Requests, AtCredential(call[q]), Stop(q),
         GivesBack(q, g), doubled'[g] = doubled[g]
  PROVE  Balance(g)
<1>. DEFINE i0 == call[q].id
<1>1. ~AtCredential(call'[q]) /\ \A p \in Requests \ {q} : call'[p] = call[p]
  BY DEF Stop, TypeInv, AtCredential, Idle
<1>2. \A i : Taken(call, i) => Taken(call', i) \/ i = i0
  BY <1>1 DEF Taken
<1>3. Underway(keys', call', g) \subseteq Underway(keys, call, g) \ {q}
  BY <1>1, Older DEF Underway, SameWay
<1>4. CASE BackTo(keys, g, i0)
  <2>1. q \in Underway(keys, call, g)
    BY <1>4 DEF Underway
  <2>2. PICK n : \A i \in Ids \ {n} : Live(codes', keys', g, i) => Live(codes, keys, g, i) /\ i # i0
    BY <1>4 DEF GivesBack
  <2>3. Resting(codes', keys', call', g) \subseteq Resting(codes, keys, call, g) \cup {n}
    BY <1>2, <2>2 DEF Resting
  <2>. QED  BY <1>3, <2>1, <2>3 DEF Balance, Balanced
<1>5. CASE ~BackTo(keys, g, i0)
  <2>1. ~Live(codes, keys, g, i0)
    BY <1>5, BackToLive
  <2>2. Resting(codes', keys', call', g) \subseteq Resting(codes, keys, call, g)
    BY <1>2, <1>5, <2>1 DEF Resting, GivesBack, NoneNew
  <2>. QED  BY <1>3, <2>2 DEF Balance, Balanced
<1>. QED  BY <1>4, <1>5

\* A request that begins takes the credential it is at, or doubles it.
LEMMA BalanceBegins ==
  ASSUME TypeInv, RowsInv, NEW g \in Ids, UNCHANGED <<codes, keys>>, NEW q \in Requests, At(q, "idle"),
         NEW step \in {"exchange", "refresh"}, NEW e, NEW w, NEW i \in Ids, NEW h \in Ids,
         Begin(q, step, e, w, i), Doubling(i, h), Live(codes, keys, h, i),
         BackTo(keys, g, i) => g = h
  PROVE  Balance(g)
<1>1. /\ AtCredential(call'[q]) /\ call'[q].id = i /\ ~AtCredential(call[q])
      /\ \A p \in Requests \ {q} : call'[p] = call[p]
  BY DEF Begin, TypeInv, AtCredential, Idle, At
<1>2. \A j : Taken(call, j) => Taken(call', j)
  BY <1>1 DEF Taken
<1>3. Taken(call', i)
  BY <1>1 DEF Taken
<1>4. Resting(codes', keys', call', g) \subseteq Resting(codes, keys, call, g) \ {i}
  BY <1>2, <1>3 DEF Resting
<1>5. Underway(keys', call', g) \subseteq Underway(keys, call, g) \cup {q}
  BY <1>1 DEF Underway
<1>6. CASE g # h
  <2>1. Underway(keys', call', g) \subseteq Underway(keys, call, g)
    BY <1>1, <1>6 DEF Underway
  <2>2. doubled'[g] = doubled[g]
    BY <1>6, DoublingFacts
  <2>. QED  BY <1>4, <2>1, <2>2 DEF Balance, Balanced
<1>7. CASE g = h /\ \E p \in Requests : call[p].id = i /\ call[p].step # "count"
  <2>1. doubled'[g] = doubled[g] + 1
    BY <1>7, DoublingFacts
  <2>. QED  BY <1>4, <1>5, <2>1 DEF Balance, Balanced
<1>8. CASE g = h /\ ~ \E p \in Requests : call[p].id = i /\ call[p].step # "count"
  <2>1. doubled'[g] = doubled[g]
    <3>1. doubled'[g] = doubled[g] + 0 /\ doubled[g] \in Nat
      BY <1>8, DoublingFacts DEF TypeInv
    <3>. QED  BY <3>1
  <2>2. ~Taken(call, i)
    BY <1>8 DEF Taken, AtCredential
  <2>3. i \in Resting(codes, keys, call, g)
    BY <1>8, <2>2 DEF Resting
  <2>. QED  BY <1>4, <1>5, <2>1, <2>3 DEF Balance, Balanced
<1>. QED  BY <1>6, <1>7, <1>8

\* A code goes back to itself, a refresh token to its grant.
LEMMA BackToCode ==
  ASSUME TypeInv, RowsInv, NEW b \in codes, NEW c \in codes, BackTo(keys, b.id, c.id)
  PROVE  b.id = c.id
BY DEF BackTo, RowsInv, Numbered

LEMMA BackToToken ==
  ASSUME TypeInv, RowsInv, NEW b \in codes, NEW k \in keys, BackTo(keys, b.id, k.id)
  PROVE  b.id = k.grant
BY DEF BackTo, RowsInv, Numbered

LEMMA BalanceReads ==
  ASSUME TypeInv, RowsInv, NEW b \in codes, NEW q \in Requests,
         \/ \E c \in codes : ExchangeRead(q, c)
         \/ \E k \in keys : RefreshRead(q, k)
  PROVE  Balance(b.id)
<1>0. b.id \in Ids
  BY Older
<1>1. ASSUME NEW c \in codes, ExchangeRead(q, c) PROVE Balance(b.id)
  <2>1. c.id \in Ids /\ Live(codes, keys, c.id, c.id)
    BY <1>1, Older DEF ExchangeRead, Live
  <2>2. BackTo(keys, b.id, c.id) => b.id = c.id
    BY BackToCode
  <2>3. /\ Begin(q, "exchange", c.user, c.ws, c.id) /\ Doubling(c.id, c.id) /\ At(q, "idle")
        /\ UNCHANGED <<codes, keys>>
    BY <1>1 DEF ExchangeRead, Begin
  <2>. QED  BY <1>0, <2>1, <2>2, <2>3, BalanceBegins
<1>2. ASSUME NEW k \in keys, RefreshRead(q, k) PROVE Balance(b.id)
  <2>1. k.id \in Ids /\ k.grant \in Ids /\ Live(codes, keys, k.grant, k.id)
    BY <1>2, Older, GrantFacts DEF RefreshRead, Live
  <2>2. BackTo(keys, b.id, k.id) => b.id = k.grant
    BY BackToToken
  <2>3. /\ Begin(q, "refresh", k.user, k.ws, k.id) /\ Doubling(k.id, k.grant) /\ At(q, "idle")
        /\ UNCHANGED <<codes, keys>>
    BY <1>2 DEF RefreshRead, Begin
  <2>. QED  BY <1>0, <2>1, <2>2, <2>3, BalanceBegins
<1>. QED  BY <1>1, <1>2

\* What an exchange spends is spent, and one token is new.
LEMMA BalanceExchanges ==
  ASSUME TypeInv, RowsInv, NEW b \in codes, NEW q \in Requests, ExchangeCommit(q), RowStep
  PROVE  Balance(b.id)
<1>. DEFINE g == b.id
<1>1. PICK c, a, r : c \in codes /\ c.id = call[q].id /\ Exchanged(c, a, r)
  BY ExchangeFacts
<1>2. AtCredential(call[q]) /\ Stop(q) /\ doubled' = doubled
  BY DEF ExchangeCommit, AtCredential, At
<1>3. \A i \in Ids : Live(codes', keys', g, i) =>
         \/ Live(codes, keys, g, i) /\ i # c.id
         \/ i = NewId + 1 /\ g = c.id
  <2>1. \A x \in codes' : ~x.used => x \in codes /\ x.id # c.id
    BY <1>1 DEF Exchanged, Swap, RowsInv, Numbered
  <2>2. \A x \in keys' : x.kind = "refresh" =>
           \/ x \in keys /\ x.id # c.id
           \/ x.id = NewId + 1 /\ x.grant = c.id
    <3>1. \A x \in keys : x.id # c.id
      BY <1>1 DEF RowsInv, Numbered
    <3>2. /\ keys' = keys \cup {r, a} /\ a.kind = "access"
          /\ r.id = NewId + 1 /\ r.grant = c.id
      BY <1>1 DEF Exchanged, PairOf, TokenOf
    <3>. QED  BY <3>1, <3>2
  <2>. QED  BY <2>1, <2>2 DEF Live
<1>4. GivesBack(q, g)
  <2>1. CASE BackTo(keys, g, c.id)
    BY <1>1, <1>3, <2>1 DEF GivesBack
  <2>2. CASE ~BackTo(keys, g, c.id)
    <3>1. g # c.id
      BY <2>2 DEF BackTo
    <3>. QED  BY <1>1, <1>3, <2>2, <3>1 DEF GivesBack, NoneNew
  <2>. QED  BY <2>1, <2>2
<1>. QED  BY <1>2, <1>4, GrantRows, BalanceStops

LEMMA BalanceRefreshes ==
  ASSUME TypeInv, RowsInv, NEW b \in codes, NEW q \in Requests, RefreshCommit(q), RowStep
  PROVE  Balance(b.id)
<1>. DEFINE g == b.id
<1>1. PICK k, a, r : k \in keys /\ k.id = call[q].id /\ k.kind = "refresh" /\ Refreshed(k, a, r)
  BY RefreshFacts
<1>2. AtCredential(call[q]) /\ Stop(q) /\ doubled' = doubled
  BY DEF RefreshCommit, AtCredential, At
<1>3. \A i \in Ids : Live(codes', keys', g, i) =>
         \/ Live(codes, keys, g, i) /\ i # k.id
         \/ i = NewId + 1 /\ g = k.grant
  <2>1. codes' = codes /\ \A x \in codes : x.id # k.id
    BY <1>1 DEF Refreshed, RowsInv, Numbered
  <2>2. \A x \in keys' : x.kind = "refresh" /\ ~x.revoked =>
           \/ x \in keys /\ x.id # k.id
           \/ x.id = NewId + 1 /\ x.grant = k.grant
    BY <1>1 DEF Refreshed, Swap, PairOf, TokenOf, RowsInv, Numbered
  <2>. QED  BY <2>1, <2>2 DEF Live
<1>4. GivesBack(q, g)
  <2>1. CASE BackTo(keys, g, k.id)
    BY <1>1, <1>3, <2>1 DEF GivesBack
  <2>2. CASE ~BackTo(keys, g, k.id)
    <3>1. g # k.grant
      BY <1>1, <2>2 DEF BackTo
    <3>. QED  BY <1>1, <1>3, <2>2, <3>1 DEF GivesBack, NoneNew
  <2>. QED  BY <2>1, <2>2
<1>. QED  BY <1>2, <1>4, GrantRows, BalanceStops

\* A request that is not at a credential before a step is at none after it, and one
\* that is stays at it: all steps but those that begin or end at one.
LEMMA OtherRequest ==
  ASSUME TypeInv, NEW q \in Requests, NEW r, call' = [call EXCEPT ![q] = r],
         AtCredential(r) <=> AtCredential(call[q]), AtCredential(r) => r.id = call[q].id
  PROVE  CredentialsStay
BY DEF TypeInv, CredentialsStay

LEMMA PlainBalance ==
  ASSUME TypeInv, RowsInv, PlainStep, NEW b \in codes, doubled' = doubled,
         CredentialsStay \/ \E q \in Requests : UNCHANGED <<codes, keys>> /\ Stop(q)
  PROVE  Balance(b.id)
<1>1. SameWay(b.id) /\ NoneNew(b.id)
  BY GrantRows DEF RowStep
<1>2. CASE CredentialsStay
  BY <1>1, <1>2, BalanceStays
<1>3. ASSUME NEW q \in Requests, UNCHANGED <<codes, keys>>, Stop(q), AtCredential(call[q])
      PROVE  Balance(b.id)
  BY <1>1, <1>3, BalanceStops DEF GivesBack
<1>4. ASSUME NEW q \in Requests, Stop(q), ~AtCredential(call[q])
      PROVE  CredentialsStay
  BY <1>4, OtherRequest DEF Stop, Idle, AtCredential
<1>. QED  BY <1>2, <1>3, <1>4

LEMMA BalanceNext ==
  ASSUME TypeInv, RowsInv, [Next]_vars, NEW b \in codes
  PROVE  Balance(b.id)
<1>1. RowStep /\ (PlainStep \/ \E q \in Requests : Commits(q))
  BY RowSteps
<1>2. ASSUME NEW q \in Requests, Commits(q) PROVE Balance(b.id)
  BY <1>1, <1>2, BalanceExchanges, BalanceRefreshes DEF Commits
<1>3. ASSUME NEW q \in Requests,
             \/ \E c \in codes : ExchangeRead(q, c)
             \/ \E k \in keys : RefreshRead(q, k)
      PROVE  Balance(b.id)
  BY <1>3, BalanceReads
<1>4. ASSUME PlainStep, doubled' = doubled,
             CredentialsStay \/ \E q \in Requests : UNCHANGED <<codes, keys>> /\ Stop(q)
      PROVE  Balance(b.id)
  BY <1>4, PlainBalance
<1>5. ASSUME NEW q \in Requests, NEW step, step \notin {"exchange", "issue", "refresh"}, NEW e, NEW w, NEW i,
             Begin(q, step, e, w, i)
      PROVE  CredentialsStay
  BY <1>5, OtherRequest DEF Begin, At, Idle, AtCredential
<1>6. ASSUME NEW q \in Requests,
             \/ \E e \in Emails, w \in Slugs : SignupRead(q, e, w) \/ BootstrapRead(q, e, w)
             \/ \E e \in Emails, w \in spaces : InviteRead(q, w, e)
      PROVE  CredentialsStay /\ doubled' = doubled
  BY <1>5, <1>6 DEF SignupRead, BootstrapRead, InviteRead, tokens
<1>7. ASSUME NEW q \in Requests, NEW k \in keys, CallRead(q, k)
      PROVE  CredentialsStay /\ doubled' = doubled
  BY <1>7, OtherRequest DEF CallRead, At, Idle, AtCredential, tokens
<1>8. ASSUME NEW q \in Requests, ExchangeMember(q)
      PROVE  CredentialsStay /\ doubled' = doubled
  <2>1. PICK m \in members : call' = [call EXCEPT ![q].step = "issue", ![q].role = m.role]
    BY <1>8 DEF ExchangeMember
  <2>2. call[q] \in Call
    BY DEF RowsInv, CallOK
  <2>3. /\ call'[q].step = "issue" /\ call'[q].id = call[q].id
        /\ \A p \in Requests \ {q} : call'[p] = call[p]
    BY <2>1, <2>2 DEF TypeInv, Call
  <2>. QED  BY <1>8, <2>3 DEF CredentialsStay, AtCredential, ExchangeMember, At, tokens
<1>9. ASSUME NEW q \in Requests, ExchangeRefused(q) \/ Abandon(q)
      PROVE  doubled' = doubled /\ UNCHANGED <<codes, keys>> /\ Stop(q)
  BY <1>9 DEF ExchangeRefused, AfterRefusal, Abandon, tokens
<1>10. ASSUME NEW q \in Requests, SignupCommit(q) \/ BootstrapCommit(q) \/ InviteCommit(q) \/ CallCount(q)
       PROVE  CredentialsStay /\ doubled' = doubled
  <2>1. Stop(q) /\ ~AtCredential(call[q]) /\ doubled' = doubled
    BY <1>10 DEF SignupCommit, BootstrapCommit, InviteCommit, CallCount, Settle, At, AtCredential, tokens
  <2>. QED  BY <2>1, OtherRequest DEF Stop, Idle, AtCredential
<1>11. ASSUME \/ Tick \/ UNCHANGED vars
              \/ \E m \in members : RemoveMember(m) \/ Authorize(m)
              \/ \E w \in spaces, l \in Limits : CreateKey(w, l)
              \/ \E k \in keys : RevokeKey(k)
       PROVE  CredentialsStay /\ doubled' = doubled
  BY <1>11 DEF Tick, vars, RemoveMember, Authorize, CreateKey, RevokeKey, CredentialsStay, tokens
<1>. QED
  BY <1>1, <1>2, <1>3, <1>4, <1>6, <1>7, <1>8, <1>9, <1>10, <1>11 DEF Next, Commits

\* A new code has nothing but itself to go on with.
LEMMA GrantNewCode ==
  ASSUME TypeInv, RowsInv, TypeInv', NEW c, CodeAdded(c)
  PROVE  Cardinality(Resting(codes', keys', call', c.id)) + Cardinality(Underway(keys', call', c.id))
           <= 1 + doubled'[c.id]
<1>. DEFINE g == c.id
<1>1. g = NewId /\ g \in Nat /\ g # None
  BY Older, AccountsAssumption DEF CodeAdded
<1>2. doubled'[g] \in Nat
  <2>1. g \in Ids
    BY DEF CodeAdded, TypeInv, Code
  <2>. QED  BY <2>1 DEF TypeInv
<1>. HIDE DEF g
<1>3. \A k \in keys' : k.grant # g
  BY <1>1, Older DEF CodeAdded
<1>4. Resting(codes', keys', call', g) \subseteq {g}
  BY <1>3 DEF Resting, Live
<1>5. \A q \in Requests : AtCredential(call'[q]) => call'[q].id # g
  BY <1>1, Older DEF CodeAdded
<1>6. Underway(keys', call', g) = {}
  BY <1>3, <1>5 DEF Underway, BackTo
<1>7. Cardinality(Resting(codes', keys', call', g)) \in Nat
        /\ Cardinality(Resting(codes', keys', call', g)) <= 1
  <2>1. IsFiniteSet({g}) /\ Cardinality({g}) = 1
    BY FS_Singleton
  <2>. QED  BY <1>4, <2>1, SmallerSet
<1>8. Cardinality(Underway(keys', call', g)) = 0
  BY <1>6, FS_EmptySet
<1>. QED  BY <1>2, <1>7, <1>8 DEF g

LEMMA GrantNext ==
  ASSUME TypeInv, RowsInv, TypeInv', GrantInv, [Next]_vars
  PROVE  GrantInv'
<1>. SUFFICES ASSUME NEW d \in codes'
              PROVE  Cardinality(Resting(codes', keys', call', d.id))
                       + Cardinality(Underway(keys', call', d.id)) <= 1 + doubled'[d.id]
  BY DEF GrantInv
<1>1. ASSUME NEW b \in codes, b.id = d.id
      PROVE  Cardinality(Resting(codes', keys', call', d.id))
               + Cardinality(Underway(keys', call', d.id)) <= 1 + doubled'[d.id]
  <2>. DEFINE g == b.id
  <2>1. doubled[g] \in Nat
    BY Older DEF TypeInv
  <2>2. Balance(g)
    BY BalanceNext
  <2>3. IsFiniteSet(Resting(codes, keys, call, g)) /\ IsFiniteSet(Underway(keys, call, g))
    BY GrantSetsFinite
  <2>4. Cardinality(Resting(codes, keys, call, g)) + Cardinality(Underway(keys, call, g)) <= 1 + doubled[g]
    BY DEF GrantInv
  <2>. QED  BY <1>1, <2>1, <2>2, <2>3, <2>4, BalancedBound DEF Balance
<1>2. ASSUME NEW c, CodeAdded(c), d = c
      PROVE  Cardinality(Resting(codes', keys', call', d.id))
               + Cardinality(Underway(keys', call', d.id)) <= 1 + doubled'[d.id]
  BY <1>2, GrantNewCode
<1>3. (\E b \in codes : b.id = d.id) \/ (\E c : CodeAdded(c) /\ d = c)
  <2>1. RowStep
    BY RowSteps
  <2>2. CASE \E c : CodeAdded(c)
    BY <2>2 DEF CodeAdded
  <2>3. ASSUME NEW c \in codes, NEW a, NEW r, Exchanged(c, a, r) PROVE \E b \in codes : b.id = d.id
    BY <2>3 DEF Exchanged, Swap, SameCode
  <2>4. ASSUME NEW k \in keys, NEW a, NEW r, Refreshed(k, a, r) PROVE codes' = codes
    BY <2>4 DEF Refreshed
  <2>5. CASE codes' = codes
    BY <2>5
  <2>. QED  BY <2>1, <2>2, <2>3, <2>4, <2>5 DEF RowStep, PlainStep, KeyAdded, KeyRevoked, CountedRow
<1>. QED  BY <1>1, <1>2, <1>3

\* The numbers of what is usable, each of it resting or with a request of its own.
LEMMA UsableBound ==
  ASSUME TypeInv, RowsInv, NEW c \in codes
  PROVE  /\ Cardinality(Usable(c.id)) \in Nat
         /\ Cardinality(Usable(c.id)) <=
              Cardinality(Resting(codes, keys, call, c.id)) + Cardinality(Underway(keys, call, c.id))
<1>. DEFINE g == c.id
            A == Resting(codes, keys, call, g)
            B == Underway(keys, call, g)
            T == {i \in Ids : Live(codes, keys, g, i) /\ Taken(call, i)}
            at(i) == CHOOSE q \in Requests : AtCredential(call[q]) /\ call[q].id = i
            f == [i \in T |-> at(i)]
            h == [x \in Usable(g) |-> x.id]
<1>1. IsFiniteSet(A) /\ IsFiniteSet(B)
  BY GrantSetsFinite
<1>2. IsFiniteSet(T) /\ Cardinality(T) <= Cardinality(B)
  <2>1. \A i \in T : at(i) \in Requests /\ AtCredential(call[at(i)]) /\ call[at(i)].id = i
    BY DEF Taken
  <2>2. \A i \in T : at(i) \in B
    BY <2>1, BackToLive DEF Underway
  <2>. HIDE DEF at
  <2>3. f \in Injection(T, B)
    BY <2>1, <2>2 DEF Injection, IsInjective
  <2>. QED  BY <1>1, <2>3, FS_Injection
<1>3. \A x \in Usable(g) : x.id \in A \cup T
  BY Older DEF Usable, Resting, Live
<1>4. \A x, y \in Usable(g) : x.id = y.id => x = y
  BY DEF Usable, RowsInv, Numbered
<1>5. h \in Injection(Usable(g), A \cup T)
  <2>. HIDE DEF A, T
  <2>. QED  BY <1>3, <1>4 DEF Injection, IsInjective
<1>. HIDE DEF A, B, T, h
<1>6. /\ IsFiniteSet(A \cup T)
      /\ Cardinality(A \cup T) = Cardinality(A) + Cardinality(T) - Cardinality(A \cap T)
  BY <1>1, <1>2, FS_Union
<1>7. Cardinality(A \cap T) \in Nat
  BY <1>1, FS_Intersection, FS_CardinalityType
<1>8. IsFiniteSet(Usable(g)) /\ Cardinality(Usable(g)) <= Cardinality(A \cup T)
  BY <1>5, <1>6, FS_Injection
<1>9. /\ Cardinality(A) \in Nat /\ Cardinality(B) \in Nat /\ Cardinality(T) \in Nat
      /\ Cardinality(Usable(g)) \in Nat
  BY <1>1, <1>2, <1>8, FS_CardinalityType
<1>10. Cardinality(Usable(g)) <= Cardinality(A) + Cardinality(B)
  BY <1>2, <1>6, <1>7, <1>8, <1>9
<1>. QED  BY <1>9, <1>10 DEF A, B

-----------------------------------------------------------------------------
(***************************************************************************)
(* The rate limit.  Of a key the log l has entries, each in the window it  *)
(* was counted in; windows are apart from each other and the key's own     *)
(* comes last; a window let through as many as were counted, up to the     *)
(* limit, and refused only when it had let through the limit.              *)
(***************************************************************************)
Entry == [key : Ids, began : 0..MaxNow, at : 0..MaxNow, start : 0..MaxNow, passed : BOOLEAN]

Mine(l, i) == {n \in DOMAIN l : l[n].key = i}
LetIn(l, i, s) == {n \in DOMAIN l : l[n].key = i /\ l[n].start = s /\ l[n].passed}

Apart(s, t) == s = t \/ s + Window <= t \/ t + Window <= s
UpTo(n, limit) == IF n <= limit THEN n ELSE limit

EntryOK(e, K, t) ==
  /\ e.start <= e.at /\ e.at <= t /\ e.began <= e.at /\ e.began < e.start + Window
  /\ \E k \in K : k.id = e.key

KeyWindow(k, l, t) ==
  /\ k.start = None => k.count = 0 /\ Mine(l, k.id) = {}
  /\ k.start # None => k.start <= t
  /\ \A n \in Mine(l, k.id) : l[n].start = k.start \/ l[n].start + Window <= k.start
  /\ \A n, m \in Mine(l, k.id) : Apart(l[n].start, l[m].start)
  /\ LimitOf(k) # 0 =>
       /\ k.start # None => Cardinality(LetIn(l, k.id, k.start)) = UpTo(k.count, LimitOf(k))
       /\ \A n \in Mine(l, k.id) :
            /\ Cardinality(LetIn(l, k.id, l[n].start)) <= LimitOf(k)
            /\ ~l[n].passed => Cardinality(LetIn(l, k.id, l[n].start)) = LimitOf(k)

WindowInv ==
  /\ log \in Seq(Entry)
  /\ \A n \in DOMAIN log : EntryOK(log[n], keys, now)
  /\ \A k \in keys : KeyWindow(k, log, now)

LEMMA AppendFacts ==
  ASSUME NEW l \in Seq(Entry), NEW e \in Entry
  PROVE  /\ Append(l, e) \in Seq(Entry)
         /\ Len(l) + 1 \notin DOMAIN l
         /\ DOMAIN Append(l, e) = DOMAIN l \cup {Len(l) + 1}
         /\ Append(l, e)[Len(l) + 1] = e
         /\ \A n \in DOMAIN l : Append(l, e)[n] = l[n]
<1>1. Append(l, e) \in Seq(Entry) /\ Len(l) \in Nat /\ DOMAIN l = 1..Len(l)
  OBVIOUS
<1>2. DOMAIN Append(l, e) = 1..Len(l) + 1
  OBVIOUS
<1>3. /\ Append(l, e)[Len(l) + 1] = e
      /\ \A n \in DOMAIN l : Append(l, e)[n] = l[n]
  OBVIOUS
<1>. QED  BY <1>1, <1>2, <1>3

LEMMA LetInFinite ==
  ASSUME NEW l \in Seq(Entry), NEW i, NEW s
  PROVE  IsFiniteSet(LetIn(l, i, s)) /\ Cardinality(LetIn(l, i, s)) \in Nat
<1>1. IsFiniteSet(DOMAIN l)
  <2>1. DOMAIN l = 1..Len(l) /\ Len(l) \in Int /\ 1 \in Int
    OBVIOUS
  <2>. QED  BY <2>1, FS_Interval
<1>2. LetIn(l, i, s) \subseteq DOMAIN l
  BY DEF LetIn
<1>. QED  BY <1>1, <1>2, SmallerSet

LEMMA LimitType ==
  ASSUME NEW k \in Key
  PROVE  LimitOf(k) \in Nat
BY AccountsAssumption DEF Key, LimitOf

LEMMA WindowStays ==
  ASSUME NEW k, NEW j, NEW l, NEW t \in Nat, NEW u \in Nat, t <= u,
         k \in Key, SameKey(k, j), j.start = k.start, j.count = k.count, KeyWindow(k, l, t)
  PROVE  KeyWindow(j, l, u)
<1>1. j.id = k.id /\ LimitOf(j) = LimitOf(k)
  BY DEF SameKey, LimitOf
<1>2. k.start # None => k.start <= u
  BY DEF KeyWindow, Key
<1>. QED  BY <1>1, <1>2 DEF KeyWindow

LEMMA WindowOther ==
  ASSUME NEW k, NEW l \in Seq(Entry), NEW e \in Entry, e.key # k.id, NEW t, KeyWindow(k, l, t)
  PROVE  KeyWindow(k, Append(l, e), t)
<1>. DEFINE m == Append(l, e)
<1>1. Mine(m, k.id) = Mine(l, k.id)
  BY AppendFacts DEF Mine
<1>2. \A s : LetIn(m, k.id, s) = LetIn(l, k.id, s)
  BY AppendFacts DEF LetIn
<1>3. \A n \in Mine(l, k.id) : m[n] = l[n]
  BY AppendFacts DEF Mine
<1>. HIDE DEF m
<1>4. KeyWindow(k, m, t)
  BY <1>1, <1>2, <1>3 DEF KeyWindow
<1>. QED  BY <1>4 DEF m

LEMMA WindowNone ==
  ASSUME NEW k, NEW l, NEW t, k.start = None, k.count = 0, Mine(l, k.id) = {}
  PROVE  KeyWindow(k, l, t)
BY DEF KeyWindow

\* In the window of the key one more is counted, let through below the limit.
LEMMA WindowGoesOn ==
  ASSUME NEW k, NEW j, NEW l \in Seq(Entry), NEW e \in Entry, NEW t,
         k \in Key, SameKey(k, j), KeyWindow(k, l, t), LimitOf(k) # 0, k.start # None,
         j.start = k.start, j.count = k.count + 1,
         e.key = k.id, e.start = k.start, e.passed = (j.count <= LimitOf(k))
  PROVE  KeyWindow(j, Append(l, e), t)
<1>. DEFINE m == Append(l, e)
            i == k.id
            s == k.start
            N == Len(l) + 1
            limit == LimitOf(k)
<1>1. j.id = i /\ LimitOf(j) = limit /\ limit \in Nat /\ k.count \in Nat /\ s \in Nat
  BY LimitType DEF SameKey, LimitOf, Key
<1>2. /\ N \notin DOMAIN l /\ DOMAIN m = DOMAIN l \cup {N} /\ m[N] = e
      /\ \A n \in DOMAIN l : m[n] = l[n]
  BY AppendFacts
<1>. HIDE DEF m, N, limit
<1>3. Mine(m, i) = Mine(l, i) \cup {N} /\ \A n \in Mine(l, i) : m[n] = l[n] /\ n # N
  BY <1>2 DEF Mine
<1>4. \A r : r # s => LetIn(m, i, r) = LetIn(l, i, r)
  BY <1>2 DEF LetIn
<1>5. LetIn(m, i, s) = IF e.passed THEN LetIn(l, i, s) \cup {N} ELSE LetIn(l, i, s)
  BY <1>2 DEF LetIn
<1>6. /\ IsFiniteSet(LetIn(l, i, s)) /\ Cardinality(LetIn(l, i, s)) \in Nat
      /\ Cardinality(LetIn(l, i, s)) = UpTo(k.count, limit)
  BY LetInFinite DEF KeyWindow, limit
<1>7. Cardinality(LetIn(m, i, s)) = UpTo(k.count + 1, limit)
  <2>1. CASE k.count + 1 <= limit
    <3>1. e.passed
      BY <2>1 DEF limit
    <3>2. N \notin LetIn(l, i, s)
      BY <1>2 DEF LetIn
    <3>3. Cardinality(LetIn(m, i, s)) = Cardinality(LetIn(l, i, s)) + 1
      <4>1. Cardinality(LetIn(l, i, s) \cup {N}) = Cardinality(LetIn(l, i, s)) + 1
        BY <1>6, <3>2, FS_AddElement
      <4>. QED  BY <1>5, <3>1, <4>1
    <3>. QED  BY <1>1, <1>6, <2>1, <3>3 DEF UpTo
  <2>2. CASE ~(k.count + 1 <= limit)
    <3>1. ~e.passed
      BY <2>2 DEF limit
    <3>. QED  BY <1>1, <1>5, <1>6, <2>2, <3>1 DEF UpTo
  <2>. QED  BY <2>1, <2>2
<1>8. UpTo(k.count + 1, limit) <= limit /\ (~e.passed => UpTo(k.count + 1, limit) = limit)
  <2>1. e.passed = (k.count + 1 <= limit)
    BY DEF limit
  <2>2. CASE k.count + 1 <= limit
    BY <1>1, <2>1, <2>2 DEF UpTo
  <2>3. CASE ~(k.count + 1 <= limit)
    BY <1>1, <2>3 DEF UpTo
  <2>. QED  BY <2>2, <2>3
<1>9. UpTo(k.count, limit) = limit => UpTo(k.count + 1, limit) = limit
  BY <1>1 DEF UpTo
<1>10. s <= t
  BY DEF KeyWindow
<1>11. \A n \in Mine(m, i) : m[n].start = s \/ m[n].start + Window <= s
  BY <1>2, <1>3 DEF KeyWindow
<1>12. \A n, p \in Mine(m, i) : Apart(m[n].start, m[p].start)
  <2>1. \A n, p \in Mine(l, i) : Apart(m[n].start, m[p].start)
    BY <1>3 DEF KeyWindow
  <2>2. m[N].start = s
    BY <1>2
  <2>. QED  BY <1>3, <1>11, <2>1, <2>2 DEF Apart
<1>13. ASSUME NEW n \in Mine(m, i)
       PROVE  /\ Cardinality(LetIn(m, i, m[n].start)) <= limit
              /\ ~m[n].passed => Cardinality(LetIn(m, i, m[n].start)) = limit
  <2>1. CASE n = N
    <3>1. m[n].start = s /\ m[n].passed = e.passed
      BY <1>2, <2>1
    <3>. QED  BY <1>7, <1>8, <3>1
  <2>2. CASE n \in Mine(l, i) /\ m[n].start = s
    BY <1>3, <1>6, <1>7, <1>8, <1>9, <2>2 DEF KeyWindow, limit
  <2>3. CASE n \in Mine(l, i) /\ m[n].start # s
    BY <1>3, <1>4, <2>3 DEF KeyWindow, limit
  <2>. QED  BY <1>3, <2>1, <2>2, <2>3
<1>14. KeyWindow(j, m, t)
  <2>1. s # None /\ j.start = s /\ j.count = k.count + 1
    OBVIOUS
  <2>. HIDE DEF s, i
  <2>. QED  BY <1>1, <1>7, <1>10, <1>11, <1>12, <1>13, <2>1 DEF KeyWindow
<1>. QED  BY <1>14 DEF m

\* A new window begins with the request that is counted, and lets it through.
LEMMA WindowBegins ==
  ASSUME NEW k, NEW j, NEW l \in Seq(Entry), NEW e \in Entry, NEW t,
         k \in Key, SameKey(k, j), KeyWindow(k, l, t), LimitOf(k) # 0,
         NEW b \in Nat, b <= t, Over(k, b), j.start = b, j.count = 1,
         e.key = k.id, e.start = b, e.passed = (j.count <= LimitOf(k))
  PROVE  KeyWindow(j, Append(l, e), t)
<1>. DEFINE m == Append(l, e)
            i == k.id
            N == Len(l) + 1
            limit == LimitOf(k)
<1>1. j.id = i /\ LimitOf(j) = limit /\ limit \in Nat /\ limit # 0 /\ e.passed /\ b # None
  <2>1. j.id = i /\ LimitOf(j) = limit
    BY DEF SameKey, LimitOf
  <2>2. limit \in Nat /\ limit # 0
    BY LimitType
  <2>3. 1 <= limit
    BY <2>2
  <2>4. b # None
    BY AccountsAssumption
  <2>. QED  BY <2>1, <2>2, <2>3, <2>4
<1>2. /\ N \notin DOMAIN l /\ DOMAIN m = DOMAIN l \cup {N} /\ m[N] = e
      /\ \A n \in DOMAIN l : m[n] = l[n]
  BY AppendFacts
<1>. HIDE DEF m, N, limit
<1>3. Mine(m, i) = Mine(l, i) \cup {N} /\ \A n \in Mine(l, i) : m[n] = l[n] /\ n # N
  BY <1>2 DEF Mine
<1>4. \A n \in Mine(l, i) : l[n].start \in Nat /\ l[n].start + Window <= b
  <2>1. TAKE n \in Mine(l, i)
  <2>2. l[n].start \in Nat
    <3>1. l[n] \in Entry
      BY DEF Mine
    <3>. QED  BY <3>1, AccountsAssumption DEF Entry
  <2>3. k.start # None /\ k.start \in Nat /\ k.start + Window <= b
    BY DEF KeyWindow, Over, Key
  <2>4. l[n].start = k.start \/ l[n].start + Window <= k.start
    BY DEF KeyWindow
  <2>. QED  BY <2>2, <2>3, <2>4, AccountsAssumption
<1>5. \A n \in Mine(l, i) : l[n].start # b
  BY <1>4, AccountsAssumption
<1>6. LetIn(m, i, b) = {N}
  BY <1>1, <1>2, <1>3, <1>5 DEF LetIn, Mine
<1>7. \A r : r # b => LetIn(m, i, r) = LetIn(l, i, r)
  BY <1>2 DEF LetIn
<1>8. Cardinality(LetIn(m, i, b)) = 1
  BY <1>6, FS_Singleton
<1>9. UpTo(1, limit) = 1 /\ 1 <= limit
  BY <1>1 DEF UpTo
<1>10. \A n \in Mine(m, i) : m[n].start = b \/ m[n].start + Window <= b
  BY <1>2, <1>3, <1>4
<1>11. \A n, p \in Mine(m, i) : Apart(m[n].start, m[p].start)
  <2>1. \A n, p \in Mine(l, i) : Apart(m[n].start, m[p].start)
    BY <1>3 DEF KeyWindow
  <2>2. m[N].start = b
    BY <1>2
  <2>. QED  BY <1>3, <1>10, <2>1, <2>2 DEF Apart
<1>12. ASSUME NEW n \in Mine(m, i)
       PROVE  /\ Cardinality(LetIn(m, i, m[n].start)) <= limit
              /\ ~m[n].passed => Cardinality(LetIn(m, i, m[n].start)) = limit
  <2>1. CASE n = N
    BY <1>1, <1>2, <1>8, <1>9, <2>1
  <2>2. CASE n \in Mine(l, i)
    BY <1>3, <1>5, <1>7, <2>2 DEF KeyWindow, limit
  <2>. QED  BY <1>3, <2>1, <2>2
<1>13. KeyWindow(j, m, t)
  <2>. HIDE DEF i
  <2>. QED  BY <1>1, <1>8, <1>9, <1>10, <1>11, <1>12 DEF KeyWindow
<1>. QED  BY <1>13 DEF m

-----------------------------------------------------------------------------
(***************************************************************************)
(* The windows of the keys over a step.                                    *)
(***************************************************************************)
LEMMA NowGoesOn ==
  ASSUME TypeInv, TypeInv', [Next]_vars
  PROVE  now \in Nat /\ now' \in Nat /\ now <= now'
<1>1. now \in Nat /\ now' \in Nat
  BY AccountsAssumption DEF TypeInv
<1>2. now' = now \/ now' = now + 1
  <2>1. ASSUME NEW q \in Requests,
               \/ \E e \in Emails, w \in Slugs : SignupRead(q, e, w) \/ BootstrapRead(q, e, w)
               \/ \E e \in Emails, w \in spaces : InviteRead(q, w, e)
               \/ \E c \in codes : ExchangeRead(q, c)
               \/ \E k \in keys : RefreshRead(q, k) \/ CallRead(q, k)
        PROVE  now' = now
    BY <2>1 DEF SignupRead, BootstrapRead, InviteRead, ExchangeRead, RefreshRead, CallRead
  <2>2. ASSUME NEW q \in Requests,
               \/ SignupCommit(q) \/ BootstrapCommit(q) \/ InviteCommit(q) \/ ExchangeMember(q)
               \/ ExchangeRefused(q) \/ Abandon(q)
        PROVE  now' = now
    BY <2>2 DEF SignupCommit, BootstrapCommit, Settle, InviteCommit, ExchangeMember,
                ExchangeRefused, Abandon
  <2>3. ASSUME NEW q \in Requests, ExchangeCommit(q) \/ RefreshCommit(q) \/ CallCount(q)
        PROVE  now' = now
    BY <2>3 DEF ExchangeCommit, RefreshCommit, CallCount
  <2>4. ASSUME \/ \E m \in members : RemoveMember(m) \/ Authorize(m)
               \/ \E w \in spaces, n \in Limits : CreateKey(w, n)
               \/ \E k \in keys : RevokeKey(k)
        PROVE  now' = now
    BY <2>4 DEF RemoveMember, Authorize, CreateKey, RevokeKey
  <2>5. ASSUME Tick \/ UNCHANGED vars
        PROVE  now' = now \/ now' = now + 1
    BY <2>5 DEF Tick, vars
  <2>. QED  BY <2>1, <2>2, <2>3, <2>4, <2>5 DEF Next
<1>. QED  BY <1>1, <1>2

LEMMA EntryStays ==
  ASSUME NEW e \in Entry, NEW C, NEW D, NEW K, NEW J, Kept(C, D, K, J),
         NEW t \in Nat, NEW u \in Nat, t <= u, EntryOK(e, K, t)
  PROVE  EntryOK(e, J, u)
<1>1. e.at \in Nat /\ e.at <= u
  BY AccountsAssumption DEF Entry, EntryOK
<1>2. \E k \in J : k.id = e.key
  BY DEF EntryOK, Kept, SameKey
<1>. QED  BY <1>1, <1>2 DEF EntryOK

\* A step that counts nothing leaves every window, and a key it makes has none.
WindowsStay ==
  \A j \in keys' :
    \/ \E k \in keys : SameKey(k, j) /\ j.start = k.start /\ j.count = k.count
    \/ j.start = None /\ j.count = 0 /\ j.id \in Nat /\ NewId <= j.id

LEMMA WindowKeeps ==
  ASSUME TypeInv, RowsInv, WindowInv, TypeInv', [Next]_vars, log' = log, WindowsStay
  PROVE  WindowInv'
<1>1. now \in Nat /\ now' \in Nat /\ now <= now'
  BY NowGoesOn
<1>2. log' \in Seq(Entry) /\ \A n \in DOMAIN log : log[n] \in Entry
  BY DEF WindowInv
<1>3. \A n \in DOMAIN log' : EntryOK(log'[n], keys', now')
  BY <1>1, <1>2, KeptNext, EntryStays DEF WindowInv
<1>4. ASSUME NEW j \in keys' PROVE KeyWindow(j, log', now')
  <2>1. CASE \E k \in keys : SameKey(k, j) /\ j.start = k.start /\ j.count = k.count
    <3>1. PICK k \in keys : SameKey(k, j) /\ j.start = k.start /\ j.count = k.count
      BY <2>1
    <3>2. k \in Key /\ KeyWindow(k, log, now)
      BY DEF TypeInv, WindowInv
    <3>3. KeyWindow(j, log, now')
      BY <1>1, <3>1, <3>2, WindowStays
    <3>. QED  BY <3>3
  <2>2. CASE j.start = None /\ j.count = 0 /\ j.id \in Nat /\ NewId <= j.id
    <3>1. \A n \in DOMAIN log : log[n].key < NewId
      BY Older DEF WindowInv, EntryOK
    <3>2. NewId \in Nat /\ \A n \in DOMAIN log : log[n].key \in Nat
      BY <1>2, NextId, AccountsAssumption DEF Entry, Ids
    <3>3. Mine(log, j.id) = {}
      BY <2>2, <3>1, <3>2 DEF Mine
    <3>. QED  BY <2>2, <3>3, WindowNone
  <2>. QED  BY <2>1, <2>2 DEF WindowsStay
<1>. QED  BY <1>2, <1>3, <1>4 DEF WindowInv

\* The request is counted with the row of its key, by the time of its look-up.
LEMMA WindowCounts ==
  ASSUME TypeInv, RowsInv, WindowInv, TypeInv', [Next]_vars,
         NEW q \in Requests, NEW k \in keys, NEW j, At(q, "count"), CountedRow(q, k, j)
  PROVE  WindowInv'
<1>. DEFINE e == [key |-> k.id, began |-> call[q].at, at |-> now,
                  start |-> j.start, passed |-> j.count <= LimitOf(k)]
            b == call[q].at
<1>1. now \in Nat /\ now' \in Nat /\ now <= now' /\ now <= MaxNow
  BY NowGoesOn, AccountsAssumption DEF TypeInv
<1>2. b \in Nat /\ b <= now
  BY DEF RowsInv, CallOK, Call
<1>3. /\ k \in Key /\ j \in Key /\ SameKey(k, j) /\ LimitOf(k) # 0 /\ KeyWindow(k, log, now)
      /\ keys' = Swap(keys, k, j) /\ log' = Append(log, e)
  BY DEF CountedRow, TypeInv, WindowInv
<1>4. /\ Over(k, b) => j.start = b /\ j.count = 1
      /\ ~Over(k, b) => j.start = k.start /\ j.count = k.count + 1 /\ k.start # None
  BY <1>2, <1>3, CountedFacts DEF CountedRow, Over
<1>5. j.start \in Nat /\ j.start <= now /\ b < j.start + Window
  <2>1. CASE Over(k, b)
    BY <1>2, <1>4, <2>1, AccountsAssumption
  <2>2. CASE ~Over(k, b)
    <3>1. k.start \in Nat /\ k.start <= now
      BY <1>3, <1>4, <2>2 DEF Key, KeyWindow
    <3>2. b < k.start + Window
      BY <1>2, <2>2, <3>1, AccountsAssumption DEF Over
    <3>. QED  BY <1>4, <2>2, <3>1, <3>2
  <2>. QED  BY <2>1, <2>2
<1>6. e \in Entry
  BY <1>1, <1>2, <1>3, <1>5, AccountsAssumption DEF Entry, Key
<1>7. /\ e.key = k.id /\ e.began = b /\ e.at = now /\ e.start = j.start
      /\ e.passed = (j.count <= LimitOf(k))
  OBVIOUS
<1>. HIDE DEF e
<1>8. EntryOK(e, keys', now')
  BY <1>1, <1>2, <1>3, <1>5, <1>7 DEF EntryOK, Swap, SameKey
<1>9. log \in Seq(Entry) /\ \A n \in DOMAIN log : log[n] \in Entry
  BY DEF WindowInv
<1>10. log' \in Seq(Entry) /\ \A n \in DOMAIN log' : EntryOK(log'[n], keys', now')
  <2>1. \A n \in DOMAIN log : EntryOK(log[n], keys', now')
    BY <1>1, <1>9, KeptNext, EntryStays DEF WindowInv
  <2>. QED  BY <1>3, <1>6, <1>8, <1>9, <2>1, AppendFacts
<1>11. KeyWindow(j, Append(log, e), now)
  <2>1. CASE Over(k, b)
    BY <1>2, <1>3, <1>4, <1>6, <1>7, <1>9, <2>1, WindowBegins
  <2>2. CASE ~Over(k, b)
    BY <1>3, <1>4, <1>6, <1>7, <1>9, <2>2, WindowGoesOn
  <2>. QED  BY <2>1, <2>2
<1>12. \A x \in keys : x # k => KeyWindow(x, Append(log, e), now)
  <2>1. TAKE x \in keys
  <2>2. HAVE x # k
  <2>3. e.key # x.id
    BY <1>7, <2>2 DEF RowsInv, Numbered
  <2>. QED  BY <1>6, <1>9, <2>3, WindowOther DEF WindowInv
<1>13. ASSUME NEW x \in keys' PROVE KeyWindow(x, log', now')
  <2>1. x \in Key /\ KeyWindow(x, Append(log, e), now)
    BY <1>3, <1>11, <1>12 DEF Swap, TypeInv
  <2>2. SameKey(x, x)
    BY DEF SameKey
  <2>. QED  BY <1>1, <1>3, <2>1, <2>2, WindowStays
<1>. QED  BY <1>10, <1>13 DEF WindowInv

LEMMA WindowNext ==
  ASSUME TypeInv, RowsInv, WindowInv, TypeInv', [Next]_vars
  PROVE  WindowInv'
<1>. DEFINE Stays(k, j) == SameKey(k, j) /\ j.start = k.start /\ j.count = k.count
<1>1. \A k \in keys : Stays(k, k)
  BY DEF SameKey
<1>2. NewId \in Nat
  BY NextId
<1>3. ASSUME keys' = keys PROVE WindowsStay
  BY <1>1, <1>3 DEF WindowsStay
<1>4. ASSUME NEW k, KeyAdded(k) PROVE WindowsStay
  BY <1>1, <1>2, <1>4 DEF WindowsStay, KeyAdded, NewRow
<1>5. ASSUME NEW k \in keys, NEW j, KeyRevoked(k, j) PROVE WindowsStay
  BY <1>1, <1>5 DEF WindowsStay, KeyRevoked, Swap
<1>6. ASSUME NEW a, NEW r, NEW from, NEW grant, PairOf(a, r, NewId, from, grant), NEW x \in {a, r}
      PROVE  x.start = None /\ x.count = 0 /\ x.id \in Nat /\ NewId <= x.id
  BY <1>2, <1>6 DEF PairOf, TokenOf
<1>7. ASSUME NEW c, NEW a, NEW r, Exchanged(c, a, r) PROVE WindowsStay
  BY <1>1, <1>6, <1>7 DEF WindowsStay, Exchanged
<1>8. ASSUME NEW k \in keys, NEW a, NEW r, Refreshed(k, a, r) PROVE WindowsStay
  BY <1>1, <1>6, <1>8 DEF WindowsStay, Refreshed, Swap
<1>9. ASSUME NEW q \in Requests, NEW k \in keys, NEW j, At(q, "count"), CountedRow(q, k, j)
      PROVE  WindowInv'
  BY <1>9, WindowCounts
<1>10. ASSUME log' = log, WindowsStay PROVE WindowInv'
  BY <1>10, WindowKeeps
<1>. QED
  BY <1>3, <1>4, <1>5, <1>7, <1>8, <1>9, <1>10, RowSteps DEF RowStep, PlainStep, CodeAdded

-----------------------------------------------------------------------------
(***************************************************************************)
(* What the windows say of the rate limit.                                 *)
(***************************************************************************)
\* A minute cannot meet three windows that are apart.
LEMMA TwoWindows ==
  ASSUME NEW S, NEW t \in Nat,
         \A s \in S : s \in Nat /\ s < t + Window /\ t < s + Window,
         \A r, s \in S : Apart(r, s)
  PROVE  S = {} \/ \E a, b \in S : \A s \in S : s = a \/ s = b
<1>1. CASE \A a, s \in S : s = a
  BY <1>1
<1>2. ASSUME NEW a \in S, NEW b \in S, a # b
      PROVE  \A s \in S : s = a \/ s = b
  <2>1. TAKE s \in S
  <2>2. a \in Nat /\ b \in Nat /\ s \in Nat /\ Window \in Nat
    BY AccountsAssumption
  <2>3. Apart(a, b) /\ Apart(a, s) /\ Apart(b, s)
    OBVIOUS
  <2>4. /\ a < t + Window /\ t < a + Window
        /\ b < t + Window /\ t < b + Window
        /\ s < t + Window /\ t < s + Window
    OBVIOUS
  <2>. QED  BY <1>2, <2>2, <2>3, <2>4 DEF Apart
<1>. QED  BY <1>1, <1>2

PromptIn(l, i, t) ==
  {n \in DOMAIN l : l[n].key = i /\ l[n].passed /\ l[n].began = l[n].at
                      /\ l[n].at \in t..(t + Window - 1)}

LEMMA PromptBound ==
  ASSUME NEW l \in Seq(Entry), NEW K, NEW u, NEW t \in Nat, NEW k \in Key,
         \A n \in DOMAIN l : EntryOK(l[n], K, u), KeyWindow(k, l, u), LimitOf(k) # 0
  PROVE  Cardinality(PromptIn(l, k.id, t)) <= 2 * LimitOf(k)
<1>. DEFINE P == PromptIn(l, k.id, t)
            S == {l[n].start : n \in P}
            limit == LimitOf(k)
            Let(s) == LetIn(l, k.id, s)
<1>1. limit \in Nat
  BY LimitType
<1>2. \A n \in P : l[n] \in Entry /\ n \in Mine(l, k.id) /\ n \in Let(l[n].start)
  BY DEF PromptIn, Mine, LetIn
<1>3. \A s \in S : s \in Nat /\ s < t + Window /\ t < s + Window
  <2>1. TAKE s \in S
  <2>2. PICK n \in P : s = l[n].start
    OBVIOUS
  <2>3. l[n].start \in Nat /\ l[n].at \in Nat /\ l[n].began = l[n].at /\ Window \in Nat
    BY <1>2, AccountsAssumption DEF Entry, PromptIn
  <2>4. l[n].start <= l[n].at /\ l[n].began < l[n].start + Window
    BY DEF PromptIn, EntryOK
  <2>5. t <= l[n].at /\ l[n].at < t + Window
    <3>1. l[n].at \in t..(t + Window - 1)
      BY DEF PromptIn
    <3>. QED  BY <2>3, <3>1
  <2>. QED  BY <2>2, <2>3, <2>4, <2>5
<1>4. \A r, s \in S : Apart(r, s)
  BY <1>2 DEF KeyWindow
<1>5. \A s \in S : /\ IsFiniteSet(Let(s)) /\ Cardinality(Let(s)) \in Nat
                   /\ Cardinality(Let(s)) <= limit
  BY <1>2, LetInFinite DEF KeyWindow
<1>6. CASE S = {}
  <2>1. P = {}
    BY <1>6
  <2>. QED  BY <1>1, <2>1, FS_EmptySet
<1>7. ASSUME NEW a \in S, NEW b \in S, \A s \in S : s = a \/ s = b
      PROVE  Cardinality(P) <= 2 * limit
  <2>1. P \subseteq Let(a) \cup Let(b)
    BY <1>2, <1>7
  <2>. HIDE DEF S, Let, limit, P
  <2>2. /\ IsFiniteSet(Let(a) \cup Let(b)) /\ IsFiniteSet(Let(a) \cap Let(b))
        /\ Cardinality(Let(a) \cup Let(b))
             = Cardinality(Let(a)) + Cardinality(Let(b)) - Cardinality(Let(a) \cap Let(b))
    BY <1>5, FS_Union, FS_Intersection
  <2>3. Cardinality(Let(a) \cap Let(b)) \in Nat
    BY <2>2, FS_CardinalityType
  <2>4. Cardinality(Let(a) \cup Let(b)) <= 2 * limit
    BY <1>1, <1>5, <2>2, <2>3
  <2>5. Cardinality(P) \in Nat /\ Cardinality(P) <= Cardinality(Let(a) \cup Let(b))
    BY <2>1, <2>2, SmallerSet
  <2>6. Cardinality(Let(a) \cup Let(b)) \in Nat
    BY <2>2, FS_CardinalityType
  <2>. QED  BY <1>1, <2>4, <2>5, <2>6
<1>8. S = {} \/ \E a, b \in S : \A s \in S : s = a \/ s = b
  BY <1>3, <1>4, TwoWindows
<1>. QED  BY <1>6, <1>7, <1>8

LEMMA WindowsLimitRates ==
  ASSUME TypeInv, WindowInv
  PROVE  RateLimited
<1>. SUFFICES ASSUME NEW k \in keys, LimitOf(k) # 0
     PROVE  LET Own == {i \in DOMAIN log : log[i].key = k.id}
                Let(s) == Cardinality({i \in Own : log[i].start = s /\ log[i].passed})
                Prompt(t) == {i \in Own : log[i].passed /\ log[i].began = log[i].at
                                            /\ log[i].at \in t..(t + Window - 1)}
            IN  /\ \A i \in Own : Let(log[i].start) <= LimitOf(k)
                /\ \A i \in Own : ~log[i].passed =>
                     Let(log[i].start) = LimitOf(k) /\ log[i].began < log[i].start + Window
                /\ \A t \in 0..now : Cardinality(Prompt(t)) <= 2 * LimitOf(k)
  BY DEF RateLimited
<1>. DEFINE Own == {i \in DOMAIN log : log[i].key = k.id}
            LetSet(s) == {i \in Own : log[i].start = s /\ log[i].passed}
            Prompt(t) == {i \in Own : log[i].passed /\ log[i].began = log[i].at
                                        /\ log[i].at \in t..(t + Window - 1)}
<1>1. k \in Key /\ KeyWindow(k, log, now) /\ log \in Seq(Entry)
      /\ \A n \in DOMAIN log : EntryOK(log[n], keys, now)
  BY DEF TypeInv, WindowInv
<1>2. Own = Mine(log, k.id)
  BY DEF Mine
<1>3. \A s : LetSet(s) = LetIn(log, k.id, s)
  BY DEF LetIn
<1>4. \A t : Prompt(t) = PromptIn(log, k.id, t)
  BY DEF PromptIn
<1>5. \A i \in Own : Cardinality(LetSet(log[i].start)) <= LimitOf(k)
  BY <1>1, <1>2, <1>3 DEF KeyWindow
<1>6. \A i \in Own : ~log[i].passed =>
        Cardinality(LetSet(log[i].start)) = LimitOf(k) /\ log[i].began < log[i].start + Window
  <2>1. \A i \in Own : EntryOK(log[i], keys, now)
    BY <1>1
  <2>. HIDE DEF Own, LetSet
  <2>2. \A i \in Own : ~log[i].passed => Cardinality(LetSet(log[i].start)) = LimitOf(k)
    BY <1>1, <1>2, <1>3 DEF KeyWindow
  <2>. QED  BY <2>1, <2>2 DEF EntryOK
<1>7. \A t \in 0..now : Cardinality(Prompt(t)) <= 2 * LimitOf(k)
  <2>1. now \in Nat
    BY AccountsAssumption DEF TypeInv
  <2>2. \A t \in 0..now : t \in Nat
    BY <2>1
  <2>. HIDE DEF Prompt
  <2>. QED  BY <1>1, <1>4, <2>2, PromptBound
<1>. QED  BY <1>5, <1>6, <1>7

-----------------------------------------------------------------------------
(***************************************************************************)
(* The theorems.  No part of the invariant is inductive alone: the rows    *)
(* number the keys and codes that the requests, the tokens and the log     *)
(* refer to, and each property's part counts such rows.                    *)
(***************************************************************************)
IInv ==
  /\ TypeInv
  /\ RowsInv
  /\ BootstrapInv
  /\ SpentInv
  /\ GrantInv
  /\ WindowInv

LEMMA InvariantInit ==
  ASSUME Init
  PROVE  IInv
<1>1. codes = {} /\ keys = {} /\ log = <<>> /\ \A q \in Requests : call[q] = Idle
  BY DEF Init
<1>2. BootstrapInv
  BY <1>1 DEF BootstrapInv, Idle
<1>3. SpentInv /\ GrantInv
  BY <1>1 DEF SpentInv, GrantInv
<1>4. WindowInv
  <2>1. log \in Seq(Entry) /\ DOMAIN log = {}
    BY <1>1
  <2>. QED  BY <1>1, <2>1 DEF WindowInv
<1>. QED  BY <1>2, <1>3, <1>4, RowsInit DEF IInv

\* The inductive invariant: every step of every request, and the clock's, keeps it.
THEOREM Invariance == Spec => []IInv
<1>1. IInv /\ [Next]_vars => IInv'
  <2>. SUFFICES ASSUME IInv, [Next]_vars PROVE IInv'
    OBVIOUS
  <2>1. TypeInv' /\ RowsInv'
    BY RowsNext DEF IInv
  <2>. QED  BY <2>1, BootstrapNext, SpentNext, GrantNext, WindowNext DEF IInv
<1>. QED  BY <1>1, InvariantInit, PTL DEF Spec

\* Users, workspaces, members, codes and keys have their types, the numbers of codes
\* and keys stay within Ids, and the log holds counted requests.
THEOREM AccountTypes == Spec => []TypeOK
<1>1. IInv => TypeOK
  <2>. SUFFICES ASSUME IInv PROVE TypeOK
    OBVIOUS
  <2>1. Range(users) \subseteq Emails
    BY DEF IInv, TypeInv, Range
  <2>2. \A i \in DOMAIN log : log[i] \in Entry
    BY DEF IInv, WindowInv
  <2>. QED  BY <2>1, <2>2 DEF IInv, TypeInv, TypeOK, Entry
<1>. QED  BY <1>1, Invariance, PTL

\* A window lets a limit of requests through and refuses only what comes when it has,
\* and no minute holds more than twice the limit, whichever requests overlap and
\* however long they waited to be counted.
THEOREM RatesAreLimited == Spec => []RateLimited
<1>1. IInv => RateLimited
  BY WindowsLimitRates DEF IInv
<1>. QED  BY <1>1, Invariance, PTL

\* A grant has one code or refresh token to go on with, and one more for each exchange
\* that overlapped another of the same credential.
THEOREM GrantsStayOne == Spec => []OneLivePerGrant
<1>1. IInv => OneLivePerGrant
  <2>. SUFFICES ASSUME IInv, NEW c \in codes
       PROVE  Cardinality(Usable(c.id)) <= 1 + doubled[c.id]
    BY DEF OneLivePerGrant
  <2>. DEFINE n == Cardinality(Resting(codes, keys, call, c.id))
                     + Cardinality(Underway(keys, call, c.id))
  <2>1. TypeInv /\ RowsInv /\ n <= 1 + doubled[c.id]
    BY DEF IInv, GrantInv
  <2>2. Cardinality(Usable(c.id)) \in Nat /\ Cardinality(Usable(c.id)) <= n
    BY <2>1, UsableBound
  <2>3. n \in Nat
    BY <2>1, GrantSetsFinite, FS_CardinalityType
  <2>4. doubled[c.id] \in Nat
    BY <2>1 DEF TypeInv, Code
  <2>. QED  BY <2>1, <2>2, <2>3, <2>4
<1>. QED  BY <1>1, Invariance, PTL

\* A code is spent, and a refresh token revoked unasked, only with the pair of tokens
\* that was issued for it.
THEOREM SpentGotTokens == Spec => []SpentForTokens
<1>1. IInv => SpentForTokens
  BY DEF IInv, SpentInv, Issued, SpentForTokens
<1>. QED  BY <1>1, Invariance, PTL

\* The user of a bootstrap that nothing overlapped is the first user there is.
THEOREM BootstrapMadeFirst == Spec => []BootstrapIsFirst
<1>1. IInv => BootstrapIsFirst
  BY DEF IInv, BootstrapInv, BootstrapIsFirst
<1>. QED  BY <1>1, Invariance, PTL
=============================================================================
