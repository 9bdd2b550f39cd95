------------------------------ MODULE Accounts ------------------------------
(***************************************************************************)
(* Users, workspaces, memberships, API keys and OAuth grants of the legacy *)
(* service (routers/auth.py, welcome.py, workspaces.py, oauth.py) and the  *)
(* per-key rate limit every request passes (deps.py).                      *)
(*                                                                         *)
(* A request reads in one step and commits in a later one; requests        *)
(* interleave, and one may end without its commit.  Tokens are rows of     *)
(* api_keys: an exchange spends a code, a refresh the refresh token before *)
(* it, and each adds an access and a refresh token.                        *)
(***************************************************************************)
EXTENDS FiniteSets, Naturals, Sequences, SequencesExt

CONSTANTS
  Emails,       \* a user is its email, which is unique
  Slugs,        \* a workspace is its slug, which is unique
  Requests,     \* requests that may overlap
  Limits,       \* rate_limit_per_minute of the keys made by hand; 0: unset or zero
  GlobalLimit,  \* API_KEY_RATE_LIMIT_PER_MINUTE; 0: none
  Window,       \* the 60 seconds of a rate window and of a code, in ticks
  MaxNow,       \* bound on the clock
  MaxCalls,     \* bound on the requests of a run
  None

ASSUME AccountsAssumption ==
  /\ Limits \subseteq Nat /\ GlobalLimit \in Nat
  /\ Window \in Nat \ {0} /\ MaxNow \in Nat /\ MaxCalls \in Nat
  /\ None \notin Emails \cup Slugs \cup Nat

VARIABLES
  now,
  users,    \* in the order they were made
  spaces,
  members,
  codes,    \* oauth_codes
  keys,     \* api_keys
  call,     \* the requests under way
  log,      \* each request a limited key made: when it began and when it was
            \* counted, the window it fell in, and whether it passed        (history)
  count,    \* requests so far
  raced,    \* a bootstrap overlapped another one or a sign-up               (history)
  doubled,  \* for each grant, the exchanges that overlapped another of the
            \* same credential                                               (history)
  asked     \* the tokens somebody asked to revoke                           (history)

vars == <<now, users, spaces, members, codes, keys, call, log, count, raced, doubled, asked>>
accounts == <<users, spaces, members>>
tokens == <<codes, keys, doubled, asked>>

Roles == {"owner", "admin", "member"}
Ids == 1..2 * MaxCalls
Kinds == {"manual", "bootstrap", "access", "refresh"}

Member == [ws : Slugs, user : Emails, role : Roles]
Code == [id : Ids, ws : Slugs, user : Emails, until : Nat, used : BOOLEAN]

\* from: the credential a token was issued for; grant: the code it goes back to.
Key == [id : Ids, ws : Slugs, user : Emails \cup {None}, role : Roles, kind : Kinds,
        revoked : BOOLEAN, limit : Limits \cup {0}, start : Nat \cup {None}, count : Nat,
        from : Ids \cup {None}, grant : Ids \cup {None}]

Idle == [step |-> "idle", user |-> None, ws |-> None, role |-> "member", id |-> None, at |-> 0]

Init ==
  /\ now = 0
  /\ users = <<>> /\ spaces = {} /\ members = {}
  /\ codes = {} /\ keys = {}
  /\ call = [q \in Requests |-> Idle]
  /\ log = <<>>
  /\ count = 0
  /\ raced = FALSE
  /\ doubled = [g \in Ids |-> 0]
  /\ asked = {}

At(q, step) == call[q].step = step
Stop(q) == call' = [call EXCEPT ![q] = Idle]
Begin(q, step, user, ws, id) ==
  /\ count < MaxCalls /\ At(q, "idle")
  /\ count' = count + 1
  /\ call' = [call EXCEPT ![q] = [Idle EXCEPT !.step = step, !.user = user, !.ws = ws, !.id = id]]

NewId == 1 + Cardinality(codes) + Cardinality(keys)
KeyOf(i) == CHOOSE k \in keys : k.id = i

NewKey(i, ws, user, role, kind) ==
  [id |-> i, ws |-> ws, user |-> user, role |-> role, kind |-> kind, revoked |-> FALSE,
   limit |-> 0, start |-> None, count |-> 0, from |-> None, grant |-> None]

Tick ==
  /\ now < MaxNow /\ now' = now + 1
  /\ UNCHANGED <<accounts, tokens, call, log, count, raced>>

\* The request ends before its commit: a client that goes away, a stopped process.
Abandon(q) ==
  /\ ~At(q, "idle") /\ Stop(q)
  /\ UNCHANGED <<now, accounts, tokens, log, count, raced>>
-----------------------------------------------------------------------------
(* Sign-up and bootstrap.                                                  *)

Starting(q) == \E p \in Requests \ {q} : call[p].step \in {"signup", "bootstrap"}

SignupRead(q, e, w) ==
  /\ e \notin Range(users) /\ w \notin spaces
  /\ Begin(q, "signup", e, w, None)
  /\ raced' = (raced \/ Starting(q))
  /\ UNCHANGED <<now, accounts, tokens, log>>

\* Mutant of BootstrapOpen: only the slug is looked at.
BootstrapOpenAlways(w) == w \notin spaces

BootstrapOpen(w) == users = <<>> /\ w \notin spaces

BootstrapRead(q, e, w) ==
  /\ BootstrapOpen(w)
  /\ Begin(q, "bootstrap", e, w, None)
  /\ raced' = (raced \/ Starting(q))
  /\ UNCHANGED <<now, accounts, tokens, log>>

\* The user, the workspace, the owner and the new keys in one commit, or, when the
\* email or the slug was taken meanwhile, nothing.
Settle(q, new) ==
  LET e == call[q].user
      w == call[q].ws
      free == e \notin Range(users) /\ w \notin spaces
  IN
  /\ IF free
       THEN /\ users' = Append(users, e)
            /\ spaces' = spaces \cup {w}
            /\ members' = members \cup {[ws |-> w, user |-> e, role |-> "owner"]}
            /\ keys' = keys \cup new
       ELSE UNCHANGED <<accounts, keys>>
  /\ Stop(q)
  /\ UNCHANGED <<now, codes, log, count, raced, doubled, asked>>

SignupCommit(q) == At(q, "signup") /\ Settle(q, {})

BootstrapCommit(q) ==
  /\ At(q, "bootstrap")
  /\ Settle(q, {NewKey(NewId, call[q].ws, call[q].user, "admin", "bootstrap")})
-----------------------------------------------------------------------------
(* Members and keys of a workspace; the caller is a member or a key.       *)

Callers(w) == {m.role : m \in {x \in members : x.ws = w}}
                \cup {k.role : k \in {x \in keys : x.ws = w /\ ~x.revoked}}
MayManage(w) == Callers(w) \cap {"owner", "admin"} # {}

InviteRead(q, w, e) ==
  /\ MayManage(w) /\ e \in Range(users)
  /\ \A m \in members : m.ws = w => m.user # e
  /\ Begin(q, "invite", e, w, None)
  /\ UNCHANGED <<now, accounts, tokens, log, raced>>

InviteCommit(q) ==
  /\ At(q, "invite") /\ Stop(q)
  /\ members' = IF \E m \in members : m.ws = call[q].ws /\ m.user = call[q].user
                  THEN members
                  ELSE members \cup {[ws |-> call[q].ws, user |-> call[q].user, role |-> "member"]}
  /\ UNCHANGED <<now, users, spaces, tokens, log, count, raced>>

RemoveMember(m) ==
  /\ count < MaxCalls /\ count' = count + 1
  /\ MayManage(m.ws)
  /\ m.role = "owner" => "owner" \in Callers(m.ws)
  /\ members' = members \ {m}
  /\ UNCHANGED <<now, users, spaces, tokens, call, log, raced>>

CreateKey(w, limit) ==
  /\ count < MaxCalls /\ count' = count + 1
  /\ MayManage(w)
  /\ keys' = keys \cup {[NewKey(NewId, w, None, "member", "manual") EXCEPT !.limit = limit]}
  /\ UNCHANGED <<now, accounts, codes, doubled, asked, call, log, raced>>

Revoked(k) == (keys \ {k}) \cup {[k EXCEPT !.revoked = TRUE]}

\* DELETE /workspace/api-keys/{id}, and POST /oauth/revoke with the token itself.
RevokeKey(k) ==
  /\ count < MaxCalls /\ count' = count + 1
  /\ ~k.revoked
  /\ k.kind \in {"access", "refresh"} \/ MayManage(k.ws)
  /\ keys' = Revoked(k)
  /\ asked' = asked \cup {k.id}
  /\ UNCHANGED <<now, accounts, codes, doubled, call, log, raced>>
-----------------------------------------------------------------------------
(* OAuth.                                                                  *)

\* The user signs in and picks one of its workspaces.
Authorize(m) ==
  /\ count < MaxCalls /\ count' = count + 1
  /\ codes' = codes \cup {[id |-> NewId, ws |-> m.ws, user |-> m.user, until |-> now + Window,
                           used |-> FALSE]}
  /\ UNCHANGED <<now, accounts, keys, doubled, asked, call, log, raced>>

\* One more exchange of a credential another one is at.
Doubling(i, grant) ==
  LET twice == \E p \in Requests : call[p].id = i /\ call[p].step # "count" IN
  doubled' = [doubled EXCEPT ![grant] = @ + IF twice THEN 1 ELSE 0]

\* The client, the redirect URI and the verifier are those of the code.
ExchangeRead(q, c) ==
  /\ ~c.used /\ now <= c.until
  /\ Begin(q, "exchange", c.user, c.ws, c.id)
  /\ Doubling(c.id, c.id)
  /\ UNCHANGED <<now, accounts, codes, keys, asked, log, raced>>

ExchangeMember(q) ==
  /\ At(q, "exchange")
  /\ \E m \in members :
       /\ m.ws = call[q].ws /\ m.user = call[q].user
       /\ call' = [call EXCEPT ![q].step = "issue", ![q].role = m.role]
  /\ UNCHANGED <<now, accounts, tokens, log, count, raced>>

Spent(i) == {[c EXCEPT !.used = (@ \/ c.id = i)] : c \in codes}

\* Mutant of AfterRefusal: the code was marked in a commit of its own.
AfterRefusalSpent(i) == Spent(i)

\* The mark is in the transaction that is rolled back.
AfterRefusal(i) == codes

ExchangeRefused(q) ==
  /\ At(q, "exchange")
  /\ \A m \in members : m.ws = call[q].ws => m.user # call[q].user
  /\ codes' = AfterRefusal(call[q].id)
  /\ Stop(q)
  /\ UNCHANGED <<now, accounts, keys, doubled, asked, log, count, raced>>

\* _issue_tokens: an access and a refresh token.
Pair(ws, user, role, from, grant) ==
  {[NewKey(NewId + 1, ws, user, role, "refresh") EXCEPT !.from = from, !.grant = grant],
   [NewKey(NewId, ws, user, role, "access") EXCEPT !.from = from, !.grant = grant]}

ExchangeCommit(q) ==
  /\ At(q, "issue")
  /\ codes' = Spent(call[q].id)
  /\ keys' = keys \cup Pair(call[q].ws, call[q].user, call[q].role, call[q].id, call[q].id)
  /\ Stop(q)
  /\ UNCHANGED <<now, accounts, doubled, asked, log, count, raced>>

RefreshRead(q, k) ==
  /\ k.kind = "refresh" /\ ~k.revoked
  /\ Begin(q, "refresh", k.user, k.ws, k.id)
  /\ Doubling(k.id, k.grant)
  /\ UNCHANGED <<now, accounts, codes, keys, asked, log, raced>>

\* Mutant of Rotated: the old refresh token stays.
RotatedKept(k) == keys

Rotated(k) == Revoked(k)

RefreshCommit(q) ==
  LET k == KeyOf(call[q].id) IN
  /\ At(q, "refresh")
  /\ keys' = Rotated(k) \cup Pair(k.ws, k.user, k.role, k.id, k.grant)
  /\ Stop(q)
  /\ UNCHANGED <<now, accounts, codes, doubled, asked, log, count, raced>>
-----------------------------------------------------------------------------
(* A request made with a key.                                              *)

LimitOf(k) == IF k.limit # 0 THEN k.limit ELSE GlobalLimit

\* The key is looked up, then counted; one without a limit is not counted.
CallRead(q, k) ==
  /\ ~k.revoked /\ LimitOf(k) # 0
  /\ count < MaxCalls /\ count' = count + 1
  /\ At(q, "idle")
  /\ call' = [call EXCEPT ![q] = [Idle EXCEPT !.step = "count", !.id = k.id, !.at = now]]
  /\ UNCHANGED <<now, accounts, tokens, log, raced>>

\* Mutant of Counted: the window starts over with every request.
CountedSliding(k, began) ==
  IF k.start = None \/ began >= k.start + Window
    THEN [k EXCEPT !.start = began, !.count = 1]
    ELSE [k EXCEPT !.start = began, !.count = @ + 1]

\* The UPDATE, which sees the row as committed and keeps it until its own commit;
\* its now() is the time the transaction began, with the look-up of the key.
Counted(k, began) ==
  IF k.start = None \/ began >= k.start + Window
    THEN [k EXCEPT !.start = began, !.count = 1]
    ELSE [k EXCEPT !.count = @ + 1]

CallCount(q) ==
  LET k == KeyOf(call[q].id)
      counted == Counted(k, call[q].at)
  IN
  /\ At(q, "count")
  /\ keys' = (keys \ {k}) \cup {counted}
  /\ log' = Append(log, [key |-> k.id, began |-> call[q].at, at |-> now,
                         start |-> counted.start, passed |-> counted.count <= LimitOf(k)])
  /\ Stop(q)
  /\ UNCHANGED <<now, accounts, codes, doubled, asked, count, raced>>
-----------------------------------------------------------------------------
Next ==
  \/ Tick
  \/ \E q \in Requests :
       \/ \E e \in Emails, w \in Slugs : SignupRead(q, e, w) \/ BootstrapRead(q, e, w)
       \/ SignupCommit(q) \/ BootstrapCommit(q)
       \/ \E e \in Emails, w \in spaces : InviteRead(q, w, e)
       \/ InviteCommit(q)
       \/ \E c \in codes : ExchangeRead(q, c)
       \/ ExchangeMember(q) \/ ExchangeRefused(q) \/ ExchangeCommit(q)
       \/ \E k \in keys : RefreshRead(q, k) \/ CallRead(q, k)
       \/ RefreshCommit(q) \/ CallCount(q)
       \/ Abandon(q)
  \/ \E m \in members : RemoveMember(m) \/ Authorize(m)
  \/ \E w \in spaces, l \in Limits : CreateKey(w, l)
  \/ \E k \in keys : RevokeKey(k)

Spec == Init /\ [][Next]_vars
-----------------------------------------------------------------------------
(* Properties.                                                             *)

TypeOK ==
  /\ now \in 0..MaxNow
  /\ Range(users) \subseteq Emails /\ spaces \subseteq Slugs
  /\ members \subseteq Member /\ codes \subseteq Code /\ keys \subseteq Key
  /\ \A i \in DOMAIN log : log[i] \in [key : Ids, began : 0..MaxNow, at : 0..MaxNow,
                                     start : 0..MaxNow, passed : BOOLEAN]
  /\ count \in 0..MaxCalls

\* "Two concurrent requests can't both sneak under the cap": a window lets a limit
\* of requests through and refuses only what comes when it has; and no minute holds
\* more than two windows let through, but for requests that waited to be counted.
RateLimited ==
  \A k \in keys :
    LET Mine == {i \in DOMAIN log : log[i].key = k.id}
        Let(s) == Cardinality({i \in Mine : log[i].start = s /\ log[i].passed})
        Prompt(t) == {i \in Mine : log[i].passed /\ log[i].began = log[i].at
                                     /\ log[i].at \in t..(t + Window - 1)}
    IN LimitOf(k) # 0 =>
         /\ \A i \in Mine : Let(log[i].start) <= LimitOf(k)
         /\ \A i \in Mine : ~log[i].passed =>
              Let(log[i].start) = LimitOf(k) /\ log[i].began < log[i].start + Window
         /\ \A t \in 0..now : Cardinality(Prompt(t)) <= 2 * LimitOf(k)

\* A grant never has more to go on with, a code to exchange or a refresh token to
\* use, than one and what overlapping uses of one credential added.
Usable(g) == {c \in codes : c.id = g /\ ~c.used}
               \cup {k \in keys : k.grant = g /\ k.kind = "refresh" /\ ~k.revoked}
OneLivePerGrant == \A c \in codes : Cardinality(Usable(c.id)) <= 1 + doubled[c.id]

\* What a client gave up, it got tokens for: a code is spent, and a refresh token
\* that nobody asked to revoke is revoked, only with the pair issued for it.
SpentForTokens ==
  LET issued(i) == {k.kind : k \in {x \in keys : x.from = i}} = {"access", "refresh"} IN
  /\ \A c \in codes : c.used => issued(c.id)
  /\ \A k \in keys : k.kind = "refresh" /\ k.revoked /\ k.id \notin asked => issued(k.id)

\* "Closes after first use": a bootstrap nothing overlapped made the first user.
BootstrapIsFirst ==
  ~raced => \A k \in keys : k.kind = "bootstrap" => k.user = Head(users)
=============================================================================
