------------------------- MODULE RegistrationProofs -------------------------
(***************************************************************************)
(* Proofs about Registration and the portfolio cache, for any number of    *)
(* clients, passwords, threads and commits.                                *)
(***************************************************************************)
EXTENDS Registration, TLAPS

USE CacheAssumption, RegistrationAssumption

-----------------------------------------------------------------------------
(* The cache *)

\* What a reader does, by its program counter.
LEMMA ReaderKinds ==
    ASSUME CacheTypeOK, NEW r \in Readers
    PROVE  /\ reader[r].pc = "load" => reader[r].client \in Clients
           /\ reader[r].pc = "write" => reader[r].client \in Clients /\ reader[r].data \in Commits
BY DEF CacheTypeOK, Resting

\* A portfolio is never taken away.
PortfoliosStay == \A a \in Clients : portfolio[a] # NoRow => portfolio'[a] # NoRow

\* A commit keeps the types, and the thread it leaves behind is the reason of
\* what it made stale.
LEMMA CommitStep ==
    ASSUME CacheTypeOK, StaleForAReason,
           NEW w \in Writers, NEW a \in Clients, NEW row \in Commits,
           CommitPortfolio(w, a, row)
    PROVE  CacheTypeOK' /\ StaleForAReason' /\ PortfoliosStay
<1>1. row # NoRow
  BY DEF Commits, NoRow
<1>2. CacheTypeOK'
  BY DEF CommitPortfolio, CacheTypeOK
<1>3. PortfoliosStay
  BY <1>1 DEF CommitPortfolio, CacheTypeOK, PortfoliosStay
<1>4. ASSUME NEW b \in Clients, Stale(b)'
      PROVE  (excused[b] \/ \E v \in Writers : writer[v] = b)'
  <2>1. CASE b = a
    BY <2>1 DEF CommitPortfolio, CacheTypeOK
  <2>2. CASE b # a
    <3>1. Stale(b)
      BY <1>4, <2>2 DEF CommitPortfolio, CacheTypeOK, Stale, Missing
    <3>2. CASE excused[b]
      BY <3>2 DEF CommitPortfolio
    <3>3. ASSUME NEW v \in Writers, writer[v] = b
          PROVE  writer'[v] = b
      <4>1. v # w
        BY <3>3 DEF CommitPortfolio, Nobody
      <4> QED
        BY <3>3, <4>1 DEF CommitPortfolio, CacheTypeOK
    <3> QED
      BY <3>1, <3>2, <3>3 DEF StaleForAReason
  <2> QED
    BY <2>1, <2>2
<1> QED
  BY <1>2, <1>3, <1>4 DEF StaleForAReason

\* So does everything else the cache does.
LEMMA CacheWorkStep ==
    ASSUME CacheTypeOK, StaleForAReason, CacheWork
    PROVE  CacheTypeOK' /\ StaleForAReason' /\ PortfoliosStay
<1>1. ASSUME NEW r \in Readers, LoadPortfolio(r)
      PROVE  CacheTypeOK' /\ StaleForAReason' /\ PortfoliosStay
  <2>1. reader[r].client \in Clients
    BY <1>1, ReaderKinds DEF LoadPortfolio
  <2>2. CacheTypeOK'
    BY <1>1, <2>1 DEF LoadPortfolio, CacheTypeOK
  <2> QED
    BY <1>1, <2>2 DEF LoadPortfolio, StaleForAReason, Stale, PortfoliosStay
<1>2. ASSUME NEW r \in Readers, WriteCache(r)
      PROVE  CacheTypeOK' /\ StaleForAReason' /\ PortfoliosStay
  <2>1. reader[r].client \in Clients /\ reader[r].data \in Commits
    BY <1>2, ReaderKinds DEF WriteCache
  <2>2. CacheTypeOK'
    BY <1>2, <2>1 DEF WriteCache, CacheTypeOK
  <2>3. StaleForAReason'
    BY <1>2, <2>1 DEF WriteCache, CacheTypeOK, StaleForAReason, Stale, Missing
  <2> QED
    BY <1>2, <2>2, <2>3 DEF WriteCache, PortfoliosStay
<1>3. ASSUME NEW w \in Writers, Invalidate(w)
      PROVE  CacheTypeOK' /\ StaleForAReason' /\ PortfoliosStay
  <2>1. writer[w] \in Clients
    BY <1>3 DEF Invalidate, CacheTypeOK
  <2>2. CacheTypeOK'
    BY <1>3, <2>1 DEF Invalidate, Removed, CacheTypeOK
  <2>3. StaleForAReason'
    BY <1>3, <2>1 DEF Invalidate, Removed, CacheTypeOK, StaleForAReason, Stale, Missing
  <2> QED
    BY <1>3, <2>2, <2>3 DEF Invalidate, PortfoliosStay
<1>4. ASSUME NEW w \in Writers, InvalidateFails(w)
      PROVE  CacheTypeOK' /\ StaleForAReason' /\ PortfoliosStay
  <2>1. writer[w] \in Clients
    BY <1>4 DEF InvalidateFails, CacheTypeOK
  <2>2. CacheTypeOK'
    BY <1>4, <2>1 DEF InvalidateFails, CacheTypeOK
  <2>3. StaleForAReason'
    BY <1>4, <2>1 DEF InvalidateFails, CacheTypeOK, StaleForAReason, Stale
  <2> QED
    BY <1>4, <2>2, <2>3 DEF InvalidateFails, PortfoliosStay
<1>5. ASSUME NEW a \in Clients, Expire(a)
      PROVE  CacheTypeOK' /\ StaleForAReason' /\ PortfoliosStay
  <2>1. CacheTypeOK'
    BY <1>5 DEF Expire, CacheTypeOK
  <2>2. StaleForAReason'
    BY <1>5 DEF Expire, CacheTypeOK, StaleForAReason, Stale
  <2> QED
    BY <1>5, <2>1, <2>2 DEF Expire, PortfoliosStay
<1> QED
  BY <1>1, <1>2, <1>3, <1>4, <1>5 DEF CacheWork

\* And what clients ask of it.
LEMMA CacheRequestStep ==
    ASSUME CacheTypeOK, StaleForAReason, NEW a \in Clients, CacheRequest(a)
    PROVE  CacheTypeOK' /\ StaleForAReason' /\ PortfoliosStay
<1>1. ASSUME NEW r \in Readers, MissCache(r, a)
      PROVE  CacheTypeOK' /\ StaleForAReason' /\ PortfoliosStay
  BY <1>1 DEF MissCache, CacheTypeOK, StaleForAReason, Stale, PortfoliosStay
<1>2. ASSUME NEW w \in Writers, MoveFunds(w, a)
      PROVE  CacheTypeOK' /\ StaleForAReason' /\ PortfoliosStay
  <2>1. portfolio[a] + 1 \in Commits
    BY <1>2 DEF MoveFunds, CacheTypeOK, Commits, NoRow
  <2> QED
    BY <1>2, <2>1, CommitStep DEF MoveFunds
<1> QED
  BY <1>1, <1>2 DEF CacheRequest

-----------------------------------------------------------------------------
(* Registration *)

\* A registration that has inserted its client.
Made(q) == req[q].pc \in {"password", "portfolio", "mail"}

\* It goes on alone with the client it made, for nobody has his token, and has
\* done what its program counter says.
RegistrationGoesOn ==
    \A q \in Requests : Made(q) =>
       LET a == req[q].client
       IN  /\ client[a] # NoClient /\ a \notin mailed
           /\ client[a].wanted = req[q].wanted
           /\ client[a].password = IF At(q, "password") THEN NoPassword ELSE req[q].wanted
           /\ At(q, "mail") => portfolio[a] # NoRow
           /\ \A p \in Requests : Made(p) /\ req[p].client = a => p = q

\* A client with a token has all a registration makes, and only who has a token
\* is activated.
TokenInv ==
    /\ \A a \in mailed : /\ client[a] # NoClient /\ portfolio[a] # NoRow
                         /\ client[a].password = client[a].wanted
    /\ \A a \in Clients : client[a].status = "active" => a \in mailed
    /\ \A q \in Requests : At(q, "activate") => req[q].client \in mailed

\* The invariant that is inductive.
RegInv ==
    /\ RegTypeOK
    /\ StaleForAReason
    /\ RegistrationGoesOn
    /\ TokenInv
    /\ PasswordOfItsRegistration

\* What a request thread holds, by its program counter.
LEMMA RequestKinds ==
    ASSUME RegTypeOK, NEW q \in Requests
    PROVE  /\ req[q] = Waiting <=> req[q].pc = "idle"
           /\ req[q].pc \in {"insert", "password", "portfolio", "mail"} => req[q] \in Registering
           /\ req[q].pc = "activate" => req[q] \in Verifying
           /\ req[q].pc \in {"idle", "insert", "password", "portfolio", "mail", "activate"}
BY DEF RegTypeOK, Waiting, Registering, Verifying

\* A row, or none.
LEMMA ClientKinds ==
    ASSUME RegTypeOK, NEW a \in Clients
    PROVE  /\ client[a] # NoClient <=> client[a] \in Client
           /\ client[a] = NoClient => client[a].status # "active"
BY DEF RegTypeOK, NoClient, Client

LEMMA RegInitInv == RegInit => RegInv
<1> SUFFICES ASSUME RegInit PROVE RegInv
  OBVIOUS
<1>1. CacheTypeOK
  BY DEF RegInit, CacheInit, CacheTypeOK
<1>2. RegTypeOK
  BY <1>1 DEF RegInit, RegTypeOK
<1>3. StaleForAReason
  BY DEF RegInit, CacheInit, StaleForAReason, Stale
<1>4. RegistrationGoesOn
  BY DEF RegInit, RegistrationGoesOn, Made, Waiting
<1>5. TokenInv
  BY DEF RegInit, TokenInv, At, Waiting, NoClient
<1>6. PasswordOfItsRegistration
  BY DEF RegInit, PasswordOfItsRegistration
<1> QED
  BY <1>2, <1>3, <1>4, <1>5, <1>6 DEF RegInv

\* A step of the cache alone.
LEMMA CacheKeepsInv ==
    ASSUME RegInv, CacheTypeOK', StaleForAReason', PortfoliosStay,
           UNCHANGED <<client, mailed, req>>
    PROVE  RegInv'
<1> USE DEF RegInv
<1>1. RegTypeOK'
  BY DEF RegTypeOK
<1>2. ASSUME NEW q \in Requests, Made(q)
      PROVE  req[q].client \in Clients
  BY <1>2, RequestKinds DEF Made, Registering
<1>3. RegistrationGoesOn'
  BY <1>2 DEF RegistrationGoesOn, Made, At, PortfoliosStay, NoRow
<1>4. TokenInv'
  BY DEF TokenInv, At, PortfoliosStay, RegTypeOK, NoRow
<1>5. PasswordOfItsRegistration'
  BY DEF PasswordOfItsRegistration
<1> QED
  BY <1>1, <1>3, <1>4, <1>5

LEMMA RegisterStep ==
    ASSUME RegInv, NEW q \in Requests, NEW a \in Clients,
           NEW password \in Passwords \cup {NoPassword}, Register(q, a, password)
    PROVE  RegInv'
<1> USE DEF RegInv
<1>1. RegTypeOK'
  BY DEF Register, Becomes, RegTypeOK, cacheVars, CacheTypeOK, Registering
<1>2. StaleForAReason' /\ PasswordOfItsRegistration'
  BY DEF Register, cacheVars, StaleForAReason, Stale, PasswordOfItsRegistration
<1>3. ~ Made(q)' /\ ~ At(q, "activate")'
  BY DEF Register, Becomes, RegTypeOK, Made, At
<1>4. \A p \in Requests \ {q} : req'[p] = req[p]
  BY DEF Register, Becomes, RegTypeOK
<1>5. RegistrationGoesOn'
  BY <1>3, <1>4 DEF Register, cacheVars, RegistrationGoesOn, Made, At
<1>6. TokenInv'
  BY <1>3, <1>4 DEF Register, cacheVars, TokenInv, At
<1> QED
  BY <1>1, <1>2, <1>5, <1>6

\* The email was free, so no other registration has got this far with it.
LEMMA InsertStep ==
    ASSUME RegInv, NEW q \in Requests, InsertClient(q)
    PROVE  RegInv'
<1> DEFINE a == req[q].client
<1> USE DEF RegInv
<1>1. req[q] \in Registering /\ a \in Clients /\ client[a] = NoClient
  BY RequestKinds DEF InsertClient, At, Registering
<1>2. /\ client' = [client EXCEPT ![a] =
            [status |-> "pending", password |-> NoPassword, wanted |-> req[q].wanted]]
      /\ req' = [req EXCEPT ![q] = [req[q] EXCEPT !.pc = "password"]]
      /\ UNCHANGED <<cacheVars, mailed>>
  BY DEF InsertClient, Goes, Becomes
<1>3. /\ req'[q] \in Registering
      /\ req'[q].pc = "password" /\ req'[q].client = a /\ req'[q].wanted = req[q].wanted
  BY <1>1, <1>2 DEF RegTypeOK, Registering
<1>4. \A p \in Requests \ {q} : req'[p] = req[p]
  BY <1>2 DEF RegTypeOK
<1>5. /\ client'[a] \in Client /\ client'[a] # NoClient
      /\ client'[a].status = "pending"
      /\ client'[a].password = NoPassword /\ client'[a].wanted = req[q].wanted
  BY <1>1, <1>2 DEF RegTypeOK, Client, NoClient, Registering
<1>6. \A b \in Clients \ {a} : client'[b] = client[b]
  BY <1>2 DEF RegTypeOK
<1>7. RegTypeOK'
  BY <1>1, <1>2, <1>3, <1>5 DEF RegTypeOK, cacheVars, CacheTypeOK
<1>8. StaleForAReason' /\ PasswordOfItsRegistration'
  BY <1>2, <1>5, <1>6 DEF cacheVars, StaleForAReason, Stale, PasswordOfItsRegistration
<1>9. a \notin mailed
  BY <1>1 DEF TokenInv
<1>10. ASSUME NEW p \in Requests, p # q, Made(p)
       PROVE  req[p].client \in Clients \ {a}
  BY <1>1, <1>10, RequestKinds DEF RegistrationGoesOn, Made, Registering
<1>11. RegistrationGoesOn'
  <2> SUFFICES ASSUME NEW p \in Requests, Made(p)'
               PROVE  (LET b == req[p].client
                       IN  /\ client[b] # NoClient /\ b \notin mailed
                           /\ client[b].wanted = req[p].wanted
                           /\ client[b].password =
                                 IF At(p, "password") THEN NoPassword ELSE req[p].wanted
                           /\ At(p, "mail") => portfolio[b] # NoRow
                           /\ \A o \in Requests : Made(o) /\ req[o].client = b => o = p)'
    BY DEF RegistrationGoesOn
  <2>1. CASE p = q
    BY <1>2, <1>3, <1>4, <1>5, <1>9, <1>10, <2>1 DEF Made, At
  <2>2. CASE p # q
    <3>1. Made(p) /\ req[p].client \in Clients \ {a}
      BY <1>4, <1>10, <2>2 DEF Made
    <3> QED
      BY <1>2, <1>3, <1>4, <1>6, <2>2, <3>1 DEF RegistrationGoesOn, Made, At, cacheVars, NoRow
  <2> QED
    BY <2>1, <2>2
<1>12. TokenInv'
  BY <1>2, <1>3, <1>4, <1>5, <1>6, <1>9 DEF TokenInv, At, cacheVars, RegTypeOK, NoRow
<1> QED
  BY <1>7, <1>8, <1>11, <1>12

\* The registration takes its next step: its own place changes, and the rows of
\* other clients do not. What is left to show is where the registration is now.
LEMMA GoesOnStep ==
    ASSUME RegInv, NEW q \in Requests, Made(q), NEW pc \in {"portfolio", "mail"},
           Goes(q, pc), mailed' = mailed, PortfoliosStay,
           client'[req[q].client] \in Client,
           client'[req[q].client].wanted = client[req[q].client].wanted,
           client'[req[q].client].status = client[req[q].client].status,
           client'[req[q].client].password = req[q].wanted,
           \A b \in Clients \ {req[q].client} : client'[b] = client[b],
           pc = "mail" => portfolio'[req[q].client] # NoRow,
           client' \in [Clients -> Client \cup {NoClient}]
    PROVE  /\ req' \in [Requests -> {Waiting} \cup Registering \cup Verifying]
           /\ RegistrationGoesOn' /\ TokenInv' /\ PasswordOfItsRegistration'
<1> DEFINE a == req[q].client
<1> USE DEF RegInv
<1>1. req[q] \in Registering /\ a \in Clients /\ client[a] # NoClient /\ a \notin mailed
  BY RequestKinds DEF Made, Registering, RegistrationGoesOn
<1>2. /\ req'[q] \in Registering
      /\ req'[q].pc = pc /\ req'[q].client = a /\ req'[q].wanted = req[q].wanted
  BY <1>1 DEF Goes, Becomes, RegTypeOK, Registering
<1>3. \A p \in Requests \ {q} : req'[p] = req[p]
  BY DEF Goes, Becomes, RegTypeOK
<1>4. req' \in [Requests -> {Waiting} \cup Registering \cup Verifying]
  BY <1>2 DEF Goes, Becomes, RegTypeOK
<1>5. client[a].wanted = req[q].wanted
  BY DEF RegistrationGoesOn
<1>6. client'[a] # NoClient
  BY DEF Client, NoClient
<1>7. ASSUME NEW p \in Requests, p # q, Made(p)
      PROVE  req[p].client \in Clients \ {a}
  BY <1>7, RequestKinds DEF RegistrationGoesOn, Made, Registering
<1>8. RegistrationGoesOn'
  <2> SUFFICES ASSUME NEW p \in Requests, Made(p)'
               PROVE  (LET b == req[p].client
                       IN  /\ client[b] # NoClient /\ b \notin mailed
                           /\ client[b].wanted = req[p].wanted
                           /\ client[b].password =
                                 IF At(p, "password") THEN NoPassword ELSE req[p].wanted
                           /\ At(p, "mail") => portfolio[b] # NoRow
                           /\ \A o \in Requests : Made(o) /\ req[o].client = b => o = p)'
    BY DEF RegistrationGoesOn
  <2>1. CASE p = q
    BY <1>1, <1>2, <1>3, <1>5, <1>6, <1>7, <2>1 DEF Made, At, NoRow
  <2>2. CASE p # q
    <3>1. Made(p) /\ req[p].client \in Clients \ {a}
      BY <1>3, <1>7, <2>2 DEF Made
    <3> QED
      BY <1>2, <1>3, <2>2, <3>1 DEF RegistrationGoesOn, Made, At, PortfoliosStay, NoRow
  <2> QED
    BY <2>1, <2>2
<1>9. TokenInv'
  <2>1. \A b \in mailed' : b \in Clients \ {a}
    BY <1>1 DEF RegTypeOK
  <2>2. (\A b \in mailed : /\ client[b] # NoClient /\ portfolio[b] # NoRow
                           /\ client[b].password = client[b].wanted)'
    BY <2>1 DEF TokenInv, PortfoliosStay, NoRow
  <2>3. (\A b \in Clients : client[b].status = "active" => b \in mailed)'
    BY <1>1 DEF TokenInv
  <2>4. (\A p \in Requests : At(p, "activate") => req[p].client \in mailed)'
    BY <1>2, <1>3 DEF TokenInv, At
  <2> QED
    BY <2>2, <2>3, <2>4 DEF TokenInv
<1>10. PasswordOfItsRegistration'
  BY <1>1, <1>5 DEF PasswordOfItsRegistration
<1> QED
  BY <1>4, <1>8, <1>9, <1>10

LEMMA PasswordStep ==
    ASSUME RegInv, NEW q \in Requests, SetPassword(q)
    PROVE  RegInv'
<1> DEFINE a == req[q].client
<1> USE DEF RegInv
<1>1. /\ req[q] \in Registering /\ a \in Clients /\ Made(q) /\ client[a] \in Client
      /\ client[a].password = NoPassword
  BY RequestKinds, ClientKinds DEF SetPassword, At, Made, Registering, RegistrationGoesOn
<1>2. UNCHANGED <<portfolio, cache, reader, writer, excused, mailed>> /\ Goes(q, "portfolio")
  BY DEF SetPassword, cacheVars
<1>3. /\ client'[a] \in Client
      /\ client'[a].wanted = client[a].wanted /\ client'[a].status = client[a].status
      /\ client'[a].password = req[q].wanted
      /\ \A b \in Clients \ {a} : client'[b] = client[b]
      /\ client' \in [Clients -> Client \cup {NoClient}]
  <2>1. req[q].wanted \in Passwords \cup {NoPassword}
    BY <1>1 DEF Registering
  <2>2. CASE req[q].wanted = NoPassword
    BY <1>1, <2>2 DEF SetPassword, RegTypeOK
  <2>3. CASE req[q].wanted # NoPassword
    <3>1. client' = [client EXCEPT ![a].password = req[q].wanted]
      BY <2>3 DEF SetPassword
    <3>2. client'[a] = [client[a] EXCEPT !.password = req[q].wanted]
      BY <1>1, <3>1 DEF RegTypeOK
    <3>3. client'[a] \in Client
      BY <1>1, <2>1, <3>2 DEF Client
    <3> QED
      BY <1>1, <3>1, <3>2, <3>3 DEF RegTypeOK, Client
  <2> QED
    BY <2>2, <2>3
<1>4. PortfoliosStay /\ StaleForAReason'
  BY <1>2 DEF PortfoliosStay, StaleForAReason, Stale
<1>5. /\ req' \in [Requests -> {Waiting} \cup Registering \cup Verifying]
      /\ RegistrationGoesOn' /\ TokenInv' /\ PasswordOfItsRegistration'
  BY <1>1, <1>2, <1>3, <1>4, GoesOnStep
<1>6. RegTypeOK'
  BY <1>2, <1>3, <1>5 DEF RegTypeOK, CacheTypeOK
<1> QED
  BY <1>4, <1>5, <1>6

LEMMA PortfolioStep ==
    ASSUME RegInv, NEW q \in Requests, CreatePortfolio(q)
    PROVE  RegInv'
<1> DEFINE a == req[q].client
<1> USE DEF RegInv
<1>1. /\ req[q] \in Registering /\ a \in Clients /\ Made(q) /\ client[a] \in Client
      /\ client[a].password = req[q].wanted
  BY RequestKinds, ClientKinds DEF CreatePortfolio, At, Made, Registering, RegistrationGoesOn
<1>2. 0 \in Commits /\ q \in Writers
  BY DEF Commits
<1>3. /\ CommitPortfolio(q, a, 0) /\ Goes(q, "mail")
      /\ UNCHANGED <<client, mailed>>
  BY DEF CreatePortfolio
<1>4. CacheTypeOK' /\ StaleForAReason' /\ PortfoliosStay
  BY <1>1, <1>2, <1>3, CommitStep DEF RegTypeOK
<1>5. portfolio'[a] # NoRow
  BY <1>1, <1>3 DEF CommitPortfolio, RegTypeOK, CacheTypeOK, NoRow
<1>6. /\ req' \in [Requests -> {Waiting} \cup Registering \cup Verifying]
      /\ RegistrationGoesOn' /\ TokenInv' /\ PasswordOfItsRegistration'
  BY <1>1, <1>3, <1>4, <1>5, GoesOnStep DEF RegTypeOK
<1>7. RegTypeOK'
  BY <1>3, <1>4, <1>6 DEF RegTypeOK
<1> QED
  BY <1>4, <1>6, <1>7

\* The token goes out only now that all is there.
LEMMA MailStep ==
    ASSUME RegInv, NEW q \in Requests, MailToken(q)
    PROVE  RegInv'
<1> DEFINE a == req[q].client
<1> USE DEF RegInv
<1>1. /\ req[q] \in Registering /\ a \in Clients /\ Made(q) /\ client[a] # NoClient
      /\ client[a].password = client[a].wanted /\ portfolio[a] # NoRow
  BY RequestKinds DEF MailToken, TokenKnown, At, Made, Registering, RegistrationGoesOn
<1>2. mailed' = mailed \cup {a} /\ Becomes(q, Waiting) /\ UNCHANGED <<cacheVars, client>>
  BY DEF MailToken
<1>3. ~ Made(q)' /\ ~ At(q, "activate")'
  BY <1>2 DEF Becomes, RegTypeOK, Made, At, Waiting
<1>4. \A p \in Requests \ {q} : req'[p] = req[p]
  BY <1>2 DEF Becomes, RegTypeOK
<1>5. RegTypeOK'
  BY <1>1, <1>2 DEF Becomes, RegTypeOK, cacheVars, CacheTypeOK
<1>6. StaleForAReason' /\ PasswordOfItsRegistration'
  BY <1>2 DEF cacheVars, StaleForAReason, Stale, PasswordOfItsRegistration
<1>7. ASSUME NEW p \in Requests, p # q, Made(p)
      PROVE  req[p].client # a
  BY <1>1, <1>7 DEF RegistrationGoesOn
<1>8. RegistrationGoesOn'
  BY <1>2, <1>3, <1>4, <1>7 DEF cacheVars, RegistrationGoesOn, Made, At, NoRow
<1>9. TokenInv'
  BY <1>1, <1>2, <1>3, <1>4 DEF cacheVars, TokenInv, At, NoRow
<1> QED
  BY <1>5, <1>6, <1>8, <1>9

\* What is done stays done, and nobody will go on with the client.
LEMMA FailStep ==
    ASSUME RegInv, NEW q \in Requests, RegistrationFails(q)
    PROVE  RegInv'
<1> USE DEF RegInv
<1>1. Becomes(q, Waiting) /\ UNCHANGED <<cacheVars, client, mailed>>
  BY DEF RegistrationFails
<1>2. ~ Made(q)' /\ ~ At(q, "activate")'
  BY <1>1 DEF Becomes, RegTypeOK, Made, At, Waiting
<1>3. \A p \in Requests \ {q} : req'[p] = req[p]
  BY <1>1 DEF Becomes, RegTypeOK
<1>4. RegTypeOK'
  BY <1>1 DEF Becomes, RegTypeOK, cacheVars, CacheTypeOK
<1>5. StaleForAReason' /\ PasswordOfItsRegistration'
  BY <1>1 DEF cacheVars, StaleForAReason, Stale, PasswordOfItsRegistration
<1>6. RegistrationGoesOn'
  BY <1>1, <1>2, <1>3 DEF cacheVars, RegistrationGoesOn, Made, At, NoRow
<1>7. TokenInv'
  BY <1>1, <1>2, <1>3 DEF cacheVars, TokenInv, At, NoRow
<1> QED
  BY <1>4, <1>5, <1>6, <1>7

LEMMA VerifyStep ==
    ASSUME RegInv, NEW q \in Requests, NEW a \in Clients, Verify(q, a)
    PROVE  RegInv'
<1> USE DEF RegInv
<1>1. /\ a \in mailed /\ Becomes(q, [pc |-> "activate", client |-> a])
      /\ UNCHANGED <<cacheVars, client, mailed>>
  BY DEF Verify
<1>2. ~ Made(q)' /\ req'[q].client = a
  BY <1>1 DEF Becomes, RegTypeOK, Made
<1>3. \A p \in Requests \ {q} : req'[p] = req[p]
  BY <1>1 DEF Becomes, RegTypeOK
<1>4. RegTypeOK'
  BY <1>1 DEF Becomes, RegTypeOK, cacheVars, CacheTypeOK, Verifying
<1>5. StaleForAReason' /\ PasswordOfItsRegistration'
  BY <1>1 DEF cacheVars, StaleForAReason, Stale, PasswordOfItsRegistration
<1>6. RegistrationGoesOn'
  BY <1>1, <1>2, <1>3 DEF cacheVars, RegistrationGoesOn, Made, At, NoRow
<1>7. TokenInv'
  BY <1>1, <1>2, <1>3 DEF cacheVars, TokenInv, At, NoRow
<1> QED
  BY <1>4, <1>5, <1>6, <1>7

\* Only a client with a token becomes active, and nothing else of him changes.
LEMMA ActivateStep ==
    ASSUME RegInv, NEW q \in Requests, Activate(q)
    PROVE  RegInv'
<1> DEFINE a == req[q].client
<1> USE DEF RegInv
<1>1. a \in mailed /\ a \in Clients /\ client[a] \in Client
  BY ClientKinds DEF Activate, TokenInv, RegTypeOK
<1>2. /\ client' = [client EXCEPT ![a].status = "active"]
      /\ Becomes(q, Waiting) /\ UNCHANGED <<cacheVars, mailed>>
  BY DEF Activate
<1>3. client'[a] = [client[a] EXCEPT !.status = "active"]
  BY <1>1, <1>2 DEF RegTypeOK
<1>4. /\ client'[a] \in Client /\ client'[a] # NoClient
      /\ client'[a].password = client[a].password /\ client'[a].wanted = client[a].wanted
  BY <1>1, <1>3 DEF Client, NoClient
<1>5. \A b \in Clients \ {a} : client'[b] = client[b]
  BY <1>2 DEF RegTypeOK
<1>6. ~ Made(q)' /\ ~ At(q, "activate")'
  BY <1>2 DEF Becomes, RegTypeOK, Made, At, Waiting
<1>7. \A p \in Requests \ {q} : req'[p] = req[p]
  BY <1>2 DEF Becomes, RegTypeOK
<1>8. RegTypeOK'
  BY <1>2, <1>4 DEF Becomes, RegTypeOK, cacheVars, CacheTypeOK
<1>9. StaleForAReason' /\ PasswordOfItsRegistration'
  <2>1. client[a] # NoClient
    BY <1>1, ClientKinds
  <2> QED
    BY <1>1, <1>2, <1>4, <1>5, <2>1
       DEF cacheVars, StaleForAReason, Stale, PasswordOfItsRegistration
<1>10. ASSUME NEW p \in Requests, Made(p)
       PROVE  req[p].client \in Clients \ {a}
  BY <1>1, <1>10, RequestKinds DEF RegistrationGoesOn, Made, Registering
<1>11. RegistrationGoesOn'
  BY <1>2, <1>5, <1>6, <1>7, <1>10 DEF cacheVars, RegistrationGoesOn, Made, At, NoRow
<1>12. TokenInv'
  BY <1>1, <1>2, <1>4, <1>5, <1>6, <1>7 DEF cacheVars, TokenInv, At, NoRow, RegTypeOK
<1> QED
  BY <1>8, <1>9, <1>11, <1>12

\* Every step of every thread keeps the invariant.
LEMMA RegInductive ==
    ASSUME RegInv, [RegNext]_vars
    PROVE  RegInv'
<1>1. CacheTypeOK /\ StaleForAReason
  BY DEF RegInv, RegTypeOK
<1>2. CASE CacheWork /\ UNCHANGED <<client, mailed, req>>
  BY <1>1, <1>2, CacheWorkStep, CacheKeepsInv
<1>3. ASSUME NEW a \in Clients, UseAccount(a)
      PROVE  RegInv'
  BY <1>1, <1>3, CacheRequestStep, CacheKeepsInv DEF UseAccount
<1>4. ASSUME NEW q \in Requests, NEW a \in Clients,
             \/ \E p \in Passwords \cup {NoPassword} : Register(q, a, p)
             \/ Verify(q, a)
      PROVE  RegInv'
  BY <1>4, RegisterStep, VerifyStep
<1>5. ASSUME NEW q \in Requests,
             \/ InsertClient(q) \/ SetPassword(q) \/ CreatePortfolio(q) \/ MailToken(q)
             \/ RegistrationFails(q) \/ Activate(q)
      PROVE  RegInv'
  BY <1>5, InsertStep, PasswordStep, PortfolioStep, MailStep, FailStep, ActivateStep
<1>6. CASE UNCHANGED vars
  <2>1. CacheTypeOK' /\ StaleForAReason' /\ PortfoliosStay
    BY <1>1, <1>6 DEF vars, cacheVars, CacheTypeOK, StaleForAReason, Stale, PortfoliosStay
  <2>2. UNCHANGED <<client, mailed, req>>
    BY <1>6 DEF vars
  <2> QED
    BY <2>1, <2>2, CacheKeepsInv
<1> QED
  BY <1>2, <1>3, <1>4, <1>5, <1>6 DEF RegNext

\* The invariant holds in every state.
THEOREM RegInvariant == RegSpec => []RegInv
<1>1. RegInv /\ [RegNext]_vars => RegInv'
  BY RegInductive
<1> QED
  BY RegInitInv, <1>1, PTL DEF RegSpec

\* Clients, portfolios, the cache and every thread have their types.
THEOREM RegTypeCorrect == RegSpec => []RegTypeOK
<1>1. RegInv => RegTypeOK
  BY DEF RegInv
<1> QED
  BY <1>1, RegInvariant, PTL

\* A client can log in only when he has a portfolio and the password he asked
\* for, whichever transaction of a registration failed and whoever else
\* registered with his email.
THEOREM RegistrationIsComplete == RegSpec => []ActiveIsComplete
<1>1. RegInv => ActiveIsComplete
  BY DEF RegInv, TokenInv, ActiveIsComplete
<1> QED
  BY <1>1, RegInvariant, PTL

\* The password is that of the registration that made the client.
THEOREM PasswordStays == RegSpec => []PasswordOfItsRegistration
<1>1. RegInv => PasswordOfItsRegistration
  BY DEF RegInv
<1> QED
  BY <1>1, RegInvariant, PTL

\* The cache is behind a portfolio only while a writer is about to remove the
\* entry, or for one of the two known reasons.
THEOREM CacheIsStaleForAReason == RegSpec => []StaleForAReason
<1>1. RegInv => StaleForAReason
  BY DEF RegInv
<1> QED
  BY <1>1, RegInvariant, PTL
=============================================================================
