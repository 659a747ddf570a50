---------------------------- MODULE Registration ----------------------------
(***************************************************************************)
(* Registration and verification of clients: POST /clients inserts the     *)
(* client, sets the password and creates the portfolio in three            *)
(* transactions, any of which may fail, and then mails the verification     *)
(* token; POST /clients/verify activates the client the token belongs to.  *)
(* The portfolio it creates is the one PortfolioCache is about.            *)
(***************************************************************************)
EXTENDS PortfolioCache

CONSTANTS
    Requests,   \* threads of POST /clients and /clients/verify, writers as well
    Passwords

ASSUME RegistrationAssumption ==
    /\ Requests \subseteq Writers
    /\ "none" \notin Passwords

VARIABLES
    client,   \* the clients table, a row for each email
    mailed,   \* clients whose verification token was mailed
    req       \* what each request thread is doing

vars == <<cacheVars, client, mailed, req>>

NoPassword == "none"
NoClient   == [status |-> "absent"]

\* wanted is the password of the registration that inserted the client.
Client  == [status : {"pending", "active"}, password : Passwords \cup {NoPassword},
            wanted : Passwords \cup {NoPassword}]

Waiting == [pc |-> "idle"]

Registering == [pc : {"insert", "password", "portfolio", "mail"}, client : Clients,
                wanted : Passwords \cup {NoPassword}]
Verifying   == [pc : {"activate"}, client : Clients]

RegTypeOK ==
    /\ CacheTypeOK
    /\ client \in [Clients -> Client \cup {NoClient}]
    /\ mailed \subseteq Clients
    /\ req \in [Requests -> {Waiting} \cup Registering \cup Verifying]

RegInit ==
    /\ CacheInit
    /\ client = [a \in Clients |-> NoClient]
    /\ mailed = {}
    /\ req = [q \in Requests |-> Waiting]

Becomes(q, state) == req' = [req EXCEPT ![q] = state]
At(q, pc)         == req[q].pc = pc
Goes(q, pc)       == Becomes(q, [req[q] EXCEPT !.pc = pc])

-----------------------------------------------------------------------------
\* The email is not taken, as far as find_by_email tells.
Register(q, a, password) ==
    /\ req[q] = Waiting /\ client[a] = NoClient
    /\ Becomes(q, [pc |-> "insert", client |-> a, wanted |-> password])
    /\ UNCHANGED <<cacheVars, client, mailed>>

\* Mutant of InsertClient: a client with that email is taken as the one meant.
InsertOrFindClient(q) ==
    LET a == req[q].client
    IN  /\ At(q, "insert")
        /\ client' = IF client[a] = NoClient
                     THEN [client EXCEPT ![a] = [status |-> "pending",
                              password |-> NoPassword, wanted |-> req[q].wanted]]
                     ELSE client
        /\ Goes(q, "password")
        /\ UNCHANGED <<cacheVars, mailed>>

\* The unique index on the email lets one of several registrations through.
InsertClient(q) ==
    LET a == req[q].client
    IN  /\ At(q, "insert") /\ client[a] = NoClient
        /\ client' = [client EXCEPT ![a] =
              [status |-> "pending", password |-> NoPassword, wanted |-> req[q].wanted]]
        /\ Goes(q, "password")
        /\ UNCHANGED <<cacheVars, mailed>>

SetPassword(q) ==
    LET a == req[q].client
    IN  /\ At(q, "password")
        /\ client' = IF req[q].wanted = NoPassword THEN client
                     ELSE [client EXCEPT ![a].password = req[q].wanted]
        /\ Goes(q, "portfolio")
        /\ UNCHANGED <<cacheVars, mailed>>

CreatePortfolio(q) ==
    /\ At(q, "portfolio")
    /\ CommitPortfolio(q, req[q].client, 0)
    /\ Goes(q, "mail")
    /\ UNCHANGED <<client, mailed>>

\* Mutant of TokenKnown: the token is mailed before the registration is over.
TokenEarly(q) == req[q].pc \in {"portfolio", "mail"}

\* execute has returned the token, the last it does.
TokenKnown(q) == At(q, "mail") /\ writer[q] = Nobody

MailToken(q) ==
    /\ TokenKnown(q)
    /\ mailed' = mailed \cup {req[q].client}
    /\ Becomes(q, Waiting)
    /\ UNCHANGED <<cacheVars, client>>

\* A transaction or the mailer raises, or the process ends.
RegistrationFails(q) ==
    /\ req[q] # Waiting
    /\ Becomes(q, Waiting)
    /\ UNCHANGED <<cacheVars, client, mailed>>

\* The client with the token, which activate! takes away.
Verify(q, a) ==
    /\ req[q] = Waiting
    /\ a \in mailed /\ client[a].status = "pending"
    /\ Becomes(q, [pc |-> "activate", client |-> a])
    /\ UNCHANGED <<cacheVars, client, mailed>>

Activate(q) ==
    /\ At(q, "activate")
    /\ client' = [client EXCEPT ![req[q].client].status = "active"]
    /\ Becomes(q, Waiting)
    /\ UNCHANGED <<cacheVars, mailed>>

\* Reading a portfolio and moving funds take a login, and that an active client.
UseAccount(a) ==
    /\ client[a].status = "active"
    /\ CacheRequest(a) /\ \A q \in Requests : writer'[q] = writer[q]
    /\ UNCHANGED <<client, mailed, req>>

RegNext ==
    \/ CacheWork /\ UNCHANGED <<client, mailed, req>>
    \/ \E a \in Clients : UseAccount(a)
    \/ \E q \in Requests :
          \/ \E a \in Clients : \/ \E p \in Passwords \cup {NoPassword} : Register(q, a, p)
                                \/ Verify(q, a)
          \/ InsertClient(q) \/ SetPassword(q) \/ CreatePortfolio(q) \/ MailToken(q)
          \/ RegistrationFails(q) \/ Activate(q)

RegSpec == RegInit /\ [][RegNext]_vars

\* The cache drops an entry when its minute is over.
FairRegSpec ==
    /\ RegSpec
    /\ \A a \in Clients : WF_vars(Expire(a) /\ UNCHANGED <<client, mailed, req>>)

-----------------------------------------------------------------------------
\* A client can log in only when he has all a registration makes: the
\* transactions may fail in between, but then nobody learns the token.
ActiveIsComplete ==
    \A a \in Clients : client[a] # NoClient /\ client[a].status = "active" =>
       portfolio[a] # NoRow /\ client[a].password = client[a].wanted

\* Of registrations of one email at once, only that which made the client sets
\* the password.
PasswordOfItsRegistration ==
    \A a \in Clients : client[a] # NoClient =>
       client[a].password \in {NoPassword, client[a].wanted}
=============================================================================
