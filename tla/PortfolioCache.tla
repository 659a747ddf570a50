--------------------------- MODULE PortfolioCache ---------------------------
(***************************************************************************)
(* GET /portfolio and its cache. A reader that finds nothing cached loads  *)
(* the portfolio and writes what it loaded into the cache for a minute; a   *)
(* transaction that changed the portfolio removes the entry after it       *)
(* committed. Loading and writing, committing and removing are steps of     *)
(* their own, so both sides overlap.                                       *)
(***************************************************************************)
EXTENDS Naturals

CONSTANTS
    Clients,    \* account ids
    Readers,    \* request threads of GET /portfolio
    Writers,    \* threads that move funds, of orders, trades and deposits
    MaxCommits  \* bound: changes of a portfolio

ASSUME CacheAssumption == MaxCommits \in Nat /\ "nobody" \notin Clients

VARIABLES
    portfolio,  \* the portfolios table: commits so far, NoRow without a row
    cache,      \* the entry of each client, Missing without an entry
    reader,     \* what each reader loaded, or is about to
    writer,     \* the client whose entry each writer is about to remove
    excused     \* the entry was written late, or its removal failed

cacheVars == <<portfolio, cache, reader, writer, excused>>

NoRow   == MaxCommits + 1
Missing == MaxCommits + 2
Commits == 0 .. MaxCommits
Nobody  == "nobody"

Resting == [pc |-> "idle"]

CacheTypeOK ==
    /\ portfolio \in [Clients -> Commits \cup {NoRow}]
    /\ cache \in [Clients -> Commits \cup {Missing}]
    /\ reader \in [Readers ->
          {Resting} \cup [pc : {"load"}, client : Clients]
                    \cup [pc : {"write"}, client : Clients, data : Commits]]
    /\ writer \in [Writers -> Clients \cup {Nobody}]
    /\ excused \in [Clients -> BOOLEAN]

CacheInit ==
    /\ portfolio = [a \in Clients |-> NoRow]
    /\ cache = [a \in Clients |-> Missing]
    /\ reader = [r \in Readers |-> Resting]
    /\ writer = [w \in Writers |-> Nobody]
    /\ excused = [a \in Clients |-> FALSE]

Stale(a) == cache[a] # Missing /\ cache[a] # portfolio[a]

\* A hit answers from the cache and changes nothing; this is a miss.
MissCache(r, a) ==
    /\ reader[r] = Resting /\ cache[a] = Missing
    /\ reader' = [reader EXCEPT ![r] = [pc |-> "load", client |-> a]]
    /\ UNCHANGED <<portfolio, cache, writer, excused>>

\* Mutant of LoadPortfolio: what the cache had is taken for the portfolio.
LoadCached(r) ==
    /\ reader[r].pc = "load"
    /\ LET a == reader[r].client
       IN  reader' = [reader EXCEPT ![r] =
              [pc |-> "write", client |-> a, data |-> cache[a]]]
    /\ UNCHANGED <<portfolio, cache, writer, excused>>

\* Without a portfolio the answer is 404 and nothing is cached.
LoadPortfolio(r) ==
    /\ reader[r].pc = "load"
    /\ LET a == reader[r].client
       IN  reader' = [reader EXCEPT ![r] =
              IF portfolio[a] = NoRow THEN Resting
              ELSE [pc |-> "write", client |-> a, data |-> portfolio[a]]]
    /\ UNCHANGED <<portfolio, cache, writer, excused>>

WriteCache(r) ==
    /\ reader[r].pc = "write"
    /\ LET a == reader[r].client
       IN  /\ cache' = [cache EXCEPT ![a] = reader[r].data]
           /\ excused' = [excused EXCEPT ![a] = reader[r].data # portfolio[a]]
    /\ reader' = [reader EXCEPT ![r] = Resting]
    /\ UNCHANGED <<portfolio, writer>>

\* A transaction on the portfolio commits: funds reserved, released, charged or
\* deposited, or the portfolio created.
CommitPortfolio(w, a, row) ==
    /\ writer[w] = Nobody
    /\ portfolio' = [portfolio EXCEPT ![a] = row]
    /\ writer' = [writer EXCEPT ![w] = a]
    /\ UNCHANGED <<cache, reader, excused>>

MoveFunds(w, a) ==
    /\ portfolio[a] < MaxCommits
    /\ CommitPortfolio(w, a, portfolio[a] + 1)

\* Mutant of Removed: an entry made before the commit is taken for the new one and
\* left alone.
RemovedIfOlder(a) ==
    [cache EXCEPT ![a] = IF @ < portfolio[a] THEN @ ELSE Missing]

Removed(a) == [cache EXCEPT ![a] = Missing]

\* after_commit
Invalidate(w) ==
    /\ writer[w] # Nobody
    /\ cache' = Removed(writer[w])
    /\ excused' = [excused EXCEPT ![writer[w]] = FALSE]
    /\ writer' = [writer EXCEPT ![w] = Nobody]
    /\ UNCHANGED <<portfolio, reader>>

\* The cache cannot be reached, which is logged, or the process ends first.
InvalidateFails(w) ==
    /\ writer[w] # Nobody
    /\ excused' = [excused EXCEPT ![writer[w]] = TRUE]
    /\ writer' = [writer EXCEPT ![w] = Nobody]
    /\ UNCHANGED <<portfolio, cache, reader>>

\* Mutant of Expires: an entry lives on while its portfolio does.
ExpiresWithPortfolio(a) == cache[a] # Missing /\ portfolio[a] = NoRow

Expires(a) == cache[a] # Missing

Expire(a) ==
    /\ Expires(a)
    /\ cache' = [cache EXCEPT ![a] = Missing]
    /\ excused' = [excused EXCEPT ![a] = FALSE]
    /\ UNCHANGED <<portfolio, reader, writer>>

\* What clients ask for, and what follows of itself.
CacheRequest(a) ==
    \/ \E r \in Readers : MissCache(r, a)
    \/ \E w \in Writers : MoveFunds(w, a)

CacheWork ==
    \/ \E r \in Readers : LoadPortfolio(r) \/ WriteCache(r)
    \/ \E w \in Writers : Invalidate(w) \/ InvalidateFails(w)
    \/ \E a \in Clients : Expire(a)

-----------------------------------------------------------------------------
\* The cache is behind the portfolio only for a reason: a writer has committed
\* and not removed the entry yet, its removal failed, or a reader that loaded
\* before the commit wrote after the removal.
StaleForAReason ==
    \A a \in Clients : Stale(a) => excused[a] \/ \E w \in Writers : writer[w] = a

\* Whatever the reason, a client sees his portfolio as it is at last.
StaleEntriesGo == \A a \in Clients : Stale(a) ~> ~ Stale(a)
=============================================================================
