----------------------------- MODULE OrdersPage -----------------------------
(***************************************************************************)
(* The orders page in the browser (public/js/orders.js): the order form    *)
(* with its client_order_id field, the panel of orders with its modify,    *)
(* cancel and refresh buttons, and the trade notifications.                *)
(*                                                                         *)
(* Handlers are asynchronous: a click starts a call, which awaits a fetch  *)
(* while other handlers run. A request reaches the server, and its answer  *)
(* the page, at any later time or never; a request whose page has given up *)
(* waiting may still reach the server (it is then "orphan").               *)
(*                                                                         *)
(* The server is the environment: it places orders and changes them as     *)
(* OrderService says, which Trading implements, with the guards the orders *)
(* controller answers by; what engines and other sessions do to the        *)
(* client's orders is ChangedElsewhere.                                    *)
(***************************************************************************)
EXTENDS OrderService, FiniteSetsExt

CONSTANTS
    Client,       \* the account the page acts for
    Forms,        \* quantity and price of an order
    Calls,        \* numbers of the handler activations under way at once
    MaxEvents,    \* bound: keys made up and changes of orders, together
    MaxWishes     \* bound: orders the user sets out to place

ASSUME PageAssumption ==
    /\ NoKey \notin Nat
    /\ OrderIds \subseteq Nat /\ 0 \notin OrderIds /\ Calls \subseteq Nat
    /\ MaxEvents \in Nat /\ MaxWishes \in Nat

VARIABLES
    token,      \* is there an auth_token in localStorage
    open,       \* is the page loaded
    field,      \* the value of the client_order_id input
    made,       \* the number of keys made up so far: a uuid never comes twice
    feedback,   \* the line under the form
    panel,      \* the panel's state: id -> order as it was last received
    call,       \* the handlers under way
    told,       \* orders of which the page was sent a trade message
    wish,       \* which order the user is trying to place, counted from 1
    settled,    \* does the user's next submission stand for another order
    placedFor,  \* the wish each order was placed for
    overlapped  \* did two submissions ever overlap

formVars == <<field, made, feedback>>
userVars == <<wish, settled, overlapped>>
service  == <<orders, placedFor>>
session  == <<token, open>>
vars     == <<service, session, formVars, userVars, panel, call, told>>

Statuses == {"new", "working", "filled", "cancelled"}
Final    == {"filled", "cancelled"}

Row == [account : {Client}, client_order_id : Nat, form : Forms,
        status : Statuses, lock_version : Nat]

NoRow  == [status |-> "none"]
NoForm == "none"

\* An answer: its status line, the order it is about and that order's row.
Reply    == [code : {"ok", "conflict", "refused"}, id : OrderIds \cup {0},
             row : Row \cup {NoRow}]
NoReply  == [code |-> "none", id |-> 0, row |-> NoRow]
Refusal  == [NoReply EXCEPT !.code = "refused"]
Conflict == [NoReply EXCEPT !.code = "conflict"]

\* at is the fetch the handler awaits, net where that fetch is; seen is the
\* panel's entry when the button was clicked.
CallType ==
    [job : {"submit", "refresh", "modify", "cancel"}, at : {"post", "get"},
     net : {"sent", "answered", "orphan"}, id : OrderIds \cup {0},
     key : Nat \cup {NoKey}, form : Forms \cup {NoForm}, seen : Row \cup {NoRow},
     wish : Nat, reply : Reply \cup {NoReply}]

Put(f, x, v) == [y \in DOMAIN f \cup {x} |-> IF y = x THEN v ELSE f[y]]

NoCall == [job |-> "none", at |-> "none", net |-> "none"]

Blank == [job |-> "refresh", at |-> "get", net |-> "sent", id |-> 0, key |-> NoKey,
          form |-> NoForm, seen |-> NoRow, wish |-> 0, reply |-> NoReply]

PageTypeOK ==
    /\ DOMAIN orders \subseteq OrderIds
    /\ orders \in [DOMAIN orders -> Row]
    /\ placedFor \in [DOMAIN orders -> Nat]
    /\ token \in BOOLEAN /\ open \in BOOLEAN
    /\ settled \in BOOLEAN /\ overlapped \in BOOLEAN
    /\ field \in Nat \cup {NoKey}
    /\ made \in Nat /\ wish \in Nat
    /\ feedback \in {"none", "accepted", "error"}
    /\ DOMAIN panel \subseteq OrderIds
    /\ panel \in [DOMAIN panel -> Row]
    /\ call \in [Calls -> CallType \cup {NoCall}]
    /\ told \subseteq OrderIds

\* The bound on behaviours: each key and the change it makes possible, and each
\* change.
Events == 2 * made + MapThenSumSet(LAMBDA o : orders[o].lock_version, DOMAIN orders)
Room   == Events < MaxEvents

PageInit ==
    /\ ServiceInit
    /\ placedFor = [o \in {} |-> 0]
    /\ token = TRUE /\ open = TRUE
    /\ field = NoKey /\ made = 0 /\ feedback = "none"
    /\ panel = [o \in {} |-> NoRow]
    /\ call = [c \in Calls |-> NoCall]
    /\ told = {}
    /\ wish = 0 /\ settled = TRUE /\ overlapped = FALSE

-----------------------------------------------------------------------------
(* Calls *)

Awaits(c, at, net) == call[c].at = at /\ call[c].net = net

\* Handler activation c starts and awaits the fetch the record describes. The
\* numbers of activations mean nothing, so the least one that is free is taken.
Start(c, new) ==
    /\ call[c] = NoCall /\ \A d \in Calls : call[d] = NoCall => c <= d
    /\ call' = [call EXCEPT ![c] = new]

End(c) == call' = [call EXCEPT ![c] = NoCall]

\* A fetch fails: a POST that is not answered yet may still be served.
Abandoned(x) ==
    IF x.at = "post" /\ x.net \in {"sent", "orphan"}
    THEN [x EXCEPT !.net = "orphan"] ELSE NoCall

Abandon(c) == call' = [call EXCEPT ![c] = Abandoned(@)]

\* fetchAndAdd asks for order o, or returns at once without a token.
Fetch(c, o) ==
    call' = [call EXCEPT ![c] =
        IF token THEN [@ EXCEPT !.at = "get", !.net = "sent", !.id = o, !.reply = NoReply]
                 ELSE NoCall]

-----------------------------------------------------------------------------
(* The page and its session *)

\* The browser leaves the page: what it holds is gone, its fetches are dropped.
LeavePage ==
    /\ open' = FALSE
    /\ field' = NoKey /\ feedback' = "none" /\ settled' = TRUE
    /\ panel' = [o \in {} |-> NoRow]
    /\ call' = [c \in Calls |-> Abandoned(call[c])]
    /\ told' = {}
    /\ UNCHANGED <<service, made, wish, overlapped>>

Logout == open /\ token' = FALSE /\ LeavePage

\* Another tab logs out: the page stays.
LogoutElsewhere ==
    /\ token /\ token' = FALSE
    /\ UNCHANGED <<service, open, formVars, userVars, panel, call, told>>

Login ==
    /\ ~ open /\ open' = TRUE /\ token' = TRUE
    /\ UNCHANGED <<service, formVars, userVars, panel, call, told>>

-----------------------------------------------------------------------------
(* The order form *)

GenerateKey ==
    /\ open /\ Room
    /\ field' = made + 1 /\ made' = made + 1 /\ settled' = TRUE
    /\ UNCHANGED <<service, session, feedback, panel, call, told, wish, overlapped>>

UnderWay == \E c \in Calls : call[c].job = "submit" /\ call[c].net # "orphan"

Submit(c, form) ==
    LET new == field = NoKey
        key == IF new THEN made + 1 ELSE field
        w   == IF settled THEN wish + 1 ELSE wish
    IN  /\ open /\ token
        /\ new => Room
        /\ w <= MaxWishes
        /\ field' = key /\ made' = IF new THEN made + 1 ELSE made
        /\ feedback' = "none"
        /\ wish' = w /\ settled' = FALSE
        /\ overlapped' = (overlapped \/ UnderWay)
        /\ Start(c, [Blank EXCEPT !.job = "submit", !.at = "post", !.key = key,
                                  !.form = form, !.wish = w])
        /\ UNCHANGED <<service, session, panel, told>>

\* requireAuth sends a user without a token to the login page.
SubmitLoggedOut == open /\ ~ token /\ LeavePage /\ UNCHANGED token

Submitting(c) == call[c].job = "submit"

SubmitAccepted(c) ==
    /\ Submitting(c) /\ Awaits(c, "post", "answered") /\ call[c].reply.code = "ok"
    /\ feedback' = "accepted" /\ settled' = TRUE
    /\ Fetch(c, call[c].reply.id)
    /\ field' = IF token THEN field ELSE NoKey
    /\ UNCHANGED <<service, session, made, wish, overlapped, panel, told>>

\* Mutant of SubmitFailed: the form is reset after an error, too.
SubmitFailedAndReset(c) ==
    /\ Submitting(c) /\ call[c].at = "post" /\ call[c].net # "orphan"
    /\ call[c].reply.code # "ok"
    /\ feedback' = "error" /\ field' = NoKey
    /\ Abandon(c)
    /\ UNCHANGED <<service, session, made, userVars, panel, told>>

\* The answer is an error, or there is none.
SubmitFailed(c) ==
    /\ Submitting(c) /\ call[c].at = "post" /\ call[c].net # "orphan"
    /\ call[c].reply.code # "ok"
    /\ feedback' = "error"
    /\ Abandon(c)
    /\ UNCHANGED <<service, session, field, made, userVars, panel, told>>

\* Mutant of FinishSubmit: the field is cleared only with the order at hand.
FinishSubmitIfShown(c) ==
    /\ Submitting(c) /\ call[c].at = "get"
    /\ IF call[c].net = "answered"
       THEN /\ panel' = Put(panel, call[c].id, call[c].reply.row)
            /\ field' = NoKey
       ELSE UNCHANGED <<panel, field>>
    /\ End(c)
    /\ UNCHANGED <<service, session, made, feedback, userVars, told>>

\* Mutant of FinishSubmit: what came of the fetch is not looked at.
FinishSubmitUnchecked(c) ==
    /\ Submitting(c) /\ call[c].at = "get"
    /\ panel' = Put(panel, call[c].id, call[c].reply.row)
    /\ field' = NoKey
    /\ End(c)
    /\ UNCHANGED <<service, session, made, feedback, userVars, told>>

\* The accepted order was fetched into the panel, or could not be.
FinishSubmit(c) ==
    /\ Submitting(c) /\ call[c].at = "get"
    /\ \/ /\ call[c].net = "answered"
          /\ panel' = Put(panel, call[c].id, call[c].reply.row)
       \/ UNCHANGED panel
    /\ field' = NoKey
    /\ End(c)
    /\ UNCHANGED <<service, session, made, feedback, userVars, told>>

-----------------------------------------------------------------------------
(* The panel *)

Click(c, o, new) ==
    /\ open /\ token /\ o \in DOMAIN panel
    /\ Start(c, [new EXCEPT !.id = o, !.seen = panel[o]])
    /\ UNCHANGED <<service, session, formVars, userVars, panel, told>>

Refresh(c, o) == Click(c, o, Blank)

\* modifyOrder sends nothing when neither quantity nor price is changed.
ModifyOrder(c, o, form) ==
    /\ o \in DOMAIN panel => form # panel[o].form
    /\ Click(c, o, [Blank EXCEPT !.job = "modify", !.at = "post", !.form = form])

CancelOrder(c, o) == Click(c, o, [Blank EXCEPT !.job = "cancel", !.at = "post"])

Editing(c) == call[c].job \in {"modify", "cancel"}

\* Mutant of Merged: an edited order keeps the form it was shown with.
MergedStatusOnly(x) ==
    [x.seen EXCEPT !.status = x.reply.row.status,
                   !.lock_version = x.reply.row.lock_version]

\* What the handler makes of its panel entry and the answer.
Merged(x) ==
    IF x.job = "modify"
    THEN [x.seen EXCEPT !.form = x.reply.row.form, !.status = x.reply.row.status,
                        !.lock_version = x.reply.row.lock_version]
    ELSE [x.seen EXCEPT !.status = "cancelled", !.lock_version = x.reply.row.lock_version]

EditAccepted(c) ==
    /\ Editing(c) /\ Awaits(c, "post", "answered") /\ call[c].reply.code = "ok"
    /\ panel' = Put(panel, call[c].id, Merged(call[c]))
    /\ End(c)
    /\ UNCHANGED <<service, session, formVars, userVars, told>>

EditConflict(c) ==
    /\ Editing(c) /\ Awaits(c, "post", "answered") /\ call[c].reply.code = "conflict"
    /\ Fetch(c, call[c].id)
    /\ UNCHANGED <<service, session, formVars, userVars, panel, told>>

\* Any other answer is shown in an alert; a failed fetch ends the handler.
EditFailed(c) ==
    /\ Editing(c) /\ call[c].at = "post" /\ call[c].net # "orphan"
    /\ call[c].net = "answered" => call[c].reply.code = "refused"
    /\ Abandon(c)
    /\ UNCHANGED <<service, session, formVars, userVars, panel, told>>

\* fetchAndAdd for a refresh, a conflict or a trade message: the entry becomes
\* the answer, whatever it was meanwhile.
Fetched(c) ==
    /\ ~ Submitting(c) /\ Awaits(c, "get", "answered")
    /\ panel' = Put(panel, call[c].id, call[c].reply.row)
    /\ End(c)
    /\ UNCHANGED <<service, session, formVars, userVars, told>>

FetchFailed(c) ==
    /\ ~ Submitting(c) /\ call[c].at = "get"
    /\ End(c)
    /\ UNCHANGED <<service, session, formVars, userVars, panel, told>>

\* The script that handles trade messages looks for the panel in
\* window.OrdersPanel. The panel is a top-level const, and those are not
\* properties of window.
PanelReachable == FALSE

TradeReceived(c, o) ==
    /\ open /\ o \in DOMAIN orders \ told /\ orders[o].status = "filled"
    /\ told' = told \cup {o}
    /\ IF PanelReachable /\ token
       THEN Start(c, [Blank EXCEPT !.id = o])
       ELSE UNCHANGED call
    /\ UNCHANGED <<service, session, formVars, userVars, panel>>

-----------------------------------------------------------------------------
(* The server *)

\* The request of c is served: the answer travels back, if there is a page.
Answer(c, reply) ==
    call' = [call EXCEPT ![c] =
        IF @.net = "orphan" THEN NoCall ELSE [@ EXCEPT !.net = "answered", !.reply = reply]]

Arrives(c, at) == call[c].at = at /\ call[c].net \in {"sent", "orphan"}

Replies(o, row) == [code |-> "ok", id |-> o, row |-> row]

NewRow(x) == [account |-> Client, client_order_id |-> x.key, form |-> x.form,
              status |-> "new", lock_version |-> 0]

KeyHolders(key) == {o \in DOMAIN orders : orders[o].client_order_id = key}

\* create validates before it looks for the key, so it may refuse a repeat.
ServeCreate(c) ==
    LET x == call[c]
    IN  /\ Submitting(c) /\ Arrives(c, "post")
        /\ UNCHANGED <<session, formVars, userVars, panel, told>>
        /\ \/ /\ Answer(c, Refusal)
              /\ UNCHANGED service
           \/ \E o \in KeyHolders(x.key) :
                 Answer(c, Replies(o, NoRow)) /\ UNCHANGED service
           \/ \E o \in OrderIds \ DOMAIN orders :
                 /\ KeyHolders(x.key) = {}
                 /\ \A p \in OrderIds \ DOMAIN orders : o <= p
                 /\ orders' = Put(orders, o, NewRow(x))
                 /\ placedFor' = Put(placedFor, o, x.wish)
                 /\ Answer(c, Replies(o, NoRow))

ServeShow(c) ==
    /\ Arrives(c, "get")
    /\ call[c].id \in DOMAIN orders
    /\ Answer(c, Replies(call[c].id, orders[call[c].id]))
    /\ UNCHANGED <<service, session, formVars, userVars, panel, told>>

\* Mutant of SameVersion: any order that is not final may be edited.
AnyVersion(x) == x.seen.lock_version <= orders[x.id].lock_version

SameVersion(x) == x.seen.lock_version = orders[x.id].lock_version

\* What replace and cancel make of a row.
Edited(x) ==
    LET row == [orders[x.id] EXCEPT !.lock_version = @ + 1]
    IN  IF x.job = "modify" THEN [row EXCEPT !.form = x.form]
                            ELSE [row EXCEPT !.status = "cancelled"]

\* replace and cancel: both finality and version may be the reason to refuse,
\* as the row may change between their checks and their UPDATE.
ServeEdit(c) ==
    LET x == call[c]
    IN  /\ Editing(c) /\ Arrives(c, "post")
        /\ UNCHANGED <<placedFor, session, formVars, userVars, panel, told>>
        /\ \/ Answer(c, Refusal) /\ UNCHANGED orders
           \/ ~ SameVersion(x) /\ Answer(c, Conflict) /\ UNCHANGED orders
           \/ /\ SameVersion(x) /\ orders[x.id].status \notin Final
              /\ Room
              /\ orders' = [orders EXCEPT ![x.id] = Edited(x)]
              /\ Answer(c, Replies(x.id, Edited(x)))

\* An engine writes a status over whatever the order is, or another session
\* of the client edits it.
ChangedElsewhere(o) ==
    /\ o \in DOMAIN orders /\ Room
    /\ \/ \E s \in Statuses \ {"new", orders[o].status} :
             orders' = [orders EXCEPT ![o].status = s, ![o].lock_version = @ + 1]
       \/ \E f \in Forms \ {orders[o].form} :
             /\ orders[o].status \notin Final
             /\ orders' = [orders EXCEPT ![o].form = f, ![o].lock_version = @ + 1]
    /\ UNCHANGED <<placedFor, session, formVars, userVars, panel, call, told>>

-----------------------------------------------------------------------------
UserStep(c) ==
    \/ \E f \in Forms : Submit(c, f)
    \/ \E o \in OrderIds : \/ Refresh(c, o)
                           \/ CancelOrder(c, o)
                           \/ \E f \in Forms : ModifyOrder(c, o, f)

\* What moves a call that is under way: its fetch is served, answered or fails.
Progress(c) ==
    \/ SubmitAccepted(c) \/ SubmitFailed(c) \/ FinishSubmit(c)
    \/ EditAccepted(c) \/ EditConflict(c) \/ EditFailed(c)
    \/ Fetched(c) \/ FetchFailed(c)
    \/ ServeCreate(c) \/ ServeShow(c) \/ ServeEdit(c)

PageNext ==
    \/ Logout \/ LogoutElsewhere \/ Login \/ GenerateKey \/ SubmitLoggedOut
    \/ \E c \in Calls : UserStep(c) \/ Progress(c)
    \/ \E c \in Calls, o \in OrderIds : TradeReceived(c, o)
    \/ \E o \in OrderIds : ChangedElsewhere(o)

PageSpec == PageInit /\ [][PageNext]_vars

-----------------------------------------------------------------------------
(* Properties *)

\* The page's copies of an order are never ahead of its row, and a copy of the
\* row's version is the row: whatever
\* order the answers came in and whatever they were merged into.
CopyOf(o, copy) ==
    /\ o \in DOMAIN orders
    /\ copy.lock_version <= orders[o].lock_version
    /\ copy.lock_version = orders[o].lock_version => copy = orders[o]

PanelHolds ==
    /\ \A o \in DOMAIN panel : CopyOf(o, panel[o])
    /\ \A c \in Calls : Editing(c) => CopyOf(call[c].id, call[c].seen)
    /\ \A c \in Calls : Awaits(c, "get", "answered") => CopyOf(call[c].id, call[c].reply.row)
    /\ \A c \in Calls :
          Editing(c) /\ Awaits(c, "post", "answered") /\ call[c].reply.code = "ok"
          => CopyOf(call[c].id, Merged(call[c]))

\* An order is modified or cancelled by the page only as the user saw it when
\* he clicked, however old the panel was and whenever the request arrives.
EditsMeetWhatWasShown ==
    [][\A c \in Calls : ServeEdit(c) /\ orders' # orders =>
          orders[call[c].id] = call[c].seen]_vars

\* A user who submits again after an error, without asking for another key,
\* does not place a second order: the field keeps the key through refusals,
\* lost answers and requests that arrive after the page gave them up.
\* Submitting before the fetch of an accepted order has ended is excepted: its
\* end clears the field of the later submission, too, and a retry of that one
\* is then another order.
OneOrderPerWish ==
    ~ overlapped => \A o, p \in DOMAIN orders : placedFor[o] = placedFor[p] => o = p

\* When the form says the order was accepted, the order the user meant is
\* there, and not an earlier one under the same key: the key of an accepted
\* order leaves the form, also when the order cannot be fetched afterwards.
\* Overlapping submissions are excepted here, too: the field may still hold the
\* key of the accepted order, and a new order is taken for a repeat.
GreenMeansPlaced ==
    feedback = "accepted" /\ ~ overlapped =>
       \E o \in DOMAIN orders : placedFor[o] = wish

-----------------------------------------------------------------------------
(* What the repository says of the page and the code does not keep *)

\* A trade message makes the page fetch the order it is about.
TradesAreFetched ==
    [][\A o \in told' \ told : token =>
          \E c \in Calls : call'[c] # call[c] /\ call'[c].at = "get" /\ call'[c].id = o]_vars
=============================================================================
