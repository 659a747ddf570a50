----------------------------- MODULE PageProofs -----------------------------
(***************************************************************************)
(* Proofs about OrdersPage, for any number of orders, handlers under way,  *)
(* forms, keys and changes: first the rows and buttons the page shows,     *)
(* then the order form and the wishes it submits.                          *)
(***************************************************************************)
EXTENDS OrdersPage, TLAPS

-----------------------------------------------------------------------------
(* The inductive invariant: what every handler holds is sound. *)

\* A copy of order o is not ahead of its row, and equal to it at equal version.
SoundCopy(rows, o, copy) ==
    /\ copy \in Row
    /\ o \in DOMAIN rows
    /\ copy.lock_version <= rows[o].lock_version
    /\ copy.lock_version = rows[o].lock_version => copy = rows[o]

\* A handler asks for orders that exist, and its copies are sound; a submission
\* has a key, and a modification a form, too.
SoundCall(rows, x) ==
    /\ x.job = "submit" => x.key \in Nat
    /\ x.job \in {"submit", "modify"} => x.form \in Forms
    /\ x.at = "get" => x.id \in DOMAIN rows
    /\ x.job = "submit" /\ x.at = "post" /\ x.net = "answered" /\ x.reply.code = "ok"
       => x.reply.id \in DOMAIN rows
    /\ x.job \in {"modify", "cancel"} => SoundCopy(rows, x.id, x.seen)
    /\ x.at = "get" /\ x.net = "answered" => SoundCopy(rows, x.id, x.reply.row)
    /\ x.job \in {"modify", "cancel"} /\ x.at = "post" /\ x.net = "answered"
         /\ x.reply.code = "ok"
       => SoundCopy(rows, x.id, Merged(x))

SoundPanel(rows, p) == \A o \in DOMAIN p : SoundCopy(rows, o, p[o])

PageInv ==
    /\ PageTypeOK
    /\ SoundPanel(orders, panel)
    /\ \A c \in Calls : SoundCall(orders, call[c])

\* A later table: the rows are there and either the same or of a later version.
Grown(rows, later) ==
    \A o \in DOMAIN rows :
       /\ o \in DOMAIN later
       /\ later[o] = rows[o] \/ later[o].lock_version > rows[o].lock_version

-----------------------------------------------------------------------------
(* Lemmas *)

\* Nothing is under way in a free slot, so there is nothing to be wrong.
LEMMA NoCallIsSound == \A rows : SoundCall(rows, NoCall)
BY DEF SoundCall, NoCall

\* What was sound stays sound in a later table.
LEMMA SoundCopyKept ==
    ASSUME NEW rows, NEW later, Grown(rows, later),
           \A o \in DOMAIN rows : rows[o] \in Row,
           \A o \in DOMAIN later : later[o] \in Row
    PROVE  \A o, copy : SoundCopy(rows, o, copy) => SoundCopy(later, o, copy)
<1> SUFFICES ASSUME NEW o, NEW copy, SoundCopy(rows, o, copy)
             PROVE  SoundCopy(later, o, copy)
  OBVIOUS
<1>1. /\ copy.lock_version \in Nat
      /\ rows[o].lock_version \in Nat
      /\ later[o].lock_version \in Nat
      /\ o \in DOMAIN later
  BY DEF SoundCopy, Grown, Row
<1>2. CASE later[o] = rows[o]
  BY <1>1, <1>2 DEF SoundCopy
<1>3. CASE later[o].lock_version > rows[o].lock_version
  BY <1>1, <1>3 DEF SoundCopy
<1> QED
  BY <1>2, <1>3 DEF SoundCopy, Grown

LEMMA SoundCallKept ==
    ASSUME NEW rows, NEW later, Grown(rows, later),
           \A o \in DOMAIN rows : rows[o] \in Row,
           \A o \in DOMAIN later : later[o] \in Row
    PROVE  \A x : SoundCall(rows, x) => SoundCall(later, x)
<1>1. \A o, copy : SoundCopy(rows, o, copy) => SoundCopy(later, o, copy)
  BY SoundCopyKept
<1>2. DOMAIN rows \subseteq DOMAIN later
  BY DEF Grown
<1> QED
  BY <1>1, <1>2 DEF SoundCall

\* The same table is a later one.
LEMMA GrownSame == \A rows : Grown(rows, rows)
BY DEF Grown

\* A sound copy put into a sound panel.
LEMMA PutSound ==
    ASSUME NEW rows, NEW p, SoundPanel(rows, p),
           p \in [DOMAIN p -> Row], DOMAIN p \subseteq OrderIds,
           NEW o \in OrderIds, NEW copy \in Row, SoundCopy(rows, o, copy)
    PROVE  /\ SoundPanel(rows, Put(p, o, copy))
           /\ Put(p, o, copy) \in [DOMAIN Put(p, o, copy) -> Row]
           /\ DOMAIN Put(p, o, copy) \subseteq OrderIds
<1>1. /\ Put(p, o, copy) \in [DOMAIN Put(p, o, copy) -> Row]
      /\ DOMAIN Put(p, o, copy) \subseteq OrderIds
      /\ DOMAIN Put(p, o, copy) = DOMAIN p \cup {o}
      /\ Put(p, o, copy)[o] = copy
      /\ \A y \in DOMAIN p : y # o => Put(p, o, copy)[y] = p[y]
  BY DEF Put
<1>2. SoundPanel(rows, Put(p, o, copy))
  BY <1>1 DEF SoundPanel
<1> QED
  BY <1>1, <1>2

-----------------------------------------------------------------------------
(* How the steps change the handlers *)

\* The table as it may be after a step.
GoodTable(rows, later) ==
    /\ Grown(rows, later)
    /\ DOMAIN later \subseteq OrderIds
    /\ later \in [DOMAIN later -> Row]

\* The part of the invariant that is about handlers.
SoundCalls ==
    /\ call \in [Calls -> CallType \cup {NoCall}]
    /\ \A c \in Calls : SoundCall(orders, call[c])

\* One handler moves, and the table may grow: the invariant needs to be looked
\* at for that handler alone.
LEMMA OneCallMoves ==
    ASSUME PageInv, GoodTable(orders, orders'),
           NEW c \in Calls, NEW new \in CallType \cup {NoCall},
           call' = [call EXCEPT ![c] = new], SoundCall(orders', new)
    PROVE  SoundCalls'
<1>1. /\ \A o \in DOMAIN orders : orders[o] \in Row
      /\ \A o \in DOMAIN orders' : orders'[o] \in Row
      /\ Grown(orders, orders')
  BY DEF PageInv, PageTypeOK, GoodTable
<1>2. \A x : SoundCall(orders, x) => SoundCall(orders', x)
  BY <1>1, SoundCallKept
<1> QED
  BY <1>2 DEF PageInv, PageTypeOK, SoundCalls

\* No handler moves, and the table may grow.
LEMMA NoCallMoves ==
    ASSUME PageInv, GoodTable(orders, orders'), UNCHANGED call
    PROVE  SoundCalls'
<1>1. /\ \A o \in DOMAIN orders : orders[o] \in Row
      /\ \A o \in DOMAIN orders' : orders'[o] \in Row
      /\ Grown(orders, orders')
  BY DEF PageInv, PageTypeOK, GoodTable
<1>2. \A x : SoundCall(orders, x) => SoundCall(orders', x)
  BY <1>1, SoundCallKept
<1> QED
  BY <1>2 DEF PageInv, PageTypeOK, SoundCalls

\* The panel stays as sound as it was while the table grows.
LEMMA PanelKept ==
    ASSUME PageInv, GoodTable(orders, orders'), UNCHANGED panel
    PROVE  SoundPanel(orders', panel')
<1>1. /\ \A o \in DOMAIN orders : orders[o] \in Row
      /\ \A o \in DOMAIN orders' : orders'[o] \in Row
      /\ Grown(orders, orders')
  BY DEF PageInv, PageTypeOK, GoodTable
<1>2. \A o, copy : SoundCopy(orders, o, copy) => SoundCopy(orders', o, copy)
  BY <1>1, SoundCopyKept
<1> QED
  BY <1>2 DEF PageInv, SoundPanel

\* A table that stays is good.
LEMMA SameTable ==
    ASSUME PageInv, UNCHANGED orders
    PROVE  GoodTable(orders, orders')
BY GrownSame DEF PageInv, PageTypeOK, GoodTable

\* What the browser makes of handlers when it leaves the page, or of one of
\* them when its fetch fails, is sound.
LEMMA AbandonedIsSound ==
    ASSUME NEW x \in CallType \cup {NoCall}, SoundCall(orders, x)
    PROVE  /\ Abandoned(x) \in CallType \cup {NoCall}
           /\ SoundCall(orders, Abandoned(x))
<1>1. CASE x.at = "post" /\ x.net \in {"sent", "orphan"}
  <2>1. x \in CallType
    BY <1>1 DEF NoCall
  <2> DEFINE y == [x EXCEPT !.net = "orphan"]
  <2>2. y \in CallType
    BY <2>1 DEF CallType
  <2>3. y.at = x.at /\ y.net = "orphan" /\ y.job = x.job /\ y.seen = x.seen /\ y.id = x.id
       /\ y.key = x.key /\ y.form = x.form
    BY <2>1 DEF CallType
  <2>4. SoundCall(orders, y)
    BY <1>1, <2>3 DEF SoundCall
  <2> QED
    BY <1>1, <2>2, <2>4 DEF Abandoned
<1>2. CASE ~ (x.at = "post" /\ x.net \in {"sent", "orphan"})
  BY <1>2, NoCallIsSound DEF Abandoned
<1> QED
  BY <1>1, <1>2

LEMMA AbandonIsSound ==
    ASSUME PageInv, NEW c \in Calls, Abandon(c), UNCHANGED orders
    PROVE  SoundCalls'
<1>1. call[c] \in CallType \cup {NoCall} /\ SoundCall(orders, call[c])
  BY DEF PageInv, PageTypeOK
<1>2. Abandoned(call[c]) \in CallType \cup {NoCall} /\ SoundCall(orders, Abandoned(call[c]))
  BY <1>1, AbandonedIsSound
<1>3. call' = [call EXCEPT ![c] = Abandoned(call[c])]
  BY DEF Abandon
<1> QED
  BY <1>2, <1>3, SameTable, OneCallMoves

LEMMA EndIsSound ==
    ASSUME PageInv, NEW c \in Calls, End(c), UNCHANGED orders
    PROVE  SoundCalls'
BY NoCallIsSound, SameTable, OneCallMoves DEF End

\* A click starts a handler that asks for something in order.
LEMMA StartIsSound ==
    ASSUME PageInv, NEW c \in Calls, NEW new \in CallType, Start(c, new),
           SoundCall(orders, new), UNCHANGED orders
    PROVE  SoundCalls'
BY SameTable, OneCallMoves DEF Start

\* fetchAndAdd of an order that exists: the one an edit was about, or any
\* other if the handler is not an edit.
LEMMA FetchIsSound ==
    ASSUME PageInv, NEW c \in Calls, NEW o \in DOMAIN orders, Fetch(c, o),
           call[c] # NoCall, Editing(c) => call[c].id = o, UNCHANGED orders
    PROVE  SoundCalls'
<1> DEFINE x == call[c]
           y == [x EXCEPT !.at = "get", !.net = "sent", !.id = o, !.reply = NoReply]
           z == IF token THEN y ELSE NoCall
<1>1. x \in CallType /\ o \in OrderIds /\ SoundCall(orders, x)
  BY DEF PageInv, PageTypeOK
<1>2. y \in CallType
  BY <1>1 DEF CallType
<1>3. y.at = "get" /\ y.net = "sent" /\ y.id = o /\ y.job = x.job /\ y.seen = x.seen
      /\ y.key = x.key /\ y.form = x.form
  BY <1>1 DEF CallType
<1>4. SoundCall(orders, y)
  BY <1>1, <1>3 DEF SoundCall, Editing
<1>5. z \in CallType \cup {NoCall} /\ SoundCall(orders, z)
  BY <1>2, <1>4, NoCallIsSound
<1>6. call' = [call EXCEPT ![c] = z]
  BY DEF Fetch
<1> HIDE DEF z
<1> QED
  BY <1>5, <1>6, SameTable, OneCallMoves

\* The handler after its answer.
Answered(x, reply) == [x EXCEPT !.net = "answered", !.reply = reply]

LEMMA AnsweredFields ==
    ASSUME NEW x \in CallType, NEW reply \in Reply
    PROVE  LET y == Answered(x, reply)
           IN  /\ y \in CallType /\ y.net = "answered" /\ y.reply = reply
               /\ y.job = x.job /\ y.at = x.at /\ y.id = x.id /\ y.seen = x.seen
               /\ y.key = x.key /\ y.form = x.form
BY DEF Answered, CallType

\* An answer that says of the table what is so.
LEMMA AnswerIsSound ==
    ASSUME PageInv, GoodTable(orders, orders'), NEW c \in Calls, NEW reply \in Reply,
           call[c] \in CallType, Answer(c, reply),
           SoundCall(orders', Answered(call[c], reply))
    PROVE  SoundCalls'
<1> DEFINE new == IF call[c].net = "orphan" THEN NoCall ELSE Answered(call[c], reply)
<1>1. new \in CallType \cup {NoCall} /\ SoundCall(orders', new)
  BY AnsweredFields, NoCallIsSound
<1>2. call' = [call EXCEPT ![c] = new]
  BY DEF Answer, Answered
<1> HIDE DEF new
<1> QED
  BY <1>1, <1>2, OneCallMoves

\* An answer without an order: a refusal or a conflict.
LEMMA ErrorIsSound ==
    ASSUME PageInv, GoodTable(orders, orders'), NEW c \in Calls,
           NEW reply \in {Refusal, Conflict},
           call[c] \in CallType, call[c].at = "post", Answer(c, reply)
    PROVE  SoundCalls'
<1>1. reply \in Reply /\ reply.code # "ok"
  BY DEF Refusal, Conflict, NoReply, Reply
<1> DEFINE y == Answered(call[c], reply)
<1>2. /\ y.reply = reply /\ y.at = "post" /\ y.job = call[c].job /\ y.id = call[c].id
      /\ y.seen = call[c].seen /\ y.key = call[c].key /\ y.form = call[c].form
  BY <1>1, AnsweredFields
<1>3. SoundCall(orders, call[c])
  BY DEF PageInv
<1>4. SoundCall(orders', call[c])
  BY <1>3, SoundCallKept DEF PageInv, PageTypeOK, GoodTable
<1>5. SoundCall(orders', y)
  BY <1>1, <1>2, <1>4 DEF SoundCall
<1> QED
  BY <1>1, <1>5, AnswerIsSound

-----------------------------------------------------------------------------
(* Each step preserves the invariant *)

\* What remains of the invariant besides the handlers, the panel and the table.
Simple ==
    /\ placedFor \in [DOMAIN orders -> Nat]
    /\ token \in BOOLEAN /\ open \in BOOLEAN
    /\ settled \in BOOLEAN /\ overlapped \in BOOLEAN
    /\ field \in Nat \cup {NoKey}
    /\ made \in Nat /\ wish \in Nat
    /\ feedback \in {"none", "accepted", "error"}
    /\ told \subseteq OrderIds

SoundPage == /\ DOMAIN panel \subseteq OrderIds
             /\ panel \in [DOMAIN panel -> Row]
             /\ SoundPanel(orders, panel)

\* The parts make the whole.
LEMMA PartsOfInv ==
    ASSUME GoodTable(orders, orders'), SoundCalls', SoundPage', Simple'
    PROVE  PageInv'
BY DEF PageInv, PageTypeOK, GoodTable, SoundCalls, SoundPage, Simple

LEMMA InvHasParts == PageInv => SoundCalls /\ SoundPage /\ Simple
BY DEF PageInv, PageTypeOK, SoundCalls, SoundPage, Simple

\* The panel is left alone.
LEMMA PageKept ==
    ASSUME PageInv, GoodTable(orders, orders'), UNCHANGED panel
    PROVE  SoundPage'
BY PanelKept DEF SoundPage, PageInv, PageTypeOK

\* A sound copy is put into the panel.
LEMMA PagePut ==
    ASSUME PageInv, NEW o, NEW copy, SoundCopy(orders, o, copy),
           panel' = Put(panel, o, copy), UNCHANGED orders
    PROVE  SoundPage'
<1>1. o \in OrderIds /\ copy \in Row
  BY DEF SoundCopy, PageInv, PageTypeOK
<1> QED
  BY <1>1, PutSound DEF SoundPage, PageInv, PageTypeOK

\* The empty panel of a page that is left.
LEMMA PageLeft ==
    ASSUME PageInv, LeavePage, token' \in BOOLEAN
    PROVE  PageInv'
<1>1. UNCHANGED orders
  BY DEF LeavePage, service
<1>2. SoundCalls'
  <2>1. \A c \in Calls : call[c] \in CallType \cup {NoCall} /\ SoundCall(orders, call[c])
    BY DEF PageInv, PageTypeOK
  <2>2. \A c \in Calls : /\ Abandoned(call[c]) \in CallType \cup {NoCall}
                         /\ SoundCall(orders, Abandoned(call[c]))
    BY <2>1, AbandonedIsSound
  <2> QED
    BY <1>1, <2>2 DEF LeavePage, SoundCalls
<1>3. SoundPage'
  BY <1>1 DEF LeavePage, SoundPage, SoundPanel
<1>4. Simple'
  BY DEF LeavePage, Simple, PageInv, PageTypeOK, service
<1> QED
  BY <1>1, <1>2, <1>3, <1>4, SameTable, PartsOfInv

\* The blank record every handler starts from.
LEMMA BlankFields ==
    /\ Blank \in CallType
    /\ Blank.job = "refresh" /\ Blank.at = "get" /\ Blank.net = "sent"
BY DEF Blank, CallType

\* The session and the form.
LEMMA FormSteps ==
    ASSUME PageInv,
           LogoutElsewhere \/ Login \/ GenerateKey
    PROVE  PageInv'
<1>1. UNCHANGED <<orders, panel, call, placedFor>>
  BY DEF LogoutElsewhere, Login, GenerateKey, service
<1>2. GoodTable(orders, orders')
  BY <1>1, SameTable
<1>3. Simple'
  <2>1. CASE LogoutElsewhere
    BY <1>1, <2>1 DEF LogoutElsewhere, Simple, PageInv, PageTypeOK, formVars, userVars
  <2>2. CASE Login
    BY <1>1, <2>2 DEF Login, Simple, PageInv, PageTypeOK, formVars, userVars
  <2>3. CASE GenerateKey
    <3>1. UNCHANGED <<token, open, feedback, told, wish, overlapped>>
      BY <2>3 DEF GenerateKey, session
    <3>2. field' = made + 1 /\ made' = made + 1 /\ settled' = TRUE
      BY <2>3 DEF GenerateKey
    <3> QED
      BY <1>1, <3>1, <3>2 DEF Simple, PageInv, PageTypeOK
  <2> QED
    BY <2>1, <2>2, <2>3
<1> QED
  BY <1>1, <1>2, <1>3, NoCallMoves, PageKept, PartsOfInv

LEMMA SubmitStep ==
    ASSUME PageInv, NEW c \in Calls, NEW form \in Forms, Submit(c, form)
    PROVE  PageInv'
<1> DEFINE key == IF field = NoKey THEN made + 1 ELSE field
           w   == IF settled THEN wish + 1 ELSE wish
           new == [Blank EXCEPT !.job = "submit", !.at = "post", !.key = key,
                                !.form = form, !.wish = w]
<1>1. UNCHANGED <<orders, placedFor, panel, token, open, told>>
  BY DEF Submit, service, session
<1>2. key \in Nat /\ w \in Nat
  BY DEF PageInv, PageTypeOK
<1>3. /\ new.job = "submit" /\ new.at = "post" /\ new.net = "sent"
      /\ new.key = key /\ new.form = form
  BY BlankFields DEF CallType
<1>4. new \in CallType
  <2> HIDE DEF key, w
  <2> QED
    BY <1>2, BlankFields DEF CallType
<1>5. SoundCall(orders, new)
  <2> HIDE DEF new, key
  <2> QED
    BY <1>2, <1>3 DEF SoundCall
<1>6. Start(c, new)
  BY DEF Submit
<1>7. SoundCalls'
  <2> HIDE DEF new
  <2> QED
    BY <1>1, <1>4, <1>5, <1>6, StartIsSound
<1>8. Simple'
  <2>1. /\ field' = key /\ feedback' = "none" /\ wish' = w
        /\ made' \in {made, made + 1}
        /\ settled' = FALSE
    BY DEF Submit
  <2>2. overlapped' \in BOOLEAN
    BY Zenon DEF Submit
  <2>3. settled' \in BOOLEAN
    BY <2>1
  <2> HIDE DEF key, w
  <2>4. /\ field' \in Nat \cup {NoKey} /\ made' \in Nat /\ wish' \in Nat
        /\ feedback' \in {"none", "accepted", "error"}
    BY <1>2, <2>1 DEF PageInv, PageTypeOK
  <2>5. /\ placedFor' \in [DOMAIN orders' -> Nat] /\ told' \subseteq OrderIds
        /\ token' \in BOOLEAN /\ open' \in BOOLEAN
    BY <1>1 DEF PageInv, PageTypeOK
  <2> QED
    BY <2>2, <2>3, <2>4, <2>5 DEF Simple
<1> QED
  BY <1>1, <1>7, <1>8, SameTable, PageKept, PartsOfInv

\* A click on an order of the panel.
LEMMA ClickStep ==
    ASSUME PageInv, NEW c \in Calls, NEW o, NEW new,
           new \in {Blank, [Blank EXCEPT !.job = "cancel", !.at = "post"]}
             \cup {[Blank EXCEPT !.job = "modify", !.at = "post", !.form = f] : f \in Forms},
           Click(c, o, new)
    PROVE  PageInv'
<1> DEFINE started == [new EXCEPT !.id = o, !.seen = panel[o]]
<1>1. /\ UNCHANGED <<orders, placedFor, panel, token, open, told, field, made, feedback,
                     wish, settled, overlapped>>
      /\ o \in DOMAIN panel
      /\ Start(c, started)
  BY DEF Click, service, session, formVars, userVars
<1>2. SoundCopy(orders, o, panel[o]) /\ o \in OrderIds /\ panel[o] \in Row /\ o \in DOMAIN orders
  BY <1>1 DEF PageInv, SoundPanel, SoundCopy, PageTypeOK
<1>3. new \in CallType /\ new.net = "sent" /\ new.job # "submit"
          /\ (new.job = "modify" => new.form \in Forms)
  <2>1. CASE new = Blank
    BY <2>1, BlankFields
  <2>2. CASE new = [Blank EXCEPT !.job = "cancel", !.at = "post"]
    BY <2>2, BlankFields DEF CallType
  <2>3. ASSUME NEW f \in Forms, new = [Blank EXCEPT !.job = "modify", !.at = "post", !.form = f]
        PROVE  new \in CallType /\ new.net = "sent" /\ new.job # "submit"
          /\ (new.job = "modify" => new.form \in Forms)
    BY <2>3, BlankFields DEF CallType
  <2> QED
    BY <2>1, <2>2, <2>3
<1>4. /\ started \in CallType
      /\ started.id = o /\ started.seen = panel[o] /\ started.net = "sent"
      /\ started.job # "submit" /\ started.form = new.form /\ started.job = new.job
  BY <1>2, <1>3 DEF CallType
<1>5. SoundCall(orders, started)
  <2> HIDE DEF started
  <2> QED
    BY <1>2, <1>3, <1>4 DEF SoundCall
<1>6. SoundCalls'
  <2> HIDE DEF started
  <2> QED
    BY <1>1, <1>4, <1>5, StartIsSound
<1>7. Simple'
  BY <1>1 DEF Simple, PageInv, PageTypeOK
<1> QED
  BY <1>1, <1>6, <1>7, SameTable, PageKept, PartsOfInv

LEMMA UserSteps ==
    ASSUME PageInv, NEW c \in Calls, UserStep(c)
    PROVE  PageInv'
BY SubmitStep, ClickStep DEF UserStep, Refresh, CancelOrder, ModifyOrder

\* Handlers whose fetch was answered or failed.
LEMMA SubmitAcceptedStep ==
    ASSUME PageInv, NEW c \in Calls, SubmitAccepted(c)
    PROVE  PageInv'
<1> DEFINE x == call[c]
<1>1. /\ x.job = "submit" /\ x.at = "post" /\ x.net = "answered" /\ x.reply.code = "ok"
      /\ Fetch(c, x.reply.id)
      /\ UNCHANGED <<orders, placedFor, panel, token, open, told, made, wish, overlapped>>
  BY DEF SubmitAccepted, Submitting, Awaits, service, session
<1>2. x.reply.id \in DOMAIN orders
  BY <1>1 DEF PageInv, SoundCall
<1>3. x # NoCall /\ ~ Editing(c)
  BY <1>1 DEF NoCall, Editing
<1>4. SoundCalls'
  BY <1>1, <1>2, <1>3, FetchIsSound
<1>5. Simple'
  BY <1>1 DEF SubmitAccepted, Simple, PageInv, PageTypeOK
<1> QED
  BY <1>1, <1>4, <1>5, SameTable, PageKept, PartsOfInv

LEMMA FailSteps ==
    ASSUME PageInv, NEW c \in Calls, SubmitFailed(c) \/ EditFailed(c)
    PROVE  PageInv'
<1>1. /\ Abandon(c)
      /\ UNCHANGED <<orders, placedFor, panel, token, open, told, field, made,
                     wish, settled, overlapped>>
  BY DEF SubmitFailed, EditFailed, service, session, formVars, userVars
<1>2. Simple'
  BY <1>1 DEF SubmitFailed, EditFailed, formVars, Simple, PageInv, PageTypeOK
<1> QED
  BY <1>1, <1>2, AbandonIsSound, SameTable, PageKept, PartsOfInv

LEMMA EndSteps ==
    ASSUME PageInv, NEW c \in Calls,
           FinishSubmit(c) \/ EditAccepted(c) \/ Fetched(c) \/ FetchFailed(c)
    PROVE  PageInv'
<1> DEFINE x == call[c]
<1>1. /\ End(c)
      /\ UNCHANGED <<orders, placedFor, token, open, told, made, feedback,
                     wish, settled, overlapped>>
      /\ field' \in {field, NoKey}
  BY DEF FinishSubmit, EditAccepted, Fetched, FetchFailed, service, session, formVars, userVars
<1>2. SoundCall(orders, x)
  BY DEF PageInv
<1>3. SoundPage'
  <2>1. CASE UNCHANGED panel
    BY <2>1, <1>1, SameTable, PageKept
  <2>2. CASE /\ x.at = "get" /\ x.net = "answered"
             /\ panel' = Put(panel, x.id, x.reply.row)
    BY <2>2, <1>1, <1>2, PagePut DEF SoundCall
  <2>3. CASE EditAccepted(c)
    <3>1. SoundCopy(orders, x.id, Merged(x)) /\ panel' = Put(panel, x.id, Merged(x))
      BY <2>3, <1>2 DEF SoundCall, EditAccepted, Editing, Awaits
    <3> QED
      BY <3>1, <1>1, PagePut
  <2> QED
    BY <2>1, <2>2, <2>3 DEF FinishSubmit, Fetched, FetchFailed, Awaits
<1>4. Simple'
  BY <1>1 DEF Simple, PageInv, PageTypeOK
<1> QED
  BY <1>1, <1>3, <1>4, EndIsSound, SameTable, PartsOfInv

LEMMA EditConflictStep ==
    ASSUME PageInv, NEW c \in Calls, EditConflict(c)
    PROVE  PageInv'
<1>1. /\ Editing(c) /\ Fetch(c, call[c].id)
      /\ UNCHANGED <<orders, placedFor, panel, token, open, told, field, made, feedback,
                     wish, settled, overlapped>>
  BY DEF EditConflict, service, session, formVars, userVars
<1>2. call[c].id \in DOMAIN orders /\ call[c] # NoCall
  BY <1>1 DEF Editing, PageInv, SoundCall, SoundCopy, NoCall
<1>3. SoundCalls'
  BY <1>1, <1>2, FetchIsSound
<1>4. Simple'
  BY <1>1 DEF Simple, PageInv, PageTypeOK
<1> QED
  BY <1>1, <1>3, <1>4, SameTable, PageKept, PartsOfInv

LEMMA TradeStep ==
    ASSUME PageInv, NEW c \in Calls, NEW o \in OrderIds, TradeReceived(c, o)
    PROVE  PageInv'
<1>1. UNCHANGED <<orders, placedFor, panel, call, token, open, field, made, feedback,
                  wish, settled, overlapped>>
  BY DEF TradeReceived, PanelReachable, service, session, formVars, userVars
<1>2. Simple'
  BY <1>1 DEF TradeReceived, Simple, PageInv, PageTypeOK
<1> QED
  BY <1>1, <1>2, NoCallMoves, SameTable, PageKept, PartsOfInv
-----------------------------------------------------------------------------
(* The server's steps *)

\* An order put into a free place of the table.
LEMMA PlacedTable ==
    ASSUME PageInv, NEW o \in OrderIds \ DOMAIN orders, NEW row \in Row,
           orders' = Put(orders, o, row)
    PROVE  GoodTable(orders, orders')
BY DEF PageInv, PageTypeOK, GoodTable, Grown, Put

\* A row replaced by one of a later version.
LEMMA EditedTable ==
    ASSUME PageInv, NEW o \in DOMAIN orders, NEW row \in Row,
           row.lock_version > orders[o].lock_version,
           orders' = [orders EXCEPT ![o] = row]
    PROVE  GoodTable(orders, orders')
BY DEF PageInv, PageTypeOK, GoodTable, Grown

\* The wishes of orders, and what no server step touches.
LEMMA ServerSimple ==
    ASSUME PageInv, placedFor' \in [DOMAIN orders' -> Nat],
           UNCHANGED <<session, formVars, userVars, told>>
    PROVE  Simple'
BY DEF session, formVars, userVars, Simple, PageInv, PageTypeOK

\* The answer to a create that made or found an order.
LEMMA CreateAnswered ==
    ASSUME PageInv, GoodTable(orders, orders'), NEW c \in Calls, NEW o \in DOMAIN orders',
           Submitting(c), Arrives(c, "post"), Answer(c, Replies(o, NoRow))
    PROVE  SoundCalls'
<1> DEFINE reply == Replies(o, NoRow)
           y == Answered(call[c], reply)
<1>1. o \in OrderIds
  BY DEF GoodTable
<1>2. reply \in Reply /\ reply.id = o
  BY <1>1 DEF Replies, Reply
<1>3. call[c] \in CallType
  BY DEF Submitting, NoCall, PageInv, PageTypeOK
<1>4. /\ y.at = "post" /\ y.job = "submit" /\ y.reply = reply
      /\ y.key = call[c].key /\ y.form = call[c].form
  BY <1>2, <1>3, AnsweredFields DEF Submitting, Arrives
<1>5. SoundCall(orders', y)
  <2>1. SoundCall(orders, call[c])
    BY DEF PageInv
  <2> HIDE DEF y, reply
  <2> QED
    BY <1>2, <1>4, <2>1 DEF SoundCall, Submitting
<1> QED
  BY <1>2, <1>3, <1>5, AnswerIsSound

LEMMA ServeCreateStep ==
    ASSUME PageInv, NEW c \in Calls, ServeCreate(c)
    PROVE  PageInv'
<1> DEFINE x == call[c]
<1>1. /\ Submitting(c) /\ Arrives(c, "post")
      /\ UNCHANGED <<session, formVars, userVars, panel, told>>
  BY DEF ServeCreate
<1>2. x \in CallType /\ x.at = "post"
  BY <1>1 DEF Submitting, Arrives, NoCall, PageInv, PageTypeOK
<1>3. CASE Answer(c, Refusal) /\ UNCHANGED service
  <2>1. UNCHANGED <<orders, placedFor>> /\ GoodTable(orders, orders')
    BY <1>3, SameTable DEF service
  <2>2. SoundCalls'
    BY <1>2, <1>3, <2>1, ErrorIsSound
  <2>3. placedFor' \in [DOMAIN orders' -> Nat]
    BY <2>1 DEF PageInv, PageTypeOK
  <2> QED
    BY <1>1, <2>1, <2>2, <2>3, PageKept, ServerSimple, PartsOfInv
<1>4. ASSUME NEW o \in KeyHolders(x.key), Answer(c, Replies(o, NoRow)), UNCHANGED service
      PROVE  PageInv'
  <2>1. UNCHANGED <<orders, placedFor>> /\ GoodTable(orders, orders')
    BY <1>4, SameTable DEF service
  <2>2. o \in DOMAIN orders'
    BY <2>1 DEF KeyHolders
  <2>3. SoundCalls'
    BY <1>1, <1>4, <2>1, <2>2, CreateAnswered
  <2>4. placedFor' \in [DOMAIN orders' -> Nat]
    BY <2>1 DEF PageInv, PageTypeOK
  <2> QED
    BY <1>1, <2>1, <2>3, <2>4, PageKept, ServerSimple, PartsOfInv
<1>5. ASSUME NEW o \in OrderIds \ DOMAIN orders, orders' = Put(orders, o, NewRow(x)),
             placedFor' = Put(placedFor, o, x.wish),
             Answer(c, Replies(o, NoRow))
      PROVE  PageInv'
  <2>1. NewRow(x) \in Row
    BY <1>1 DEF PageInv, SoundCall, Submitting, NewRow, Row, Statuses
  <2>2. GoodTable(orders, orders')
    BY <1>5, <2>1, PlacedTable
  <2>3. o \in DOMAIN orders'
    BY <1>5 DEF Put
  <2>4. SoundCalls'
    BY <1>1, <1>5, <2>2, <2>3, CreateAnswered
  <2>5. placedFor' \in [DOMAIN orders' -> Nat]
    BY <1>2, <1>5 DEF Put, CallType, PageInv, PageTypeOK
  <2> QED
    BY <1>1, <2>2, <2>4, <2>5, PageKept, ServerSimple, PartsOfInv
<1> QED
  BY <1>3, <1>4, <1>5 DEF ServeCreate

LEMMA ServeShowStep ==
    ASSUME PageInv, NEW c \in Calls, ServeShow(c)
    PROVE  PageInv'
<1> DEFINE x == call[c]
           row == orders[x.id]
           reply == Replies(x.id, row)
           y == Answered(x, reply)
<1>1. /\ x.at = "get" /\ x.id \in DOMAIN orders /\ Answer(c, reply)
      /\ UNCHANGED <<service, session, formVars, userVars, panel, told>>
      /\ UNCHANGED <<orders, placedFor>>
  BY DEF ServeShow, Arrives, service
<1>2. /\ x \in CallType /\ SoundCall(orders, x) /\ row \in Row /\ x.id \in OrderIds
      /\ row.lock_version \in Nat
  BY <1>1 DEF NoCall, PageInv, PageTypeOK, Row
<1>3. reply \in Reply /\ reply.row = row
  BY <1>2 DEF Replies, Reply
<1>4. /\ y.at = "get" /\ y.job = x.job /\ y.id = x.id /\ y.seen = x.seen /\ y.reply = reply
      /\ y.key = x.key /\ y.form = x.form
  BY <1>1, <1>2, <1>3, AnsweredFields
<1>5. SoundCopy(orders, x.id, row)
  BY <1>1, <1>2 DEF SoundCopy
<1>6. SoundCall(orders', y)
  <2> HIDE DEF y, reply, row
  <2> QED
    BY <1>1, <1>2, <1>3, <1>4, <1>5 DEF SoundCall
<1>7. SoundCalls'
  BY <1>1, <1>2, <1>3, <1>6, SameTable, AnswerIsSound
<1>8. placedFor' \in [DOMAIN orders' -> Nat]
  BY <1>1 DEF PageInv, PageTypeOK
<1> QED
  BY <1>1, <1>7, <1>8, SameTable, PageKept, ServerSimple, PartsOfInv

\* The row an accepted edit makes: of the next version, under the same key.
LEMMA EditedRow ==
    ASSUME PageInv, NEW c \in Calls, Editing(c), call[c].at = "post"
    PROVE  LET x == call[c]
           IN  /\ x \in CallType
               /\ x.id \in DOMAIN orders
               /\ SoundCopy(orders, x.id, x.seen)
               /\ Edited(x) \in Row
               /\ Edited(x).lock_version = orders[x.id].lock_version + 1
               /\ Edited(x).client_order_id = orders[x.id].client_order_id
               /\ Edited(x).account = orders[x.id].account
<1> DEFINE x == call[c]
<1>1. x \in CallType /\ SoundCall(orders, x)
  BY DEF Editing, NoCall, PageInv, PageTypeOK
<1>2. SoundCopy(orders, x.id, x.seen) /\ x.id \in DOMAIN orders
  BY <1>1 DEF SoundCall, SoundCopy, Editing
<1>3. orders[x.id] \in Row
  BY <1>2 DEF PageInv, PageTypeOK
<1> DEFINE row == [orders[x.id] EXCEPT !.lock_version = @ + 1]
<1>4. /\ row \in Row
      /\ row.lock_version = orders[x.id].lock_version + 1
      /\ row.client_order_id = orders[x.id].client_order_id
      /\ row.account = orders[x.id].account
  BY <1>3 DEF Row
<1> HIDE DEF row
<1>5. CASE x.job = "modify"
  <2>1. x.form \in Forms
    BY <1>1, <1>5 DEF SoundCall
  <2>2. Edited(x) = [row EXCEPT !.form = x.form]
    BY <1>5 DEF Edited, row
  <2> QED
    BY <1>1, <1>2, <1>4, <2>1, <2>2 DEF Row
<1>6. CASE x.job = "cancel"
  <2>1. Edited(x) = [row EXCEPT !.status = "cancelled"]
    BY <1>6 DEF Edited, row
  <2> QED
    BY <1>1, <1>2, <1>4, <2>1 DEF Row, Statuses
<1> QED
  BY <1>5, <1>6 DEF Editing

\* What the handler will make of the panel's entry is the row as edited: the
\* entry was the row, as the versions were the same.
LEMMA MergedIsEdited ==
    ASSUME PageInv, NEW c \in Calls, Editing(c), call[c].at = "post", SameVersion(call[c]),
           NEW y, y.job = call[c].job, y.seen = call[c].seen, y.reply.row = Edited(call[c])
    PROVE  Merged(y) = Edited(call[c])
<1> DEFINE x == call[c]
<1>1. x.seen = orders[x.id] /\ orders[x.id] \in Row
  BY EditedRow DEF SameVersion, SoundCopy
<1> DEFINE row == orders[x.id]
           n   == row.lock_version + 1
           E   == Edited(x)
<1>2. CASE x.job = "modify"
  <2>1. E = [[row EXCEPT !.lock_version = n] EXCEPT !.form = x.form]
    BY <1>2 DEF Edited
  <2>2. E.form = x.form /\ E.status = row.status /\ E.lock_version = n
    BY <1>1, <2>1 DEF Row
  <2>3. Merged(y) = [row EXCEPT !.form = E.form, !.status = E.status,
                                !.lock_version = E.lock_version]
    BY <1>1, <1>2 DEF Merged
  <2> QED
    BY <1>1, <2>1, <2>2, <2>3 DEF Row
<1>3. CASE x.job = "cancel"
  <2>1. E = [[row EXCEPT !.lock_version = n] EXCEPT !.status = "cancelled"]
    BY <1>3 DEF Edited
  <2>2. E.lock_version = n
    BY <1>1, <2>1 DEF Row
  <2>3. Merged(y) = [row EXCEPT !.status = "cancelled", !.lock_version = E.lock_version]
    BY <1>1, <1>3 DEF Merged
  <2> QED
    BY <1>1, <2>1, <2>2, <2>3 DEF Row
<1> QED
  BY <1>2, <1>3 DEF Editing

LEMMA ServeEditStep ==
    ASSUME PageInv, NEW c \in Calls, ServeEdit(c)
    PROVE  PageInv'
<1> DEFINE x == call[c]
<1>1. /\ Editing(c) /\ x.at = "post"
      /\ UNCHANGED <<placedFor, session, formVars, userVars, panel, told>>
  BY DEF ServeEdit, Arrives
<1>2. /\ x \in CallType /\ x.id \in DOMAIN orders /\ x.id \in OrderIds
      /\ Edited(x) \in Row
      /\ Edited(x).lock_version = orders[x.id].lock_version + 1
      /\ orders[x.id].lock_version \in Nat
  BY <1>1, EditedRow DEF PageInv, PageTypeOK, Row
<1>3. ASSUME NEW reply \in {Refusal, Conflict}, Answer(c, reply), UNCHANGED orders
      PROVE  PageInv'
  <2>1. SoundCalls'
    BY <1>1, <1>2, <1>3, SameTable, ErrorIsSound
  <2>2. placedFor' \in [DOMAIN orders' -> Nat]
    BY <1>1, <1>3 DEF PageInv, PageTypeOK
  <2> QED
    BY <1>1, <1>3, <2>1, <2>2, SameTable, PageKept, ServerSimple, PartsOfInv
<1>4. ASSUME SameVersion(x), orders' = [orders EXCEPT ![x.id] = Edited(x)],
             Answer(c, Replies(x.id, Edited(x)))
      PROVE  PageInv'
  <2> DEFINE reply == Replies(x.id, Edited(x))
             y == Answered(x, reply)
  <2>1. GoodTable(orders, orders')
    <3>1. Edited(x).lock_version > orders[x.id].lock_version
      BY <1>2
    <3> QED
      BY <1>2, <1>4, <3>1, EditedTable
  <2>2. reply \in Reply /\ reply.row = Edited(x)
    BY <1>2 DEF Replies, Reply
  <2>3. /\ y.at = "post" /\ y.job = x.job /\ y.id = x.id /\ y.seen = x.seen /\ y.reply = reply
        /\ y.key = x.key /\ y.form = x.form
    BY <1>1, <1>2, <2>2, AnsweredFields
  <2>4. Merged(y) = Edited(x)
    <3> HIDE DEF y, reply
    <3> QED
      BY <1>1, <1>4, <2>2, <2>3, MergedIsEdited
  <2>5. SoundCopy(orders', x.id, Edited(x))
    BY <1>2, <1>4, <2>1 DEF SoundCopy, GoodTable
  <2>6. SoundCall(orders', x)
    BY <2>1, SoundCallKept DEF PageInv, PageTypeOK, GoodTable
  <2>7. SoundCall(orders', y)
    <3> HIDE DEF y, reply
    <3> QED
      BY <1>1, <2>3, <2>4, <2>5, <2>6 DEF SoundCall, Editing
  <2>8. SoundCalls'
    BY <1>2, <1>4, <2>1, <2>2, <2>7, AnswerIsSound
  <2>9. placedFor' \in [DOMAIN orders' -> Nat]
    BY <1>1, <1>4 DEF PageInv, PageTypeOK
  <2> QED
    BY <1>1, <2>1, <2>8, <2>9, PageKept, ServerSimple, PartsOfInv
<1> QED
  BY <1>3, <1>4 DEF ServeEdit

\* The row another session or an engine makes: of a later version, under the same
\* key.
LEMMA ElsewhereRow ==
    ASSUME PageInv, NEW o, ChangedElsewhere(o)
    PROVE  \E row \in Row :
              /\ row.lock_version > orders[o].lock_version
              /\ row.client_order_id = orders[o].client_order_id
              /\ row.account = orders[o].account
              /\ orders' = [orders EXCEPT ![o] = row]
<1>1. /\ o \in DOMAIN orders
      /\ UNCHANGED <<placedFor, session, formVars, userVars, panel, call, told>>
  BY DEF ChangedElsewhere
<1>2. orders[o] \in Row
  BY <1>1 DEF PageInv, PageTypeOK
<1>3. ASSUME NEW s \in Statuses,
             orders' = [orders EXCEPT ![o].status = s, ![o].lock_version = @ + 1]
      PROVE  \E row \in Row :
              /\ row.lock_version > orders[o].lock_version
              /\ row.client_order_id = orders[o].client_order_id
              /\ row.account = orders[o].account
              /\ orders' = [orders EXCEPT ![o] = row]
  <2> DEFINE n    == orders[o].lock_version + 1
             next == [orders[o] EXCEPT !.lock_version = n]
             row  == [orders[o] EXCEPT !.status = s, !.lock_version = n]
  <2>1. next \in Row /\ next.lock_version > orders[o].lock_version
        /\ next.client_order_id = orders[o].client_order_id
        /\ next.account = orders[o].account
    BY <1>2 DEF Row
  <2>2. row = [next EXCEPT !.status = s]
    BY <1>2 DEF Row
  <2>3. row \in Row /\ row.lock_version > orders[o].lock_version
        /\ row.client_order_id = orders[o].client_order_id
        /\ row.account = orders[o].account
    <3> HIDE DEF next, row
    <3> QED
      BY <2>1, <2>2 DEF Row
  <2>4. orders' = [orders EXCEPT ![o] = row]
    BY <1>1, <1>2, <1>3 DEF Row
  <2> QED
    BY <2>3, <2>4
<1>4. ASSUME NEW f \in Forms,
             orders' = [orders EXCEPT ![o].form = f, ![o].lock_version = @ + 1]
      PROVE  \E row \in Row :
              /\ row.lock_version > orders[o].lock_version
              /\ row.client_order_id = orders[o].client_order_id
              /\ row.account = orders[o].account
              /\ orders' = [orders EXCEPT ![o] = row]
  <2> DEFINE n    == orders[o].lock_version + 1
             next == [orders[o] EXCEPT !.lock_version = n]
             row  == [orders[o] EXCEPT !.form = f, !.lock_version = n]
  <2>1. next \in Row /\ next.lock_version > orders[o].lock_version
        /\ next.client_order_id = orders[o].client_order_id
        /\ next.account = orders[o].account
    BY <1>2 DEF Row
  <2>2. row = [next EXCEPT !.form = f]
    BY <1>2 DEF Row
  <2>3. row \in Row /\ row.lock_version > orders[o].lock_version
        /\ row.client_order_id = orders[o].client_order_id
        /\ row.account = orders[o].account
    <3> HIDE DEF next, row
    <3> QED
      BY <2>1, <2>2 DEF Row
  <2>4. orders' = [orders EXCEPT ![o] = row]
    BY <1>1, <1>2, <1>4 DEF Row
  <2> QED
    BY <2>3, <2>4
<1> QED
  BY <1>3, <1>4 DEF ChangedElsewhere

LEMMA ChangedElsewhereStep ==
    ASSUME PageInv, NEW o, ChangedElsewhere(o)
    PROVE  PageInv'
<1>1. /\ o \in DOMAIN orders
      /\ UNCHANGED <<placedFor, session, formVars, userVars, panel, call, told>>
  BY DEF ChangedElsewhere
<1>2. PICK row \in Row : /\ row.lock_version > orders[o].lock_version
                         /\ orders' = [orders EXCEPT ![o] = row]
  BY ElsewhereRow
<1>3. GoodTable(orders, orders')
  BY <1>1, <1>2, EditedTable
<1>4. placedFor' \in [DOMAIN orders' -> Nat]
  BY <1>1, <1>2 DEF PageInv, PageTypeOK
<1> QED
  BY <1>1, <1>3, <1>4, NoCallMoves, PageKept, ServerSimple, PartsOfInv

-----------------------------------------------------------------------------
(* The theorems *)

LEMMA InitSound == PageInit => PageInv
<1> SUFFICES ASSUME PageInit PROVE PageInv
  OBVIOUS
<1>1. /\ orders = [o \in {} |-> 0] /\ panel = [o \in {} |-> NoRow]
      /\ placedFor = [o \in {} |-> 0]
      /\ call = [c \in Calls |-> NoCall]
  BY DEF PageInit, ServiceInit
<1>2. DOMAIN orders = {} /\ DOMAIN panel = {} /\ DOMAIN placedFor = {}
  BY <1>1
<1>3. \A c \in Calls : SoundCall(orders, call[c])
  BY <1>1, NoCallIsSound
<1>4. SoundPanel(orders, panel)
  BY <1>2 DEF SoundPanel
<1>5. PageTypeOK
  BY <1>1, <1>2 DEF PageTypeOK, PageInit
<1> QED
  BY <1>3, <1>4, <1>5 DEF PageInv

LEMMA StepSound == PageInv /\ [PageNext]_vars => PageInv'
<1> SUFFICES ASSUME PageInv, [PageNext]_vars PROVE PageInv'
  OBVIOUS
<1>1. CASE Logout \/ SubmitLoggedOut
  <2>1. LeavePage /\ token' \in BOOLEAN
    BY <1>1 DEF Logout, SubmitLoggedOut, PageInv, PageTypeOK
  <2> QED
    BY <2>1, PageLeft
<1>2. CASE LogoutElsewhere \/ Login \/ GenerateKey
  BY <1>2, FormSteps
<1>3. ASSUME NEW c \in Calls, UserStep(c) PROVE PageInv'
  BY <1>3, UserSteps
<1>4. ASSUME NEW c \in Calls, Progress(c) PROVE PageInv'
  BY <1>4, SubmitAcceptedStep, FailSteps, EndSteps, EditConflictStep, ServeCreateStep,
     ServeShowStep, ServeEditStep DEF Progress
<1>5. ASSUME NEW c \in Calls, NEW o \in OrderIds, TradeReceived(c, o) PROVE PageInv'
  BY <1>5, TradeStep
<1>6. ASSUME NEW o \in OrderIds, ChangedElsewhere(o) PROVE PageInv'
  BY <1>6, ChangedElsewhereStep
<1>7. CASE UNCHANGED vars
  <2>1. UNCHANGED <<orders, placedFor, panel, call, token, open, told, field, made, feedback,
                    wish, settled, overlapped>>
    BY <1>7 DEF vars, service, session, formVars, userVars
  <2>2. Simple'
    BY <2>1 DEF Simple, PageInv, PageTypeOK
  <2> QED
    BY <2>1, <2>2, SameTable, NoCallMoves, PageKept, PartsOfInv
<1> QED
  BY <1>1, <1>2, <1>3, <1>4, <1>5, <1>6, <1>7 DEF PageNext

LEMMA PageIsSound == PageSpec => []PageInv
BY InitSound, StepSound, PTL DEF PageSpec

\* Whatever handlers overlap and whatever their fetches come to, the panel
\* holds orders and every handler a well-formed call: no answer that is an error
\* or never came is read as an order.
THEOREM PageTypes == PageSpec => []PageTypeOK
<1>1. PageInv => PageTypeOK
  BY DEF PageInv
<1> QED
  BY <1>1, PageIsSound, PTL

\* What the panel shows of an order, and what handlers hold of it, is never
\* ahead of the table, and is the row whenever the versions agree.
THEOREM PanelIsSound == PageSpec => []PanelHolds
<1>1. \A o, copy : SoundCopy(orders, o, copy) => CopyOf(o, copy)
  BY DEF SoundCopy, CopyOf
<1>2. PageInv => PanelHolds
  BY <1>1 DEF PageInv, SoundPanel, SoundCall, PanelHolds, Editing, Awaits
<1> QED
  BY <1>2, PageIsSound, PTL

\* An edit that is accepted meets the order as it was shown when the user
\* clicked.
THEOREM EditsAreOfWhatWasShown == PageSpec => EditsMeetWhatWasShown
<1>1. ASSUME PageInv, NEW c \in Calls, ServeEdit(c), orders' # orders
      PROVE  orders[call[c].id] = call[c].seen
  <2>1. Editing(c) /\ call[c].at = "post" /\ SameVersion(call[c])
    BY <1>1 DEF ServeEdit, Arrives
  <2>2. SoundCopy(orders, call[c].id, call[c].seen)
    BY <1>1, <2>1, EditedRow
  <2> QED
    BY <2>1, <2>2 DEF SoundCopy, SameVersion
<1>2. PageInv => [\A c \in Calls : ServeEdit(c) /\ orders' # orders =>
                     orders[call[c].id] = call[c].seen]_vars
  BY <1>1
<1> QED
  BY <1>2, PageIsSound, PTL DEF EditsMeetWhatWasShown

-----------------------------------------------------------------------------
(* Keys and wishes *)

\* A request to place an order that the server may still see.
Pending(x) == x.job = "submit" /\ x.at = "post" /\ x.net \in {"sent", "orphan"}

\* A submission whose page waits for it.
Waited(x) == x.job = "submit" /\ x.net # "orphan"

\* Pairs of a key and a wish stay together, in requests and in the table.
Paired ==
    /\ \A c, d \in Calls : Pending(call[c]) /\ Pending(call[d]) =>
          (call[c].key = call[d].key <=> call[c].wish = call[d].wish)
    /\ \A c \in Calls, o \in DOMAIN orders : Pending(call[c]) =>
          (call[c].key = orders[o].client_order_id <=> call[c].wish = placedFor[o])
    /\ \A o, p \in DOMAIN orders : placedFor[o] = placedFor[p] => o = p
    /\ \A o, p \in DOMAIN orders :
          orders[o].client_order_id = orders[p].client_order_id => o = p

\* No key or wish of a request or an order is one still to come.
Known ==
    /\ field # NoKey => field <= made
    /\ \A c \in Calls : Pending(call[c]) => call[c].key <= made /\ call[c].wish <= wish
    /\ \A o \in DOMAIN orders : orders[o].client_order_id <= made /\ placedFor[o] <= wish

\* The key in the field has not been sent to the server.
Unused(k) ==
    /\ \A c \in Calls : Pending(call[c]) => call[c].key # k
    /\ \A o \in DOMAIN orders : orders[o].client_order_id # k

\* The field pairs with the wish while it is not settled, and holds an unused
\* key or none when it is, unless an accepted submission is about to clear it.
FieldPairs ==
    /\ ~ settled =>
          /\ field # NoKey
          /\ \A c \in Calls : Pending(call[c]) =>
                (call[c].key = field <=> call[c].wish = wish)
          /\ \A o \in DOMAIN orders :
                (orders[o].client_order_id = field <=> placedFor[o] = wish)
    /\ settled /\ field # NoKey =>
          \/ Unused(field)
          \/ \E c \in Calls : call[c].job = "submit" /\ call[c].at = "get"
    /\ \A c \in Calls : call[c].job = "submit" /\ call[c].at = "get" => settled

\* A fetch of an order is awaited by the page that made it, and the order an
\* accepted submission is answered with is the one meant.
Sane(placed, x) ==
    /\ x.at = "get" => x.net # "orphan"
    /\ x.job = "submit" /\ x.at = "post" /\ x.net = "answered" /\ x.reply.code = "ok"
       => x.reply.id \in DOMAIN placed /\ placed[x.reply.id] = x.wish

\* There is at most one submission the page waits for, and it is the latest.
Latest ==
    /\ \A c, d \in Calls : Waited(call[c]) /\ Waited(call[d]) => c = d
    /\ \A c \in Calls : Waited(call[c]) => call[c].wish = wish
    /\ \A c \in Calls : Sane(placedFor, call[c])

Accepted == feedback = "accepted" => \E o \in DOMAIN orders : placedFor[o] = wish

WishInv == ~ overlapped => Paired /\ Known /\ FieldPairs /\ Latest /\ Accepted

-----------------------------------------------------------------------------
(* How the handlers may change *)

\* As a submission, y is what is left of x.
Fades(x, y) ==
    /\ Pending(y) => Pending(x) /\ y.key = x.key /\ y.wish = x.wish
    /\ Waited(y) => Waited(x) /\ y.wish = x.wish
    /\ y.job = "submit" /\ y.at = "get" => x.job = "submit" /\ x.at = "get"

\* y awaits the fetch of an accepted order if x did.
StillFetches(x, y) ==
    x.job = "submit" /\ x.at = "get" => y.job = "submit" /\ y.at = "get"

\* The keys and wishes of the table stay.
TableKept ==
    /\ UNCHANGED placedFor
    /\ DOMAIN orders' = DOMAIN orders
    /\ \A o \in DOMAIN orders : orders'[o].client_order_id = orders[o].client_order_id

FormKept == UNCHANGED <<field, made, wish, settled, overlapped>>

LEMMA FadesSelf == \A x : Fades(x, x) /\ StillFetches(x, x)
BY DEF Fades, StillFetches

LEMMA NoCallFades == \A x : Fades(x, NoCall)
BY DEF Fades, NoCall, Pending, Waited

LEMMA NoCallIsSane == \A placed : Sane(placed, NoCall)
BY DEF Sane, NoCall

\* One handler moves.
LEMMA OneFades ==
    ASSUME PageInv, Latest, UNCHANGED placedFor, NEW c \in Calls, NEW new,
           call' = [call EXCEPT ![c] = new], Fades(call[c], new), Sane(placedFor, new)
    PROVE  /\ \A d \in Calls : Fades(call[d], call'[d]) /\ Sane(placedFor', call'[d])
           /\ StillFetches(call[c], new) =>
                 \A d \in Calls : StillFetches(call[d], call'[d])
<1>1. \A d \in Calls : call'[d] = IF d = c THEN new ELSE call[d]
  BY DEF PageInv, PageTypeOK
<1> QED
  BY <1>1, FadesSelf DEF Latest

\* Pairs outlast the requests they are found in.
LEMMA PairedFades ==
    ASSUME Paired, Known, TableKept, UNCHANGED <<made, wish>>,
           field' \in {field, NoKey},
           \A c \in Calls : Fades(call[c], call'[c])
    PROVE  Paired' /\ Known'
<1>1. Paired'
  BY DEF Paired, TableKept, Fades
<1>2. Known'
  BY DEF Known, TableKept, Fades
<1> QED
  BY <1>1, <1>2

LEMMA LatestFades ==
    ASSUME Latest, UNCHANGED wish,
           \A c \in Calls : Fades(call[c], call'[c]) /\ Sane(placedFor', call'[c])
    PROVE  Latest'
BY DEF Latest, Fades

\* A step in which requests only fade and the form stays.
LEMMA QuietStep ==
    ASSUME WishInv, TableKept, FormKept, feedback' = "accepted" => feedback = "accepted",
           ~ overlapped =>
              \A c \in Calls : /\ Fades(call[c], call'[c])
                               /\ Sane(placedFor', call'[c])
                               /\ StillFetches(call[c], call'[c])
    PROVE  WishInv'
<1> SUFFICES ASSUME ~ overlapped PROVE Paired' /\ Known' /\ FieldPairs' /\ Latest' /\ Accepted'
  BY DEF WishInv, FormKept
<1>1. Paired /\ Known /\ FieldPairs /\ Latest /\ Accepted
  BY DEF WishInv
<1>2. Paired' /\ Known' /\ Latest'
  BY <1>1, PairedFades, LatestFades DEF FormKept
<1>3. FieldPairs'
  <2>1. \A k : Unused(k) => Unused(k)'
    BY DEF Unused, Fades, TableKept
  <2>2. ~ settled' => (field # NoKey)' /\
           /\ \A c \in Calls : Pending(call'[c]) =>
                 (call'[c].key = field' <=> call'[c].wish = wish')
           /\ \A o \in DOMAIN orders' :
                 (orders'[o].client_order_id = field' <=> placedFor'[o] = wish')
    BY <1>1 DEF FieldPairs, FormKept, Fades, TableKept
  <2>3. settled' /\ field' # NoKey =>
           \/ Unused(field)'
           \/ \E c \in Calls : call'[c].job = "submit" /\ call'[c].at = "get"
    BY <1>1, <2>1 DEF FieldPairs, FormKept, StillFetches
  <2>4. \A c \in Calls : call'[c].job = "submit" /\ call'[c].at = "get" => settled'
    BY <1>1 DEF FieldPairs, FormKept, Fades
  <2> QED
    BY <2>2, <2>3, <2>4 DEF FieldPairs
<1>4. Accepted'
  BY <1>1 DEF Accepted, TableKept, FormKept
<1> QED
  BY <1>2, <1>3, <1>4

-----------------------------------------------------------------------------
(* The steps that leave the form alone *)

LEMMA SameTableKept ==
    ASSUME UNCHANGED <<orders, placedFor>>
    PROVE  TableKept
BY DEF TableKept

\* One handler moves on, in a step that leaves the form.
LEMMA QuietCall ==
    ASSUME PageInv, WishInv, TableKept, FormKept,
           feedback' = "accepted" => feedback = "accepted",
           NEW c \in Calls, NEW new, call' = [call EXCEPT ![c] = new],
           Fades(call[c], new),
           ~ overlapped => StillFetches(call[c], new) /\ Sane(placedFor, new)
    PROVE  WishInv'
<1>1. ~ overlapped =>
         \A d \in Calls : /\ Fades(call[d], call'[d])
                          /\ Sane(placedFor', call'[d])
                          /\ StillFetches(call[d], call'[d])
  BY OneFades DEF WishInv, TableKept
<1> QED
  BY <1>1, QuietStep

\* No handler moves.
LEMMA QuietForm ==
    ASSUME WishInv, TableKept, FormKept, UNCHANGED <<feedback, call>>
    PROVE  WishInv'
<1>1. ~ overlapped =>
         \A d \in Calls : /\ Fades(call[d], call'[d])
                          /\ Sane(placedFor', call'[d])
                          /\ StillFetches(call[d], call'[d])
  BY FadesSelf DEF WishInv, Latest, TableKept
<1> QED
  BY <1>1, QuietStep

LEMMA SessionWish ==
    ASSUME WishInv, LogoutElsewhere \/ Login \/ \E c \in Calls, o \in OrderIds : TradeReceived(c, o)
    PROVE  WishInv'
<1>1. UNCHANGED <<orders, placedFor, call, field, made, feedback, wish, settled, overlapped>>
  BY DEF LogoutElsewhere, Login, TradeReceived, PanelReachable, service, formVars, userVars
<1> QED
  BY <1>1, SameTableKept, QuietForm DEF FormKept

LEMMA ClickWish ==
    ASSUME PageInv, WishInv, NEW c \in Calls, NEW o, NEW new, Click(c, o, new),
           new \in CallType, new.job # "submit", new.net = "sent"
    PROVE  WishInv'
<1> DEFINE started == [new EXCEPT !.id = o, !.seen = panel[o]]
<1>1. /\ UNCHANGED <<orders, placedFor, field, made, feedback, wish, settled, overlapped>>
      /\ call[c] = NoCall /\ call' = [call EXCEPT ![c] = started]
  BY DEF Click, Start, service, formVars, userVars
<1>2. started.job # "submit" /\ started.net = "sent"
  BY DEF CallType
<1> HIDE DEF started
<1>3. Fades(call[c], started) /\ StillFetches(call[c], started)
  BY <1>1, <1>2 DEF Fades, StillFetches, Pending, Waited, NoCall
<1>4. Sane(placedFor, started)
  BY <1>2 DEF Sane
<1> QED
  BY <1>1, <1>3, <1>4, SameTableKept, QuietCall DEF FormKept

LEMMA PanelClicksWish ==
    ASSUME PageInv, WishInv, NEW c \in Calls, NEW o \in OrderIds,
           \/ Refresh(c, o) \/ CancelOrder(c, o)
           \/ \E f \in Forms : ModifyOrder(c, o, f)
    PROVE  WishInv'
<1>1. CASE Refresh(c, o)
  <2>1. Click(c, o, Blank)
    BY <1>1 DEF Refresh
  <2> QED
    BY <2>1, BlankFields, ClickWish
<1>2. CASE CancelOrder(c, o)
  <2> DEFINE new == [Blank EXCEPT !.job = "cancel", !.at = "post"]
  <2>1. Click(c, o, new)
    BY <1>2 DEF CancelOrder
  <2>2. new \in CallType /\ new.job # "submit" /\ new.net = "sent"
    BY BlankFields DEF CallType
  <2> HIDE DEF new
  <2> QED
    BY <2>1, <2>2, ClickWish
<1>3. ASSUME NEW f \in Forms, ModifyOrder(c, o, f)
      PROVE  WishInv'
  <2> DEFINE new == [Blank EXCEPT !.job = "modify", !.at = "post", !.form = f]
  <2>1. Click(c, o, new)
    BY <1>3 DEF ModifyOrder
  <2>2. new \in CallType /\ new.job # "submit" /\ new.net = "sent"
    BY BlankFields DEF CallType
  <2> HIDE DEF new
  <2> QED
    BY <2>1, <2>2, ClickWish
<1> QED
  BY <1>1, <1>2, <1>3

\* Edits and fetches of the panel end, or a submission fails.
LEMMA EndsWish ==
    ASSUME PageInv, WishInv, NEW c \in Calls,
           EditAccepted(c) \/ Fetched(c) \/ FetchFailed(c)
    PROVE  WishInv'
<1>1. /\ UNCHANGED <<orders, placedFor, field, made, feedback, wish, settled, overlapped>>
      /\ call' = [call EXCEPT ![c] = NoCall]
      /\ call[c].job # "submit"
  BY DEF EditAccepted, Fetched, FetchFailed, End, Editing, Submitting, service, formVars, userVars
<1>2. StillFetches(call[c], NoCall)
  BY <1>1 DEF StillFetches
<1> QED
  BY <1>1, <1>2, NoCallFades, NoCallIsSane, SameTableKept, QuietCall DEF FormKept

\* What is left of a call whose fetch failed or whose page was left.
LEMMA AbandonedFades ==
    ASSUME NEW x \in CallType \cup {NoCall}
    PROVE  /\ Fades(x, Abandoned(x))
           /\ \A placed : Sane(placed, Abandoned(x))
           /\ ~ Waited(Abandoned(x))
           /\ ~ (Abandoned(x).job = "submit" /\ Abandoned(x).at = "get")
<1>1. CASE x.at = "post" /\ x.net \in {"sent", "orphan"}
  <2> DEFINE y == [x EXCEPT !.net = "orphan"]
  <2>1. x \in CallType
    BY <1>1 DEF NoCall
  <2>2. /\ y.net = "orphan" /\ y.at = x.at /\ y.job = x.job /\ y.key = x.key
        /\ y.wish = x.wish
    BY <2>1 DEF CallType
  <2>3. Abandoned(x) = y
    BY <1>1 DEF Abandoned
  <2> HIDE DEF y
  <2> QED
    BY <1>1, <2>2, <2>3 DEF Fades, Sane, Pending, Waited
<1>2. CASE ~ (x.at = "post" /\ x.net \in {"sent", "orphan"})
  <2>1. Abandoned(x) = NoCall
    BY <1>2 DEF Abandoned
  <2>2. NoCall.job # "submit"
    BY DEF NoCall
  <2> QED
    BY <2>1, <2>2, NoCallFades, NoCallIsSane DEF Waited
<1> QED
  BY <1>1, <1>2

LEMMA FailWish ==
    ASSUME PageInv, WishInv, NEW c \in Calls, SubmitFailed(c) \/ EditFailed(c)
    PROVE  WishInv'
<1>1. /\ UNCHANGED <<orders, placedFor, field, made, wish, settled, overlapped>>
      /\ feedback' = "accepted" => feedback = "accepted"
      /\ call' = [call EXCEPT ![c] = Abandoned(call[c])]
      /\ call[c].at = "post"
  BY DEF SubmitFailed, EditFailed, Abandon, service, formVars, userVars
<1>2. call[c] \in CallType \cup {NoCall}
  BY DEF PageInv, PageTypeOK
<1>3. /\ Fades(call[c], Abandoned(call[c])) /\ StillFetches(call[c], Abandoned(call[c]))
      /\ Sane(placedFor, Abandoned(call[c]))
  BY <1>1, <1>2, AbandonedFades DEF StillFetches
<1> QED
  BY <1>1, <1>3, SameTableKept, QuietCall DEF FormKept

LEMMA EditConflictWish ==
    ASSUME PageInv, WishInv, NEW c \in Calls, EditConflict(c)
    PROVE  WishInv'
<1> DEFINE x == call[c]
           y == [x EXCEPT !.at = "get", !.net = "sent", !.id = x.id, !.reply = NoReply]
           new == IF token THEN y ELSE NoCall
<1>1. /\ UNCHANGED <<orders, placedFor, field, made, feedback, wish, settled, overlapped>>
      /\ x.job \in {"modify", "cancel"}
      /\ call' = [call EXCEPT ![c] = new]
  BY DEF EditConflict, Editing, Fetch, service, formVars, userVars
<1>2. x \in CallType
  BY <1>1 DEF PageInv, PageTypeOK, NoCall
<1>3. y.job = x.job /\ y.net = "sent"
  BY <1>2 DEF CallType
<1>4. Fades(x, y) /\ StillFetches(x, y) /\ Sane(placedFor, y)
  <2> HIDE DEF y
  <2> QED
    BY <1>1, <1>3 DEF Fades, StillFetches, Sane, Pending, Waited
<1>5. Fades(x, new) /\ StillFetches(x, new) /\ Sane(placedFor, new)
  BY <1>1, <1>4, NoCallFades, NoCallIsSane DEF StillFetches
<1> HIDE DEF new
<1> QED
  BY <1>1, <1>5, SameTableKept, QuietCall DEF FormKept

-----------------------------------------------------------------------------
(* The server's steps *)

\* An answer travels back: the request is not pending any more.
LEMMA AnswerFades ==
    ASSUME PageInv, NEW c \in Calls, call[c] \in CallType, NEW reply \in Reply, Answer(c, reply)
    PROVE  \E new :
              /\ call' = [call EXCEPT ![c] = new]
              /\ Fades(call[c], new) /\ ~ Pending(new)
              /\ call[c].net # "orphan" => StillFetches(call[c], new)
              /\ \A placed :
                    (call[c].job = "submit" /\ call[c].at = "post" /\ reply.code = "ok" =>
                        reply.id \in DOMAIN placed /\ placed[reply.id] = call[c].wish)
                    => Sane(placed, new)
<1> DEFINE x == call[c]
           y == Answered(x, reply)
           new == IF x.net = "orphan" THEN NoCall ELSE y
<1>1. /\ y.net = "answered" /\ y.reply = reply /\ y.job = x.job /\ y.at = x.at
      /\ y.key = x.key
  BY AnsweredFields
<1>2. y.wish = x.wish
  BY DEF Answered, CallType
<1>3. call' = [call EXCEPT ![c] = new]
  BY DEF Answer, Answered
<1>4. CASE x.net = "orphan"
  <2>1. new = NoCall /\ ~ Pending(NoCall)
    BY <1>4 DEF Pending, NoCall
  <2> HIDE DEF new
  <2> QED
    BY <1>3, <1>4, <2>1, NoCallFades, NoCallIsSane
<1>5. CASE x.net # "orphan"
  <2>1. new = y
    BY <1>5
  <2> HIDE DEF new, y
  <2>2. Fades(x, y) /\ ~ Pending(y) /\ StillFetches(x, y)
    BY <1>1, <1>2, <1>5 DEF Fades, StillFetches, Pending, Waited
  <2>3. \A placed :
           (x.job = "submit" /\ x.at = "post" /\ reply.code = "ok" =>
               reply.id \in DOMAIN placed /\ placed[reply.id] = x.wish)
           => Sane(placed, y)
    BY <1>1, <1>2 DEF Sane
  <2> QED
    BY <1>3, <2>1, <2>2, <2>3
<1> QED
  BY <1>4, <1>5

\* The table's keys stay, and a submission is answered with its own order.
LEMMA AnswerWish ==
    ASSUME PageInv, WishInv, TableKept, UNCHANGED <<formVars, userVars>>,
           NEW c \in Calls, NEW reply \in Reply, call[c] \in CallType, Answer(c, reply),
           ~ overlapped /\ call[c].job = "submit" /\ call[c].at = "post" /\ reply.code = "ok" =>
              reply.id \in DOMAIN placedFor /\ placedFor[reply.id] = call[c].wish
    PROVE  WishInv'
<1>1. PICK new :
         /\ call' = [call EXCEPT ![c] = new] /\ Fades(call[c], new)
         /\ call[c].net # "orphan" => StillFetches(call[c], new)
         /\ (call[c].job = "submit" /\ call[c].at = "post" /\ reply.code = "ok" =>
                reply.id \in DOMAIN placedFor /\ placedFor[reply.id] = call[c].wish)
            => Sane(placedFor, new)
  BY AnswerFades
<1>2. ~ overlapped => StillFetches(call[c], new)
  BY <1>1 DEF WishInv, Latest, Sane, StillFetches
<1>3. FormKept /\ (feedback' = "accepted" => feedback = "accepted")
  BY DEF FormKept, formVars, userVars
<1> QED
  BY <1>1, <1>2, <1>3, QuietCall

LEMMA ErrorWish ==
    ASSUME PageInv, WishInv, TableKept, UNCHANGED <<formVars, userVars>>,
           NEW c \in Calls, NEW reply \in {Refusal, Conflict}, call[c] \in CallType,
           Answer(c, reply)
    PROVE  WishInv'
<1>1. reply \in Reply /\ reply.code # "ok"
  BY DEF Refusal, Conflict, NoReply, Reply
<1> QED
  BY <1>1, AnswerWish

LEMMA ServeShowWish ==
    ASSUME PageInv, WishInv, NEW c \in Calls, ServeShow(c)
    PROVE  WishInv'
<1> DEFINE x == call[c]
           reply == Replies(x.id, orders[x.id])
<1>1. /\ x.at = "get" /\ x.id \in DOMAIN orders /\ Answer(c, reply)
      /\ UNCHANGED <<orders, placedFor>> /\ UNCHANGED <<formVars, userVars>>
  BY DEF ServeShow, Arrives, service
<1>2. x \in CallType /\ orders[x.id] \in Row /\ x.id \in OrderIds
  BY <1>1 DEF NoCall, PageInv, PageTypeOK
<1>3. reply \in Reply
  BY <1>2 DEF Replies, Reply
<1> QED
  BY <1>1, <1>2, <1>3, SameTableKept, AnswerWish

LEMMA ServeEditWish ==
    ASSUME PageInv, WishInv, NEW c \in Calls, ServeEdit(c)
    PROVE  WishInv'
<1> DEFINE x == call[c]
<1>1. /\ Editing(c) /\ x.at = "post" /\ UNCHANGED placedFor
      /\ UNCHANGED <<formVars, userVars>>
  BY DEF ServeEdit, Arrives
<1>2. /\ x \in CallType /\ x.id \in DOMAIN orders /\ x.id \in OrderIds
      /\ Edited(x) \in Row
      /\ Edited(x).client_order_id = orders[x.id].client_order_id
  BY <1>1, EditedRow DEF PageInv, PageTypeOK
<1>3. ASSUME NEW reply \in {Refusal, Conflict}, Answer(c, reply), UNCHANGED orders
      PROVE  WishInv'
  BY <1>1, <1>2, <1>3, SameTableKept, ErrorWish
<1>4. ASSUME orders' = [orders EXCEPT ![x.id] = Edited(x)], Answer(c, Replies(x.id, Edited(x)))
      PROVE  WishInv'
  <2>1. TableKept
    BY <1>1, <1>2, <1>4 DEF TableKept, PageInv, PageTypeOK
  <2>2. Replies(x.id, Edited(x)) \in Reply
    BY <1>2 DEF Replies, Reply
  <2>3. x.job # "submit"
    BY <1>1 DEF Editing
  <2> QED
    BY <1>1, <1>2, <1>4, <2>1, <2>2, <2>3, AnswerWish
<1> QED
  BY <1>3, <1>4 DEF ServeEdit

LEMMA ChangedElsewhereWish ==
    ASSUME PageInv, WishInv, NEW o, ChangedElsewhere(o)
    PROVE  WishInv'
<1>1. /\ o \in DOMAIN orders /\ orders[o] \in Row
      /\ UNCHANGED <<placedFor, call, field, made, feedback, wish, settled, overlapped>>
  BY DEF ChangedElsewhere, formVars, userVars, PageInv, PageTypeOK
<1>2. /\ DOMAIN orders' = DOMAIN orders
      /\ \A p \in DOMAIN orders : orders'[p].client_order_id = orders[p].client_order_id
  BY <1>1, ElsewhereRow
<1>3. TableKept
  BY <1>1, <1>2 DEF TableKept
<1> QED
  BY <1>1, <1>3, QuietForm DEF FormKept

\* A new order pairs its key with its wish, and no other order has either.
LEMMA PlaceWish ==
    ASSUME PageInv, WishInv, UNCHANGED <<formVars, userVars>>,
           NEW c \in Calls, Submitting(c), Arrives(c, "post"),
           NEW o \in OrderIds \ DOMAIN orders, KeyHolders(call[c].key) = {},
           orders' = Put(orders, o, NewRow(call[c])),
           placedFor' = Put(placedFor, o, call[c].wish),
           Answer(c, Replies(o, NoRow))
    PROVE  WishInv'
<1> DEFINE x == call[c]
<1>1. UNCHANGED <<field, made, feedback, wish, settled, overlapped>>
  BY DEF formVars, userVars
<1> SUFFICES ASSUME ~ overlapped
             PROVE  Paired' /\ Known' /\ FieldPairs' /\ Latest' /\ Accepted'
  BY <1>1 DEF WishInv
<1>2. Paired /\ Known /\ FieldPairs /\ Latest /\ Accepted
  BY DEF WishInv
<1>3. Pending(x) /\ x \in CallType /\ x.key \in Nat /\ x.wish \in Nat
  BY DEF Submitting, Arrives, Pending, NoCall, PageInv, PageTypeOK, SoundCall, CallType
<1>4. DOMAIN placedFor = DOMAIN orders
  BY DEF PageInv, PageTypeOK
<1>5. /\ DOMAIN orders' = DOMAIN orders \cup {o} /\ DOMAIN placedFor' = DOMAIN orders'
      /\ orders'[o].client_order_id = x.key /\ placedFor'[o] = x.wish
      /\ \A p \in DOMAIN orders : orders'[p] = orders[p] /\ placedFor'[p] = placedFor[p]
  BY <1>4 DEF Put, NewRow
<1>6. \A p \in DOMAIN orders : orders[p].client_order_id # x.key /\ placedFor[p] # x.wish
  BY <1>2, <1>3 DEF KeyHolders, Paired
<1>7. Replies(o, NoRow) \in Reply /\ Replies(o, NoRow).id = o
  BY DEF Replies, Reply
<1>8. PICK new :
         /\ call' = [call EXCEPT ![c] = new] /\ Fades(x, new) /\ ~ Pending(new)
         /\ x.net # "orphan" => StillFetches(x, new)
         /\ Sane(placedFor', new)
  BY <1>3, <1>5, <1>7, AnswerFades
<1>9. \A d \in Calls : call'[d] = IF d = c THEN new ELSE call[d]
  BY <1>8 DEF PageInv, PageTypeOK
<1>10. \A d \in Calls : Fades(call[d], call'[d]) /\ (Pending(call'[d]) => call'[d] = call[d])
  BY <1>8, <1>9, FadesSelf
<1>11. \A d \in Calls : StillFetches(call[d], call'[d])
  <2>1. StillFetches(x, new)
    BY <1>3 DEF StillFetches, Pending
  <2> QED
    BY <2>1, <1>9, FadesSelf
<1>12. Paired'
  <2>1. \A d, e \in Calls : Pending(call'[d]) /\ Pending(call'[e]) =>
           (call'[d].key = call'[e].key <=> call'[d].wish = call'[e].wish)
    BY <1>2, <1>10 DEF Paired
  <2>2. \A d \in Calls, p \in DOMAIN orders' : Pending(call'[d]) =>
           (call'[d].key = orders'[p].client_order_id <=> call'[d].wish = placedFor'[p])
    BY <1>2, <1>3, <1>5, <1>10 DEF Paired
  <2>3. \A p, q \in DOMAIN orders' : placedFor'[p] = placedFor'[q] => p = q
    BY <1>2, <1>5, <1>6 DEF Paired
  <2>4. \A p, q \in DOMAIN orders' :
           orders'[p].client_order_id = orders'[q].client_order_id => p = q
    BY <1>2, <1>5, <1>6 DEF Paired
  <2> QED
    BY <2>1, <2>2, <2>3, <2>4 DEF Paired
<1>13. Known'
  BY <1>1, <1>2, <1>3, <1>5, <1>10 DEF Known
<1>14. FieldPairs'
  <2>1. \A d \in Calls : Pending(call'[d]) =>
           call'[d].key = call[d].key /\ call'[d].wish = call[d].wish /\ Pending(call[d])
    BY <1>10 DEF Fades
  <2>2. Unused(field) => Unused(field)'
    BY <1>1, <1>3, <1>5, <2>1 DEF Unused
  <2>3. \A p \in DOMAIN orders' : ~ settled =>
           (orders'[p].client_order_id = field <=> placedFor'[p] = wish)
    BY <1>2, <1>3, <1>5 DEF FieldPairs
  <2>4. settled /\ field # NoKey =>
           \/ Unused(field)'
           \/ \E d \in Calls : call'[d].job = "submit" /\ call'[d].at = "get"
    BY <1>2, <1>11, <2>2 DEF FieldPairs, StillFetches
  <2>5. \A d \in Calls : call'[d].job = "submit" /\ call'[d].at = "get" => settled
    BY <1>2, <1>10 DEF FieldPairs, Fades
  <2> QED
    BY <1>1, <1>2, <2>1, <2>3, <2>4, <2>5 DEF FieldPairs
<1>15. Latest'
  <2>1. \A d \in Calls : Sane(placedFor', call[d])
    BY <1>2, <1>4, <1>5 DEF Latest, Sane
  <2>2. \A d \in Calls : Sane(placedFor', call'[d])
    BY <1>8, <1>9, <2>1
  <2> QED
    BY <1>1, <1>2, <1>10, <2>2, LatestFades
<1>16. Accepted'
  BY <1>1, <1>2, <1>5 DEF Accepted
<1> QED
  BY <1>12, <1>13, <1>14, <1>15, <1>16

LEMMA ServeCreateWish ==
    ASSUME PageInv, WishInv, NEW c \in Calls, ServeCreate(c)
    PROVE  WishInv'
<1> DEFINE x == call[c]
<1>1. /\ Submitting(c) /\ Arrives(c, "post") /\ UNCHANGED <<formVars, userVars>>
  BY DEF ServeCreate
<1>2. x \in CallType /\ Pending(x)
  BY <1>1 DEF Submitting, Arrives, Pending, NoCall, PageInv, PageTypeOK
<1>3. CASE Answer(c, Refusal) /\ UNCHANGED service
  BY <1>1, <1>2, <1>3, SameTableKept, ErrorWish DEF service
<1>4. ASSUME NEW o \in KeyHolders(x.key), Answer(c, Replies(o, NoRow)), UNCHANGED service
      PROVE  WishInv'
  <2>1. TableKept
    BY <1>4, SameTableKept DEF service
  <2>2. o \in DOMAIN orders /\ orders[o].client_order_id = x.key
        /\ o \in OrderIds /\ o \in DOMAIN placedFor
    BY DEF KeyHolders, PageInv, PageTypeOK
  <2>3. ~ overlapped => placedFor[o] = x.wish
    BY <1>2, <2>2 DEF WishInv, Paired
  <2>4. Replies(o, NoRow) \in Reply /\ Replies(o, NoRow).id = o
    BY <2>2 DEF Replies, Reply
  <2> QED
    BY <1>1, <1>2, <1>4, <2>1, <2>2, <2>3, <2>4, AnswerWish
<1>5. ASSUME NEW o \in OrderIds \ DOMAIN orders, KeyHolders(x.key) = {},
             orders' = Put(orders, o, NewRow(x)), placedFor' = Put(placedFor, o, x.wish),
             Answer(c, Replies(o, NoRow))
      PROVE  WishInv'
  BY <1>1, <1>5, PlaceWish
<1> QED
  BY <1>3, <1>4, <1>5 DEF ServeCreate

-----------------------------------------------------------------------------
(* The steps of the form *)

\* The page is left: the field is empty, and what was sent may still arrive.
LEMMA LeaveWish ==
    ASSUME PageInv, WishInv, LeavePage
    PROVE  WishInv'
<1>1. /\ UNCHANGED <<orders, placedFor, made, wish, overlapped>>
      /\ field' = NoKey /\ feedback' = "none" /\ settled' = TRUE
      /\ call' = [c \in Calls |-> Abandoned(call[c])]
  BY DEF LeavePage, service
<1> SUFFICES ASSUME ~ overlapped
             PROVE  Paired' /\ Known' /\ FieldPairs' /\ Latest' /\ Accepted'
  BY <1>1 DEF WishInv
<1>2. Paired /\ Known /\ FieldPairs /\ Latest
  BY DEF WishInv
<1>3. \A c \in Calls :
         /\ Fades(call[c], call'[c]) /\ Sane(placedFor', call'[c])
         /\ ~ (call'[c].job = "submit" /\ call'[c].at = "get")
  BY <1>1, AbandonedFades DEF PageInv, PageTypeOK
<1>4. Paired' /\ Known' /\ Latest'
  BY <1>1, <1>2, <1>3, SameTableKept, PairedFades, LatestFades
<1>5. FieldPairs'
  BY <1>1, <1>3 DEF FieldPairs
<1> QED
  BY <1>1, <1>4, <1>5 DEF Accepted

\* A key made up now is in no request and no order.
LEMMA NewKeyUnused ==
    ASSUME PageInv, Known
    PROVE  Unused(made + 1)
<1>1. \A c \in Calls : Pending(call[c]) => call[c].key \in Nat
  BY DEF Pending, PageInv, SoundCall
<1>2. made \in Nat /\ \A o \in DOMAIN orders : orders[o].client_order_id \in Nat
  BY DEF PageInv, PageTypeOK, Row
<1> QED
  BY <1>1, <1>2 DEF Known, Unused

LEMMA GenerateKeyWish ==
    ASSUME PageInv, WishInv, GenerateKey
    PROVE  WishInv'
<1>1. /\ UNCHANGED <<orders, placedFor, feedback, call, wish, overlapped>>
      /\ field' = made + 1 /\ made' = made + 1 /\ settled' = TRUE
  BY DEF GenerateKey, service
<1> SUFFICES ASSUME ~ overlapped
             PROVE  Paired' /\ Known' /\ FieldPairs' /\ Latest' /\ Accepted'
  BY <1>1 DEF WishInv
<1>2. Paired /\ Known /\ FieldPairs /\ Latest /\ Accepted
  BY DEF WishInv
<1>3. Unused(made + 1)
  BY <1>2, NewKeyUnused
<1>4. Known'
  <2>1. /\ made \in Nat
        /\ \A c \in Calls : Pending(call[c]) => call[c].key \in Nat
        /\ \A o \in DOMAIN orders : orders[o].client_order_id \in Nat
    BY DEF Pending, PageInv, SoundCall, PageTypeOK, Row
  <2> QED
    BY <1>1, <1>2, <2>1 DEF Known
<1>5. FieldPairs'
  BY <1>1, <1>3 DEF FieldPairs, Unused
<1> QED
  BY <1>1, <1>2, <1>4, <1>5 DEF Paired, Latest, Accepted

\* The key of a submission: the field's, or a new one.
LEMMA SubmitWish ==
    ASSUME PageInv, WishInv, NEW c \in Calls, NEW form \in Forms, Submit(c, form)
    PROVE  WishInv'
<1> DEFINE key == IF field = NoKey THEN made + 1 ELSE field
           w   == IF settled THEN wish + 1 ELSE wish
           new == [Blank EXCEPT !.job = "submit", !.at = "post", !.key = key,
                                !.form = form, !.wish = w]
<1>1. /\ UNCHANGED <<orders, placedFor>>
      /\ field' = key /\ made' = (IF field = NoKey THEN made + 1 ELSE made)
      /\ feedback' = "none" /\ wish' = w /\ settled' = FALSE
      /\ call[c] = NoCall /\ call' = [call EXCEPT ![c] = new]
  BY DEF Submit, Start, service
<1>2. ~ overlapped' => ~ overlapped /\ ~ UnderWay
  BY DEF Submit
<1> SUFFICES ASSUME ~ overlapped, ~ UnderWay
             PROVE  Paired' /\ Known' /\ FieldPairs' /\ Latest' /\ Accepted'
  BY <1>2 DEF WishInv
<1>3. Paired /\ Known /\ FieldPairs /\ Latest
  BY DEF WishInv
<1>4. \A d \in Calls : ~ Waited(call[d]) /\ ~ (call[d].job = "submit" /\ call[d].at = "get")
  BY <1>3 DEF UnderWay, Waited, Latest, Sane
<1>5. /\ made \in Nat /\ wish \in Nat /\ (field # NoKey => field \in Nat)
      /\ key \in Nat /\ w \in Nat /\ key # NoKey
      /\ \A d \in Calls : Pending(call[d]) => call[d].key \in Nat /\ call[d].wish \in Nat
      /\ \A o \in DOMAIN orders : orders[o].client_order_id \in Nat /\ placedFor[o] \in Nat
  <2>1. /\ made \in Nat /\ wish \in Nat /\ (field # NoKey => field \in Nat)
        /\ \A o \in DOMAIN orders : orders[o].client_order_id \in Nat /\ placedFor[o] \in Nat
    BY DEF PageInv, PageTypeOK, Row
  <2>2. \A d \in Calls : Pending(call[d]) => call[d].key \in Nat /\ call[d].wish \in Nat
    BY DEF Pending, PageInv, SoundCall, PageTypeOK, CallType, NoCall
  <2> QED
    BY <2>1, <2>2, PageAssumption
<1>6. /\ new.job = "submit" /\ new.at = "post" /\ new.net = "sent"
      /\ new.key = key /\ new.wish = w
  BY BlankFields DEF CallType
<1> HIDE DEF new
<1>7. \A d \in Calls : call'[d] = IF d = c THEN new ELSE call[d]
  BY <1>1 DEF PageInv, PageTypeOK
\* Requests and orders have the key exactly if they are of the wish.
<1>8. /\ \A d \in Calls : Pending(call[d]) => (call[d].key = key <=> call[d].wish = w)
      /\ \A o \in DOMAIN orders : orders[o].client_order_id = key <=> placedFor[o] = w
  <2>1. CASE settled
    <3>1. Unused(key)
      BY <1>3, <1>4, <2>1, NewKeyUnused DEF FieldPairs
    <3>2. /\ \A d \in Calls : Pending(call[d]) => call[d].wish # w
          /\ \A o \in DOMAIN orders : placedFor[o] # w
      BY <1>3, <1>5, <2>1 DEF Known
    <3> QED
      BY <3>1, <3>2 DEF Unused
  <2>2. CASE ~ settled
    <3>1. key = field /\ w = wish
      BY <1>3, <2>2 DEF FieldPairs
    <3> QED
      BY <1>3, <2>2, <3>1 DEF FieldPairs
  <2> QED
    BY <2>1, <2>2
<1>9. \A d \in Calls : Pending(call'[d]) => (call'[d].key = key <=> call'[d].wish = w)
  BY <1>6, <1>7, <1>8
<1> HIDE DEF key, w
<1>10. Paired'
  <2>1. \A d, e \in Calls : Pending(call'[d]) /\ Pending(call'[e]) =>
           (call'[d].key = call'[e].key <=> call'[d].wish = call'[e].wish)
    BY <1>3, <1>6, <1>7, <1>8 DEF Paired
  <2>2. \A d \in Calls, o \in DOMAIN orders : Pending(call'[d]) =>
           (call'[d].key = orders[o].client_order_id <=> call'[d].wish = placedFor[o])
    BY <1>3, <1>6, <1>7, <1>8 DEF Paired
  <2> QED
    BY <1>1, <1>3, <2>1, <2>2 DEF Paired
<1>11. Known'
  <2>1. made <= made' /\ key <= made' /\ made' \in Nat /\ wish <= w
    BY <1>1, <1>3, <1>5 DEF Known, key, w
  <2>2. \A d \in Calls : Pending(call'[d]) => call'[d].key <= made' /\ call'[d].wish <= w
    BY <1>3, <1>5, <1>6, <1>7, <2>1 DEF Known
  <2>3. \A o \in DOMAIN orders : orders[o].client_order_id <= made' /\ placedFor[o] <= w
    BY <1>3, <1>5, <2>1 DEF Known
  <2> QED
    BY <1>1, <2>1, <2>2, <2>3 DEF Known
<1>12. FieldPairs'
  <2>1. \A d \in Calls : ~ (call'[d].job = "submit" /\ call'[d].at = "get")
    BY <1>4, <1>6, <1>7
  <2> QED
    BY <1>1, <1>5, <1>8, <1>9, <2>1 DEF FieldPairs
<1>13. Latest'
  <2>1. \A d \in Calls : Waited(call'[d]) => d = c /\ call'[d].wish = w
    BY <1>4, <1>6, <1>7
  <2>2. Sane(placedFor, new)
    BY <1>6 DEF Sane
  <2>3. \A d \in Calls : Sane(placedFor, call'[d])
    BY <1>3, <1>7, <2>2 DEF Latest
  <2> QED
    BY <1>1, <2>1, <2>3 DEF Latest
<1>14. Accepted'
  BY <1>1 DEF Accepted
<1> QED
  BY <1>10, <1>11, <1>12, <1>13, <1>14

\* The submission is accepted: the order is the one meant.
LEMMA SubmitAcceptedWish ==
    ASSUME PageInv, WishInv, NEW c \in Calls, SubmitAccepted(c)
    PROVE  WishInv'
<1> DEFINE x == call[c]
           y == [x EXCEPT !.at = "get", !.net = "sent", !.id = x.reply.id, !.reply = NoReply]
           new == IF token THEN y ELSE NoCall
<1>1. /\ UNCHANGED <<orders, placedFor, made, wish, overlapped>>
      /\ x.job = "submit" /\ x.at = "post" /\ x.net = "answered" /\ x.reply.code = "ok"
      /\ settled' = TRUE
      /\ field' = (IF token THEN field ELSE NoKey)
      /\ call' = [call EXCEPT ![c] = new]
  BY DEF SubmitAccepted, Submitting, Awaits, Fetch, service
<1> SUFFICES ASSUME ~ overlapped
             PROVE  Paired' /\ Known' /\ FieldPairs' /\ Latest' /\ Accepted'
  BY <1>1 DEF WishInv
<1>2. Paired /\ Known /\ FieldPairs /\ Latest
  BY DEF WishInv
<1>3. x \in CallType
  BY <1>1 DEF PageInv, PageTypeOK, NoCall
<1>4. y.job = "submit" /\ y.at = "get" /\ y.net = "sent" /\ y.wish = x.wish
  BY <1>1, <1>3 DEF CallType
<1>5. /\ ~ Pending(new) /\ Sane(placedFor, new)
      /\ Waited(new) => new.wish = x.wish
      /\ token => new.job = "submit" /\ new.at = "get"
  <2>1. ~ Pending(y) /\ Sane(placedFor, y)
    <3> HIDE DEF y
    <3> QED
      BY <1>4 DEF Pending, Sane
  <2>2. ~ Pending(NoCall) /\ ~ Waited(NoCall)
    BY DEF Pending, Waited, NoCall
  <2> QED
    BY <1>4, <2>1, <2>2, NoCallIsSane
<1> HIDE DEF new
<1>6. \A d \in Calls : call'[d] = IF d = c THEN new ELSE call[d]
  BY <1>1 DEF PageInv, PageTypeOK
<1>7. \A d \in Calls : Pending(call'[d]) => Pending(call[d]) /\ call'[d] = call[d]
  BY <1>5, <1>6
<1>8. Paired' /\ Known'
  BY <1>1, <1>2, <1>7 DEF Paired, Known
<1>9. FieldPairs'
  BY <1>1, <1>5, <1>6 DEF FieldPairs
<1>10. Latest'
  <2>1. Waited(x)
    BY <1>1 DEF Waited
  <2>2. \A d \in Calls : Waited(call'[d]) => Waited(call[d]) /\ call'[d].wish = call[d].wish
    BY <1>5, <1>6, <2>1
  <2> QED
    BY <1>1, <1>2, <1>5, <1>6, <2>2 DEF Latest
<1>11. \E o \in DOMAIN orders : placedFor[o] = wish
  <2>1. x.reply.id \in DOMAIN placedFor /\ placedFor[x.reply.id] = x.wish
    BY <1>1, <1>2 DEF Latest, Sane
  <2>2. x.wish = wish
    BY <1>1, <1>2 DEF Latest, Waited
  <2>3. DOMAIN placedFor = DOMAIN orders
    BY DEF PageInv, PageTypeOK
  <2> QED
    BY <2>1, <2>2, <2>3
<1> QED
  BY <1>1, <1>8, <1>9, <1>10, <1>11 DEF Accepted

\* The order was fetched, or not: the form is reset.
LEMMA FinishSubmitWish ==
    ASSUME PageInv, WishInv, NEW c \in Calls, FinishSubmit(c)
    PROVE  WishInv'
<1>1. /\ UNCHANGED <<orders, placedFor, made, feedback, wish, settled, overlapped>>
      /\ call[c].job = "submit" /\ call[c].at = "get"
      /\ field' = NoKey /\ call' = [call EXCEPT ![c] = NoCall]
  BY DEF FinishSubmit, Submitting, End, service, userVars
<1> SUFFICES ASSUME ~ overlapped
             PROVE  Paired' /\ Known' /\ FieldPairs' /\ Latest' /\ Accepted'
  BY <1>1 DEF WishInv
<1>2. Paired /\ Known /\ FieldPairs /\ Latest /\ Accepted
  BY DEF WishInv
<1>3. \A d \in Calls : Fades(call[d], call'[d]) /\ Sane(placedFor', call'[d])
  BY <1>1, <1>2, NoCallFades, NoCallIsSane, OneFades
<1>4. Paired' /\ Known' /\ Latest'
  BY <1>1, <1>2, <1>3, SameTableKept, PairedFades, LatestFades
<1>5. settled
  BY <1>1, <1>2 DEF FieldPairs
<1>6. FieldPairs'
  BY <1>1, <1>5 DEF FieldPairs
<1> QED
  BY <1>1, <1>2, <1>4, <1>6 DEF Accepted

-----------------------------------------------------------------------------
(* The theorems *)

LEMMA WishInit == PageInit => WishInv
<1> SUFFICES ASSUME PageInit PROVE WishInv
  OBVIOUS
<1>1. /\ DOMAIN orders = {} /\ field = NoKey /\ feedback = "none" /\ settled = TRUE
      /\ \A c \in Calls : call[c] = NoCall
  BY DEF PageInit, ServiceInit
<1>2. NoCall.job # "submit" /\ ~ Pending(NoCall) /\ ~ Waited(NoCall)
  BY DEF NoCall, Pending, Waited
<1> QED
  BY <1>1, <1>2, NoCallIsSane DEF WishInv, Paired, Known, FieldPairs, Latest, Accepted

LEMMA WishStep == PageInv /\ WishInv /\ [PageNext]_vars => WishInv'
<1> SUFFICES ASSUME PageInv, WishInv, [PageNext]_vars PROVE WishInv'
  OBVIOUS
<1>1. CASE Logout \/ SubmitLoggedOut
  BY <1>1, LeaveWish DEF Logout, SubmitLoggedOut
<1>2. CASE LogoutElsewhere \/ Login \/ \E c \in Calls, o \in OrderIds : TradeReceived(c, o)
  BY <1>2, SessionWish
<1>3. CASE GenerateKey
  BY <1>3, GenerateKeyWish
<1>4. ASSUME NEW c \in Calls, UserStep(c) PROVE WishInv'
  BY <1>4, SubmitWish, PanelClicksWish DEF UserStep
<1>5. ASSUME NEW c \in Calls, Progress(c) PROVE WishInv'
  BY <1>5, SubmitAcceptedWish, FailWish, FinishSubmitWish, EndsWish, EditConflictWish,
     ServeCreateWish, ServeShowWish, ServeEditWish DEF Progress
<1>6. ASSUME NEW o \in OrderIds, ChangedElsewhere(o) PROVE WishInv'
  BY <1>6, ChangedElsewhereWish
<1>7. CASE UNCHANGED vars
  <2>1. UNCHANGED <<orders, placedFor, call, field, made, feedback, wish, settled, overlapped>>
    BY <1>7 DEF vars, service, session, formVars, userVars
  <2> QED
    BY <2>1, SameTableKept, QuietForm DEF FormKept
<1> QED
  BY <1>1, <1>2, <1>3, <1>4, <1>5, <1>6, <1>7 DEF PageNext

LEMMA WishesAreKept == PageSpec => []WishInv
BY WishInit, WishStep, PageIsSound, PTL DEF PageSpec

\* However often the user submits again after errors and lost answers, an order
\* he meant once is placed once, as long as submissions do not overlap.
THEOREM WishPlacedOnce == PageSpec => []OneOrderPerWish
<1>1. WishInv => OneOrderPerWish
  BY DEF WishInv, Paired, OneOrderPerWish
<1> QED
  BY <1>1, WishesAreKept, PTL

\* When the form says accepted, the order the user meant is in the table.
THEOREM GreenIsTrue == PageSpec => []GreenMeansPlaced
<1>1. WishInv => GreenMeansPlaced
  BY DEF WishInv, Accepted, GreenMeansPlaced
<1> QED
  BY <1>1, WishesAreKept, PTL
=============================================================================
