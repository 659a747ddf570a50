----------------------------- MODULE MarketFeed -----------------------------
(***************************************************************************)
(* The market data of the orders page (public/js/orders.js): quotes and    *)
(* order book of the symbol in the form, over the ActionCable client or,   *)
(* when that could not be loaded, over a WebSocket of the page's own.      *)
(*                                                                         *)
(* The page subscribes anew whenever the symbol or the throttle toggle     *)
(* changes, so sockets, timers and late events of an earlier subscription  *)
(* meet those of the next one. The client library and the browser are      *)
(* external: an unsubscribed ActionCable subscription is called no more, a *)
(* closed WebSocket delivers no message but does fire its close event.     *)
(***************************************************************************)
EXTENDS Naturals, FiniteSets

CONSTANTS
    Symbols,   \* what is typed as symbol
    Default,   \* the symbol of an empty field and of the form as loaded
    Kinds,     \* what boxes there are: quote, orderbook
    Ticks,     \* the contents of a market data message
    Sockets    \* bound: connections the browser has not closed yet

ASSUME FeedAssumption == Default \in Symbols /\ Sockets \subseteq Nat \ {0}

VARIABLES
    phase,       \* of the page: "unloaded", "off" (no token), "loading", "on"
    cable,       \* window.ActionCable is there
    loader,      \* what the market script waits for: a script or nothing
    notifier,    \* and the notification script
    symbol,      \* the symbol field
    edited,      \* the field was typed into since its last change event
    inputTimer,  \* the debounce of the symbol field is pending
    throttle,    \* the throttle toggle
    socket,      \* connections to /cable, by number
    current,     \* the number of the one behind subscription and consumer
    status,      \* the status text
    last,        \* lastQuote and lastBook
    box,         \* quoteBox and bookBox
    timer,       \* throttledTimer
    banner       \* the degraded banner is shown

scripts == <<cable, loader, notifier>>
form    == <<symbol, edited, inputTimer, throttle>>
net     == <<socket, current>>
screen  == <<status, last, box, timer, banner>>
vars    == <<phase, scripts, form, net, screen>>

None    == "none"
Modes   == {"normal", "throttled"}
Mode    == IF throttle THEN "throttled" ELSE "normal"
Data    == [symbol : Symbols, tick : Ticks]

\* lib: it belongs to the ActionCable client.
Socket  == [symbol : Symbols, mode : Modes, lib : BOOLEAN,
            at : {"opening", "open", "down", "closing"}]
Unused  == [at |-> "unused"]

Texts   == {None, "unauthenticated", "connecting", "disconnected"}
Text(t) == [text |-> t, symbol |-> None]
Connected(s) == [text |-> "connected", symbol |-> s]

NoDatum == [symbol |-> None, tick |-> 0]
NoData  == [k \in Kinds |-> NoDatum]

FeedTypeOK ==
    /\ phase \in {"unloaded", "off", "loading", "on"}
    /\ cable \in BOOLEAN
    /\ loader \in {None, "primary", "fallback"}
    /\ notifier \in {None, "primary", "subscribed"}
    /\ symbol \in Symbols
    /\ edited \in BOOLEAN /\ inputTimer \in BOOLEAN /\ throttle \in BOOLEAN
    /\ socket \in [Sockets -> Socket \cup {Unused}]
    /\ current \in Sockets \cup {0}
    /\ status \in {Text(t) : t \in Texts} \cup {Connected(s) : s \in Symbols}
    /\ last \in [Kinds -> Data \cup {NoDatum}]
    /\ box \in [Kinds -> Data \cup {NoDatum}]
    /\ timer \in {None, "pending"}
    /\ banner \in BOOLEAN

\* No page yet.
FeedInit ==
    /\ phase = "unloaded"
    /\ cable = FALSE /\ loader = None /\ notifier = None
    /\ symbol = Default /\ edited = FALSE /\ inputTimer = FALSE /\ throttle = FALSE
    /\ socket = [i \in Sockets |-> Unused] /\ current = 0
    /\ status = Text(None) /\ last = NoData /\ box = NoData
    /\ timer = None /\ banner = FALSE

-----------------------------------------------------------------------------
(* The page and its scripts *)

\* Without a token there is no feed; with one, both scripts of the page ask for
\* the client library.
LoadPage ==
    /\ phase = "unloaded"
    /\ \/ /\ phase' = "off" /\ status' = Text("unauthenticated")
          /\ UNCHANGED scripts
       \/ /\ phase' = "loading" /\ UNCHANGED <<cable, status>>
          /\ loader' = "primary" /\ notifier' = "primary"
    /\ UNCHANGED <<form, net, last, box, timer, banner>>

\* The browser closes the sockets with the page; its timers go with it.
UnloadPage ==
    /\ phase # "unloaded" /\ phase' = "unloaded"
    /\ cable' = FALSE /\ loader' = None /\ notifier' = None
    /\ symbol' = Default /\ edited' = FALSE /\ inputTimer' = FALSE /\ throttle' = FALSE
    /\ socket' = [i \in Sockets |-> Unused] /\ current' = 0
    /\ status' = Text(None) /\ last' = NoData /\ box' = NoData
    /\ timer' = None /\ banner' = FALSE

\* disconnect: an ActionCable subscription is forgotten, a WebSocket closes.
Disconnected ==
    [i \in Sockets |->
        IF i # current THEN socket[i]
        ELSE IF socket[i].lib THEN Unused
        ELSE IF socket[i].at = "down" THEN Unused
        ELSE [socket[i] EXCEPT !.at = "closing"]]

\* connect: the least number that is free, for the field and toggle as they are.
Connect(old, lib, sym, mode) ==
    \E i \in Sockets :
       /\ old[i] = Unused /\ \A j \in Sockets : old[j] = Unused => i <= j
       /\ socket' = [old EXCEPT ![i] =
             [symbol |-> sym, mode |-> mode, lib |-> lib, at |-> "opening"]]
       /\ current' = i
       /\ status' = Text("connecting")

\* The market script has the client library, or has tried both places in vain.
StartFeed(lib) ==
    /\ phase' = "on" /\ loader' = None /\ cable' = lib
    /\ Connect(socket, lib, symbol, Mode)
    /\ UNCHANGED <<notifier, form, last, box, timer, banner>>

PrimaryLoaded == phase = "loading" /\ loader = "primary" /\ StartFeed(TRUE)

PrimaryFailed ==
    /\ phase = "loading" /\ loader = "primary" /\ loader' = "fallback"
    /\ UNCHANGED <<phase, cable, notifier, form, net, screen>>

FallbackLoaded == phase = "loading" /\ loader = "fallback" /\ StartFeed(TRUE)
FallbackFailed == phase = "loading" /\ loader = "fallback" /\ StartFeed(cable)

\* The notification script asks for the library at one place only, and takes
\* what is there when that is answered.
NotifierLoaded ==
    /\ notifier = "primary" /\ notifier' = "subscribed" /\ cable' = TRUE
    /\ UNCHANGED <<phase, loader, form, net, screen>>

NotifierFailed ==
    /\ notifier = "primary" /\ notifier' = IF cable THEN "subscribed" ELSE None
    /\ UNCHANGED <<phase, cable, loader, form, net, screen>>

-----------------------------------------------------------------------------
(* Symbol and throttle *)

\* Mutant of Rewire: the earlier connection is left open.
RewireOnly(sym, mode) ==
    /\ Connect(socket, cable, sym, mode)
    /\ last' = NoData /\ box' = NoData

\* Mutant of Rewire: the boxes are emptied but not what render() fills them from.
RewireKeepingLast(sym, mode) ==
    /\ Connect(Disconnected, cable, sym, mode)
    /\ box' = NoData /\ UNCHANGED last

Rewire(sym, mode) ==
    /\ Connect(Disconnected, cable, sym, mode)
    /\ last' = NoData /\ box' = NoData

\* Mutant of TypeSymbol: a pending debounce is cleared and not set again.
TypeSymbolOnce(s) ==
    /\ phase = "on" /\ s # symbol
    /\ symbol' = s /\ edited' = TRUE /\ inputTimer' = ~ inputTimer
    /\ UNCHANGED <<phase, scripts, throttle, net, screen>>

TypeSymbol(s) ==
    /\ phase = "on" /\ s # symbol
    /\ symbol' = s /\ edited' = TRUE /\ inputTimer' = TRUE
    /\ UNCHANGED <<phase, scripts, throttle, net, screen>>

\* The debounce of 500 ms is over.
InputTimerFires ==
    /\ inputTimer /\ inputTimer' = FALSE
    /\ Rewire(symbol, Mode)
    /\ UNCHANGED <<phase, scripts, symbol, edited, throttle, timer, banner>>

\* The field loses the focus: it does not wait for the debounce, nor stop it.
ChangeSymbol ==
    /\ edited /\ edited' = FALSE
    /\ Rewire(symbol, Mode)
    /\ UNCHANGED <<phase, scripts, symbol, inputTimer, throttle, timer, banner>>

ToggleThrottle ==
    /\ phase = "on" /\ throttle' = ~ throttle
    /\ Rewire(symbol, IF throttle THEN "normal" ELSE "throttled")
    /\ UNCHANGED <<phase, scripts, symbol, edited, inputTimer, timer, banner>>

-----------------------------------------------------------------------------
(* Events of the connections *)

Becomes(i, at) == socket' = [socket EXCEPT ![i].at = at]

\* Mutant of Opens: a socket that was closed while it opened still reports.
OpensLate(i) == socket[i].at \in {"opening", "down", "closing"}

\* A socket opens, or the ActionCable client has connected again.
Opens(i) ==
    \/ socket[i].at = "opening"
    \/ socket[i].at = "down" /\ socket[i].lib

SocketOpens(i) ==
    /\ Opens(i)
    /\ Becomes(i, "open")
    /\ status' = Connected(socket[i].symbol)
    /\ UNCHANGED <<phase, scripts, form, current, last, box, timer, banner>>

\* The connection is lost or refused. The ActionCable client says nothing of one
\* that never opened.
SocketFails(i) ==
    /\ socket[i].at \in {"opening", "open"}
    /\ Becomes(i, "down")
    /\ \/ status' = Text("disconnected")
       \/ socket[i].lib /\ socket[i].at = "opening" /\ UNCHANGED status
    /\ UNCHANGED <<phase, scripts, form, current, last, box, timer, banner>>

\* The close event of a WebSocket that disconnect closed.
SocketCloses(i) ==
    /\ socket[i].at = "closing"
    /\ socket' = [socket EXCEPT ![i] = Unused]
    /\ status' = Text("disconnected")
    /\ UNCHANGED <<phase, scripts, form, current, last, box, timer, banner>>

\* render()
Rendered(data) == [k \in Kinds |-> IF data[k] # NoDatum THEN data[k] ELSE box[k]]

\* A quote or an order book of the socket's symbol.
Receive(i, k, tick) ==
    LET data == [last EXCEPT ![k] = [symbol |-> socket[i].symbol, tick |-> tick]]
    IN  /\ socket[i].at = "open"
        /\ last' = data
        /\ IF throttle
           THEN /\ timer' = IF timer = None THEN "pending" ELSE timer
                /\ UNCHANGED box
           ELSE box' = Rendered(data) /\ UNCHANGED timer
        /\ UNCHANGED <<phase, scripts, form, net, status, banner>>

ReceiveStatus(i, degraded) ==
    /\ socket[i].at = "open"
    /\ banner # degraded /\ banner' = degraded
    /\ UNCHANGED <<phase, scripts, form, net, status, last, box, timer>>

\* Mutant of TimerFires: throttledTimer keeps the number of the fired timer.
TimerFiresOnce ==
    /\ timer = "pending" /\ timer' = "fired"
    /\ box' = Rendered(last)
    /\ UNCHANGED <<phase, scripts, form, net, status, last, banner>>

TimerFires ==
    /\ timer = "pending" /\ timer' = None
    /\ box' = Rendered(last)
    /\ UNCHANGED <<phase, scripts, form, net, status, last, banner>>

-----------------------------------------------------------------------------
FeedNext ==
    \/ LoadPage \/ UnloadPage
    \/ PrimaryLoaded \/ PrimaryFailed \/ FallbackLoaded \/ FallbackFailed
    \/ NotifierLoaded \/ NotifierFailed
    \/ \E s \in Symbols : TypeSymbol(s)
    \/ ChangeSymbol \/ ToggleThrottle \/ InputTimerFires \/ TimerFires
    \/ \E i \in Sockets :
          \/ SocketOpens(i) \/ SocketFails(i) \/ SocketCloses(i)
          \/ \E k \in Kinds, t \in Ticks : Receive(i, k, t)
          \/ \E degraded \in BOOLEAN : ReceiveStatus(i, degraded)

FeedSpec == FeedInit /\ [][FeedNext]_vars

\* Timers fire, and a closed socket has its close event.
FairFeedSpec ==
    /\ FeedSpec
    /\ WF_vars(InputTimerFires)
    /\ WF_vars(TimerFires)
    /\ \A i \in Sockets : WF_vars(SocketCloses(i))

-----------------------------------------------------------------------------
(* Properties *)

\* The page never listens to two subscriptions: whatever rewires come together,
\* only the current connection can deliver anything.
OneSubscription ==
    \A i \in Sockets : socket[i].at \in {"opening", "open", "down"} => i = current

\* What the boxes show and what the next render will show is data of the
\* current subscription, also when a throttle timer of an earlier one fires.
BoxesShowSubscription ==
    \A k \in Kinds : \A d \in {last[k], box[k]} :
       d # NoDatum => current # 0 /\ d.symbol = socket[current].symbol

\* "connecté (S)" is shown only while the current connection is open for S. The
\* reverse does not hold: the late close event of an earlier WebSocket writes
\* "déconnecté" over it.
ConnectedIsTrue ==
    \A s \in Symbols : status = Connected(s) =>
       current # 0 /\ socket[current].at = "open" /\ socket[current].symbol = s

\* What was received is shown at last, throttled or not, unless the feed is
\* rewired before.
ReceivedIsShown ==
    \A k \in Kinds : last[k] # NoDatum ~> (last[k] = NoDatum \/ box[k] = last[k])

\* Once the user leaves the symbol field alone, the subscription is for what it
\* holds.
SubscriptionFollowsField ==
    \A s \in Symbols :
       <>[](phase = "on" /\ symbol = s)
       => <>[](current # 0 /\ socket[current].symbol = s)
=============================================================================
