----------------------------- MODULE FeedProofs -----------------------------
(***************************************************************************)
(* Proofs about MarketFeed: for any symbols, messages and number of        *)
(* sockets, the page listens to one subscription, shows data of it only,   *)
(* and says it is connected only while it is.                              *)
(***************************************************************************)
EXTENDS MarketFeed, TLAPS

\* States of a connection that may still deliver something.
Active == {"opening", "open", "down"}

\* The strengthening: the feed has a current connection exactly while the page
\* is on, what rewires it is pending only then, and the current connection is
\* never one that disconnect has closed.
Wired ==
    /\ phase = "on" <=> current # 0
    /\ inputTimer \/ edited => phase = "on"
    /\ current # 0 => socket[current].at \in Active

FeedInv ==
    /\ FeedTypeOK /\ Wired
    /\ OneSubscription /\ BoxesShowSubscription /\ ConnectedIsTrue

\* A connection that is in some state is a connection.
LEMMA InUse ==
    ASSUME FeedTypeOK, NEW i \in Sockets, socket[i].at # "unused"
    PROVE  /\ socket[i] \in Socket
           /\ socket[i].symbol \in Symbols /\ socket[i].mode \in Modes
           /\ socket[i].lib \in BOOLEAN
           /\ socket[i].at \in {"opening", "open", "down", "closing"}
  BY DEF FeedTypeOK, Socket, Unused

LEMMA CurrentInUse ==
    ASSUME FeedInv, current # 0
    PROVE  current \in Sockets /\ socket[current] \in Socket
<1>1. current \in Sockets /\ socket[current].at # "unused"
  BY DEF FeedInv, FeedTypeOK, Wired, Active
<1> QED
  BY <1>1, InUse DEF FeedInv

LEMMA TextsDiffer ==
    /\ \A s, t \in Symbols : Connected(s) = Connected(t) => s = t
    /\ \A s \in Symbols, t \in Texts : Connected(s) # Text(t)
<1>1. \A s \in Symbols : Connected(s).text = "connected" /\ Connected(s).symbol = s
  BY DEF Connected
<1>2. \A t \in Texts : Text(t).text = t /\ t # "connected"
  BY DEF Text, Texts, None
<1> QED
  BY <1>1, <1>2

\* After disconnect nothing delivers any more.
LEMMA DisconnectedIsQuiet ==
    ASSUME FeedInv, current # 0
    PROVE  /\ Disconnected \in [Sockets -> Socket \cup {Unused}]
           /\ \A i \in Sockets : Disconnected[i].at \notin Active
<1>1. current \in Sockets /\ socket[current] \in Socket
  BY CurrentInUse
<1>2. \A i \in Sockets : socket[i] \in Socket \cup {Unused}
  BY DEF FeedInv, FeedTypeOK
<1>3. ASSUME NEW i \in Sockets
      PROVE  /\ Disconnected[i] \in Socket \cup {Unused}
             /\ Disconnected[i].at \notin Active
  <2>1. CASE i # current
    <3>1. Disconnected[i] = socket[i]
      BY <2>1 DEF Disconnected
    <3>2. socket[i].at \notin Active
      BY <2>1 DEF FeedInv, OneSubscription, Active
    <3> QED
      BY <1>2, <3>1, <3>2
  <2>2. CASE i = current
    <3>1. \/ Disconnected[i] = Unused
          \/ Disconnected[i] = [socket[i] EXCEPT !.at = "closing"]
      BY <2>2 DEF Disconnected
    <3>2. /\ [socket[i] EXCEPT !.at = "closing"] \in Socket
          /\ [socket[i] EXCEPT !.at = "closing"].at = "closing"
      BY <1>1, <2>2 DEF Socket
    <3>3. CASE Disconnected[i] = Unused
      BY <3>3 DEF Unused, Active
    <3>4. CASE Disconnected[i] = [socket[i] EXCEPT !.at = "closing"]
      BY <3>2, <3>4 DEF Active
    <3> QED
      BY <3>1, <3>3, <3>4
  <2> QED
    BY <2>1, <2>2
<1> QED
  BY <1>3 DEF Disconnected

\* Connecting when nothing delivers leaves one subscription, for sym.
LEMMA Connects ==
    ASSUME FeedTypeOK, Wired,
           NEW old \in [Sockets -> Socket \cup {Unused}],
           \A i \in Sockets : old[i].at \notin Active,
           NEW lib \in BOOLEAN, NEW sym \in Symbols, NEW mode \in Modes,
           Connect(old, lib, sym, mode)
    PROVE  /\ socket' \in [Sockets -> Socket \cup {Unused}]
           /\ current' \in Sockets /\ current' # 0
           /\ socket'[current'].at \in Active
           /\ OneSubscription' /\ ConnectedIsTrue'
           /\ status' = Text("connecting")
<1>1. PICK i \in Sockets :
         /\ socket' = [old EXCEPT ![i] =
               [symbol |-> sym, mode |-> mode, lib |-> lib, at |-> "opening"]]
         /\ current' = i
  BY DEF Connect
<1>2. [symbol |-> sym, mode |-> mode, lib |-> lib, at |-> "opening"] \in Socket
  BY DEF Socket
<1>3. socket' \in [Sockets -> Socket \cup {Unused}]
  BY <1>1, <1>2
<1>4. current' \in Sockets /\ current' # 0
  BY <1>1, FeedAssumption
<1>5. socket'[current'].at = "opening"
  BY <1>1
<1>6. OneSubscription'
  BY <1>1 DEF OneSubscription, Active
<1>7. status' = Text("connecting")
  BY DEF Connect
<1>8. ConnectedIsTrue'
  BY <1>7, TextsDiffer DEF ConnectedIsTrue, Texts
<1> QED
  BY <1>3, <1>4, <1>5, <1>6, <1>7, <1>8 DEF Active

\* Every rewire keeps the invariant, whatever it is that rewires.
LEMMA Rewires ==
    ASSUME FeedInv, phase = "on", NEW sym \in Symbols, NEW mode \in Modes,
           Rewire(sym, mode),
           UNCHANGED <<phase, scripts, timer, banner>>,
           symbol' \in Symbols, edited' \in BOOLEAN, inputTimer' \in BOOLEAN,
           throttle' \in BOOLEAN
    PROVE  FeedInv'
<1>1. current # 0
  BY DEF FeedInv, Wired
<1>2. /\ Disconnected \in [Sockets -> Socket \cup {Unused}]
      /\ \A i \in Sockets : Disconnected[i].at \notin Active
  BY <1>1, DisconnectedIsQuiet
<1>3. Connect(Disconnected, cable, sym, mode) /\ cable \in BOOLEAN
  BY DEF Rewire, FeedInv, FeedTypeOK
<1>4. /\ socket' \in [Sockets -> Socket \cup {Unused}]
      /\ current' \in Sockets /\ current' # 0
      /\ socket'[current'].at \in Active
      /\ OneSubscription' /\ ConnectedIsTrue'
      /\ status' = Text("connecting")
  BY <1>2, <1>3, Connects DEF FeedInv
<1>5. last' = NoData /\ box' = NoData
  BY DEF Rewire
<1>6. NoData \in [Kinds -> Data \cup {NoDatum}]
  BY DEF NoData
<1>7. FeedTypeOK'
  BY <1>4, <1>5, <1>6 DEF FeedInv, FeedTypeOK, scripts, Texts
<1>8. Wired'
  BY <1>4 DEF Wired
<1>9. BoxesShowSubscription'
  BY <1>5 DEF BoxesShowSubscription, NoData
<1> QED
  BY <1>4, <1>7, <1>8, <1>9 DEF FeedInv

\* The first connection of a page.
LEMMA Starts ==
    ASSUME FeedInv, phase = "loading", NEW lib \in BOOLEAN, StartFeed(lib)
    PROVE  FeedInv'
<1>1. current = 0
  BY DEF FeedInv, Wired
<1>2. socket \in [Sockets -> Socket \cup {Unused}]
  BY DEF FeedInv, FeedTypeOK
<1>3. \A i \in Sockets : socket[i].at \notin Active
  BY <1>1, FeedAssumption DEF FeedInv, OneSubscription, Active
<1>4. symbol \in Symbols /\ Mode \in Modes
  BY DEF FeedInv, FeedTypeOK, Mode, Modes
<1>5. Connect(socket, lib, symbol, Mode)
  BY DEF StartFeed
<1>6. /\ socket' \in [Sockets -> Socket \cup {Unused}]
      /\ current' \in Sockets /\ current' # 0
      /\ socket'[current'].at \in Active
      /\ OneSubscription' /\ ConnectedIsTrue'
      /\ status' = Text("connecting")
  BY <1>2, <1>3, <1>4, <1>5, Connects DEF FeedInv
<1>7. FeedTypeOK'
  BY <1>6 DEF StartFeed, FeedInv, FeedTypeOK, form, Texts, None
<1>8. Wired'
  BY <1>6 DEF StartFeed, Wired
<1>9. BoxesShowSubscription'
  <2>1. \A k \in Kinds : last[k] = NoDatum /\ box[k] = NoDatum
    BY <1>1 DEF FeedInv, BoxesShowSubscription
  <2> QED
    BY <2>1 DEF StartFeed, BoxesShowSubscription
<1> QED
  BY <1>6, <1>7, <1>8, <1>9 DEF FeedInv

\* A page that is gone has nothing.
LEMMA Unwired ==
    ASSUME UnloadPage
    PROVE  FeedInv'
<1>1. /\ phase' = "unloaded" /\ cable' = FALSE /\ loader' = None /\ notifier' = None
      /\ symbol' = Default /\ edited' = FALSE /\ inputTimer' = FALSE /\ throttle' = FALSE
      /\ socket' = [i \in Sockets |-> Unused] /\ current' = 0
      /\ status' = Text(None) /\ last' = NoData /\ box' = NoData
      /\ timer' = None /\ banner' = FALSE
  BY DEF UnloadPage
<1>2. NoData \in [Kinds -> Data \cup {NoDatum}] /\ \A k \in Kinds : NoData[k] = NoDatum
  BY DEF NoData
<1>3. FeedTypeOK'
  BY <1>1, <1>2, FeedAssumption DEF FeedTypeOK, Texts
<1>4. Wired' /\ OneSubscription'
  BY <1>1 DEF Wired, OneSubscription, Unused
<1>5. BoxesShowSubscription'
  BY <1>1, <1>2 DEF BoxesShowSubscription
<1>6. ConnectedIsTrue'
  BY <1>1, TextsDiffer DEF ConnectedIsTrue, Texts
<1> QED
  BY <1>3, <1>4, <1>5, <1>6 DEF FeedInv

\* Connection i, open or about to be, changes its state: it is the current one.
LEMMA CurrentBecomes ==
    ASSUME FeedInv, NEW i \in Sockets, socket[i].at \in Active,
           NEW at \in Active, Becomes(i, at), UNCHANGED current
    PROVE  /\ i = current /\ i # 0
           /\ socket' \in [Sockets -> Socket \cup {Unused}]
           /\ socket'[i].at = at /\ socket'[i].symbol = socket[i].symbol
           /\ socket[i].symbol \in Symbols
           /\ OneSubscription'
<1>1. i = current /\ i # 0
  BY FeedAssumption DEF FeedInv, OneSubscription, Active
<1>2. socket[i] \in Socket /\ socket \in [Sockets -> Socket \cup {Unused}]
  BY InUse DEF FeedInv, FeedTypeOK, Active
<1>3. [socket[i] EXCEPT !.at = at] \in Socket
  BY <1>2 DEF Socket, Active
<1>4. socket' = [socket EXCEPT ![i] = [socket[i] EXCEPT !.at = at]]
  BY DEF Becomes
<1>5. socket' \in [Sockets -> Socket \cup {Unused}]
  BY <1>2, <1>3, <1>4
<1>6. socket'[i].at = at /\ socket'[i].symbol = socket[i].symbol /\ socket[i].symbol \in Symbols
  BY <1>2, <1>4 DEF Socket
<1>7. OneSubscription'
  BY <1>1, <1>2, <1>4 DEF FeedInv, OneSubscription
<1> QED
  BY <1>1, <1>5, <1>6, <1>7

LEMMA FeedInvStep ==
    ASSUME FeedInv, [FeedNext]_vars
    PROVE  FeedInv'
<1>1. CASE LoadPage
  <2>1. FeedTypeOK'
    BY <1>1 DEF LoadPage, FeedInv, FeedTypeOK, scripts, form, net, Texts
  <2>2. Wired' /\ OneSubscription' /\ BoxesShowSubscription'
    BY <1>1 DEF LoadPage, FeedInv, Wired, OneSubscription, BoxesShowSubscription, form, net
  <2>3. ConnectedIsTrue'
    BY <1>1, TextsDiffer DEF LoadPage, FeedInv, ConnectedIsTrue, net, Texts
  <2> QED
    BY <2>1, <2>2, <2>3 DEF FeedInv
<1>2. CASE UnloadPage
  BY <1>2, Unwired
<1>3. CASE PrimaryLoaded \/ FallbackLoaded \/ FallbackFailed
  BY <1>3, Starts DEF PrimaryLoaded, FallbackLoaded, FallbackFailed, FeedInv, FeedTypeOK
<1>4. CASE PrimaryFailed \/ NotifierLoaded \/ NotifierFailed
  <2>1. UNCHANGED <<phase, form, net, screen>>
    BY <1>4 DEF PrimaryFailed, NotifierLoaded, NotifierFailed
  <2>2. /\ cable' \in BOOLEAN /\ loader' \in {None, "primary", "fallback"}
        /\ notifier' \in {None, "primary", "subscribed"}
    <3>1. /\ cable \in BOOLEAN /\ loader \in {None, "primary", "fallback"}
          /\ notifier \in {None, "primary", "subscribed"}
      BY DEF FeedInv, FeedTypeOK
    <3>2. CASE PrimaryFailed
      BY <3>1, <3>2 DEF PrimaryFailed
    <3>3. CASE NotifierLoaded
      BY <3>1, <3>3 DEF NotifierLoaded
    <3>4. CASE NotifierFailed
      BY <3>1, <3>4 DEF NotifierFailed
    <3> QED
      BY <1>4, <3>2, <3>3, <3>4
  <2>3. FeedTypeOK'
    BY <2>1, <2>2 DEF FeedInv, FeedTypeOK, form, net, screen
  <2> QED
    BY <2>1, <2>3 DEF FeedInv, Wired, OneSubscription, BoxesShowSubscription, ConnectedIsTrue,
                      form, net, screen
<1>5. ASSUME NEW s \in Symbols, TypeSymbol(s) PROVE FeedInv'
  <2>1. FeedTypeOK'
    BY <1>5 DEF TypeSymbol, FeedInv, FeedTypeOK, scripts, net, screen
  <2> QED
    BY <1>5, <2>1 DEF TypeSymbol, FeedInv, Wired, OneSubscription, BoxesShowSubscription,
                      ConnectedIsTrue, net, screen
<1>6. CASE InputTimerFires \/ ChangeSymbol
  <2>1. phase = "on" /\ symbol \in Symbols /\ Mode \in Modes
    BY <1>6 DEF InputTimerFires, ChangeSymbol, FeedInv, FeedTypeOK, Wired, Mode, Modes
  <2>2. Rewire(symbol, Mode) /\ UNCHANGED <<phase, scripts, timer, banner>>
    BY <1>6 DEF InputTimerFires, ChangeSymbol
  <2>3. /\ symbol' \in Symbols /\ edited' \in BOOLEAN /\ inputTimer' \in BOOLEAN
        /\ throttle' \in BOOLEAN
    BY <1>6 DEF InputTimerFires, ChangeSymbol, FeedInv, FeedTypeOK
  <2> QED
    BY <2>1, <2>2, <2>3, Rewires
<1>7. CASE ToggleThrottle
  <2>1. PICK mode \in Modes : Rewire(symbol, mode)
    BY <1>7 DEF ToggleThrottle, Modes
  <2>2. /\ phase = "on" /\ symbol \in Symbols
        /\ UNCHANGED <<phase, scripts, timer, banner>>
        /\ symbol' \in Symbols /\ edited' \in BOOLEAN /\ inputTimer' \in BOOLEAN
        /\ throttle' \in BOOLEAN
    BY <1>7 DEF ToggleThrottle, FeedInv, FeedTypeOK
  <2> QED
    BY <2>1, <2>2, Rewires
<1>8. CASE TimerFires
  <2>1. \A k \in Kinds : Rendered(last)[k] \in {last[k], box[k]}
    BY DEF Rendered
  <2>2. Rendered(last) \in [Kinds -> Data \cup {NoDatum}]
    BY DEF Rendered, FeedInv, FeedTypeOK
  <2>3. FeedTypeOK'
    BY <1>8, <2>2 DEF TimerFires, FeedInv, FeedTypeOK, scripts, form, net
  <2>4. BoxesShowSubscription'
    BY <1>8, <2>1 DEF TimerFires, FeedInv, BoxesShowSubscription, net
  <2> QED
    BY <1>8, <2>3, <2>4 DEF TimerFires, FeedInv, Wired, OneSubscription, ConnectedIsTrue,
                            form, net
<1>9. ASSUME NEW i \in Sockets, SocketOpens(i) PROVE FeedInv'
  <2>1. socket[i].at \in Active /\ Becomes(i, "open") /\ UNCHANGED current
    BY <1>9 DEF SocketOpens, Opens, Active
  <2>2. /\ i = current /\ i # 0
        /\ socket' \in [Sockets -> Socket \cup {Unused}]
        /\ socket'[i].at = "open" /\ socket'[i].symbol = socket[i].symbol
        /\ socket[i].symbol \in Symbols
        /\ OneSubscription'
    BY <2>1, CurrentBecomes DEF Active
  <2>3. FeedTypeOK'
    BY <1>9, <2>2 DEF SocketOpens, FeedInv, FeedTypeOK, scripts, form
  <2>4. Wired' /\ BoxesShowSubscription'
    BY <1>9, <2>2 DEF SocketOpens, FeedInv, Wired, BoxesShowSubscription, form, Active
  <2>5. ConnectedIsTrue'
    BY <1>9, <2>2, TextsDiffer DEF SocketOpens, ConnectedIsTrue
  <2> QED
    BY <2>2, <2>3, <2>4, <2>5 DEF FeedInv
<1>10. ASSUME NEW i \in Sockets, SocketFails(i) PROVE FeedInv'
  <2>1. socket[i].at \in Active /\ Becomes(i, "down") /\ UNCHANGED current
    BY <1>10 DEF SocketFails, Active
  <2>2. /\ i = current /\ i # 0
        /\ socket' \in [Sockets -> Socket \cup {Unused}]
        /\ socket'[i].at = "down" /\ socket'[i].symbol = socket[i].symbol
        /\ OneSubscription'
    BY <2>1, CurrentBecomes DEF Active
  <2>3. FeedTypeOK'
    BY <1>10, <2>2 DEF SocketFails, FeedInv, FeedTypeOK, scripts, form, Texts
  <2>4. Wired' /\ BoxesShowSubscription'
    BY <1>10, <2>2 DEF SocketFails, FeedInv, Wired, BoxesShowSubscription, form, Active
  <2>5. \A s \in Symbols : status' # Connected(s)
    <3>1. CASE status' = Text("disconnected")
      BY <3>1, TextsDiffer DEF Texts
    <3>2. CASE socket[i].at = "opening" /\ UNCHANGED status
      BY <2>2, <3>2 DEF FeedInv, ConnectedIsTrue
    <3> QED
      BY <1>10, <3>1, <3>2 DEF SocketFails
  <2> QED
    BY <2>2, <2>3, <2>4, <2>5 DEF FeedInv, ConnectedIsTrue
<1>11. ASSUME NEW i \in Sockets, SocketCloses(i) PROVE FeedInv'
  <2>1. socket' = [socket EXCEPT ![i] = Unused] /\ UNCHANGED current
    BY <1>11 DEF SocketCloses
  <2>2. i # current
    BY <1>11, FeedAssumption DEF SocketCloses, FeedInv, Wired, Active
  <2>3. FeedTypeOK'
    BY <1>11 DEF SocketCloses, FeedInv, FeedTypeOK, scripts, form, Texts
  <2>4. current # 0 => current \in Sockets /\ socket'[current] = socket[current]
    BY <2>1, <2>2 DEF FeedInv, FeedTypeOK
  <2>5. Wired' /\ BoxesShowSubscription'
    BY <1>11, <2>1, <2>4 DEF SocketCloses, FeedInv, Wired, BoxesShowSubscription, form
  <2>6. OneSubscription'
    BY <2>1 DEF FeedInv, FeedTypeOK, OneSubscription, Unused
  <2>7. ConnectedIsTrue'
    BY <1>11, TextsDiffer DEF SocketCloses, ConnectedIsTrue, Texts
  <2> QED
    BY <2>3, <2>5, <2>6, <2>7 DEF FeedInv
<1>12. ASSUME NEW i \in Sockets, NEW k \in Kinds, NEW t \in Ticks, Receive(i, k, t)
       PROVE  FeedInv'
  <2> DEFINE datum == [symbol |-> socket[i].symbol, tick |-> t]
             data  == [last EXCEPT ![k] = datum]
  <2>1. i = current /\ i # 0
    BY <1>12, FeedAssumption DEF Receive, FeedInv, OneSubscription
  <2>2. datum \in Data /\ datum.symbol = socket[current].symbol
    BY <1>12, <2>1, InUse DEF Receive, FeedInv, Data
  <2>3. data \in [Kinds -> Data \cup {NoDatum}]
    BY <2>2 DEF FeedInv, FeedTypeOK
  <2>4. \A j \in Kinds : data[j] \in {last[j], datum}
    BY DEF FeedInv, FeedTypeOK
  <2>5. last' = data /\ box' \in {box, Rendered(data)}
    BY <1>12 DEF Receive
  <2>6. /\ Rendered(data) \in [Kinds -> Data \cup {NoDatum}]
        /\ \A j \in Kinds : Rendered(data)[j] \in {data[j], box[j]}
    BY <2>3 DEF Rendered, FeedInv, FeedTypeOK
  <2>7. timer' \in {None, "pending"}
    BY <1>12 DEF Receive, FeedInv, FeedTypeOK
  <2>8. UNCHANGED <<phase, scripts, form, net, status, banner>>
    BY <1>12 DEF Receive
  <2>9. FeedTypeOK'
    <3>1. last' \in [Kinds -> Data \cup {NoDatum}]
      BY <2>3, <2>5
    <3>2. box' \in [Kinds -> Data \cup {NoDatum}]
      BY <2>5, <2>6 DEF FeedInv, FeedTypeOK
    <3> HIDE DEF datum, data
    <3> QED
      BY <2>7, <2>8, <3>1, <3>2 DEF FeedInv, FeedTypeOK, scripts, form, net
  <2>10. \A j \in Kinds : {last'[j], box'[j]} \subseteq {last[j], box[j], datum}
    BY <2>4, <2>5, <2>6
  <2>11. BoxesShowSubscription'
    <3> SUFFICES ASSUME NEW j \in Kinds, NEW d \in {last'[j], box'[j]}, d # NoDatum
                 PROVE  current' # 0 /\ d.symbol = socket'[current'].symbol
      BY DEF BoxesShowSubscription
    <3>1. d \in {last[j], box[j], datum}
      BY <2>10
    <3>2. current' = current /\ socket' = socket
      BY <2>8 DEF net
    <3> QED
      BY <2>1, <2>2, <3>1, <3>2 DEF FeedInv, BoxesShowSubscription
  <2> QED
    BY <2>8, <2>9, <2>11 DEF FeedInv, Wired, OneSubscription, ConnectedIsTrue, form, net
<1>13. ASSUME NEW i \in Sockets, NEW degraded \in BOOLEAN, ReceiveStatus(i, degraded)
       PROVE  FeedInv'
  <2>1. FeedTypeOK'
    BY <1>13 DEF ReceiveStatus, FeedInv, FeedTypeOK, scripts, form, net
  <2> QED
    BY <1>13, <2>1 DEF ReceiveStatus, FeedInv, Wired, OneSubscription, BoxesShowSubscription,
                       ConnectedIsTrue, form, net
<1>14. CASE UNCHANGED vars
  BY <1>14 DEF vars, scripts, form, net, screen, FeedInv, FeedTypeOK, Wired, OneSubscription,
               BoxesShowSubscription, ConnectedIsTrue
<1> QED
  BY <1>1, <1>2, <1>3, <1>4, <1>5, <1>6, <1>7, <1>8, <1>9, <1>10, <1>11, <1>12, <1>13, <1>14
  DEF FeedNext

LEMMA FeedInvHolds == FeedSpec => []FeedInv
<1>1. FeedInit => FeedInv
  <2> SUFFICES ASSUME FeedInit PROVE FeedInv
    OBVIOUS
  <2>1. NoData \in [Kinds -> Data \cup {NoDatum}] /\ \A k \in Kinds : NoData[k] = NoDatum
    BY DEF NoData
  <2>2. FeedTypeOK
    BY <2>1, FeedAssumption DEF FeedInit, FeedTypeOK, Texts
  <2>3. Wired /\ OneSubscription /\ BoxesShowSubscription
    BY <2>1 DEF FeedInit, Wired, OneSubscription, BoxesShowSubscription, Unused
  <2>4. ConnectedIsTrue
    BY TextsDiffer DEF FeedInit, ConnectedIsTrue, Texts
  <2> QED
    BY <2>2, <2>3, <2>4 DEF FeedInv
<1>2. FeedInv /\ [FeedNext]_vars => FeedInv'
  BY FeedInvStep
<1> QED
  BY <1>1, <1>2, PTL DEF FeedSpec

\* The feed's state is well-formed for any symbols, messages and sockets.
THEOREM FeedTypes == FeedSpec => []FeedTypeOK
<1>1. FeedInv => FeedTypeOK
  BY DEF FeedInv
<1> QED
  BY <1>1, FeedInvHolds, PTL

\* However rewires, scripts and sockets interleave, one subscription delivers.
THEOREM OneListens == FeedSpec => []OneSubscription
<1>1. FeedInv => OneSubscription
  BY DEF FeedInv
<1> QED
  BY <1>1, FeedInvHolds, PTL

\* No timer and no late event shows data of an earlier subscription.
THEOREM BoxesAreCurrent == FeedSpec => []BoxesShowSubscription
<1>1. FeedInv => BoxesShowSubscription
  BY DEF FeedInv
<1> QED
  BY <1>1, FeedInvHolds, PTL

\* "connecté (S)" is never shown without a connection that is open for S.
THEOREM ConnectedIsConnected == FeedSpec => []ConnectedIsTrue
<1>1. FeedInv => ConnectedIsTrue
  BY DEF FeedInv
<1> QED
  BY <1>1, FeedInvHolds, PTL
=============================================================================
