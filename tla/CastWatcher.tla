----------------------------- MODULE CastWatcher -----------------------------
(***************************************************************************)
(* The cast-watcher sidecar: client/cast-watcher/{client,server}.go.       *)
(*                                                                         *)
(* A reader goroutine follows a Chromecast over one socket and keeps a     *)
(* copy of what it plays; what Core has to know is queued for a worker     *)
(* that posts it (trigger, dismiss, state), and a post that fails resets   *)
(* part of what the reader believes it has reported.  A supervisor dials   *)
(* again, a watchdog closes a silent socket, and HTTP requests send        *)
(* commands and wake pulses.                                               *)
(*                                                                         *)
(* The Chromecast and Core are external.  The socket is in order, so the   *)
(* model keeps, instead of the messages, whether one of each kind is yet   *)
(* to be read; a message read shows the Chromecast as it is then.  An app  *)
(* stands for its id and its transport; session ids are not used twice; a  *)
(* title stands for title, series, season and episode and is the session   *)
(* it belongs to.  Positions are left out: a status may or may not be      *)
(* more than five seconds away from the position expected.                 *)
(***************************************************************************)
EXTENDS Integers, Sequences, FiniteSets

CONSTANTS
    Apps,        \* app sessions of the Chromecast, the backdrop aside
    NoApp,       \* idle, or showing the backdrop
    Player,      \* the default media player a wake pulse launches
    Active,      \* player states of an item that is not idle: playing, paused, buffering
    Wakers,      \* concurrent wake requests
    Capacity,    \* of dispatchCh
    MaxSession,  \* bound: media sessions of one behaviour
    MaxChanges,  \* bound: changes of the Chromecast by its user, and commands
    MaxFaults    \* bound: lost connections, failed posts, restarts

ASSUME AppsAssumption == Player \in Apps /\ NoApp \notin Apps
ASSUME ActiveAssumption ==
    {"playing", "paused"} \subseteq Active /\ Active \subseteq {"playing", "paused", "buffering"}
ASSUME BoundsAssumption == {Capacity, MaxSession, MaxChanges, MaxFaults} \subseteq Nat

VARIABLES
    dev,         \* the Chromecast: app, session, state, and the transport this socket joined
    items,       \* session ids the Chromecast has used
    conn,        \* the socket: none, live, silent (peer gone), closed (by the watchdog)
    unread,      \* kinds of messages sent and not read yet: receiver, media
    joins,       \* goroutines about to CONNECT to a transport
    app, session, player, title,   \* appID and transportID, mediaSessionID, playerState, lastTitle...
    reported,    \* lastReported...: state, title, session
    triggered,   \* lastTriggered
    queue,       \* dispatchCh
    strays,      \* dispatches of the goroutines started when it was full
    post,        \* the request the worker is at, <<>> if none
    core,        \* the stream "chromecast" at Core: shown, state, title
    wake,        \* per wake request: idle, waiting for wakeMu, launched
    rested,      \* at least five seconds have passed since lastWakeTime
    orphaned,    \* history: Core shows a stream nobody will dismiss
    dropped,     \* history: Core lost the stream without a dismissal of ours
    reordered,   \* history: a stray was posted
    restarted,   \* history: Core was triggered again while it showed the stream
    changes, faults

device == <<dev, conn, unread, joins>>
media == <<app, session, player, title>>
belief == <<media, reported, triggered>>
dispatch == <<queue, strays, post>>
wakeVars == <<wake, rested>>
history == <<orphaned, dropped, reordered, restarted>>
vars == <<device, items, belief, dispatch, core, wakeVars, history, changes, faults>>

NoTitle == 0
Nothing == [state |-> "none", title |-> NoTitle, session |-> 0]
Absent == [shown |-> FALSE, state |-> "none", title |-> NoTitle]

Init ==
    /\ dev = [app |-> NoApp, session |-> 0, state |-> "none", joined |-> NoApp]
    /\ items = 0
    /\ conn = "none" /\ unread = {} /\ joins = {}
    /\ app = NoApp /\ session = 0 /\ player = "none" /\ title = NoTitle
    /\ reported = Nothing
    /\ triggered = FALSE
    /\ queue = <<>> /\ strays = {} /\ post = <<>>
    /\ core = Absent
    /\ wake = [w \in Wakers |-> "idle"] /\ rested = TRUE
    /\ orphaned = FALSE /\ dropped = FALSE /\ reordered = FALSE /\ restarted = FALSE
    /\ changes = 0 /\ faults = 0

-----------------------------------------------------------------------------
(* The Chromecast.                                                         *)

\* Messages reach the sidecar over a live socket; media status only from a
\* transport it has joined.
Tells(kinds) ==
    unread' = IF conn # "live" THEN unread
              ELSE unread \cup {k \in kinds : k = "media" => dev.joined = dev.app}

\* An app is started, replaced or stopped; it may begin with an item.
DeviceApp(a, s, p) ==
    /\ a # dev.app
    /\ dev' = [dev EXCEPT !.app = a, !.session = s, !.state = p]
    /\ unread' = IF conn = "live" THEN (unread \ {"media"}) \cup {"receiver"} ELSE unread

UserApp ==
    /\ changes < MaxChanges
    /\ \/ \E a \in Apps \cup {NoApp} : DeviceApp(a, 0, "none") /\ UNCHANGED items
       \/ \E a \in Apps : /\ items < MaxSession
                         /\ DeviceApp(a, items + 1, "playing")
                         /\ items' = items + 1
    /\ changes' = changes + 1
    /\ UNCHANGED <<conn, joins, belief, dispatch, core, wakeVars, history, faults>>

\* The next item, or another state of the same one.
UserMedia ==
    /\ changes < MaxChanges
    /\ dev.app # NoApp
    /\ \E s \in ({dev.session, items + 1} \cap 1..MaxSession), p \in Active \cup {"idle"} :
         /\ dev' = [dev EXCEPT !.session = s, !.state = p]
         /\ items' = IF s > items THEN s ELSE items
    /\ Tells({"media"})
    /\ changes' = changes + 1
    /\ UNCHANGED <<conn, joins, belief, dispatch, core, wakeVars, history, faults>>

\* Status is sent again: the volume changed, or the app reports its progress.
Announce ==
    /\ conn = "live"
    /\ \E k \in {"receiver", "media"} : Tells({k})
    /\ UNCHANGED <<items, dev, conn, joins, belief, dispatch, core, wakeVars, history, changes, faults>>

-----------------------------------------------------------------------------
(* The socket: supervisorLoop, connectAndServe, heartbeatAndWatchdog.      *)

\* Dial, CONNECT to the receiver and GET_STATUS; nothing is joined yet.
Dial ==
    /\ conn = "none"
    /\ conn' = "live"
    /\ dev' = [dev EXCEPT !.joined = NoApp]
    /\ unread' = {"receiver"}
    /\ UNCHANGED <<items, joins, belief, dispatch, core, wakeVars, history, changes, faults>>

\* The peer is gone: with a reset the reader sees, or without a word.
Lose ==
    /\ conn = "live"
    /\ faults < MaxFaults
    /\ conn' \in {"closed", "silent"}
    /\ unread' = {}
    /\ faults' = faults + 1
    /\ UNCHANGED <<items, dev, joins, belief, dispatch, core, wakeVars, history, changes>>

\* Fault: the watchdog only logs.
Watchdog_Logs ==
    /\ conn = "silent"
    /\ UNCHANGED vars

\* No message for WatchdogTimeout: the socket is closed.
Watchdog ==
    /\ conn = "silent"
    /\ conn' = "closed"
    /\ UNCHANGED <<items, dev, unread, joins, belief, dispatch, core, wakeVars, history, changes, faults>>

\* The reader fails; the supervisor forgets the socket, not what it believes.
Hangup ==
    /\ conn = "closed"
    /\ conn' = "none"
    /\ UNCHANGED <<items, dev, unread, joins, belief, dispatch, core, wakeVars, history, changes, faults>>

-----------------------------------------------------------------------------
(* Messages.                                                               *)

\* queueDispatch: a full channel starts a goroutine.
QueueDispatch(d) ==
    IF Len(queue) < Capacity
    THEN queue' = Append(queue, d) /\ UNCHANGED strays
    ELSE strays' = strays \cup {d} /\ UNCHANGED queue

ResetMedia ==
    /\ session' = 0
    /\ player' = "none"
    /\ title' = NoTitle
    /\ reported' = Nothing

\* RECEIVER_STATUS with an app: its transport is joined when it is a new one,
\* Core is triggered unless it has been.
AppActive ==
    /\ dev.app # NoApp
    /\ app' = dev.app
    /\ joins' = IF dev.app # app THEN joins \cup {dev.app} ELSE joins
    /\ triggered' = TRUE
    /\ IF triggered
       THEN UNCHANGED <<queue, strays>>
       ELSE QueueDispatch([op |-> "trigger", state |-> "none"])
    /\ UNCHANGED <<session, player, title, reported>>

\* Fault: only an app that was triggered is dismissed.
AppIdle_IfTriggered ==
    /\ dev.app = NoApp
    /\ app' = NoApp
    /\ triggered' = FALSE
    /\ IF triggered
       THEN ResetMedia /\ QueueDispatch([op |-> "dismiss", state |-> "none"])
       ELSE UNCHANGED <<session, player, title, reported, queue, strays>>
    /\ UNCHANGED joins

\* RECEIVER_STATUS without one: what was shown is dismissed.
AppIdle ==
    /\ dev.app = NoApp
    /\ app' = NoApp
    /\ triggered' = FALSE
    /\ IF app # NoApp \/ triggered
       THEN ResetMedia /\ QueueDispatch([op |-> "dismiss", state |-> "none"])
       ELSE UNCHANGED <<session, player, title, reported, queue, strays>>
    /\ UNCHANGED joins

ReceiverStatus ==
    /\ conn = "live"
    /\ "receiver" \in unread
    /\ AppActive \/ AppIdle
    /\ unread' = unread \ {"receiver"}
    /\ UNCHANGED <<items, dev, conn, post, core, wakeVars, history, changes, faults>>

\* The goroutine's best-effort CONNECT and GET_STATUS.
Join(a) ==
    /\ a \in joins
    /\ joins' = joins \ {a}
    /\ IF conn = "live" /\ dev.app = a
       THEN /\ dev' = [dev EXCEPT !.joined = a]
            /\ unread' = unread \cup {"media"}
       ELSE UNCHANGED <<dev, unread>>
    /\ UNCHANGED <<items, conn, belief, dispatch, core, wakeVars, history, changes, faults>>

\* updateMediaMetadataLocked: a new session takes what the message has, the
\* same one only a title that is there.
Metadata(t) == IF (dev.session # 0 /\ dev.session # session) \/ t # NoTitle THEN t ELSE title

\* handleActiveMediaLocked
MediaActive(t, far) ==
    /\ dev.state \in Active
    /\ session' = dev.session
    /\ title' = Metadata(t)
    /\ player' = dev.state
    /\ LET seen == [state |-> dev.state, title |-> Metadata(t), session |-> dev.session] IN
       IF seen # reported \/ far
       THEN /\ reported' = seen
            /\ QueueDispatch([op |-> "state", state |-> dev.state])
       ELSE UNCHANGED <<reported, queue, strays>>

\* handleIdleMediaLocked: a terminal idle status ends the session; another
\* one changes only the metadata.
MediaIdle(t, terminal) ==
    /\ dev.state = "idle"
    /\ IF terminal
       THEN /\ session' = 0 /\ player' = "idle" /\ title' = NoTitle
            /\ reported' = [Nothing EXCEPT !.state = "idle"]
            /\ IF reported.state # "idle"
               THEN QueueDispatch([op |-> "state", state |-> "idle"])
               ELSE UNCHANGED <<queue, strays>>
       ELSE /\ session' = dev.session
            /\ title' = Metadata(t)
            /\ UNCHANGED <<player, reported, queue, strays>>

\* A status without an item says nothing.
MediaNone ==
    /\ dev.state = "none"
    /\ UNCHANGED <<session, player, title, reported, queue, strays>>

\* MEDIA_STATUS, with or without the metadata of its session, and after its
\* user has sought another position or not.
MediaStatus ==
    /\ conn = "live"
    /\ "media" \in unread
    /\ \E t \in {NoTitle, dev.session} :
         \/ \E sought \in BOOLEAN :
              /\ sought => changes < MaxChanges
              /\ MediaActive(t, sought)
              /\ changes' = IF sought THEN changes + 1 ELSE changes
         \/ \E terminal \in BOOLEAN : MediaIdle(t, terminal) /\ UNCHANGED changes
         \/ MediaNone /\ UNCHANGED changes
    /\ unread' = unread \ {"media"}
    /\ UNCHANGED <<items, dev, conn, joins, app, triggered, post, core, wakeVars, history, faults>>

-----------------------------------------------------------------------------
(* Requests to Core: dispatchWorker, postToCore.                           *)

\* The worker takes a dispatch; its payload is what is known now.
TakeDispatch ==
    /\ post = <<>>
    /\ queue # <<>>
    /\ post' = <<[op |-> Head(queue).op, state |-> Head(queue).state, title |-> title]>>
    /\ queue' = Tail(queue)
    /\ UNCHANGED <<items, device, belief, strays, core, wakeVars, history, changes, faults>>

\* Core's handlers of the three requests: a stream triggered again keeps its
\* title and plays; an empty title leaves the one that is there, unless idle.
Applied(r) ==
    CASE r.op = "trigger" -> [shown |-> TRUE, state |-> "playing",
                              title |-> IF r.title # NoTitle THEN r.title ELSE core.title]
      [] r.op = "dismiss" -> Absent
      [] r.op = "state" /\ core.shown ->
           [shown |-> TRUE, state |-> r.state,
            title |-> IF r.title # NoTitle THEN r.title
                      ELSE IF r.state = "idle" THEN NoTitle ELSE core.title]
      [] OTHER -> core

\* Core answers 404 to a stream it does not have.
Accepts(r) == r.op = "trigger" \/ core.shown

\* Only triggers and states are tried again; a dismissal is not.
ResetReportedOnFailure(op) ==
    /\ reported' = IF op = "state"
                   THEN [reported EXCEPT !.state = "none", !.title = NoTitle] ELSE reported
    /\ triggered' = (triggered /\ op # "trigger")

\* What a request that did or did not get through means for the history.
Recorded(r, done) ==
    /\ orphaned' = IF done THEN orphaned /\ r.op = "state"
                   ELSE orphaned \/ (r.op = "dismiss" /\ core.shown)
    /\ dropped' = (dropped /\ ~(done /\ r.op # "state"))
    /\ restarted' = IF done /\ r.op = "trigger" THEN core.shown
                    ELSE restarted /\ ~(done /\ r.op = "state")

\* The request is answered, refused or unreachable, or its answer is lost.
Posted(r) ==
    \/ /\ Accepts(r)
       /\ core' = Applied(r)
       /\ Recorded(r, TRUE)
       /\ UNCHANGED <<reported, triggered, faults>>
    \/ /\ ~Accepts(r) \/ faults < MaxFaults
       /\ ResetReportedOnFailure(r.op)
       /\ Recorded(r, FALSE)
       /\ faults' = IF Accepts(r) THEN faults + 1 ELSE faults
       /\ UNCHANGED core
    \/ /\ Accepts(r) /\ faults < MaxFaults
       /\ core' = Applied(r)
       /\ ResetReportedOnFailure(r.op)
       /\ Recorded(r, TRUE)
       /\ faults' = faults + 1

PostDispatch ==
    /\ post # <<>>
    /\ Posted(post[1])
    /\ post' = <<>>
    /\ UNCHANGED <<items, device, media, queue, strays, wakeVars, reordered, changes>>

\* A goroutine started on overflow posts whenever it gets to it.
PostStray ==
    /\ \E d \in strays :
         /\ Posted([op |-> d.op, state |-> d.state, title |-> title])
         /\ strays' = strays \ {d}
    /\ reordered' = TRUE
    /\ UNCHANGED <<items, device, media, queue, post, wakeVars, changes>>

\* Core restarts, or its user dismisses or replaces the stream.
CoreDrops ==
    /\ core.shown
    /\ faults < MaxFaults
    /\ core' = Absent
    /\ dropped' = TRUE
    /\ orphaned' = FALSE
    /\ faults' = faults + 1
    /\ UNCHANGED <<items, device, belief, dispatch, wakeVars, reordered, restarted, changes>>

-----------------------------------------------------------------------------
(* HTTP requests: handleAction.                                            *)

\* SendMediaAction and Seek go to the session the sidecar knows of; the
\* Chromecast ignores a session it no longer has.
MediaAction ==
    /\ changes < MaxChanges
    /\ conn \in {"live", "silent"} /\ app # NoApp /\ session # 0
    /\ IF conn = "live" /\ dev.app = app /\ dev.session = session /\ dev.state \in Active
       THEN /\ dev' = [dev EXCEPT !.state = IF player = "playing" THEN "paused" ELSE "playing"]
            /\ Tells({"media"})
       ELSE UNCHANGED <<dev, unread>>
    /\ changes' = changes + 1
    /\ UNCHANGED <<items, conn, joins, belief, dispatch, core, wakeVars, history, faults>>

Idle == app = NoApp /\ player \notin {"playing", "buffering"}

\* Wake: refused unless connected and idle...
WakeBegin(w) ==
    /\ wake[w] = "idle"
    /\ changes < MaxChanges
    /\ conn # "none" /\ Idle
    /\ wake' = [wake EXCEPT ![w] = "waiting"]
    /\ changes' = changes + 1
    /\ UNCHANGED <<items, device, belief, dispatch, core, rested, history, faults>>

\* ... and, once it has wakeMu, unless busy by now or just done; LAUNCH.
WakeLaunch(w) ==
    /\ wake[w] = "waiting"
    /\ \A v \in Wakers : wake[v] # "launched"
    /\ IF ~Idle \/ ~rested
       THEN wake' = [wake EXCEPT ![w] = "idle"] /\ UNCHANGED <<dev, unread, rested>>
       ELSE /\ rested' = FALSE
            /\ IF conn # "live" \/ dev.app = Player THEN UNCHANGED <<dev, unread>> ELSE DeviceApp(Player, 0, "none")
            /\ wake' = [wake EXCEPT ![w] = IF conn \in {"live", "silent"} THEN "launched" ELSE "idle"]
    /\ UNCHANGED <<items, conn, joins, belief, dispatch, core, history, changes, faults>>

\* After WakeDelay STOP ends whatever runs; a request that is given up, and a
\* socket that is gone, end the pulse without it.
WakeStop(w) ==
    /\ wake[w] = "launched"
    /\ wake' = [wake EXCEPT ![w] = "idle"]
    /\ IF conn = "live" /\ dev.app # NoApp THEN DeviceApp(NoApp, 0, "none") ELSE UNCHANGED <<dev, unread>>
    /\ UNCHANGED <<items, conn, joins, belief, dispatch, core, rested, history, changes, faults>>

WakeGivenUp(w) ==
    /\ wake[w] = "launched"
    /\ faults < MaxFaults
    /\ wake' = [wake EXCEPT ![w] = "idle"]
    /\ faults' = faults + 1
    /\ UNCHANGED <<items, device, belief, dispatch, core, rested, history, changes>>

\* Five seconds pass.
Rest ==
    /\ ~rested
    /\ rested' = TRUE
    /\ UNCHANGED <<items, device, belief, dispatch, core, wake, history, changes, faults>>

\* The sidecar stops (Close) or dies, and starts again.
Restart ==
    /\ faults < MaxFaults
    /\ faults' = faults + 1
    /\ app' = NoApp
    /\ ResetMedia
    /\ triggered' = FALSE
    /\ queue' = <<>> /\ strays' = {} /\ post' = <<>>
    /\ conn' = "none" /\ unread' = {} /\ joins' = {}
    /\ wake' = [w \in Wakers |-> "idle"] /\ rested' = TRUE
    /\ orphaned' = core.shown
    /\ UNCHANGED <<items, dev, core, dropped, reordered, restarted, changes>>

-----------------------------------------------------------------------------
Reader == ReceiverStatus \/ MediaStatus
Socket == Dial \/ Watchdog \/ Hangup
Worker == TakeDispatch \/ PostDispatch

Next ==
    \/ UserApp \/ UserMedia \/ Announce
    \/ Socket \/ Lose
    \/ Reader \/ \E a \in Apps : Join(a)
    \/ Worker \/ PostStray \/ CoreDrops
    \/ MediaAction \/ Rest
    \/ \E w \in Wakers : WakeBegin(w) \/ WakeLaunch(w) \/ WakeStop(w) \/ WakeGivenUp(w)
    \/ Restart

\* Goroutines go on: the supervisor dials, the watchdog's ticker fires, the
\* reader reads, the worker posts, a pulse ends after its delay.
Fairness ==
    /\ WF_vars(Socket) /\ WF_vars(ReceiverStatus) /\ WF_vars(MediaStatus)
    /\ WF_vars(Worker) /\ WF_vars(PostStray)
    /\ \A w \in Wakers : WF_vars(WakeLaunch(w) \/ WakeStop(w))
    /\ \A a \in Apps : WF_vars(Join(a))

Spec == Init /\ [][Next]_vars /\ Fairness

-----------------------------------------------------------------------------
(* Properties.                                                             *)

States == Active \cup {"none", "idle"}
Titles == 0..MaxSession
Dispatch == [op: {"trigger", "dismiss", "state"}, state: States]

\* The types of the watcher's belief, of its requests and of Core's stream.
TypeOK ==
    /\ dev \in [app: Apps \cup {NoApp}, session: Titles, state: States, joined: Apps \cup {NoApp}]
    /\ items \in Titles
    /\ conn \in {"none", "live", "silent", "closed"}
    /\ unread \subseteq {"receiver", "media"} /\ joins \subseteq Apps
    /\ app \in Apps \cup {NoApp} /\ session \in Titles /\ player \in States /\ title \in Titles
    /\ reported \in [state: States, title: Titles, session: Titles]
    /\ triggered \in BOOLEAN
    /\ queue \in Seq(Dispatch) /\ Len(queue) <= Capacity
    /\ strays \subseteq Dispatch
    /\ core \in [shown: BOOLEAN, state: States, title: Titles]
    /\ wake \in [Wakers -> {"idle", "waiting", "launched"}]

Quiet == queue = <<>> /\ strays = {} /\ post = <<>>

\* Nothing left to post, Core shows the stream if the watcher has triggered it
\* and none if the watcher knows of no app, with the player state and the title
\* last reported, through lost connections, failed posts and lost answers.  Four
\* things break it and nothing of the watcher notices: a stream Core has dropped
\* by itself, a dismissal that failed or that a restarted watcher does not know
\* of, the overflow of dispatchCh, and, for the player state, a repeated trigger,
\* which makes the stream play.
CoreAgrees ==
    Quiet /\ ~reordered =>
      /\ triggered /\ ~dropped => core.shown
      /\ ~triggered /\ app = NoApp /\ ~orphaned => ~core.shown
      /\ core.shown /\ ~dropped /\ ~restarted /\ reported.state # "none" =>
           /\ core.state = reported.state
           /\ reported.title # NoTitle /\ reported.title = title => core.title = title

\* An app that stays is shown, if its status keeps being sent, and one that
\* stays away is dismissed, even after a connection died without a word.
Follows ==
    /\ \A a \in Apps :
         <>[](dev.app = a) /\ []<><<ReceiverStatus>>_vars => <>[](core.shown \/ dropped \/ reordered)
    /\ <>[](dev.app = NoApp) => <>[](~core.shown \/ orphaned \/ reordered)
=============================================================================
