----------------------------- MODULE WebClient -----------------------------
(***************************************************************************)
(* src/web/app.js: the life of the browser's connection (connect,          *)
(* disconnect, the events of its sockets, the reconnect timer) and of its  *)
(* audio output (toggleListening, toggleMute, updateVolume).               *)
(*                                                                         *)
(* A script runs to its end before the next event is handled, so a handler *)
(* is one step; an await ends it, and what follows is a step of its own.   *)
(* A socket that was replaced lives on until its close event: a handler    *)
(* may be run by a socket that is not state.socket any more. Delays are    *)
(* left out, so reconnectAttempt, which only sets them, is too. What the   *)
(* page shows of messages is in StatusFeed.tla. Numbers of dead sockets    *)
(* and closed audio contexts are used again.                               *)
(*                                                                         *)
(* Init, Next and so on are named WebInit, WebNext, ...: the proofs extend *)
(* this module together with StatusFeed.                                   *)
(*                                                                         *)
(* An operator followed by the definition it misstates (KeepOld, ...) is a *)
(* mutation that a property is tried against.                              *)
(***************************************************************************)
EXTENDS Naturals, FiniteSets

CONSTANTS Sockets,   \* numbers of WebSocket objects; bound of the model
          Contexts   \* numbers of AudioContext objects; bound of the model

ASSUME SocketsAssumption ==
    Sockets \subseteq Nat \ {0} /\ Contexts \subseteq Nat \ {0}

VARIABLES
    phase,        \* per socket: "dead", "connecting", "open" or "closing"
    socket,       \* state.socket, 0 for null
    manual,       \* state.manualDisconnect
    timer,        \* the timer of state.reconnectTimer is pending
    badge,        \* what setConnection shows
    listening,    \* state.listening
    context,      \* state.audioContext, 0 for null
    gain,         \* the context that state.gainNode belongs to, 0 for null
    audible,      \* the AudioContexts that exist and are not closed
    resuming,     \* contexts whose resume() toggleListening waits for
    closing,      \* contexts whose close() it waits for
    overlapped,   \* history: a click came while toggleListening waited
    muted,        \* state.muted
    controls,     \* mute button and volume range are enabled
    level,        \* what the gain is set to, see Levels
    startedMuted  \* history: muted when the gain node was made

netVars   == <<phase, socket, manual, timer, badge>>
audioVars == <<listening, context, gain, audible, resuming, closing,
               overlapped>>
levelVars == <<muted, level, startedMuted>>
webVars == <<phase, socket, manual, timer, badge, listening, context, gain,
             audible, resuming, closing, overlapped, muted, controls, level,
             startedMuted>>

\* No sound; the volume the range shows; one that it showed before.
Levels == {"silent", "shown", "former"}

\* The script has run: its last statement calls connect().
WebInit ==
    /\ socket \in Sockets
    /\ phase = [s \in Sockets |-> IF s = socket THEN "connecting" ELSE "dead"]
    /\ manual = FALSE /\ timer = FALSE /\ badge = "connecting"
    /\ listening = FALSE /\ context = 0 /\ gain = 0
    /\ audible = {} /\ resuming = {} /\ closing = {}
    /\ overlapped = FALSE
    /\ muted = FALSE /\ controls = FALSE
    /\ level = "shown" /\ startedMuted = FALSE

-----------------------------------------------------------------------------
(* The connection.                                                         *)

KeepOld(places) == places

\* Mute and volume can be used when connected and listening.
SetConnection(label) ==
    /\ badge' = label
    /\ controls' = (label = "online" /\ listening)
    /\ UNCHANGED <<audioVars, levelVars>>

\* socket.close() on state.socket: its close event comes later.
CloseCurrent(places) ==
    IF socket # 0 /\ places[socket] \in {"connecting", "open"}
    THEN [places EXCEPT ![socket] = "closing"]
    ELSE places

Connect ==
    /\ \E s \in Sockets :
          /\ phase[s] = "dead"
          /\ phase' = [CloseCurrent(phase) EXCEPT ![s] = "connecting"]
          /\ socket' = s
    /\ manual' = FALSE
    /\ SetConnection("connecting")

\* A click does not stop the timer.
ClickConnect == Connect /\ UNCHANGED timer

TimerFires == timer /\ Connect /\ timer' = FALSE

Disconnect ==
    /\ manual' = TRUE
    /\ timer' = FALSE
    /\ phase' = CloseCurrent(phase)
    /\ socket' = 0
    /\ SetConnection("offline")

\* onopen.
Opened(s) ==
    /\ phase[s] = "connecting"
    /\ phase' = [phase EXCEPT ![s] = "open"]
    /\ SetConnection("online")
    /\ UNCHANGED <<socket, manual, timer>>

OnCloseNoTimer == timer' = timer

\* onclose, of whatever socket: clearTimeout, setTimeout(connect).
OnClose == timer' = (timer \/ ~manual)

Dies(s) ==
    /\ phase' = [phase EXCEPT ![s] = "dead"]
    /\ SetConnection("offline")
    /\ OnClose
    /\ UNCHANGED <<socket, manual>>

\* The close event of a socket that was closed, and of one that was not.
Closed(s) == phase[s] = "closing" /\ Dies(s)

Lost(s) == phase[s] \in {"connecting", "open"} /\ Dies(s)

-----------------------------------------------------------------------------
(* toggleListening. Its button is enabled by setConnection(true) only.     *)

Click ==
    /\ badge = "online"
    /\ overlapped' = (overlapped \/ resuming # {} \/ closing # {})
    /\ UNCHANGED netVars

StartOnOldContext ==
    /\ Click
    /\ ~listening
    /\ resuming' = resuming \cup {context}
    /\ \E c \in Contexts \ audible :
          context' = c /\ audible' = audible \cup {c}
    /\ UNCHANGED <<listening, gain, closing, controls, levelVars>>

\* Up to the await of resume().
StartListening ==
    /\ Click
    /\ ~listening
    /\ \E c \in Contexts \ audible :
          /\ context' = c
          /\ audible' = audible \cup {c}
          /\ resuming' = resuming \cup {c}
    /\ UNCHANGED <<listening, gain, closing, controls, levelVars>>

\* After it. state.audioContext is read again: it may be another one, or
\* null, and then createGain throws and the rest is not run.
Resumed(c) ==
    /\ c \in resuming
    /\ resuming' = resuming \ {c}
    /\ \/ /\ context # 0
          /\ gain' = context /\ listening' = TRUE
          /\ level' = "shown" /\ startedMuted' = muted
          /\ controls' = TRUE
       \/ /\ context = 0
          /\ UNCHANGED <<gain, listening, level, startedMuted, controls>>
    /\ UNCHANGED <<netVars, context, audible, closing, overlapped, muted>>

\* Up to the await of close(); without a context there is no await. On a
\* context being closed or closed before, close() is rejected, and the rest
\* is not run.
StopListening ==
    /\ Click
    /\ listening
    /\ listening' = FALSE
    /\ \/ /\ context = 0
          /\ gain' = 0 /\ controls' = FALSE
          /\ UNCHANGED closing
       \/ /\ context \in audible \ closing
          /\ closing' = closing \cup {context}
          /\ UNCHANGED <<gain, controls>>
       \/ /\ context # 0 /\ context \notin audible \ closing
          /\ UNCHANGED <<closing, gain, controls>>
    /\ UNCHANGED <<context, audible, resuming, levelVars>>

\* After it. A resume() still waited for is rejected.
ContextClosed(c) ==
    /\ c \in closing
    /\ closing' = closing \ {c} /\ audible' = audible \ {c}
    /\ resuming' = resuming \ {c}
    /\ context' = 0 /\ gain' = 0 /\ controls' = FALSE
    /\ UNCHANGED <<netVars, listening, overlapped, levelVars>>

-----------------------------------------------------------------------------
(* Mute and volume. Neither looks at the connection or at state.listening. *)

SetLevel(l) == level' = IF gain # 0 THEN l ELSE level

ToggleMute ==
    /\ controls
    /\ muted' = ~muted
    /\ SetLevel(IF muted' THEN "silent" ELSE "shown")
    /\ startedMuted' = (startedMuted /\ gain = 0)
    /\ UNCHANGED <<netVars, audioVars, controls>>

UpdateVolumeWhileMuted ==
    /\ controls
    /\ SetLevel("shown")
    /\ UNCHANGED <<netVars, audioVars, controls, muted, startedMuted>>

\* The range is moved; a muted gain keeps what it was set to.
UpdateVolume ==
    /\ controls
    /\ SetLevel(CASE ~muted -> "shown"
                  [] muted /\ level = "silent" -> "silent"
                  [] OTHER -> "former")
    /\ UNCHANGED <<netVars, audioVars, controls, muted, startedMuted>>

-----------------------------------------------------------------------------
WebNext ==
    \/ ClickConnect \/ TimerFires \/ Disconnect
    \/ \E s \in Sockets : Opened(s) \/ Closed(s) \/ Lost(s)
    \/ StartListening \/ StopListening \/ ToggleMute \/ UpdateVolume
    \/ \E c \in Contexts : Resumed(c) \/ ContextClosed(c)

WebSpec == WebInit /\ [][WebNext]_webVars

\* An attempt to connect succeeds or fails.
AttemptEnds(s) == phase[s] = "connecting" /\ (Opened(s) \/ Lost(s))

\* The browser runs a timer and delivers the close event of a closed socket,
\* and an attempt to connect comes to an end. Nobody need click.
FairWebSpec ==
    /\ WebSpec
    /\ WF_webVars(TimerFires)
    /\ \A s \in Sockets : WF_webVars(Closed(s)) /\ WF_webVars(AttemptEnds(s))
    /\ \A c \in Contexts :
          WF_webVars(Resumed(c)) /\ WF_webVars(ContextClosed(c))

-----------------------------------------------------------------------------
(* Properties.                                                             *)

\* The variables keep their types (the fields of state, and what the browser
\* keeps of sockets and audio contexts).
WebTypeOK ==
    /\ phase \in [Sockets -> {"dead", "connecting", "open", "closing"}]
    /\ socket \in Sockets \cup {0}
    /\ {manual, timer, listening, overlapped, muted, controls, startedMuted}
          \subseteq BOOLEAN
    /\ level \in Levels
    /\ badge \in {"connecting", "online", "offline"}
    /\ {context, gain} \subseteq Contexts \cup {0}
    /\ audible \subseteq Contexts
    /\ resuming \subseteq audible /\ closing \subseteq audible

\* Whatever the order of clicks, timers and late events: no socket but the
\* current one is alive, so audio is never handled twice, and the page shows
\* a connection only when it has one. After disconnect() nothing opens a
\* socket but a click on connect: neither a timer set before nor the close
\* event of a socket that closes after it.
OneConnection ==
    /\ \A s \in Sockets : phase[s] \in {"connecting", "open"} => s = socket
    /\ badge = "online" => socket # 0 /\ phase[socket] = "open"
    /\ manual => ~timer /\ socket = 0

\* A connection that was not given up by the user is sought again when it
\* was lost.
SeeksConnection ==
    (~manual /\ \A s \in Sockets : phase[s] # "open")
        ~> (manual \/ \E s \in Sockets : phase[s] \in {"connecting", "open"})

\* Who clicks only when toggleListening has come to its end listens with a
\* gain node in an open context, and leaves no other context open. What is
\* heard is what the page shows, nothing while muted and the volume of the
\* range else, but for a start while muted: there the gain is set without a
\* look at state.muted, and stays wrong until the next click on mute.
ListeningWorks ==
    ~overlapped =>
        /\ listening => context \in audible \ closing /\ gain = context
        /\ audible \subseteq {context}
        /\ listening /\ ~muted => level = "shown"
        /\ listening /\ muted /\ ~startedMuted => level = "silent"
        /\ resuming = {} /\ closing = {} /\ ~listening => audible = {}

\* web/README: the mute button serves to reduce acoustic feedback, so a page
\* that listens and is muted (the button offers to end that) plays nothing.
MutedIsSilent == ~overlapped /\ listening /\ muted => level = "silent"

\* README, stability: no endless reconnection; connections are made for ever
\* only when connections are lost for ever, or the user clicks for ever.
NoEndlessReconnection ==
    []<><<TimerFires>>_webVars =>
        \/ []<><<\E s \in Sockets : Lost(s)>>_webVars
        \/ []<><<ClickConnect>>_webVars
        \/ []<><<Disconnect>>_webVars
=============================================================================
