------------------------------- MODULE Volume -------------------------------
(***************************************************************************)
(* The volume monitor of steppewm (src/src/volume.cc): a thread that talks *)
(* to PulseAudio publishes the level of the default sink in two atomics    *)
(* and wakes the event loop through an eventfd; the event loop reads them  *)
(* to draw the taskbar applet and the on-screen display.                   *)
(*                                                                         *)
(* The daemon is external: a connection that is first in, first out in     *)
(* both directions, and sinks that anybody may change at any time.  Atomic *)
(* accesses are steps of their own, so the two threads interleave between  *)
(* any two of them.  The end of the connection is not modelled.            *)
(***************************************************************************)
EXTENDS Integers, Sequences

CONSTANTS
  Sinks,         \* the daemon's sinks
  Levels,        \* the pa_volume_t averages a sink can have
  NoSink,        \* the empty sink_name_
  MaxChanges     \* bound on what users do at the daemon

MaxLevel == 10 * 65536

ASSUME VolumeAssumption ==
  /\ Sinks # {} /\ NoSink \notin Sinks
  /\ Levels \subseteq 0 .. MaxLevel /\ Levels # {}
  /\ MaxChanges \in Nat

VARIABLES
  \* the daemon and the connection
  sinks,         \* level and mute of each sink
  default_sink,
  subscribed,    \* the daemon sends events
  requests,      \* from the monitor to the daemon
  replies,       \* replies and events, from the daemon to the monitor
  changes,
  \* the pulse thread
  sink_name,     \* sink_name_
  pulse_at,      \* where on_sink_info is: its locals and the next step
  \* shared by the threads
  volume, muted, \* volume_ and muted_
  wake,          \* the eventfd is readable
  \* the event loop
  loop_at,       \* where on_wake or a refresh is
  applet, osd    \* the text of the applet and the last text of the display

daemonVars == <<sinks, default_sink, subscribed, changes>>
linkVars   == <<requests, replies>>
pulseVars  == <<sink_name, pulse_at>>
atomicVars == <<volume, muted>>
loopVars   == <<loop_at, applet, osd>>
volumeVars == <<daemonVars, linkVars, pulseVars, atomicVars, wake, loopVars>>

States == [level: Levels, mute: BOOLEAN]

(* PA_VOLUME_NORM is 100 %.  The product is that of a 32-bit unsigned,     *)
(* which levels below MaxLevel cannot overflow.                            *)
Percent(avg) == (avg * 100 + 32768) \div 65536

Idle == [step |-> "idle"]

(* "VOL MUTE" or "VOL n%": the level does not show while muted. *)
Text(m, n) == [mute |-> m, percent |-> IF m THEN 0 ELSE n]

Nothing == [mute |-> FALSE, percent |-> -1]

ServerQuery    == [ask |-> "server"]
SubscribeQuery == [ask |-> "subscribe"]
SinkQuery(s)   == [ask |-> "sink", sink |-> s]

(* Fault: the default sink is asked for before the subscription. *)
QueryFirst == <<ServerQuery, SubscribeQuery>>

(* on_context_state when the context is ready. *)
OnReady == <<SubscribeQuery, ServerQuery>>

VolumeInit ==
  /\ sinks \in [Sinks -> States]
  /\ default_sink \in Sinks
  /\ subscribed = FALSE
  /\ changes = 0
  /\ requests = OnReady
  /\ replies = <<>>
  /\ sink_name = NoSink
  /\ pulse_at = Idle
  /\ volume = -1 /\ muted = FALSE
  /\ wake = FALSE
  /\ loop_at = Idle
  /\ applet = Nothing /\ osd = Nothing

-----------------------------------------------------------------------------
(* The daemon *)

Announce(event) ==
  replies' = IF subscribed THEN Append(replies, event) ELSE replies

ChangeSink(s, state) ==
  /\ changes < MaxChanges
  /\ sinks[s] # state
  /\ changes' = changes + 1
  /\ sinks' = [sinks EXCEPT ![s] = state]
  /\ Announce([is |-> "sink event", sink |-> s])
  /\ UNCHANGED <<default_sink, subscribed, requests, pulseVars, atomicVars,
                 wake, loopVars>>

ChangeDefault(s) ==
  /\ changes < MaxChanges
  /\ default_sink # s
  /\ changes' = changes + 1
  /\ default_sink' = s
  /\ Announce([is |-> "server event"])
  /\ UNCHANGED <<sinks, subscribed, requests, pulseVars, atomicVars, wake,
                 loopVars>>

(* A request is answered with the state at that moment. *)
Serve ==
  /\ requests # <<>>
  /\ requests' = Tail(requests)
  /\ LET q == Head(requests)
     IN  /\ subscribed' = (subscribed \/ q.ask = "subscribe")
         /\ replies' =
              CASE q.ask = "server" ->
                     Append(replies, [is |-> "server info", sink |-> default_sink])
                [] q.ask = "sink" ->
                     Append(replies, [is |-> "sink info", sink |-> q.sink,
                                      state |-> sinks[q.sink]])
                [] q.ask = "subscribe" -> replies
  /\ UNCHANGED <<sinks, default_sink, changes, pulseVars, atomicVars, wake,
                 loopVars>>

-----------------------------------------------------------------------------
(* The pulse thread, one callback at a time *)

Receive(is) ==
  /\ pulse_at = Idle
  /\ replies # <<>> /\ Head(replies).is = is
  /\ replies' = Tail(replies)

Ask(q) == requests' = Append(requests, q)

(* on_event *)
OnSinkEvent ==
  /\ Receive("sink event")
  /\ Ask(SinkQuery(Head(replies).sink))
  /\ UNCHANGED <<daemonVars, pulseVars, atomicVars, wake, loopVars>>

OnServerEvent ==
  /\ Receive("server event")
  /\ Ask(ServerQuery)
  /\ UNCHANGED <<daemonVars, pulseVars, atomicVars, wake, loopVars>>

(* on_server_info *)
OnServerInfo ==
  /\ Receive("server info")
  /\ sink_name' = Head(replies).sink
  /\ Ask(SinkQuery(Head(replies).sink))
  /\ UNCHANGED <<daemonVars, pulse_at, atomicVars, wake, loopVars>>

(* Before the first server info any sink counts. *)
Tracked(s) == sink_name = NoSink \/ s = sink_name

(* Fault: the average is published unconverted. *)
PublishRaw ==
  /\ Receive("sink info")
  /\ LET info == Head(replies)
     IN  IF Tracked(info.sink)
           THEN /\ volume' = info.state.level
                /\ pulse_at' = [step |-> "mute", mute |-> info.state.mute,
                                differs |-> info.state.level # volume]
           ELSE UNCHANGED <<volume, pulse_at>>
  /\ UNCHANGED <<daemonVars, requests, sink_name, muted, wake, loopVars>>

(* on_sink_info: the early return, or volume_.exchange. *)
OnSinkInfo ==
  /\ Receive("sink info")
  /\ LET info == Head(replies)
         pct  == Percent(info.state.level)
     IN  IF Tracked(info.sink)
           THEN /\ volume' = pct
                /\ pulse_at' = [step |-> "mute", mute |-> info.state.mute,
                                differs |-> pct # volume]
           ELSE UNCHANGED <<volume, pulse_at>>
  /\ UNCHANGED <<daemonVars, requests, sink_name, muted, wake, loopVars>>

(* muted_.exchange and the comparison. *)
ExchangeMuted ==
  /\ pulse_at.step = "mute"
  /\ muted' = pulse_at.mute
  /\ pulse_at' = IF pulse_at.differs \/ pulse_at.mute # muted
                   THEN [step |-> "notify"] ELSE Idle
  /\ UNCHANGED <<daemonVars, linkVars, sink_name, volume, wake, loopVars>>

(* notify: the write of the eventfd, which only adds to what is pending. *)
Notify ==
  /\ pulse_at.step = "notify"
  /\ wake' = TRUE
  /\ pulse_at' = Idle
  /\ UNCHANGED <<daemonVars, linkVars, sink_name, atomicVars, loopVars>>

-----------------------------------------------------------------------------
(* The event loop: on_wake, or any other handler that refreshes taskbars.  *)
(* A draw loads muted_ first and then, unless muted, volume_.              *)

OnWake ==
  /\ loop_at = Idle /\ wake
  /\ wake' = FALSE
  /\ loop_at' = [step |-> "bar", woken |-> TRUE]
  /\ UNCHANGED <<daemonVars, linkVars, pulseVars, atomicVars, applet, osd>>

OtherRefresh ==
  /\ loop_at = Idle
  /\ loop_at' = [step |-> "bar", woken |-> FALSE]
  /\ UNCHANGED <<daemonVars, linkVars, pulseVars, atomicVars, wake, applet, osd>>

AfterBar(woken) == IF woken THEN [step |-> "osd"] ELSE Idle

(* render_volume: the applet is hidden until there is a volume. *)
LoadForBar ==
  /\ loop_at.step = "bar"
  /\ IF volume < 0
       THEN applet' = Nothing /\ loop_at' = AfterBar(loop_at.woken)
       ELSE /\ loop_at' = [step |-> "draw bar", mute |-> muted,
                           woken |-> loop_at.woken]
            /\ UNCHANGED applet
  /\ UNCHANGED <<daemonVars, linkVars, pulseVars, atomicVars, wake, osd>>

DrawBar ==
  /\ loop_at.step = "draw bar"
  /\ applet' = Text(loop_at.mute, volume)
  /\ loop_at' = AfterBar(loop_at.woken)
  /\ UNCHANGED <<daemonVars, linkVars, pulseVars, atomicVars, wake, osd>>

LoadForOsd ==
  /\ loop_at.step = "osd"
  /\ loop_at' = [step |-> "draw osd", mute |-> muted]
  /\ UNCHANGED <<daemonVars, linkVars, pulseVars, atomicVars, wake, applet, osd>>

(* Fault: the eventfd is drained after the drawing. *)
DrawOsdThenDrain ==
  /\ loop_at.step = "draw osd"
  /\ osd' = Text(loop_at.mute, volume)
  /\ wake' = FALSE
  /\ loop_at' = Idle
  /\ UNCHANGED <<daemonVars, linkVars, pulseVars, atomicVars, applet>>

DrawOsd ==
  /\ loop_at.step = "draw osd"
  /\ osd' = Text(loop_at.mute, volume)
  /\ loop_at' = Idle
  /\ UNCHANGED <<daemonVars, linkVars, pulseVars, atomicVars, wake, applet>>

-----------------------------------------------------------------------------

Daemon ==
  \/ \E s \in Sinks, state \in States : ChangeSink(s, state)
  \/ \E s \in Sinks : ChangeDefault(s)
  \/ Serve

PulseThread ==
  \/ OnSinkEvent \/ OnServerEvent \/ OnServerInfo \/ OnSinkInfo
  \/ ExchangeMuted \/ Notify

EventLoop ==
  \/ OnWake \/ OtherRefresh \/ LoadForBar \/ DrawBar \/ LoadForOsd \/ DrawOsd

VolumeNext == Daemon \/ PulseThread \/ EventLoop

(* The daemon answers and both threads run.  Each round of the loop polls  *)
(* every descriptor, so other refreshes cannot starve the eventfd.  Nobody *)
(* has to touch a volume or to refresh a taskbar otherwise.                *)
VolumeSpec ==
  /\ VolumeInit /\ [][VolumeNext]_volumeVars
  /\ WF_volumeVars(Serve) /\ WF_volumeVars(PulseThread)
  /\ SF_volumeVars(OnWake) /\ WF_volumeVars(LoadForBar \/ DrawBar \/ LoadForOsd \/ DrawOsd)

-----------------------------------------------------------------------------

(* The types of what both threads touch and of where they are. *)
VolumeTypeOK ==
  /\ volume \in {-1} \cup { Percent(l) : l \in Levels }
  /\ muted \in BOOLEAN /\ wake \in BOOLEAN
  /\ sink_name \in Sinks \cup {NoSink}
  /\ pulse_at.step \in {"idle", "mute", "notify"}
  /\ loop_at.step \in {"idle", "bar", "draw bar", "osd", "draw osd"}

Shown == IF volume < 0 THEN Nothing ELSE Text(muted, volume)

TrueText == Text(sinks[default_sink].mute, Percent(sinks[default_sink].level))

(* No wake-up is lost: while the event loop is idle, an applet that does   *)
(* not show the published volume has a wake-up pending or about to be      *)
(* written, however the loads of a draw fell between the two exchanges.    *)
StaleOnlyIfWoken ==
  loop_at = Idle /\ applet # Shown => wake \/ pulse_at # Idle

(* Once the users leave the daemon alone, the applet and the last text of  *)
(* the display end up showing the default sink, though the changes of the  *)
(* default, of its level and of other sinks cross the monitor's queries.   *)
ShownCatchesUp ==
  <>[](applet = TrueText /\ osd = TrueText)
=============================================================================
