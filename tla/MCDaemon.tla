------------------------------ MODULE MCDaemon ------------------------------
(***************************************************************************)
(* The parts of a server around its session's state: claiming the socket    *)
(* path, the session's lifecycle and handshakes, the frames of a snapshot,   *)
(* and the order in which the lanes of a connection are served; and two       *)
(* applications, the process monitor and the gallery.  One behaviour explores   *)
(* one of them.                                                              *)
(***************************************************************************)
EXTENDS ServiceGaps, ChannelPolicy, DaemonStart, Lifecycle, SnapshotFraming, ProcessMonitor, Gallery

CONSTANT Foci    \* the parts explored

VARIABLE focus  \* the part this behaviour explores

----------------------------------------------------------------------------
(* Servers *)

MCPaths == {"default.sock", "other.sock"}

\* Programs that share a lock, or never replace a socket, meet on a path; the
\* gallery and the counter have it to themselves.
MCScenes ==
  {[s1 |-> "sessiond", s2 |-> "sessiond"], [s1 |-> "monitor", s2 |-> "agent"],
   [s1 |-> "srtop", s2 |-> "srtop"], [s1 |-> "gallery", s2 |-> "idle"],
   [s1 |-> "counter", s2 |-> "idle"]}

MCArgv ==
  [sessiond |-> {<<>>, <<"--socket">>, <<"--journal-capacity", "0">>, <<"--sockets">>,
                 <<"other.sock", "--app", "counter", "--journal-capacity", "5", "--socket", "default.sock">>},
   monitor  |-> {<<>>, <<"--socket", "--wire-stats">>, <<"--wire-stats", "--socket", "default.sock">>},
   gallery  |-> {<<>>, <<"--help">>, <<"--autoplay", "--autoplay-interval", "5">>,
                 <<"--autoplay-interval", "0">>, <<"--socket", "default.sock">>},
   agent    |-> {<<>>, <<"--socket", "default.sock">>},
   counter  |-> {<<>>, <<"--image-fixture", "--socket", "other.sock">>},
   srtop    |-> {<<>>, <<"--socket", "default.sock", "--scale-source", "5", "--live-source">>,
                 <<"--socket", "default.sock", "--scale-source", "5", "--refresh-interval-ms", "5">>,
                 <<"--socket", "default.sock", "--smoke-fixture", "--smoke-fixture">>,
                 <<"--socket", "default.sock", "--live-source", "--refresh-interval-ms">>},
   bridge   |-> {<<>>, <<"--verbose">>, <<"--verbose", "--socket", "other.sock">>, <<"other.sock">>},
   idle     |-> {}]

----------------------------------------------------------------------------
(* Sessions *)

\* With the terminal optional, no handshake succeeds before one is created.
MCCapabilities ==
  {[required |-> {standard_widgets_v1}, optional |-> {}],
   [required |-> {standard_widgets_v1}, optional |-> {terminal_v1}]}

Base == {standard_widgets_v1, [name |-> "", version |-> 1]}
Full == {standard_widgets_v1, terminal_v1, coding_v1}
Hello(version, offer) ==
  [kind |-> "hello", version |-> version, offer |-> offer, replaced |-> FALSE]
Resume(replaced) ==
  [kind |-> "resume", version |-> "0.5", offer |-> Full, replaced |-> replaced]

\* The second client connects and leaves.
MCRequests ==
  [c1 |-> {Hello("0.5", Base), Hello("0.5", Full), Hello("0.4", Full), Resume(FALSE), Resume(TRUE)},
   c2 |-> {}]

----------------------------------------------------------------------------
(* Snapshots: up to three operations that a frame holds one or several of, or none *)

MCSnapshots ==
  [ops : UNION {[1..n -> {0, 1, 4}] : n \in 0..3}, revision : {1}, priority : {0}]
NoLimits == [frame |-> 0, parts |-> 0, ops |-> 0]
MCClientLimits == [frame : {0, 7, 9, 14}, parts : {0, 2}, ops : {0, 2}]

----------------------------------------------------------------------------
(* Processes: three rows come and go and change, or two pids are reused under a kill *)

MCOwners == <<{"mine"}, {"mine", "other"}, {"other"}>>
MCBusySets == {{}, {1, 2, 3}}

TableNext == MonitorNext /\ view' = view /\ kill' = kill
KillNext ==
  /\ MonitorNext
  /\ os'.births <= 2 /\ os'.running[3].start = 0
  /\ \A r \in sampled'.records : ~r.value

----------------------------------------------------------------------------
(* The gallery: one user takes the tour, or two come, edit and leave *)

MCGalleryEvents ==
  {[kind |-> "scene", target |-> t] : t \in {"next", "previous", "reset"}}
  \cup {[kind |-> "autoplay", target |-> "autoplay", value |-> v] : v \in {"on", "off"}}
  \cup {[kind |-> "button", target |-> "quiet"], [kind |-> "toggle", target |-> "switch", value |-> "on"],
         [kind |-> "select", target |-> "list", item |-> 90],
         [kind |-> "select", target |-> "table", item |-> 104],
         [kind |-> "edit", target |-> "plain"], [kind |-> "edit", target |-> "invalid"]}

TourNext ==
  /\ GalleryNext
  /\ visitor'["u2"].state = "none" /\ visitor'["u1"].state # "left" /\ ~visitor'["u1"].refreshed
  /\ handler'["u1"].event.kind # "autoplay"
  /\ \/ handler'["u1"].event.kind \in {"none", "scene"} \/ handler' = handler
     \/ graph'.revision = MaxRevision - 2
VisitNext ==
  /\ GalleryNext
  /\ timer'.step = "waiting"
  /\ graph'.revision <= MaxRevision - (IF \E c \in Users : handler'[c].event.kind = "edit" THEN 3 ELSE 2)
  /\ handler'["u1"].event.kind \in {"none", "autoplay", "edit"}
  /\ handler'["u2"].event \in {Idle.event, [kind |-> "edit", target |-> "plain"]}
  /\ gallery'.scene = "baseline" /\ Len(gallery'.lags) < 2

----------------------------------------------------------------------------

DaemonInit ==
  /\ focus \in Foci
  /\ LaneInit
  /\ focus # "lanes" => watched = CHOOSE c \in Classes : TRUE
  /\ StartInit
  /\ focus # "start" => program = CHOOSE s \in Scenes : TRUE
  /\ focus # "start" => \A p \in Paths : files.dir[p] = "missing"
  /\ LifeInit
  /\ focus # "life" => contract.optional = {}
  /\ SnapInit
  /\ focus # "snapshot" => ask.snapshot.ops = <<>> /\ ask.limits = NoLimits
  /\ MonitorInit
  /\ GalleryInit

DaemonNext ==
  /\ UNCHANGED focus
  /\ \/ focus = "lanes" /\ LaneNext /\ UNCHANGED <<startVars, lifeVars, snapVars, monVars, galleryVars>>
     \/ focus = "start" /\ StartNext /\ UNCHANGED <<laneVars, lifeVars, snapVars, monVars, galleryVars>>
     \/ focus = "life" /\ LifeNext /\ UNCHANGED <<laneVars, startVars, snapVars, monVars, galleryVars>>
     \/ focus = "snapshot" /\ SnapNext /\ UNCHANGED <<laneVars, startVars, lifeVars, monVars, galleryVars>>
     \/ focus = "table" /\ TableNext /\ UNCHANGED <<laneVars, startVars, lifeVars, snapVars, galleryVars>>
     \/ focus = "kill" /\ KillNext /\ UNCHANGED <<laneVars, startVars, lifeVars, snapVars, galleryVars>>
     \/ focus = "tour" /\ TourNext /\ UNCHANGED <<laneVars, startVars, lifeVars, snapVars, monVars>>
     \/ focus = "visit" /\ VisitNext /\ UNCHANGED <<laneVars, startVars, lifeVars, snapVars, monVars>>

DaemonVars == <<focus, laneVars, startVars, lifeVars, snapVars, monVars, galleryVars>>

DaemonSpec == DaemonInit /\ [][DaemonNext]_DaemonVars /\ StartFairness
=============================================================================
