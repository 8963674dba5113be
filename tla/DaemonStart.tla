----------------------------- MODULE DaemonStart -----------------------------
(***************************************************************************)
(* How the servers of the repository claim, serve and give back a Unix       *)
(* socket path: srui-sessiond, srtop and the example servers.                *)
(*                                                                         *)
(* A server is a list of steps to become ready and a list of steps to stop;   *)
(* each step is one action, about one system call, so the steps of two        *)
(* servers started on one path interleave.  Sockets and lock files are        *)
(* inodes, numbered as they are made and never reused.                        *)
(***************************************************************************)
EXTENDS Integers, Sequences, SequencesExt, FiniteSets

CONSTANTS
  Servers,       \* processes that may be running at the same time
  Scenes,        \* the programs that meet on the paths: sets of [Servers -> Programs]
  Argv,          \* the command lines each program is started with
  Paths,         \* socket paths, DefaultPath among them
  DefaultPath,
  MaxLaunches, MaxCrashes, MaxRemovals, MaxConns

VARIABLES
  program,       \* what each process runs
  server,        \* the state of each process
  files,         \* the file system around the paths
  faults         \* launches, crashes and removals so far: the bounds of the model

startVars == <<program, server, files, faults>>

Absent == 0
NotASocket == -1

-----------------------------------------------------------------------------
(* Command lines.  Words do not start with '-'; an option waits for its value. *)

Words == Paths \cup {"counter", "5", "0"}
Refused == [ok |-> FALSE, path |-> DefaultPath, expect |-> "nothing"]
Parsing == [ok |-> TRUE, path |-> DefaultPath, expect |-> "option"]
Awaiting(st, option) == [st EXCEPT !.expect = option]
Took(st) == [st EXCEPT !.expect = "option"]
TookPath(st, w) == IF w \in Words THEN [Took(st) EXCEPT !.path = w] ELSE Refused
Complete(st) == IF st.expect \in {"option", "nothing"} THEN st ELSE Refused

\* --journal-capacity takes a positive number; a bare word is the path.
SessiondArg(st, a) ==
  CASE st.expect = "nothing"            -> st
    [] st.expect = "--socket"           -> TookPath(st, a)
    [] st.expect = "--app"              -> IF a \in Words THEN Took(st) ELSE Refused
    [] st.expect = "--journal-capacity" -> IF a = "5" THEN Took(st) ELSE Refused
    [] a \in {"--socket", "--app", "--journal-capacity"} -> Awaiting(st, a)
    [] a \in Words                      -> TookPath(st, a)
    [] OTHER                            -> Refused

parse_args_from(args) == Complete(FoldLeft(SessiondArg, Parsing, args))

MonitorArg(st, a) ==
  CASE st.expect = "nothing"  -> st
    [] st.expect = "--socket" -> TookPath(st, a)
    [] a = "--socket"         -> Awaiting(st, a)
    [] a = "--wire-stats"     -> st
    [] OTHER                  -> Refused

monitor_parse_options(args) == Complete(FoldLeft(MonitorArg, Parsing, args))

\* Asking for help ends the program at once, like a refusal, whatever follows.
GalleryArg(st, a) ==
  CASE st.expect = "nothing"             -> st
    [] st.expect = "--socket"            -> TookPath(st, a)
    [] st.expect = "--autoplay-interval" -> IF a = "5" THEN Took(st) ELSE Refused
    [] a \in {"--socket", "--autoplay-interval"} -> Awaiting(st, a)
    [] a = "--autoplay"                  -> st
    [] OTHER                             -> Refused

gallery_parse_options(args) == Complete(FoldLeft(GalleryArg, Parsing, args))

\* srtop insists on --socket PATH first; one source, one interval, one fixture.
SrtopArg(st, a) ==
  CASE st.expect = "nothing"        -> st
    [] st.expect = "--scale-source" -> IF a \in {"0", "5"} THEN Took(st) ELSE Refused
    [] st.expect = "--refresh-interval-ms" -> IF a = "5" THEN Took(st) ELSE Refused
    [] a \in st.seen                -> Refused
    [] a \in {"--scale-source", "--live-source"} /\ st.source -> Refused
    [] a = "--live-source"          -> [st EXCEPT !.source = TRUE]
    [] a = "--scale-source"         -> [Awaiting(st, a) EXCEPT !.source = TRUE]
    [] a = "--refresh-interval-ms"  -> [Awaiting(st, a) EXCEPT !.seen = @ \cup {a}]
    [] a = "--smoke-fixture"        -> [st EXCEPT !.seen = @ \cup {a}]
    [] OTHER                        -> Refused

srtop_args(args) ==
  IF Len(args) < 2 \/ Head(args) # "--socket" THEN Refused
  ELSE Complete(FoldLeft(SrtopArg,
         [ok |-> TRUE, path |-> args[2], expect |-> "option", seen |-> {}, source |-> FALSE],
         SubSeq(args, 3, Len(args))))

\* The other examples look for --socket and take what follows as it is; without
\* it they run their demonstration in process and serve no path.
agent_args(args) ==
  IF Len(args) = 2 /\ args[1] = "--socket" THEN [Parsing EXCEPT !.path = args[2]] ELSE Refused

counter_args(args) ==
  LET after == {i \in 1..Len(args) : i > 1 /\ args[i - 1] = "--socket"}
  IN  IF after = {} THEN Refused
      ELSE [Parsing EXCEPT !.path = args[CHOOSE i \in after : \A j \in after : i <= j]]

\* The bridge takes the word after --socket, or its first argument when that is no
\* option, and passes over everything else.
parse_socket_path(args) ==
  LET at == {i \in 1..Len(args) : args[i] = "--socket"}
      first == CHOOSE i \in at : \A j \in at : i <= j
  IN  CASE at # {} -> IF first < Len(args) THEN TookPath(Parsing, args[first + 1]) ELSE Refused
        [] args # <<>> /\ args[1] \in Words -> TookPath(Parsing, args[1])
        [] OTHER -> Parsing

-----------------------------------------------------------------------------
(* The programs: what each does to become ready, when it is told to stop, and   *)
(* when its application fails to start after the socket is published.         *)

LockedBind == <<"parent", "open_lock", "lock", "probe", "unlink", "bind", "secure", "identity">>

\* The examples carry copies of sessiond's bind_owned_socket.
monitor_bind_owned_socket == LockedBind
gallery_bind_owned_socket == LockedBind

sessiond == [start |-> Append(LockedBind, "init"),
             stop  |-> <<"drain_or_abort", "close", "remove">>, fail |-> <<>>]

\* The owned socket of the process monitor is removed only at its orderly end.
process_monitor == [start |-> Append(monitor_bind_owned_socket, "init"),
                    stop  |-> <<"close", "drain", "remove">>, fail |-> <<>>]

\* The gallery's owned socket is removed whenever it is dropped.
ui_gallery == [start |-> Append(gallery_bind_owned_socket, "init"),
               stop  |-> <<"close", "drain", "remove">>, fail |-> <<"remove">>]

\* The agent prepares its application first, takes any directory and narrows the
\* socket with the umask.
coding_agent == [start |-> <<"init", "mkdir", "open_lock", "lock", "probe", "unlink",
                             "bind_narrow", "identity">>,
                 stop  |-> <<"drain", "remove">>, fail |-> <<>>]

\* The counter takes the path over without asking who serves it.
counter == [start |-> <<"parent", "unlink", "bind", "secure", "identity", "init">>,
            stop  |-> <<"remove">>, fail |-> <<>>]

\* srtop never replaces a socket, not even a stale one.
srtop == [start |-> <<"parent", "bind", "secure", "identity", "init">>,
          stop  |-> <<"drain", "remove">>, fail |-> <<"drain", "remove">>]

Programs == [sessiond |-> sessiond, monitor |-> process_monitor, gallery |-> ui_gallery,
             agent |-> coding_agent, counter |-> counter, srtop |-> srtop]

Parsed(name, args) ==
  CASE name = "sessiond" -> parse_args_from(args)
    [] name = "monitor"  -> monitor_parse_options(args)
    [] name = "gallery"  -> gallery_parse_options(args)
    [] name = "agent"    -> agent_args(args)
    [] name = "counter"  -> counter_args(args)
    [] name = "srtop"    -> srtop_args(args)

\* Every program but the agent refuses to run as root.
require_unprivileged_uid(name, uid) == uid # "root" \/ name = "agent"

-----------------------------------------------------------------------------
(* State.                                                                    *)

\* The path an operator asks for: the last one the command line names.
Asked(args) ==
  LET named == {i \in 1..Len(args) : args[i] \in Paths}
  IN  IF named = {} THEN DefaultPath ELSE args[CHOOSE i \in named : \A j \in named : j <= i]

Off == [mode |-> "off", todo |-> <<>>, path |-> DefaultPath, asked |-> DefaultPath,
        bound |-> Absent, identity |-> Absent, lock |-> Absent, conns |-> 0, how |-> "never"]

StartInit ==
  /\ program \in Scenes
  /\ server = [d \in Servers |-> Off]
  /\ \E dir \in {"missing", "private", "open", "link", "foreign"} :
       files = [dir |-> [p \in Paths |-> dir], entry |-> [p \in Paths |-> Absent],
                lockfile |-> [p \in Paths |-> Absent], held |-> {}, live |-> {},
                narrow |-> {}, taken |-> {}, made |-> 0]
  /\ faults = [launches |-> 0, crashes |-> 0, removals |-> 0]

Doing(d, step) == server[d].todo # <<>> /\ Head(server[d].todo) = step
Entry(d) == files.entry[server[d].path]

\* One step is done.  The last step of the start makes the server accept; the
\* last step of the stop ends the process.
Advanced(s) ==
  LET rest == Tail(s.todo)
  IN  [s EXCEPT !.todo = rest,
                !.mode = IF rest = <<>> /\ @ = "starting" THEN "serving" ELSE @]

\* The process is gone: the kernel closes its listener and frees its lock.  The
\* gallery's lock is dropped in order: it unlinks the lock file it still owns.
AfterExit(d, fs, orderly) ==
  LET s == server[d]
      owned == orderly /\ program[d] = "gallery" /\ <<s.lock, d>> \in fs.held
                 /\ fs.lockfile[s.path] = s.lock
  IN  [fs EXCEPT !.live = @ \ {s.bound},
                 !.held = {h \in @ : h[2] # d},
                 !.lockfile[s.path] = IF owned THEN Absent ELSE @]

Exit(d, fs, how) ==
  /\ server' = [server EXCEPT ![d] = [@ EXCEPT !.mode = "off", !.todo = <<>>, !.conns = 0,
                                               !.lock = Absent, !.how = how]]
  /\ files' = AfterExit(d, fs, how # "killed")

Proceed(d, s, fs) ==
  IF s.mode = "stopping" /\ Tail(s.todo) = <<>> THEN Exit(d, fs, s.how)
  ELSE /\ server' = [server EXCEPT ![d] = Advanced(s)]
       /\ files' = fs

-----------------------------------------------------------------------------
(* Becoming ready.                                                           *)

Launch(d, uid, args) ==
  /\ server[d].mode = "off"
  /\ faults.launches < MaxLaunches
  /\ faults' = [faults EXCEPT !.launches = @ + 1]
  /\ LET parsed == Parsed(program[d], args)
     IN  IF parsed.ok /\ require_unprivileged_uid(program[d], uid)
         THEN server' = [server EXCEPT ![d] =
                [Off EXCEPT !.mode = "starting", !.todo = Programs[program[d]].start,
                            !.path = parsed.path, !.asked = Asked(args), !.how = "clean"]]
         ELSE server' = [server EXCEPT ![d] = [Off EXCEPT !.how = "refused"]]
  /\ UNCHANGED <<program, files>>

\* The parent of the socket: created private when missing, refused when it is a
\* symbolic link, somebody else's, or open to others.
open_directory_tree(kind) == IF kind = "missing" THEN "private" ELSE kind
open_directory(kind) == kind \notin {"missing", "link"}
validate_owner_and_mode(kind) == kind \notin {"foreign", "open"}
validate_directory(kind) == open_directory(kind) /\ validate_owner_and_mode(kind)

PrepareParent(d) ==
  LET s == server[d]
      kind == open_directory_tree(files.dir[s.path])
  IN  /\ Doing(d, "parent")
      /\ IF validate_directory(kind)
         THEN Proceed(d, s, [files EXCEPT !.dir[s.path] = kind])
         ELSE Exit(d, files, "refused")
      /\ UNCHANGED <<program, faults>>

\* create_dir_all takes what is there; the lock file cannot be created in
\* somebody else's directory.
MakeDirectory(d) ==
  LET s == server[d]
      kind == files.dir[s.path]
  IN  /\ Doing(d, "mkdir")
      /\ IF kind = "foreign" THEN Exit(d, files, "refused")
         ELSE Proceed(d, s, [files EXCEPT !.dir[s.path] = IF kind = "missing" THEN "open" ELSE kind])
      /\ UNCHANGED <<program, faults>>

OpenLock(d) ==
  LET s == server[d]
      there == files.lockfile[s.path]
      ino == IF there = Absent THEN files.made + 1 ELSE there
  IN  /\ Doing(d, "open_lock")
      /\ Proceed(d, [s EXCEPT !.lock = ino],
                 [files EXCEPT !.lockfile[s.path] = ino,
                               !.made = IF there = Absent THEN ino ELSE @])
      /\ UNCHANGED <<program, faults>>

\* flock(LOCK_EX | LOCK_NB) on the file that was opened.
LockShared(d) ==
  LET s == server[d]
  IN  /\ Doing(d, "lock")
      /\ Proceed(d, s, [files EXCEPT !.held = @ \cup {<<s.lock, d>>}])
      /\ UNCHANGED <<program, faults>>

acquire_socket_lock(d) ==
  LET s == server[d]
  IN  /\ Doing(d, "lock")
      /\ IF \E h \in files.held : h[1] = s.lock
         THEN Exit(d, files, "refused")
         ELSE Proceed(d, s, [files EXCEPT !.held = @ \cup {<<s.lock, d>>}])
      /\ UNCHANGED <<program, faults>>

socket_identity(entry) == entry # NotASocket

\* A connection that is taken, or fails in a way that proves nothing, ends the
\* start; a refused one or no entry lets it go on.
probe_socket_liveness(d) ==
  LET s == server[d]
      entry == Entry(d)
  IN  /\ Doing(d, "probe")
      /\ \/ entry \notin files.live /\ socket_identity(entry) /\ Proceed(d, s, files)
         \/ entry # Absent /\ Exit(d, files, "refused")
      /\ UNCHANGED <<program, faults>>

remove_socket(fs, p) == [fs EXCEPT !.entry[p] = Absent]

RemoveStale(d) ==
  LET s == server[d]
  IN  /\ Doing(d, "unlink")
      /\ IF socket_identity(Entry(d)) THEN Proceed(d, s, remove_socket(files, s.path))
         ELSE Exit(d, files, "refused")
      /\ UNCHANGED <<program, faults>>

Bound(s, narrow) ==
  LET ino == files.made + 1
  IN  [files EXCEPT !.made = ino, !.entry[s.path] = ino, !.live = @ \cup {ino},
                    !.narrow = IF narrow THEN @ \cup {ino} ELSE @]

bind(d) ==
  LET s == server[d]
      narrow == Head(s.todo) = "bind_narrow"
  IN  /\ Doing(d, "bind") \/ Doing(d, "bind_narrow")
      /\ IF Entry(d) = Absent
         THEN Proceed(d, [s EXCEPT !.bound = files.made + 1], Bound(s, narrow))
         ELSE Exit(d, files, "refused")
      /\ UNCHANGED <<program, faults>>

\* Narrows whatever socket the name leads to; a failure takes the half-published
\* endpoint away, whatever it has become.
secure_bound_socket(d) ==
  LET s == server[d]
  IN  /\ Doing(d, "secure")
      /\ IF Entry(d) \in {Absent, NotASocket}
         THEN Exit(d, remove_socket(files, s.path), "refused")
         ELSE Proceed(d, s, [files EXCEPT !.narrow = @ \cup {Entry(d)}])
      /\ UNCHANGED <<program, faults>>

TakeIdentity(d) ==
  LET s == server[d]
  IN  /\ Doing(d, "identity")
      /\ IF Entry(d) \in {Absent, NotASocket} THEN Exit(d, files, "refused")
         ELSE Proceed(d, [s EXCEPT !.identity = Entry(d)], files)
      /\ UNCHANGED <<program, faults>>

\* The application is published.  When that fails the process ends, by way of the
\* clean-up its code has for it.
InitializeApp(d) ==
  LET s == server[d]
      fail == Programs[program[d]].fail
  IN  /\ Doing(d, "init")
      /\ \/ Proceed(d, s, files)
         \/ /\ fail = <<>>
            /\ Exit(d, files, "failed")
         \/ /\ fail # <<>>
            /\ server' = [server EXCEPT ![d] = [s EXCEPT !.mode = "stopping", !.todo = fail]]
            /\ UNCHANGED files
      /\ UNCHANGED <<program, faults>>

-----------------------------------------------------------------------------
(* Serving and stopping.                                                     *)

\* Only a peer of the same account is served; the agent does not ask.
validate_peer(name, uid) == uid = "user" \/ name = "agent"

Accept(d, uid) ==
  /\ server[d].mode = "serving"
  /\ server[d].conns < MaxConns
  /\ Entry(d) = server[d].bound
  /\ validate_peer(program[d], uid)
  /\ server' = [server EXCEPT ![d].conns = @ + 1]
  /\ UNCHANGED <<program, files, faults>>

\* The bridge of an SSH session checks the directory, the entry's type, owner and
\* mode before it connects, and the peer afterwards.
validate_private_socket(p) ==
  /\ validate_directory(files.dir[p])
  /\ files.entry[p] \in files.narrow

BridgeConnects(d, args) ==
  LET parsed == parse_socket_path(args)
  IN  /\ parsed.ok
      /\ parsed.path = server[d].path
      /\ validate_private_socket(parsed.path)
      /\ Accept(d, "user")

ConnectionEnds(d) ==
  /\ server[d].conns > 0
  /\ server' = [server EXCEPT ![d].conns = @ - 1]
  /\ UNCHANGED <<program, files, faults>>

\* SIGINT or SIGTERM; SIGHUP is ignored by a server that has to outlive its SSH
\* session.
Signal(d) ==
  /\ server[d].mode = "serving"
  /\ server' = [server EXCEPT ![d] = [@ EXCEPT !.mode = "stopping",
                                               !.todo = Programs[program[d]].stop]]
  /\ UNCHANGED <<program, files, faults>>

CloseListener(d) ==
  LET s == server[d]
  IN  /\ Doing(d, "close")
      /\ Proceed(d, s, [files EXCEPT !.live = @ \ {s.bound}])
      /\ UNCHANGED <<program, faults>>

Drain(d) ==
  LET s == server[d]
  IN  /\ Doing(d, "drain")
      /\ s.conns = 0
      /\ Proceed(d, s, files)
      /\ UNCHANGED <<program, faults>>

\* Five seconds for the connections to end; then they are aborted.
DrainOrAbort(d) ==
  LET s == server[d]
  IN  /\ Doing(d, "drain_or_abort")
      /\ Proceed(d, [s EXCEPT !.conns = 0], files)
      /\ UNCHANGED <<program, faults>>


\* The path is given back only while it leads to what this process bound.
RemoveOwned(d) ==
  LET s == server[d]
  IN  /\ Doing(d, "remove")
      /\ Proceed(d, s, IF Entry(d) = s.identity THEN remove_socket(files, s.path) ELSE files)
      /\ UNCHANGED <<program, faults>>

ServerStep(d) ==
  \/ PrepareParent(d) \/ MakeDirectory(d) \/ OpenLock(d) \/ acquire_socket_lock(d)
  \/ probe_socket_liveness(d) \/ RemoveStale(d) \/ bind(d) \/ secure_bound_socket(d)
  \/ TakeIdentity(d) \/ InitializeApp(d)
  \/ CloseListener(d) \/ Drain(d) \/ DrainOrAbort(d) \/ RemoveOwned(d)

\* SIGKILL, a power cut, or a signal before the handlers are installed.
Crash(d) ==
  /\ server[d].mode # "off"
  /\ faults.crashes < MaxCrashes
  /\ faults' = [faults EXCEPT !.crashes = @ + 1]
  /\ Exit(d, files, "killed")
  /\ UNCHANGED program

\* The operator deletes the socket, or puts a file in its place, but not while an
\* unlocked server is being started there.
OperatorRemoves(p, with) ==
  /\ files.entry[p] # Absent
  /\ \A d \in Servers : server[d].mode = "starting" => program[d] # "srtop"
  /\ faults.removals < MaxRemovals
  /\ faults' = [faults EXCEPT !.removals = @ + 1]
  /\ files' = [files EXCEPT !.entry[p] = with, !.taken = @ \cup {files.entry[p]}]
  /\ UNCHANGED <<program, server>>

StartNext ==
  \/ \E d \in Servers :
       \/ \E uid \in {"root", "user"} : \E args \in Argv[program[d]] : Launch(d, uid, args)
       \/ ServerStep(d)
       \/ \E uid \in {"user", "other"} : Accept(d, uid)
       \/ \E args \in Argv["bridge"] : BridgeConnects(d, args)
       \/ ConnectionEnds(d)
       \/ Signal(d)
       \/ Crash(d)
  \/ \E p \in Paths : \E with \in {Absent, NotASocket} : OperatorRemoves(p, with)

StartSpec == StartInit /\ [][StartNext]_startVars

\* A process runs its own steps to the end.  Cancelled connections return in time
\* on their own, except that sessiond does not count on it.
StartFairness ==
  \A d \in Servers :
    /\ WF_startVars(ServerStep(d))
    /\ WF_startVars(ConnectionEnds(d) /\ program[d] # "sessiond" /\ server[d].mode = "stopping")

-----------------------------------------------------------------------------
(* Properties.                                                               *)

\* A server that is ready is what the path its operator asked for leads to, and
\* stays so until it is told to stop, however starts, crashes and stops of its
\* siblings interleave: no sibling unlinks or replaces the socket of a live server
\* (bind_owned_socket, OwnedSocket::remove).  Only the operator can take it away.
ServedAtPath ==
  \A d \in Servers :
    server[d].mode = "serving" =>
      \/ files.entry[server[d].asked] = server[d].bound
      \/ server[d].bound \in files.taken

=============================================================================
