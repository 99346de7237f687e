---------------------------- MODULE CraieClient ----------------------------
(***************************************************************************)
(* The CraieLib test client (20251113-CraieLibProject/main.cpp).           *)
(*                                                                         *)
(* The watcher thread polls the command file: it takes the file's time     *)
(* stamp, and when the stamp is new it parses the file and hands to the    *)
(* library what changed since the last load that came to its end.  The     *)
(* main thread polls the library until a signal clears g_running.          *)
(*                                                                         *)
(* A command file is a function from the keys the program knows to values. *)
(* A value stands for a class: "one" and "two" are usable, "void" is a     *)
(* zero or an object without its fields, "wrong" has a type for which      *)
(* nlohmann's get<> throws.  The library and the writer of the file are    *)
(* external.  A signal that arrives inside syslog() leaves that thread     *)
(* waiting for its own lock: the handler calls syslog() too.               *)
(***************************************************************************)
EXTENDS Naturals, Sequences, FiniteSets

CONSTANTS Contents,    \* the command files the writer may write
          MaxWrites,   \* bound: changes of the file
          NoFile,      \* there is no file
          Partial,     \* a file that does not parse, half written
          FRAMES       \* polls per logged snapshot, 60 in the code

Keys == <<"driving_state", "poi_list", "reset_craie_config",
          "start_pairing_tablet", "tablet_display_mode", "text_summary",
          "image", "llm">>

KeySet == {Keys[i] : i \in DOMAIN Keys}

Absent == "absent"
Values == {"one", "two", "void", "wrong"}
AllContents == [KeySet -> Values \cup {Absent}]

ASSUME ContentsAssumption == Contents \subseteq AllContents
ASSUME BoundsAssumption == MaxWrites \in Nat /\ FRAMES \in Nat \ {0}

ASSUME FileAssumption == NoFile # Partial /\ {NoFile, Partial} \cap Contents = {}

Never == "never"

VARIABLES file,           \* the command file: NoFile, Partial or a content
          stamp,          \* its time stamp; every change has its own
          wpc,            \* the watcher thread
          writeTime,      \* its local stamp
          lastWriteTime,  \* the stamp of the last load, 0 for firstRun
          j,              \* the parsed file
          at,             \* the next key of process_json_commands
          previousState, hasPrevious,
          lib,            \* the last value the library was handed, per key
          first,          \* history: the values no complete load has changed yet
          loaded,         \* history: the content of the last complete load
          cut,            \* history: keys handed over by loads that were cut off
          mpc,            \* the main thread
          frameCount,
          g_running,
          signalled,      \* bound: one SIGINT or SIGTERM
          stuck           \* the thread that waits for its own syslog lock

fileVars == <<file, stamp>>
histVars == <<first, loaded, cut>>
loadVars == <<writeTime, lastWriteTime, j, at, previousState, hasPrevious, lib,
              histVars>>
mainVars == <<mpc, frameCount>>
sigVars == <<g_running, signalled, stuck>>
vars == <<fileVars, wpc, loadVars, mainVars, sigVars>>

Blank == [k \in KeySet |-> Absent]

Init ==
    /\ file \in {NoFile} \cup Contents
    /\ stamp = 1
    /\ wpc = "none" /\ writeTime = 0 /\ lastWriteTime = 0
    /\ j = Blank /\ at = 1
    /\ previousState = Blank /\ hasPrevious = FALSE
    /\ lib = [k \in KeySet |-> Never]
    /\ first = [k \in KeySet |-> Never] /\ loaded = Blank /\ cut = {}
    /\ mpc = "start" /\ frameCount = 0
    /\ g_running = TRUE /\ signalled = FALSE /\ stuck = "none"

Ended == mpc \in {"failed", "killed", "aborted"}

(***************************************************************************)
(* The writer of the file: in place, in two steps, or at once by rename.   *)
(***************************************************************************)
WriterChanges(f) ==
    /\ ~Ended
    /\ stamp <= MaxWrites
    /\ file # f
    /\ file' = f
    /\ stamp' = stamp + 1
    /\ UNCHANGED <<wpc, loadVars, mainVars, sigVars>>

Writer == \E f \in Contents \cup {NoFile, Partial} : WriterChanges(f)

(***************************************************************************)
(* process_json_commands.                                                  *)
(***************************************************************************)
json_changed(c, k) ==
    /\ hasPrevious
    /\ previousState[k] = Absent \/ c[k] \notin {Absent, previousState[k]}

\* The keys that are acted upon: poi_list always, the others on a change.
Due(c, k) == c[k] # Absent /\ (k = "poi_list" \/ json_changed(c, k))

Throws(k, v) ==
    v = "wrong" /\ k \notin {"poi_list", "image", "llm"}

\* A zero trigger, a summary without its fields, an image that is no string.
Ignored(k, v) ==
    \/ v = "void" /\ k \in {"reset_craie_config", "start_pairing_tablet",
                            "text_summary", "image"}
    \/ v = "wrong" /\ k = "image"

\* The branches that call syslog() whatever the library answers.
Logs(k, v) ==
    /\ k \notin {"image", "llm"}
    /\ ~(v = "void" /\ k \in {"reset_craie_config", "start_pairing_tablet"})

\* Thread t can move; a syslog() call returns.
Runs(t) == ~Ended /\ stuck # t
CanLog == stuck = "none"

\* The keys this load has handed to the library so far.
Handed == {Keys[i] : i \in {n \in 1 .. at - 1 : Due(j, Keys[n]) /\ ~Ignored(Keys[n], j[Keys[n]])}}

\* Mutant: the content of a load that is cut off becomes previousState.
CutOffTakesOver ==
    /\ cut' = cut \cup Handed
    /\ previousState' = j
    /\ wpc' = "check"
    /\ UNCHANGED <<at, lib>>

\* get<> throws: the load is left for the catch block, previousState stays.
CutOff ==
    /\ cut' = cut \cup Handed
    /\ wpc' = "check"
    /\ UNCHANGED <<at, lib, previousState>>

CommandStep ==
    /\ Runs("watcher")
    /\ wpc = "process" /\ at <= Len(Keys)
    /\ LET k == Keys[at]
           v == j[k]
       IN  /\ Due(j, k) /\ Logs(k, v) => CanLog
           /\ \/ /\ ~Due(j, k) \/ Ignored(k, v)
                 /\ at' = at + 1
                 /\ UNCHANGED <<wpc, cut, lib, previousState>>
              \/ /\ Due(j, k) /\ ~Ignored(k, v) /\ ~Throws(k, v)
                 /\ lib' = [lib EXCEPT ![k] = v]
                 /\ at' = at + 1
                 /\ UNCHANGED <<wpc, cut, previousState>>
              \/ Due(j, k) /\ Throws(k, v) /\ CutOff
    /\ UNCHANGED <<fileVars, writeTime, lastWriteTime, j, hasPrevious, first,
                   loaded, mainVars, sigVars>>

\* The history variables at the end of a load.
Record ==
    /\ first' = [k \in KeySet |-> IF first[k] \in {Never, j[k]} THEN j[k] ELSE Absent]
    /\ loaded' = j
    /\ cut' = cut \ Handed

\* Mutant: the stamp is taken when the load has ended.
CommandsDoneStamps ==
    /\ Runs("watcher")
    /\ wpc = "process" /\ at > Len(Keys)
    /\ previousState' = j
    /\ hasPrevious' = TRUE
    /\ Record
    /\ lastWriteTime' = stamp
    /\ wpc' = "check"
    /\ UNCHANGED <<fileVars, writeTime, j, at, lib, mainVars, sigVars>>

CommandsDone ==
    /\ Runs("watcher")
    /\ wpc = "process" /\ at > Len(Keys)
    /\ previousState' = j
    /\ hasPrevious' = TRUE
    /\ Record
    /\ wpc' = "check"
    /\ UNCHANGED <<fileVars, writeTime, lastWriteTime, j, at, lib, mainVars, sigVars>>

(***************************************************************************)
(* watch_json_command_file: while (g_running) { exists; last_write_time;   *)
(* parse; process; sleep }.                                                *)
(***************************************************************************)
WatchCheck ==
    /\ Runs("watcher")
    /\ wpc = "check"
    /\ \/ ~g_running /\ wpc' = "done"
       \/ g_running /\ file # NoFile /\ wpc' = "stat"
    /\ UNCHANGED <<fileVars, loadVars, mainVars, sigVars>>

\* last_write_time throws outside the try block when the file has gone:
\* std::terminate ends the process.
WatchStatThrows ==
    /\ Runs("watcher")
    /\ wpc = "stat" /\ file = NoFile
    /\ wpc' = "done" /\ mpc' = "killed"
    /\ UNCHANGED <<fileVars, loadVars, frameCount, sigVars>>

\* lastWriteTime = writeTime before the file is opened.
WatchStat ==
    /\ Runs("watcher")
    /\ wpc = "stat" /\ file # NoFile
    /\ writeTime' = stamp
    /\ IF stamp = lastWriteTime
       THEN wpc' = "check" /\ UNCHANGED lastWriteTime
       ELSE /\ CanLog
            /\ wpc' = "open" /\ lastWriteTime' = stamp
    /\ UNCHANGED <<fileVars, j, at, previousState, hasPrevious, lib, histVars,
                   mainVars, sigVars>>

\* A file that has gone cannot be opened, a partial one does not parse.
WatchLoadFails ==
    /\ Runs("watcher") /\ CanLog
    /\ wpc = "open" /\ file \in {NoFile, Partial}
    /\ wpc' = "check"
    /\ UNCHANGED <<fileVars, loadVars, mainVars, sigVars>>

\* Mutant: a text that does not parse is processed.
WatchLoadUnchecked ==
    /\ Runs("watcher")
    /\ wpc = "open" /\ file # NoFile
    /\ j' = file /\ at' = 1
    /\ wpc' = "process"
    /\ UNCHANGED <<fileVars, writeTime, lastWriteTime, previousState,
                   hasPrevious, lib, histVars, mainVars, sigVars>>

WatchLoad ==
    /\ Runs("watcher")
    /\ wpc = "open" /\ file \notin {NoFile, Partial}
    /\ j' = file /\ at' = 1
    /\ wpc' = "process"
    /\ UNCHANGED <<fileVars, writeTime, lastWriteTime, previousState,
                   hasPrevious, lib, histVars, mainVars, sigVars>>

Watcher == \/ WatchCheck \/ WatchStatThrows \/ WatchStat \/ WatchLoadFails
           \/ WatchLoad \/ CommandStep \/ CommandsDone

(***************************************************************************)
(* main: start_server, the polling loop, stop_server, return.              *)
(***************************************************************************)
StartServer ==
    /\ Runs("main") /\ CanLog
    /\ mpc = "start"
    /\ \/ mpc' = "failed" /\ UNCHANGED wpc
       \/ mpc' = "loop" /\ wpc' = "check"
    /\ UNCHANGED <<fileVars, loadVars, frameCount, sigVars>>

\* poll_server_state: a failure is logged and not counted; every FRAMES-th
\* success is logged.
PollServerState ==
    /\ Runs("main")
    /\ mpc = "loop" /\ g_running
    /\ \/ CanLog /\ UNCHANGED frameCount
       \/ frameCount + 1 < FRAMES /\ frameCount' = frameCount + 1
       \/ frameCount + 1 = FRAMES /\ CanLog /\ frameCount' = 0
    /\ UNCHANGED <<fileVars, wpc, loadVars, mpc, sigVars>>

StopServer ==
    /\ Runs("main") /\ CanLog
    /\ mpc = "loop" /\ ~g_running
    /\ mpc' = "stopped"
    /\ UNCHANGED <<fileVars, wpc, loadVars, frameCount, sigVars>>

\* The destructor of watchThread, neither joined nor detached, calls
\* std::terminate, whether or not its function has returned.
MainReturns ==
    /\ Runs("main")
    /\ mpc = "stopped"
    /\ mpc' = "aborted"
    /\ UNCHANGED <<fileVars, wpc, loadVars, frameCount, sigVars>>

Main == StartServer \/ PollServerState \/ StopServer \/ MainReturns

(***************************************************************************)
(* handle_sigint, on either thread: syslog, then g_running = 0.            *)
(***************************************************************************)
WatcherLogs ==
    \/ wpc = "stat" /\ stamp # lastWriteTime
    \/ wpc = "open" /\ file \in {NoFile, Partial}
    \/ /\ wpc = "process" /\ at <= Len(Keys)
       /\ Due(j, Keys[at]) /\ Logs(Keys[at], j[Keys[at]])

HandleSigint ==
    /\ ~Ended /\ ~signalled
    /\ signalled' = TRUE
    /\ \/ g_running' = FALSE /\ UNCHANGED stuck
       \/ /\ stuck' \in {"main", "watcher"}
          /\ stuck' = "watcher" => WatcherLogs
          /\ UNCHANGED g_running
    /\ UNCHANGED <<fileVars, wpc, loadVars, mainVars>>

Next == Writer \/ Watcher \/ Main \/ HandleSigint

Spec == Init /\ [][Next]_vars

\* The watcher thread is scheduled, and its sleeps end.
FairSpec == Spec /\ WF_vars(Watcher)

-----------------------------------------------------------------------------
(***************************************************************************)
(* The variables have their types; what is processed was parsed.           *)
(***************************************************************************)
TypeOK ==
    /\ file \in Contents \cup {NoFile, Partial}
    /\ stamp \in 1 .. MaxWrites + 1
    /\ wpc \in {"none", "check", "stat", "open", "process", "done"}
    /\ writeTime \in 0 .. stamp /\ lastWriteTime \in 0 .. stamp
    /\ j \in Contents \cup {Blank}
    /\ at \in 1 .. Len(Keys) + 1
    /\ previousState \in Contents \cup {Blank} /\ hasPrevious \in BOOLEAN
    /\ lib \in [KeySet -> Values \cup {Never}]
    /\ first \in [KeySet -> Values \cup {Absent, Never}]
    /\ loaded \in Contents \cup {Blank} /\ cut \subseteq KeySet
    /\ mpc \in {"start", "loop", "stopped", "failed", "killed", "aborted"}
    /\ frameCount \in 0 .. FRAMES - 1
    /\ g_running \in BOOLEAN /\ signalled \in BOOLEAN
    /\ stuck \in {"none", "main", "watcher"}

\* The first load (main.cpp:27), or no complete load has changed the value
\* since: it was never sent.
AsAtFirst(k) == first[k] \in {Never, j[k]} /\ lib[k] = Never

\* A load that was cut off sent another value; the file has since gone back to
\* the value of the last complete load, which is no change (main.cpp:30).
TakenBack(k) == k \in cut /\ j[k] = loaded[k]

(***************************************************************************)
(* When a load comes to its end (main.cpp:153) the library has the value   *)
(* of every key of the file that asks for something, whatever was removed, *)
(* put back, changed, skipped as unparsable or cut off before: what a      *)
(* load cut off by get<> (main.cpp:86) did not reach is made up for by the *)
(* next one that has it.  There are two exceptions, both the code's own: a *)
(* value that is still the one of the first load, except for poi_list      *)
(* which is always sent, and a change that only a cut-off load has seen    *)
(* and that was taken back.                                                *)
(***************************************************************************)
LibraryInStep ==
    wpc = "process" /\ at > Len(Keys) =>
        \A k \in KeySet :
            j[k] # Absent /\ ~Ignored(k, j[k]) =>
                \/ lib[k] = j[k]
                \/ k # "poi_list" /\ (AsAtFirst(k) \/ TakenBack(k))

(***************************************************************************)
(* A content without wrong types that stays in the file is taken up, also  *)
(* when it was written while the watcher was at work on an older one.      *)
(***************************************************************************)
Sound(c) == \A k \in KeySet : ~Throws(k, c[k])

FileTakenUp ==
    \A c \in {d \in Contents : Sound(d)} :
        (mpc = "loop" /\ file = c)
            ~> (file # c \/ signalled \/ Ended \/ previousState = c)
=============================================================================
