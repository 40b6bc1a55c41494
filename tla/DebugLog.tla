-------------------------------- MODULE DebugLog --------------------------------
(***************************************************************************)
(* The debug log of src/metrics/debug_logger.rs: requests and app_log put  *)
(* events into a bounded channel, the thread "debug-logger" writes them to *)
(* stderr or to a file that it rotates, prunes and, when it opens one,     *)
(* clears of old sessions.  The level is read again and again on the way:  *)
(* when the request comes in, when it is answered, when it is finished and *)
(* when the writer has received its event; what the writer then does with  *)
(* it follows that last reading, however the configuration changes         *)
(* meanwhile.  What a line says is left out, but for one thing: whether it *)
(* shows headers or bodies.                                                *)
(***************************************************************************)
EXTENDS Naturals, Sequences, FiniteSets, FiniteSetsExt, SequencesExt

CONSTANTS
    Requests,       \* the requests of a session
    Paths,          \* file_path of the sessions: debug.<session>.log
    NoPath,         \* last_file_path before the first file
    Configs,        \* the DebugLoggingConfigs in use
    ChannelSize,    \* LOG_CHANNEL_SIZE
    MaxBytes, MaxFiles,                 \* of DebugLogRotation
    Day,            \* the length of a day
    Week,           \* the age at which files of other sessions are removed
    Sizes,          \* lengths of lines
    MaxLines, MaxTime, MaxFaults, MaxChanges, MaxRestarts     \* bounds

\* DebugLogLevel, and DebugLoggingConfig as far as the writer reads it.
Off == 0    Basic == 1    Verbose == 2    Full == 3

ConfigType ==
    [ level : Off .. Full, format : {"console", "json"},
      destination : {"stderr", "file", "both"}, path : Paths,
      mode : {"none", "size", "daily"} ]

ASSUME LogAssumption ==
    /\ NoPath \notin Paths
    /\ {ChannelSize, Day, Week, MaxBytes, MaxFiles} \subseteq Nat
    /\ ChannelSize > 0 /\ Day > 0
    /\ Configs \subseteq ConfigType
    /\ Sizes \subseteq Nat

VARIABLES
    config,     \* DebugLogger.config
    requests,   \* what the record of each request holds
    channel,    \* events sent
    holding,    \* the event received, as a sequence of at most one
    snapshot,   \* config_snapshot, so too: what the event is written under
    writer,     \* file_writer and last_file_path of writer_loop
    files,      \* the directory: names to contents
    now,        \* the clock, in seconds
    written,    \* history: every line the writer produced
    fresh,      \* history: the last event was received under this config
    excused,    \* history: lines overwritten by a rotation or aged out
    spent       \* what has been used of the bounds

logVars == <<config, requests, channel, holding, snapshot, writer, files, now,
             written, fresh, excused, spent>>

\* The live file of a path is entry 0; a rotated one has the second as suffix.
Live(p) == <<p, 0>>
Rotation(p) == <<p, now>>
NoFile == <<NoPath, 0>>

NoWriter == [path |-> NoPath, mode |-> "none", size |-> 0, day |-> 0, name |-> NoFile]

Idle == [stage |-> "idle", body |-> FALSE]

LogInit ==
    /\ config \in Configs
    /\ requests = [r \in Requests |-> Idle]
    /\ channel = <<>> /\ holding = <<>> /\ snapshot = <<>>
    /\ writer = NoWriter
    /\ files = <<>>
    /\ now = 1
    /\ written = <<>> /\ fresh = FALSE /\ excused = {}
    /\ spent = [faults |-> 0, changes |-> 0, restarts |-> 0]

-----------------------------------------------------------------------------
(* The producers.                                                            *)

\* try_send: a full channel drops the event.
TrySend(event) ==
    channel' = IF Len(channel) < ChannelSize THEN Append(channel, event) ELSE channel

\* extract_request: headers and body are kept for the log at level full.
Receive(r) ==
    /\ requests[r].stage = "idle"
    /\ requests' = [requests EXCEPT ![r] = [stage |-> "received", body |-> config.level = Full]]
    /\ UNCHANGED <<config, channel, holding, snapshot, writer, files, now, written, fresh,
                   excused, spent>>

\* handle_response: so are those of the answer.
Respond(r) ==
    /\ requests[r].stage = "received"
    /\ requests' = [requests EXCEPT ![r] = [stage |-> "answered", body |-> @.body \/ config.level = Full]]
    /\ UNCHANGED <<config, channel, holding, snapshot, writer, files, now, written, fresh,
                   excused, spent>>

\* post_response, when the hub finishes the request.
PostResponse(r) ==
    /\ requests[r].stage = "answered"
    /\ requests' = [requests EXCEPT ![r].stage = "finished"]
    /\ IF config.level = Off THEN UNCHANGED channel
       ELSE TrySend([level |-> config.level, body |-> requests[r].body])
    /\ UNCHANGED <<config, holding, snapshot, writer, files, now, written, fresh, excused, spent>>

\* app_log and log_auxiliary: no request and no level of its own.
LogAuxiliary ==
    /\ config.level # Off
    /\ Len(channel) + Len(holding) + Len(written) < MaxLines
    /\ TrySend([level |-> Full, body |-> FALSE])
    /\ UNCHANGED <<config, requests, holding, snapshot, writer, files, now, written, fresh,
                   excused, spent>>

\* SetDebugLogging: IPC replaces the whole configuration.
SetConfig(c) ==
    /\ spent.changes < MaxChanges /\ c # config
    /\ config' = c
    /\ fresh' = FALSE
    /\ spent' = [spent EXCEPT !.changes = @ + 1]
    /\ UNCHANGED <<requests, channel, holding, snapshot, writer, files, now, written, excused>>

-----------------------------------------------------------------------------
(* The files.                                                                *)

LinesOf(fs, names) == UNION {ToSet(fs[n].lines) : n \in names}

FilesOf(fs, p) == {n \in DOMAIN fs : n[1] = p}

\* A later modification has a larger stamp; "at" is its second.
Stamp(fs) == 1 + Max({0} \cup {fs[n].stamp : n \in DOMAIN fs})

\* The directory with this content under the name n.
With(fs, n, file) == [m \in DOMAIN fs \cup {n} |-> IF m = n THEN file ELSE fs[m]]

WithEmpty(fs, n) == With(fs, n, [lines |-> <<>>, bytes |-> 0, stamp |-> Stamp(fs), at |-> now])

\* cleanup_old_session_logs: the names it removes when p is opened.
Aged(fs, p) == {n \in DOMAIN fs : n # Live(p) /\ fs[n].at + Week < now}

\* Mutant of Opened: the file is taken for an empty one.
OpenedAsEmpty(c, fails) ==
    IF writer.path = c.path
    THEN [files |-> files, writer |-> writer, excused |-> excused]
    ELSE LET p    == c.path
             there == IF fails \/ Live(p) \in DOMAIN files THEN files ELSE WithEmpty(files, Live(p))
             aged == Aged(there, p)
         IN [ files   |-> Restrict(there, DOMAIN there \ aged),
              excused |-> excused \cup LinesOf(there, aged),
              writer  |-> [ path |-> p, mode |-> c.mode, size |-> 0, day |-> 0,
                            name |-> IF fails THEN NoFile ELSE Live(p) ] ]

\* ensure_file_writer and RotatingFile::new.  Only another path opens a file:
\* it is appended to, or /dev/null is when that fails.
Opened(c, fails) ==
    IF writer.path = c.path
    THEN [files |-> files, writer |-> writer, excused |-> excused]
    ELSE LET p    == c.path
             there == IF fails \/ Live(p) \in DOMAIN files THEN files ELSE WithEmpty(files, Live(p))
             aged == Aged(there, p)
         IN [ files   |-> Restrict(there, DOMAIN there \ aged),
              excused |-> excused \cup LinesOf(there, aged),
              writer  |-> [ path |-> p, mode |-> c.mode, day |-> 0,
                            size |-> IF fails THEN 0 ELSE there[Live(p)].bytes,
                            name |-> IF fails THEN NoFile ELSE Live(p) ] ]

\* current_day; 0 is None.
Today == 1 + now \div Day

\* rotate_if_needed: whether it is.  The first line of a day log never rotates.
Due(w, size) ==
    \/ w.mode = "size" /\ w.size + size > MaxBytes
    \/ w.mode = "daily" /\ w.day \notin {0, Today}

\* Mutant of Pruned: the order of modification the other way round.
PrunedNewest(fs, p) ==
    LET mine     == FilesOf(fs, p)
        Newer(n) == {m \in mine : fs[m].stamp > fs[n].stamp}
        pruned   == {n \in mine : n # Live(p) /\ Cardinality(Newer(n)) + MaxFiles < Cardinality(mine) + 1}
    IN Restrict(fs, DOMAIN fs \ pruned)

\* cleanup_rotated: the oldest go until MaxFiles are left, the live file counted.
Pruned(fs, p) ==
    LET mine     == FilesOf(fs, p)
        Older(n) == {m \in mine : fs[m].stamp < fs[n].stamp}
        pruned   == {n \in mine : Cardinality(Older(n)) + MaxFiles < Cardinality(mine)}
    IN Restrict(fs, DOMAIN fs \ pruned)

\* rename(path, rotated): over what a rotation of the same second left.
Renamed(fs, p) ==
    IF Live(p) \notin DOMAIN fs THEN fs
    ELSE With(Restrict(fs, DOMAIN fs \ {Live(p)}), Rotation(p), fs[Live(p)])

Overwritten(fs, p) ==
    IF {Live(p), Rotation(p)} \subseteq DOMAIN fs THEN LinesOf(fs, {Rotation(p)}) ELSE {}

\* The rest of it.  When the new file cannot be created, the handle of the old
\* one, size and day of a rotation stay, and the line is given up.
Rotated(d, fails) ==
    LET p       == d.writer.path
        renamed == Renamed(d.files, p)
        today   == IF d.writer.mode = "daily" THEN Today ELSE d.writer.day
        moved   == d.writer.name = Live(p) /\ Live(p) \in DOMAIN d.files
    IN [ files   |-> IF fails THEN renamed ELSE Pruned(WithEmpty(renamed, Live(p)), p),
         excused |-> d.excused \cup Overwritten(d.files, p),
         writer  |-> IF fails
                     THEN [d.writer EXCEPT !.day = today, !.name = IF moved THEN Rotation(p) ELSE @]
                     ELSE [d.writer EXCEPT !.day = today, !.name = Live(p), !.size = 0] ]

\* write_line, the line being number i: lost when the file is not there any more.
Put(d, i, size) ==
    LET n     == d.writer.name
        file  == d.files[n]
        first == d.writer.mode = "daily" /\ d.writer.day = 0
    IN [ files   |-> IF n \notin DOMAIN d.files THEN d.files
                     ELSE With(d.files, n,
                            [ lines |-> Append(file.lines, i), bytes |-> file.bytes + size + 1,
                              stamp |-> Stamp(d.files), at |-> now ]),
         excused |-> d.excused,
         writer  |-> [d.writer EXCEPT !.day  = IF first THEN Today ELSE @,
                                      !.size = @ + size + 1] ]

-----------------------------------------------------------------------------
(* The thread "debug-logger".                                                *)

Recv ==
    /\ holding = <<>> /\ channel # <<>>
    /\ holding' = <<Head(channel)>>
    /\ channel' = Tail(channel)
    /\ fresh' = TRUE
    /\ UNCHANGED <<config, requests, snapshot, writer, files, now, written, excused, spent>>

\* Mutant of TakeSnapshot: the configuration is read, then the event awaited.
SnapshotBeforeRecv ==
    /\ snapshot = <<>> /\ config.level # Off
    /\ snapshot' = <<config>>
    /\ UNCHANGED <<config, requests, channel, holding, writer, files, now, written, fresh,
                   excused, spent>>

TakeSnapshot ==
    /\ holding # <<>> /\ snapshot = <<>> /\ config.level # Off
    /\ snapshot' = <<config>>
    /\ UNCHANGED <<config, requests, channel, holding, writer, files, now, written, fresh,
                   excused, spent>>

\* Logging was turned off while the event waited.
Discard ==
    /\ holding # <<>> /\ snapshot = <<>> /\ config.level = Off
    /\ holding' = <<>>
    /\ UNCHANGED <<config, requests, channel, snapshot, writer, files, now, written, fresh,
                   excused, spent>>

\* format_console shows headers and bodies when the lower of both levels is
\* full; format_json whenever the record has any.
Shown(c, event) ==
    /\ event.body
    /\ c.format = "console" => event.level = Full /\ c.level = Full

LineTo(dest, size) ==
    [dest |-> dest, size |-> size, body |-> Shown(Head(snapshot), Head(holding))]

ToStderr(size) ==
    /\ holding # <<>> /\ snapshot # <<>> /\ Head(snapshot).destination = "stderr"
    /\ holding' = <<>> /\ snapshot' = <<>>
    /\ written' = Append(written, LineTo(NoPath, size))
    /\ UNCHANGED <<config, requests, channel, writer, files, now, fresh, excused, spent>>

ToFile(size, openFails, createFails) ==
    /\ holding # <<>> /\ snapshot # <<>> /\ Head(snapshot).destination \in {"file", "both"}
    /\ LET c       == Head(snapshot)
           opened  == Opened(c, openFails)
           due     == Due(opened.writer, size)
           rotated == IF due THEN Rotated(opened, createFails) ELSE opened
           lost    == createFails \/ rotated.writer.name = NoFile
           disk    == IF createFails THEN rotated ELSE Put(rotated, Len(written) + 1, size)
       IN /\ openFails => writer.path # c.path
          /\ createFails => due
          /\ files' = disk.files /\ writer' = disk.writer /\ excused' = disk.excused
          /\ written' = Append(written, LineTo(IF lost THEN NoPath ELSE c.path, size))
    /\ IF openFails \/ createFails
       THEN spent.faults < MaxFaults /\ spent' = [spent EXCEPT !.faults = @ + 1]
       ELSE UNCHANGED spent
    /\ holding' = <<>> /\ snapshot' = <<>>
    /\ UNCHANGED <<config, requests, channel, now, fresh>>

-----------------------------------------------------------------------------
Tick ==
    /\ now < MaxTime
    /\ now' = now + 1
    /\ UNCHANGED <<config, requests, channel, holding, snapshot, writer, files, written, fresh,
                   excused, spent>>

\* anycode ends, nobody waits for the writer, and starts again: with --resume
\* the path is the same, and the configuration is what the file says by then.
Restart(c) ==
    /\ spent.restarts < MaxRestarts
    /\ spent' = [spent EXCEPT !.restarts = @ + 1]
    /\ config' = c
    /\ requests' = [r \in Requests |-> Idle]
    /\ channel' = <<>> /\ holding' = <<>> /\ snapshot' = <<>>
    /\ writer' = NoWriter
    /\ UNCHANGED <<files, now, written, fresh, excused>>

LogNext ==
    \/ \E r \in Requests : Receive(r) \/ Respond(r) \/ PostResponse(r)
    \/ LogAuxiliary
    \/ \E c \in Configs : SetConfig(c) \/ Restart(c)
    \/ Recv \/ TakeSnapshot \/ Discard
    \/ \E size \in Sizes :
          \/ ToStderr(size)
          \/ \E openFails, createFails \in BOOLEAN : ToFile(size, openFails, createFails)
    \/ Tick

LogSpec == LogInit /\ [][LogNext]_logVars

-----------------------------------------------------------------------------
(* Properties.                                                               *)

\* Types, and a writer whose handle is of its own path (or of nothing).
DebugLogTypeOK ==
    /\ config \in Configs
    /\ requests \in [Requests -> [stage : {"idle", "received", "answered", "finished"},
                                  body : BOOLEAN]]
    /\ Len(channel) \in 0 .. ChannelSize /\ Len(holding) \in 0 .. 1
    /\ Len(snapshot) \in 0 .. 1 /\ ToSet(snapshot) \subseteq Configs /\ fresh \in BOOLEAN
    /\ ToSet(channel \o holding) \subseteq [level : Basic .. Full, body : BOOLEAN]
    /\ DOMAIN files \subseteq Paths \X (0 .. now)
    /\ writer.name = NoFile \/ writer.name[1] = writer.path
    /\ \A n \in DOMAIN files : ToSet(files[n].lines) \subseteq DOMAIN written
    /\ excused \subseteq DOMAIN written

\* The files of the open path hold, oldest file first, the last of the lines
\* written there and every one since the first they hold, but for those in a
\* file that a rotation of the same second replaced.  Restarts, failures to
\* create a file and the pruning do not make a hole in the log.
TailKept ==
    /\ DebugLogTypeOK
    /\ LET p    == writer.path
           mine == {i \in DOMAIN written : written[i].dest = p}
           kept == LinesOf(files, FilesOf(files, p))
       IN p \in Paths =>
           /\ \A i \in kept, j \in mine : j > i => j \in kept \cup excused
           /\ mine # {} => Max(mine) \in kept \cup excused
           /\ \A n, m \in FilesOf(files, p) : files[n].stamp < files[m].stamp =>
                 \A i \in ToSet(files[n].lines), j \in ToSet(files[m].lines) : i < j

\* "Prevents unbounded log growth": a path that always rotates by size has at
\* most MaxFiles files, one more for a file that could not be created, and
\* none of them passes MaxBytes by more than its last line break, unless it
\* holds a single line.
LogStaysBounded ==
    \A p \in Paths : (\A c \in Configs : c.path = p => c.mode = "size") =>
        /\ Cardinality(FilesOf(files, p)) <= Max({1, MaxFiles}) + spent.faults
        /\ \A n \in FilesOf(files, p) :
              files[n].bytes > MaxBytes + 1 => Len(files[n].lines) = 1

\* A change of the configuration concerns the events that waited for it: but
\* for the one event the writer may have in hand, what is written afterwards
\* goes where it says, nothing is written while the level is off, and no
\* console line shows headers or bodies below full, whatever the level was
\* when the request was served.
LoweredLevelHides ==
    [][Len(written') > Len(written) /\ fresh =>
          /\ config.level # Off
          /\ config.format = "console" /\ Last(written').body => config.level = Full
          /\ Last(written').dest \in {NoPath, config.path}]_logVars

=============================================================================
