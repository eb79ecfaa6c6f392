------------------------------ MODULE LogCache ------------------------------
(***************************************************************************)
(* The log of the app and its cache on disk.                               *)
(*                                                                         *)
(* VpnStatus keeps the last lines in a buffer.  Every line is also posted  *)
(* to LogFileHandler, a thread of its own, which appends it to a file; a   *)
(* message TRIM_LOG_FILE makes it empty the file and write the whole       *)
(* buffer.  The next process reads the file back into its buffer and then  *)
(* starts a new one.  The process may be killed at any point.              *)
(*                                                                         *)
(* A line is its number, counted over all processes.  The methods of       *)
(* VpnStatus are synchronized and are one step each; the thread of the     *)
(* handler is one step per record read and two per record written, since a *)
(* record goes to the file in several writes.                              *)
(***************************************************************************)
EXTENDS Integers, Sequences, FiniteSets

CONSTANTS
    MAXLOGENTRIES,  \* how many lines the buffer is trimmed to
    Faults,         \* "disk": a write or a truncation may fail;
                    \*   "open": the file cannot be made
    EarlyClear,     \* the log may be cleared while the old file is being read
    MaxLines,       \* bound on the lines logged by other threads
    MaxClears,      \* bound on how often the log is cleared,
    MaxFaults,      \*   on the faults,
    MaxStarts,      \*   and on the processes
    Garbage,        \* a line that nobody logged
    None            \* no file

ASSUME ConstantsAssumption ==
    /\ MAXLOGENTRIES \in Nat \ {0} /\ Faults \subseteq {"disk", "open"}
    /\ EarlyClear \in BOOLEAN
    /\ {MaxLines, MaxClears, MaxFaults, MaxStarts} \subseteq Nat
    /\ Garbage \notin Int
    /\ None \notin Seq([line : Int \cup {Garbage}, whole : BOOLEAN])

VARIABLES
    alive,      \* the process is there
    logbuffer,  \* VpnStatus.logbuffer
    queue,      \* the messages of the handler
    mode,       \* the handler: one of Modes
    read,       \*   when reading: the records it has done with, and
    itemsRead,  \*   the lines it has restored
    todo,       \*   when writing: the lines it still has to write
    opened,     \* mLogFile is not null
    file,       \* the records in the file, None without a file
    lines, starts, clears, faults,  \* how many there were
    born,       \* history: the first line of this process,
    cleared,    \*   the last line it has cleared, and
    failed,     \*   a write failed in this process
    untrimmed   \* history: the last truncation of the file failed

memory  == <<logbuffer, queue>>
handler == <<mode, read, itemsRead, todo, opened>>
bounds  == <<starts, clears, faults>>
history == <<born, cleared, failed, untrimmed>>
vars    == <<alive, memory, handler, file, lines, bounds, history>>

Message(w) == [what |-> w, line |-> 0]
LogMessage(n) == [what |-> "LOG_MESSAGE", line |-> n]
Queued(w) == \E i \in 1..Len(queue) : queue[i].what = w

Limit == MAXLOGENTRIES + MAXLOGENTRIES \div 2

Elements(q) == {q[i] : i \in 1..Len(q)}
Written == IF file = None THEN {} ELSE {r.line : r \in {s \in Elements(file) : s.whole}}
------------------------------------------------------------------------------
(* VpnStatus                                                                *)

\* Mutant: the buffer is trimmed and the file is not.
TrimBufferOnly(m) ==
    IF Len(m.buffer) > Limit
    THEN [m EXCEPT !.buffer = SubSeq(@, Len(@) - MAXLOGENTRIES + 1, Len(@))]
    ELSE m

\* The end of newLogItem(): a buffer that has grown too long is trimmed.
Trimmed(m) ==
    IF Len(m.buffer) > Limit
    THEN [buffer |-> SubSeq(m.buffer, Len(m.buffer) - MAXLOGENTRIES + 1, Len(m.buffer)),
          queue  |-> Append(m.queue, Message("TRIM_LOG_FILE"))]
    ELSE m

Memory == [buffer |-> logbuffer, queue |-> queue]

\* newLogItem(logItem, false): a new line.
NewLine(m, n) == Trimmed([buffer |-> Append(m.buffer, n),
                          queue  |-> Append(m.queue, LogMessage(n))])

\* Mutant: a line of the file is added at the end.
CachedLineLast(m, n) == Trimmed([m EXCEPT !.buffer = Append(@, n)])

\* newLogItem(logItem, true): a line of the file.
CachedLine(m, n) == Trimmed([m EXCEPT !.buffer = <<n>> \o @])

Become(m) == logbuffer' = m.buffer /\ queue' = m.queue

\* The handler logs k lines itself, on top of m and of what is left of the queue.
LogsItself(m, k) ==
    /\ Become(CASE k = 0 -> m
                [] k = 1 -> NewLine(m, lines + 1)
                [] k = 2 -> NewLine(NewLine(m, lines + 1), lines + 2))
    /\ lines' = lines + k

Init ==
    /\ alive = FALSE /\ logbuffer = <<>> /\ queue = <<>>
    /\ mode = "idle" /\ read = 0 /\ itemsRead = 0 /\ todo = <<>> /\ opened = FALSE
    /\ file = None
    /\ lines = 0 /\ starts = 0 /\ clears = 0 /\ faults = 0
    /\ born = 1 /\ cleared = 0 /\ failed = FALSE /\ untrimmed = FALSE

\* A process starts: the class logs its first line while there is no handler to
\* post it to, then CustomApplication.onCreate() calls initLogCache().
initLogCache ==
    /\ ~alive /\ starts < MaxStarts
    /\ alive' = TRUE /\ starts' = starts + 1
    /\ lines' = lines + 1 /\ logbuffer' = <<lines + 1>>
    /\ queue' = <<Message("LOG_INIT")>>
    /\ born' = lines + 1 /\ cleared' = 0 /\ failed' = FALSE
    /\ UNCHANGED <<handler, file, clears, faults, untrimmed>>

\* Any thread logs a line.
newLogItem ==
    /\ alive /\ lines < MaxLines
    /\ Become(NewLine(Memory, lines + 1)) /\ lines' = lines + 1
    /\ UNCHANGED <<alive, handler, file, bounds, history>>

\* Mutant: the file is not trimmed when the log is cleared.
clearLogOnly ==
    /\ alive /\ clears < MaxClears
    /\ EarlyClear \/ (mode # "reading" /\ ~Queued("LOG_INIT"))
    /\ Become(NewLine([Memory EXCEPT !.buffer = <<>>], lines + 1))
    /\ cleared' = lines /\ lines' = lines + 1 /\ clears' = clears + 1
    /\ UNCHANGED <<alive, handler, file, starts, faults, born, failed, untrimmed>>

\* LaunchVPN clears the log before a start; logInformation() logs one line.
clearLog ==
    /\ alive /\ clears < MaxClears
    /\ EarlyClear \/ (mode # "reading" /\ ~Queued("LOG_INIT"))
    /\ LET m == NewLine([Memory EXCEPT !.buffer = <<>>], lines + 1)
       IN  Become([m EXCEPT !.queue = Append(@, Message("TRIM_LOG_FILE"))])
    /\ cleared' = lines /\ lines' = lines + 1 /\ clears' = clears + 1
    /\ UNCHANGED <<alive, handler, file, starts, faults, born, failed, untrimmed>>

\* OpenVPNService.onDestroy().
flushLog ==
    /\ alive /\ ~Queued("FLUSH_TO_DISK")
    /\ queue' = Append(queue, Message("FLUSH_TO_DISK"))
    /\ UNCHANGED <<alive, logbuffer, handler, file, lines, bounds, history>>

\* The process ends, with all it had in memory.
Dies ==
    /\ alive' = FALSE /\ logbuffer' = <<>> /\ queue' = <<>>
    /\ mode' = "idle" /\ read' = 0 /\ itemsRead' = 0 /\ todo' = <<>> /\ opened' = FALSE

Kill ==
    /\ alive /\ Dies
    /\ UNCHANGED <<file, lines, bounds, history>>
------------------------------------------------------------------------------
(* LogFileHandler                                                           *)

\* The handler takes the next message.
Takes(w) ==
    /\ alive /\ mode = "idle" /\ queue # <<>> /\ Head(queue).what = w
    /\ queue' = Tail(queue)

\* LOG_INIT: readLogCache(), if there is a file, and openLogFile().
HandleInit ==
    /\ Takes("LOG_INIT")
    /\ mode' = IF file = None THEN "opening" ELSE "reading"
    /\ read' = 0 /\ itemsRead' = 0
    /\ UNCHANGED <<alive, logbuffer, todo, opened, file, lines, bounds, history>>

\* The reader goes on at record r + 1 after it has logged k lines.
ReadsOn(m, r, k) ==
    /\ alive /\ mode = "reading" /\ LogsItself(m, k)
    /\ read' = r
    /\ UNCHANGED <<alive, mode, todo, opened, file, bounds, history>>

\* readCacheContents() ends, by itself or with an exception, and k lines say so.
ReadingEnds(m, k) ==
    /\ alive /\ mode = "reading" /\ LogsItself(m, k)
    /\ mode' = "opening" /\ read' = 0 /\ itemsRead' = 0
    /\ UNCHANGED <<alive, todo, opened, file, bounds, history>>

\* Mutant: reading ends one record early.
LeavesOne == read + 1 >= Len(file) \/ itemsRead > 2 * MAXLOGENTRIES

\* The stream ends, or too many items were read.
AtEnd == read = Len(file) \/ itemsRead > 2 * MAXLOGENTRIES

\* The record is the last one: what is missing of it reads as the end of the stream.
IsLast(i) == i = Len(file)

\* A whole record is restored; one more than expected logs an error.
ReadWhole ==
    /\ alive /\ mode = "reading" /\ ~AtEnd /\ file[read + 1].whole
    /\ itemsRead' = itemsRead + 1
    /\ ReadsOn(CachedLine(Memory, file[read + 1].line), read + 1,
               IF itemsRead' > 2 * MAXLOGENTRIES THEN 1 ELSE 0)

\* A record that was cut off, at the end of the file: too short for a header, it
\* is ignored; else it is filled up with 0xFF until its length is right, and then
\* most often fails to be unmarshalled, but not when only text was missing.
ReadBrokenLast ==
    /\ alive /\ mode = "reading" /\ ~AtEnd /\ ~file[read + 1].whole /\ IsLast(read + 1)
    /\ \/ ReadsOn(Memory, read + 1, 0) /\ UNCHANGED itemsRead
       \/ ReadingEnds(Memory, 2)
       \/ /\ itemsRead' = itemsRead + 1
          /\ ReadsOn(CachedLine(Memory, Garbage), read + 1,
                     IF itemsRead' > 2 * MAXLOGENTRIES THEN 1 ELSE 0)

\* One in the middle: the magic byte of the next record stops it.  When its header
\* was cut off, that byte is taken for a part of the length, and the next record
\* is lost as well.
ReadBroken ==
    /\ alive /\ mode = "reading" /\ ~AtEnd /\ ~file[read + 1].whole /\ ~IsLast(read + 1)
    /\ \/ ReadsOn(Memory, read + 1, 1) /\ UNCHANGED itemsRead
       \/ ~IsLast(read + 2) /\ ReadsOn(Memory, read + 2, 1) /\ UNCHANGED itemsRead
       \/ ReadingEnds(Memory, 2)

ReadEnd == mode = "reading" /\ AtEnd /\ ReadingEnds(Memory, 1)

\* openLogFile() empties the file; what was read is in the buffer alone.
OpenLogFile ==
    /\ alive /\ mode = "opening"
    /\ file' = <<>> /\ opened' = TRUE /\ mode' = "idle" /\ untrimmed' = FALSE
    /\ UNCHANGED <<alive, memory, read, itemsRead, todo, lines, bounds,
                   born, cleared, failed>>

\* ... or fails, which is logged.
OpenFails ==
    /\ alive /\ mode = "opening" /\ "open" \in Faults /\ faults < MaxFaults
    /\ faults' = faults + 1 /\ failed' = TRUE
    /\ mode' = "idle" /\ LogsItself(Memory, 2)
    /\ UNCHANGED <<alive, read, itemsRead, todo, opened, file, starts, clears,
                   born, cleared, untrimmed>>

\* LOG_MESSAGE, ignored without a file.
HandleMessage ==
    /\ Takes("LOG_MESSAGE")
    /\ IF opened THEN mode' = "writing" /\ todo' = <<Head(queue).line>>
                 ELSE UNCHANGED <<mode, todo>>
    /\ UNCHANGED <<alive, logbuffer, read, itemsRead, opened, file, lines, bounds, history>>

\* Mutant: the file is emptied and not written again.
HandleTrimEmpties ==
    /\ Takes("TRIM_LOG_FILE") /\ opened
    /\ file' = <<>> /\ untrimmed' = FALSE
    /\ UNCHANGED <<alive, logbuffer, handler, lines, bounds, born, cleared, failed>>

\* TRIM_LOG_FILE: trimLogFile() empties the file, then the buffer is read.
HandleTrim ==
    /\ Takes("TRIM_LOG_FILE") /\ opened
    /\ file' = <<>> /\ mode' = "snapshot" /\ untrimmed' = FALSE
    /\ UNCHANGED <<alive, logbuffer, read, itemsRead, todo, opened, lines, bounds,
                   born, cleared, failed>>

\* The truncation fails: the exception is caught there, and the whole buffer is
\* written behind what the file already holds.
TrimFails ==
    /\ Takes("TRIM_LOG_FILE") /\ opened /\ "disk" \in Faults /\ faults < MaxFaults
    /\ faults' = faults + 1 /\ mode' = "snapshot" /\ untrimmed' = TRUE
    /\ UNCHANGED <<alive, logbuffer, read, itemsRead, todo, opened, file, lines,
                   starts, clears, born, cleared, failed>>

Snapshot ==
    /\ alive /\ mode = "snapshot"
    /\ todo' = logbuffer /\ mode' = "writing"
    /\ UNCHANGED <<alive, memory, read, itemsRead, opened, file, lines, bounds, history>>

\* FLUSH_TO_DISK.
HandleFlush ==
    /\ Takes("FLUSH_TO_DISK") /\ opened
    /\ UNCHANGED <<alive, logbuffer, handler, file, lines, bounds, history>>

\* Trimming and flushing a file that could not be opened: a NullPointerException
\* nobody catches ends the process.
HandleWithoutFile ==
    /\ alive /\ mode = "idle" /\ queue # <<>>
    /\ Head(queue).what \in {"TRIM_LOG_FILE", "FLUSH_TO_DISK"} /\ ~opened
    /\ Dies
    /\ UNCHANGED <<file, lines, bounds, history>>

\* writeEscapedBytes(): a record is begun, ...
BeginRecord ==
    /\ alive /\ mode = "writing"
    /\ file' = Append(file, [line |-> Head(todo), whole |-> FALSE])
    /\ mode' = "record"
    /\ UNCHANGED <<alive, memory, read, itemsRead, todo, opened, lines, bounds, history>>

\* ... and completed; then the next one, if there is one.
EndRecord ==
    /\ alive /\ mode = "record"
    /\ file' = [file EXCEPT ![Len(file)].whole = TRUE]
    /\ todo' = Tail(todo)
    /\ mode' = IF Tail(todo) = <<>> THEN "idle" ELSE "writing"
    /\ UNCHANGED <<alive, memory, read, itemsRead, opened, lines, bounds, history>>

\* A write fails: the message is given up, and two lines are logged, which come
\* back to the handler as messages.
WriteFails ==
    /\ alive /\ mode \in {"writing", "record"} /\ "disk" \in Faults /\ faults < MaxFaults
    /\ faults' = faults + 1 /\ failed' = TRUE
    /\ mode' = "idle" /\ todo' = <<>> /\ LogsItself(Memory, 2)
    /\ UNCHANGED <<alive, read, itemsRead, opened, file, starts, clears,
                   born, cleared, untrimmed>>
------------------------------------------------------------------------------
Handler ==
    \/ HandleInit \/ ReadWhole \/ ReadBrokenLast \/ ReadBroken \/ ReadEnd
    \/ OpenLogFile \/ OpenFails
    \/ HandleMessage \/ HandleTrim \/ TrimFails \/ Snapshot
    \/ HandleFlush \/ HandleWithoutFile
    \/ BeginRecord \/ EndRecord \/ WriteFails

Next == initLogCache \/ newLogItem \/ clearLog \/ flushLog \/ Kill \/ Handler

Spec == Init /\ [][Next]_vars

\* The looper of the handler goes on; nobody has to log, to start or to kill.
FairSpec == Spec /\ WF_vars(Handler)
------------------------------------------------------------------------------
(* Properties                                                               *)

Modes == {"idle", "reading", "opening", "snapshot", "writing", "record"}
Records == [line : 1..lines \cup {Garbage}, whole : BOOLEAN]

TypeOK ==
    /\ alive \in BOOLEAN /\ opened \in BOOLEAN /\ {failed, untrimmed} \subseteq BOOLEAN
    /\ logbuffer \in Seq(1..lines \cup {Garbage})
    /\ \A i \in 1..Len(queue) :
          \/ queue[i].what = "LOG_MESSAGE" /\ queue[i].line \in born..lines
          \/ queue[i].what \in {"LOG_INIT", "TRIM_LOG_FILE", "FLUSH_TO_DISK"}
    /\ mode \in Modes /\ {read, itemsRead, lines, cleared} \subseteq Nat
    /\ todo \in Seq(1..lines \cup {Garbage})
    /\ file = None \/ file \in Seq(Records)
    /\ mode = "reading" => read <= Len(file)
    /\ starts \in 0..MaxStarts /\ clears \in 0..MaxClears /\ faults \in 0..MaxFaults
    /\ born \in 1..(lines + 1)

\* The buffer holds lines of earlier processes and after them the lines of this
\* one, the last ones without a gap and in the order they were logged:
\* newLogItem() adds at both ends and trims while the file is being read.
LinesStayInOrder ==
    alive => \E k \in 0..Len(logbuffer) :
        /\ Elements(SubSeq(logbuffer, 1, k)) \subseteq 1..(born - 1) \cup {Garbage}
        /\ \A i \in (k + 1)..Len(logbuffer) :
              logbuffer[i] = lines - (Len(logbuffer) - i) /\ logbuffer[i] >= born
        /\ k < Len(logbuffer)

\* A line of this process that is in the buffer is on its way to the file or has
\* got there, whatever trims and clears came between, unless a write failed; the
\* first line was logged before there was a handler.
NothingIsDropped ==
    alive /\ ~failed =>
        \A n \in {m \in Elements(logbuffer) \cap Int : m > born} :
            \/ n \in Written \/ n \in Elements(todo) \/ mode = "snapshot"
            \/ \E i \in 1..Len(queue) : queue[i] = LogMessage(n)

\* However far the handler lags behind, the file holds no more than the buffer
\* twice over: a trim writes lines that are still posted and come once more.  The
\* exception is a file whose last truncation failed: it goes on growing until one
\* succeeds or the file is made anew.
FileIsBounded == file # None /\ ~untrimmed => Len(file) <= 2 * Limit

\* What was cleared in this process is gone from the buffer and, once the handler
\* has caught up, from the file: messages posted before a clear come before its trim.
\* A truncation that failed is not made up for: the trim is done with, and the lines
\* stay in the file.
ClearedStaysAway ==
    alive => \A n \in 1..cleared :
        /\ n \notin Elements(logbuffer)
        /\ mode = "idle" /\ ~Queued("TRIM_LOG_FILE") /\ opened /\ ~untrimmed
              => n \notin Written

\* Reading back what a killed process left restores every line before the first
\* record that was cut off, unless the buffer was trimmed or cleared meanwhile.
RecoveryIsComplete ==
    [][mode = "reading" /\ mode' = "opening" =>
          \A i \in 1..Len(file) :
              (\A j \in 1..i : file[j].whole) =>
                  \/ file[i].line \in Elements(logbuffer')
                  \/ \E k \in 1..Len(queue') : queue'[k].what = "TRIM_LOG_FILE"]_vars

\* The handler catches up with what it was sent.
HandlerCatchesUp == alive ~> ~alive \/ (mode = "idle" /\ queue = <<>>)

(* What does not hold; the README tells of the runs that show it. *)

\* Old lines come back in the order in which they were logged.
CachedLinesInOrder ==
    \A i, j \in 1..Len(logbuffer) :
        i < j /\ {logbuffer[i], logbuffer[j]} \subseteq Int => logbuffer[i] < logbuffer[j]

\* The lines that were read back are in the new file once the handler is idle.
CachedLinesAreKept ==
    alive /\ opened /\ mode = "idle" /\ queue = <<>> =>
        Elements(logbuffer) \cap 1..(born - 1) \subseteq Written

\* The reader never meets more lines than it expects in a file.
ReaderLimitSuffices == itemsRead <= 2 * MAXLOGENTRIES

\* The handler has a file when it is told to trim or flush it.
TrimHasAFile ==
    alive /\ mode = "idle" /\ queue # <<>>
          /\ Head(queue).what \in {"TRIM_LOG_FILE", "FLUSH_TO_DISK"} => opened
=============================================================================
