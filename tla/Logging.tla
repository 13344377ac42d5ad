------------------------------- MODULE Logging -------------------------------
(***************************************************************************)
(* The default logger of the process, which every LOG of cbee writes to:   *)
(* it is configured once by the logging library, again by Logger::config   *)
(* when cbee is loaded, and whenever the application asks for it.  Lines go*)
(* through streams, one for each file, kept for ever in the library's      *)
(* LogStreamsReferenceMap, to files that may refuse to be opened or to     *)
(* grow.  One thread logs: the library is built without ELPP_THREAD_SAFE.  *)
(***************************************************************************)
EXTENDS LogConfigurations, FiniteSets

CONSTANTS
  Files,          \* the files configurations name
  Edits,          \* the calls of set and setGlobally that build configurations
  MaxEdits,       \* bound: calls after setToDefault
  MaxLines,       \* bound: lines logged
  Fatal, Warning  \* Level::Fatal, Level::Warning

Values ==
  [Enabled |-> BOOLEAN, Filename |-> Files, ToFile |-> BOOLEAN,
   LogFlushThreshold |-> Nat]

ASSUME LoggingAssumption ==
  /\ {Fatal, Warning} \subseteq Levels /\ Fatal # Warning
  /\ DefaultLogFile \in Files
  /\ \A edit \in Edits : /\ edit.call \in {"set", "setGlobally"}
                          /\ edit.level \in AllLevels
                          /\ edit.type \in Types
                          /\ edit.value \in Values[edit.type]
  /\ MaxEdits \in Nat /\ MaxLines \in Nat

VARIABLES
  configurations,  \* Logger::m_configurations
  typed,           \* Logger::m_typedConfigurations
  unflushed,       \* Logger::m_unflushedCount
  logStreams,      \* LogStreamsReferenceMap: the stream of a file, 0 if null
  streams,         \* the streams that were opened: file, what it buffers
  content,         \* what has reached each file
  unusable,        \* the files that cannot be opened now
  diskFull,        \* no file can grow now
  lines,           \* history: the number of lines logged
  accepted,        \* history: the lines given to a stream, with its file's name
  asked,           \* history: the Configurations last given to the logger
  dropped,         \* history: the lines that abort() left in the buffers
  aborted

vars == <<configurations, typed, unflushed, logStreams, streams, content,
          unusable, diskFull, lines, accepted, asked, dropped, aborted>>

Enabled(level) == GetConfig(typed.enabled, level)
ToFile(level) == GetConfig(typed.toFile, level)
Threshold(level) == GetConfig(typed.logFlushThreshold, level)
FileStream(level) == GetConfig(typed.fileStream, level)
Filename(level) == GetConfig(typed.filename, level)

Lines == [level : Levels, number : 1 .. MaxLines]

TypeOK ==
  /\ \A type \in Types : configurations[type] \in [AllLevels -> Values[type]]
  /\ unflushed \in [Levels -> Nat]
  /\ DOMAIN logStreams \subseteq Files
  /\ \A f \in DOMAIN logStreams : logStreams[f] \in 0 .. Len(streams)
  /\ \A i \in DOMAIN streams :
       /\ streams[i].file \in Files
       /\ streams[i].failed \in BOOLEAN
       /\ \A j \in DOMAIN streams[i].buffer : streams[i].buffer[j] \in Lines
  /\ \A f \in Files : \A i \in DOMAIN content[f] : content[f][i] \in Lines
  /\ unusable \subseteq Files
  /\ diskFull \in BOOLEAN
  /\ lines \in 0 .. MaxLines
  /\ accepted \subseteq [file : Files, line : Lines]
  /\ dropped \subseteq Lines
  /\ aborted \in BOOLEAN

-----------------------------------------------------------------------------
(* TypedConfigurations.  acc holds what insertFile changes: the maps and   *)
(* the streams.                                                            *)

(* Seeded faults: newFileStream gives a stream it has deleted; a file's    *)
(* stream is not shared.                                                   *)
InsertFile_Deleted(acc, level, file) ==
  LET l == IF DOMAIN acc.filename = {} THEN Global ELSE level
      s == IF file \in DOMAIN acc.logStreams THEN acc.logStreams[file]
           ELSE Len(acc.streams) + 1 IN
  [acc EXCEPT
     !.streams = IF file \notin DOMAIN acc.logStreams \cup unusable
                 THEN Append(@, [file |-> file, buffer |-> <<>>, failed |-> FALSE])
                 ELSE @,
     !.logStreams = Insert(@, file, s),
     !.filename = Insert(@, l, file),
     !.fileStream = Insert(@, l, s)]

InsertFile_OwnStream(acc, level, file) ==
  LET l == IF DOMAIN acc.filename = {} THEN Global ELSE level
      s == IF file \in unusable THEN 0 ELSE Len(acc.streams) + 1 IN
  [acc EXCEPT
     !.streams = IF s # 0
                 THEN Append(@, [file |-> file, buffer |-> <<>>, failed |-> FALSE])
                 ELSE @,
     !.logStreams = Put(@, file, s),
     !.filename = Insert(@, l, file),
     !.fileStream = Insert(@, l, s),
     !.toFile = IF s = 0 THEN SetValue(@, l, FALSE) ELSE @]

(* Seeded fault: a level whose file is known shares the stream of Global.  *)
InsertFile_SharesGlobal(acc, level, file) ==
  LET l == IF DOMAIN acc.filename = {} THEN Global ELSE level
      known == file \in DOMAIN acc.logStreams
      s == IF known /\ l # Global THEN acc.fileStream[Global]
           ELSE IF known THEN acc.logStreams[file]
           ELSE IF file \in unusable THEN 0 ELSE Len(acc.streams) + 1 IN
  [acc EXCEPT
     !.streams = IF ~known /\ s # 0
                 THEN Append(@, [file |-> file, buffer |-> <<>>, failed |-> FALSE])
                 ELSE @,
     !.logStreams = Insert(@, file, s),
     !.filename = Insert(@, l, file),
     !.fileStream = Insert(@, l, s),
     !.toFile = IF s = 0 THEN SetValue(@, l, FALSE) ELSE @]

(* A file that is known is never opened again, not even one whose stream   *)
(* is null because it could not be opened the first time.                  *)
InsertFile(acc, level, file) ==
  LET l == IF DOMAIN acc.filename = {} THEN Global ELSE level
      known == file \in DOMAIN acc.logStreams
      s == IF known THEN acc.logStreams[file]
           ELSE IF file \in unusable THEN 0 ELSE Len(acc.streams) + 1 IN
  [acc EXCEPT
     !.streams = IF ~known /\ s # 0
                 THEN Append(@, [file |-> file, buffer |-> <<>>, failed |-> FALSE])
                 ELSE @,
     !.logStreams = Insert(@, file, s),
     !.filename = Insert(@, l, file),
     !.fileStream = Insert(@, l, s),
     !.toFile = IF s = 0 THEN SetValue(@, l, FALSE) ELSE @]

(* A new TypedConfigurations of conf, with the streams there are.          *)
Build(conf, allStreams, reference) ==
  FoldLeft(LAMBDA acc, level : InsertFile(acc, level, conf.Filename[level]),
           [toFile |-> BuildMap(conf.ToFile), filename |-> <<>>,
            fileStream |-> <<>>, streams |-> allStreams, logStreams |-> reference],
           Registered)

Configured(conf, allStreams, reference) ==
  LET built == Build(conf, allStreams, reference) IN
  /\ configurations' = conf
  /\ typed' = [enabled |-> BuildMap(conf.Enabled), toFile |-> built.toFile,
               logFlushThreshold |-> BuildMap(conf.LogFlushThreshold),
               filename |-> built.filename, fileStream |-> built.fileStream]
  /\ streams' = built.streams
  /\ logStreams' = built.logStreams

-----------------------------------------------------------------------------
(* Writing.  disk holds what a write and a flush change: the streams, the  *)
(* files, the counts of unflushed lines, and the history of the lines.     *)

Disk == [streams |-> streams, content |-> content, unflushed |-> unflushed,
         accepted |-> accepted]

(* fs->flush(), on a stream whose last operation failed without effect.    *)
Flushed(disk, s) ==
  LET stream == disk.streams[s] IN
  IF stream.failed \/ stream.buffer = <<>> THEN disk
  ELSE IF diskFull THEN [disk EXCEPT !.streams[s].failed = TRUE]
  ELSE [disk EXCEPT !.streams[s].buffer = <<>>,
                    !.content[stream.file] = @ \o stream.buffer]

(* Logger::flush(level, fs).                                               *)
Flush(disk, level, s) ==
  [Flushed(disk, s) EXCEPT !.unflushed[level] = 0]

(* DefaultLogDispatchCallback::dispatch: the line goes to the level's      *)
(* stream, unless the stream has failed, and is flushed when it is due.    *)
Dispatch(disk, level, number) ==
  LET s == FileStream(level)
      line == [level |-> level, number |-> number]
      written == [disk EXCEPT !.streams[s].buffer = Append(@, line),
                              !.unflushed[level] = @ + 1,
                              !.accepted = @ \cup
                                {[file |-> Filename(level), line |-> line]}] IN
  IF ~ToFile(level) \/ s = 0 THEN disk
  ELSE IF disk.streams[s].failed THEN disk
  ELSE IF written.unflushed[level] >= Threshold(level)
       THEN Flush(written, level, s)
       ELSE written

(* The lines that wait in a buffer for a flush.                            *)
Waiting(disk) ==
  {line \in Lines : \E i \in DOMAIN disk.streams :
     ~disk.streams[i].failed /\ Contains(disk.streams[i].buffer, line)}

(* The streams of a process that has ended without closing them.           *)
Abandoned(disk) ==
  [disk EXCEPT !.streams = [i \in DOMAIN disk.streams |->
                              [disk.streams[i] EXCEPT !.buffer = <<>>]]]

Written(disk) ==
  /\ streams' = disk.streams
  /\ content' = disk.content
  /\ unflushed' = disk.unflushed
  /\ accepted' = disk.accepted

-----------------------------------------------------------------------------
(* Storage registers the default logger with the default configurations.   *)
Init ==
  LET conf == SetToDefault
      built == Build(conf, <<>>, <<>>) IN
  /\ unusable \in SUBSET Files
  /\ diskFull = FALSE
  /\ configurations = conf
  /\ typed = [enabled |-> BuildMap(conf.Enabled), toFile |-> built.toFile,
              logFlushThreshold |-> BuildMap(conf.LogFlushThreshold),
              filename |-> built.filename, fileStream |-> built.fileStream]
  /\ streams = built.streams
  /\ logStreams = built.logStreams
  /\ unflushed = [l \in Levels |-> 0]
  /\ content = [f \in Files |-> <<>>]
  /\ lines = 0
  /\ accepted = {}
  /\ asked = conf
  /\ dropped = {}
  /\ aborted = FALSE

(* A Configurations as Logger::config and the tests build one.             *)
Edited(conf, edit) ==
  IF edit.call = "set" THEN Set(conf, edit.level, edit.type, edit.value)
  ELSE SetGlobally(conf, edit.type, edit.value)

(* Seeded fault: the logger does not flush before it is configured anew.   *)
Configure_NoFlush(conf) ==
  /\ asked' = conf
  /\ Configured(SetFromBase(configurations, conf), streams, logStreams)
  /\ unflushed' = [l \in Levels |-> 0]
  /\ UNCHANGED content

(* Logger::configure: every level's stream is flushed, conf is merged into *)
(* what was configured, and the maps are built anew.                       *)
Configure(conf) ==
  LET flushLevel(disk, level) ==
        IF ToFile(level) /\ FileStream(level) # 0
        THEN Flush(disk, level, FileStream(level))
        ELSE disk
      disk == FoldLeft(flushLevel,
                       [Disk EXCEPT !.unflushed = [l \in Levels |-> 0]],
                       Tail(Registered)) IN
  /\ asked' = conf
  /\ Configured(SetFromBase(configurations, conf), disk.streams, logStreams)
  /\ unflushed' = disk.unflushed
  /\ content' = disk.content

AllEdited ==
  {FoldLeft(Edited, SetToDefault, edits) : edits \in SeqOf(Edits, MaxEdits)}

(* Loggers::reconfigureLogger("default", conf).                            *)
ReconfigureLogger ==
  /\ ~aborted
  /\ \E conf \in AllEdited : Configure(conf)
  /\ UNCHANGED <<unusable, diskFull, lines, accepted, dropped, aborted>>

(* LOG(level) << ...; a level that is not enabled leaves no trace, and a   *)
(* Fatal that is not enabled does not abort.                               *)
Log(level) ==
  /\ ~aborted
  /\ lines < MaxLines
  /\ level # Fatal
  /\ Enabled(level)
  /\ Written(Dispatch(Disk, level, lines + 1))
  /\ lines' = lines + 1
  /\ UNCHANGED <<configurations, typed, logStreams, unusable, diskFull, asked,
                 dropped, aborted>>

(* LOG(FATAL): the line, a warning that says why, and abort(), which runs  *)
(* no destructor: what the streams still buffer is gone.                   *)
LogFatal ==
  /\ ~aborted
  /\ lines + 1 < MaxLines
  /\ Enabled(Fatal)
  /\ LET reported == Dispatch(Disk, Fatal, lines + 1)
         last == IF Enabled(Warning) THEN Dispatch(reported, Warning, lines + 2)
                 ELSE reported IN
     /\ dropped' = Waiting(last)
     /\ Written(Abandoned(last))
  /\ lines' = lines + 2
  /\ aborted' = TRUE
  /\ UNCHANGED <<configurations, typed, logStreams, unusable, diskFull, asked>>

(* A file becomes usable, or the disk fills or has room again.  That a file*)
(* ceases to be usable before it is opened is in Init: it never was.       *)
FilesChange ==
  /\ ~aborted
  /\ \/ /\ \E f \in unusable : unusable' = unusable \ {f}
        /\ UNCHANGED diskFull
     \/ /\ diskFull' = ~diskFull
        /\ UNCHANGED unusable
  /\ UNCHANGED <<configurations, typed, unflushed, logStreams, streams, content,
                 lines, accepted, asked, dropped, aborted>>

Next ==
  \/ ReconfigureLogger
  \/ \E level \in Levels : Log(level)
  \/ LogFatal
  \/ FilesChange

Spec == Init /\ [][Next]_vars

-----------------------------------------------------------------------------
Usable(file) == file \in DOMAIN logStreams /\ logStreams[file] # 0

(* Each level does what the Configurations last given say, although the    *)
(* maps leave out most of them, and although a merge sets Level::Global,   *)
(* and with it every level, on its way.  A level writes to its file unless *)
(* that file, or the one of Level::Global, which setGlobally does not set  *)
(* (Logger.cpp:10), could not be opened when it was first named.           *)
DoesAsAsked ==
  \A l \in Levels :
    /\ Enabled(l) = asked.Enabled[l]
    /\ Threshold(l) = asked.LogFlushThreshold[l]
    /\ (ToFile(l) /\ FileStream(l) # 0) <=>
         /\ asked.ToFile[l]
         /\ Usable(asked.Filename[l])
         /\ asked.ToFile[Global] => Usable(asked.Filename[Global])
    /\ FileStream(l) # 0 => streams[FileStream(l)].file = asked.Filename[l]

(* The lines of a file, those on their way included, are in the order in   *)
(* which they were logged, whatever levels and configurations they had:    *)
(* levels with one file share one stream.                                  *)
InOrder ==
  \A f \in Files :
    \A i \in DOMAIN streams :
      LET written == content[f] \o streams[i].buffer IN
      streams[i].file = f =>
        \A j, k \in DOMAIN written : j < k => written[j].number < written[k].number

(* A line that a level has written is in the file the level has, or on its *)
(* way there in a stream that is kept, whatever is configured afterwards.  *)
(* Only a failed write (easylogging++.cpp:2076-2093), and the abort() that *)
(* ends LOG(FATAL) (easylogging++.cpp:3117), lose lines.                   *)
NothingLost ==
  \A a \in accepted :
    \/ Contains(content[a.file], a.line)
    \/ \E i \in DOMAIN streams :
         /\ streams[i].file = a.file
         /\ streams[i].failed \/ Contains(streams[i].buffer, a.line)
    \/ a.line \in dropped

(* A level holds back fewer lines than its threshold, none if it is 0 or 1,*)
(* unless a write to the file has failed: so abort() loses no more of them,*)
(* and nothing of a level that flushes every line.                         *)
HeldBack(l) == {line \in Waiting(Disk) \cup dropped : line.level = l}

NothingHeldBack ==
  \A l \in Levels :
    Cardinality(HeldBack(l)) < (IF Threshold(l) = 0 THEN 1 ELSE Threshold(l))
=============================================================================
