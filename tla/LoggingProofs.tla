---------------------------- MODULE LoggingProofs ----------------------------
(***************************************************************************)
(* Proofs that Logging keeps its safety properties for any levels, files,  *)
(* configurations and numbers of lines.  IndInv carries them all.          *)
(***************************************************************************)
EXTENDS Logging, LogConfigurationsProofs

EditFold == INSTANCE FoldTheorems
              WITH Step <- LAMBDA conf, edit, p, q : Edited(conf, edit)

StreamFold == INSTANCE FoldTheorems
                WITH Step <- LAMBDA acc, level, conf, q :
                               InsertFile(acc, level, conf.Filename[level])

(* flushLevel of Configure.                                                *)
FlushLevel(disk, level) ==
  IF ToFile(level) /\ FileStream(level) # 0
  THEN Flush(disk, level, FileStream(level))
  ELSE disk

FlushFold == INSTANCE FoldTheorems
               WITH Step <- LAMBDA disk, level, p, q : FlushLevel(disk, level)

Streams == [file : Files, buffer : Seq(Lines), failed : BOOLEAN]

Disks ==
  [streams : Seq(Streams), content : [Files -> Seq(Lines)],
   unflushed : [Levels -> Nat], accepted : SUBSET [file : Files, line : Lines]]

(* A Configurations whose values are those that Values allows.             *)
ConfigurationsOK(conf) ==
  /\ IsConfigurations(conf)
  /\ \A type \in Types : \A l \in AllLevels : conf[type][l] \in Values[type]

(* The table of the streams: one for each file, under its name.            *)
StreamsOK(all, reference) ==
  /\ all \in Seq(Streams)
  /\ DOMAIN reference \subseteq Files
  /\ \A f \in DOMAIN reference :
       /\ reference[f] \in 0 .. Len(all)
       /\ reference[f] # 0 => all[reference[f]].file = f
  /\ \A i \in 1 .. Len(all) :
       /\ all[i].file \in DOMAIN reference
       /\ reference[all[i].file] = i

(* The maps of the logger against what was asked of it.                    *)
ConfiguredInv ==
  /\ ConfigurationsOK(asked)
  /\ configurations = asked
  /\ \A l \in AllLevels : asked.Filename[l] \in DOMAIN logStreams
  /\ \A l \in Levels :
       /\ Enabled(l) = asked.Enabled[l]
       /\ Threshold(l) = asked.LogFlushThreshold[l]
       /\ Filename(l) = asked.Filename[l]
       /\ FileStream(l) = logStreams[asked.Filename[l]]
       /\ FileStream(l) # 0 =>
            (ToFile(l) <=> /\ asked.ToFile[l]
                           /\ asked.ToFile[Global] =>
                                logStreams[asked.Filename[Global]] # 0)

(* What streams and files have of the lines up to number m.                *)
Increasing(s) ==
  \A j, k \in 1 .. Len(s) : j < k => s[j].number < s[k].number

UpTo(s, m) == \A j \in 1 .. Len(s) : s[j].number <= m

OneStreamPerFile(d) ==
  \A i, j \in 1 .. Len(d.streams) : d.streams[i].file = d.streams[j].file => i = j

InOrderOn(d, m) ==
  /\ \A f \in Files : Increasing(d.content[f]) /\ UpTo(d.content[f], m)
  /\ \A i \in 1 .. Len(d.streams) :
       /\ Increasing(d.content[d.streams[i].file] \o d.streams[i].buffer)
       /\ UpTo(d.streams[i].buffer, m)

Kept(d, a) ==
  \/ Contains(d.content[a.file], a.line)
  \/ \E i \in 1 .. Len(d.streams) :
       /\ d.streams[i].file = a.file
       /\ d.streams[i].failed \/ Contains(d.streams[i].buffer, a.line)

NothingLostOn(d) == \A a \in d.accepted : Kept(d, a)

(* A line that waits in a stream waits in the stream of its level.         *)
OwnStreams(d) ==
  /\ \A l \in Levels :
       /\ Filename(l) \in Files
       /\ FileStream(l) \in 0 .. Len(d.streams)
       /\ FileStream(l) # 0 => d.streams[FileStream(l)].file = Filename(l)
  /\ \A i \in 1 .. Len(d.streams) : ~d.streams[i].failed =>
       \A j \in 1 .. Len(d.streams[i].buffer) :
         LET l == d.streams[i].buffer[j].level IN ToFile(l) /\ FileStream(l) = i

DiskInv(d, m) ==
  /\ d \in Disks
  /\ OneStreamPerFile(d)
  /\ InOrderOn(d, m)
  /\ NothingLostOn(d)
  /\ OwnStreams(d)

(* The counts of unflushed lines.                                          *)
Held(d, l) ==
  {line \in Lines : line.level = l /\
     \E i \in 1 .. Len(d.streams) :
       ~d.streams[i].failed /\ Contains(d.streams[i].buffer, line)}

Limit(l) == IF Threshold(l) = 0 THEN 1 ELSE Threshold(l)

CountOK(d, l) ==
  /\ IsFiniteSet(Held(d, l))
  /\ Cardinality(Held(d, l)) <= d.unflushed[l]
  /\ d.unflushed[l] < Limit(l)

CountsOK(d) == \A l \in Levels : CountOK(d, l)

(* d is what the lines have made of streams and files: until abort() it is *)
(* there, and after abort() all of it but what the buffers held.           *)
LeftBy(d) ==
  IF aborted THEN Disk = Abandoned(d) /\ dropped = Waiting(d)
  ELSE Disk = d /\ dropped = {}

LinesInv == \E d \in Disks : DiskInv(d, lines) /\ CountsOK(d) /\ LeftBy(d)

IndInv ==
  /\ unusable \subseteq Files
  /\ diskFull \in BOOLEAN
  /\ aborted \in BOOLEAN
  /\ lines \in 0 .. MaxLines
  /\ StreamsOK(streams, logStreams)
  /\ ConfiguredInv
  /\ LinesInv

-----------------------------------------------------------------------------
(* The configurations that a program can give to the logger.               *)
LEMMA DefaultIsOK == ConfigurationsOK(SetToDefault)
<1>1. SetToDefault = [type \in Types |-> SetToDefault[type]]
  BY DEF SetToDefault, Types
<1>2. ASSUME NEW type \in Types
      PROVE  /\ SetToDefault[type] = [l \in AllLevels |-> SetToDefault[type][l]]
             /\ \A l \in AllLevels : SetToDefault[type][l] \in Values[type]
  <2>1. CASE type = "Enabled"
    BY <2>1 DEF SetToDefault, Values
  <2>2. CASE type = "Filename"
    BY <2>2, LoggingAssumption DEF SetToDefault, Values
  <2>3. CASE type = "ToFile"
    BY <2>3 DEF SetToDefault, Values
  <2>4. CASE type = "LogFlushThreshold"
    BY <2>4 DEF SetToDefault, Values
  <2> QED BY <2>1, <2>2, <2>3, <2>4 DEF Types
<1> QED BY <1>1, <1>2 DEF ConfigurationsOK, IsConfigurations

LEMMA EditedIsOK ==
  ASSUME NEW conf, ConfigurationsOK(conf), NEW edit \in Edits
  PROVE  ConfigurationsOK(Edited(conf, edit))
<1> DEFINE t == edit.type
           e == Edited(conf, edit)
<1>1. /\ edit.level \in AllLevels /\ t \in Types /\ edit.value \in Values[t]
      /\ conf = [type \in Types |-> conf[type]]
      /\ \A type \in Types : conf[type] = [l \in AllLevels |-> conf[type][l]]
      /\ \A type \in Types : \A l \in AllLevels : conf[type][l] \in Values[type]
  BY LoggingAssumption DEF ConfigurationsOK, IsConfigurations
<1>2. Global \in AllLevels
  BY DEF AllLevels
<1>3. PICK f : /\ e = [conf EXCEPT ![t] = f]
               /\ f = [l \in AllLevels |-> f[l]]
               /\ \A l \in AllLevels : f[l] \in Values[t]
  <2>1. CASE edit.call = "set" /\ edit.level = Global
    <3> DEFINE f == [l \in AllLevels |-> edit.value]
    <3>1. e = [conf EXCEPT ![t] = f]
      BY <2>1 DEF Edited, Set
    <3>2. f = [l \in AllLevels |-> f[l]] /\ \A l \in AllLevels : f[l] \in Values[t]
      BY <1>1
    <3> HIDE DEF f
    <3> QED BY <3>1, <3>2
  <2>2. CASE edit.call = "set" /\ edit.level # Global
    <3> DEFINE f == [conf[t] EXCEPT ![edit.level] = edit.value]
    <3>1. e = [conf EXCEPT ![t] = f]
      BY <2>2 DEF Edited, Set
    <3>2. f = [l \in AllLevels |-> f[l]] /\ \A l \in AllLevels : f[l] \in Values[t]
      BY <1>1
    <3> HIDE DEF f
    <3> QED BY <3>1, <3>2
  <2>3. CASE edit.call # "set"
    <3> DEFINE f == [l \in AllLevels |-> IF l = Global THEN conf[t][Global]
                                         ELSE edit.value]
    <3>1. e = [conf EXCEPT ![t] = f]
      BY <2>3, Zenon DEF Edited, SetGlobally
    <3>2. f = [l \in AllLevels |-> f[l]] /\ \A l \in AllLevels : f[l] \in Values[t]
      BY <1>1, <1>2
    <3> HIDE DEF f
    <3> QED BY <3>1, <3>2, Zenon
  <2> QED BY <2>1, <2>2, <2>3
<1> HIDE DEF t, e
<1>4. /\ e = [type \in Types |-> e[type]]
      /\ \A type \in Types : e[type] = IF type = t THEN f ELSE conf[type]
  BY <1>1, <1>3
<1> QED BY <1>1, <1>3, <1>4 DEF ConfigurationsOK, IsConfigurations, e

LEMMA AllEditedAreOK == \A conf \in AllEdited : ConfigurationsOK(conf)
<1> SUFFICES ASSUME NEW m \in 0 .. MaxEdits, NEW edits \in [1 .. m -> Edits]
             PROVE  ConfigurationsOK(FoldLeft(Edited, SetToDefault, edits))
  BY Zenon DEF AllEdited, SeqOf
<1>1. m \in Nat /\ edits \in Seq(Edits) /\ Len(edits) = m /\ DOMAIN edits = 1 .. m
  BY LoggingAssumption
<1>2. FoldLeft(Edited, SetToDefault, edits) =
        EditFold!Folded(SetToDefault, edits, 0, 0)
  BY Zenon DEF FoldLeft, MapThenFoldSet, Max, EditFold!Folded, EditFold!Max
<1>3. PICK h : /\ EditFold!IsHistory(h, SetToDefault, edits, 0, 0)
               /\ EditFold!Folded(SetToDefault, edits, 0, 0) = h[Len(edits)]
  BY <1>1, EditFold!FoldHistory
<1>4. /\ h[0] = SetToDefault
      /\ \A k \in 1 .. m : h[k] = Edited(h[k - 1], edits[k])
  BY <1>1, <1>3, Zenon DEF EditFold!IsHistory
<1> DEFINE S == {k \in 0 .. m : ConfigurationsOK(h[k])}
<1>5. 0 \in S
  BY <1>1, <1>4, DefaultIsOK
<1>6. ASSUME NEW k \in 0 .. m - 1, k \in S
      PROVE  k + 1 \in S
  <2>1. k + 1 \in 1 .. m /\ (k + 1) - 1 = k /\ k + 1 \in 0 .. m
    BY <1>1
  <2>2. h[k + 1] = Edited(h[k], edits[k + 1]) /\ edits[k + 1] \in Edits
    BY <1>4, <2>1
  <2>3. ConfigurationsOK(h[k])
    BY <1>6
  <2> QED BY <2>1, <2>2, <2>3, EditedIsOK
<1>7. 0 .. m \subseteq S
  <2> HIDE DEF S
  <2> QED BY <1>1, <1>5, <1>6, EditFold!Induction
<1> QED BY <1>1, <1>2, <1>3, <1>7
-----------------------------------------------------------------------------
(* What the second loop of build has made of the levels T: the streams of  *)
(* all are still there, new ones have not been written to, and the maps    *)
(* have the values of conf, except that a level without a stream does not  *)
(* write to a file.                                                        *)
StreamOf(all, reference, file) ==
  IF file \in DOMAIN reference THEN reference[file]
  ELSE IF file \in unusable THEN 0 ELSE Len(all) + 1

NewStream(file) == [file |-> file, buffer |-> <<>>, failed |-> FALSE]

WithStream(all, reference, file) ==
  IF file \notin DOMAIN reference /\ StreamOf(all, reference, file) # 0
  THEN Append(all, NewStream(file)) ELSE all

Grown(all, more) ==
  /\ Len(all) <= Len(more)
  /\ \A i \in 1 .. Len(all) : more[i] = all[i]
  /\ \A i \in Len(all) + 1 .. Len(more) :
       more[i].buffer = <<>> /\ more[i].failed = FALSE

IsMaps(acc) ==
  DOMAIN acc = {"toFile", "filename", "fileStream", "streams", "logStreams"}

ToFileOK(acc, conf, T) ==
  /\ Global \in DOMAIN acc.toFile
  /\ acc.toFile[Global] = IF Global \in T /\ acc.fileStream[Global] = 0 THEN FALSE
                          ELSE conf.ToFile[Global]
  /\ \A l \in Levels : (l \in T => acc.fileStream[l] # 0) =>
       /\ l \in DOMAIN acc.toFile <=> conf.ToFile[l] # conf.ToFile[Global]
       /\ l \in DOMAIN acc.toFile => acc.toFile[l] = conf.ToFile[l]

MapsOK(acc, conf, T) ==
  /\ acc.filename = [l \in T |-> conf.Filename[l]]
  /\ DOMAIN acc.fileStream = T
  /\ \A l \in T : /\ conf.Filename[l] \in DOMAIN acc.logStreams
                  /\ acc.fileStream[l] = acc.logStreams[conf.Filename[l]]

BuiltOK(acc, conf, all, T) ==
  /\ IsMaps(acc)
  /\ StreamsOK(acc.streams, acc.logStreams)
  /\ Grown(all, acc.streams)
  /\ MapsOK(acc, conf, T)
  /\ ToFileOK(acc, conf, T)

(* The table of the streams afterwards, and the fields of the maps.        *)
StreamAdded(all, reference, file, s, more, table) ==
  /\ StreamsOK(more, table)
  /\ Grown(all, more)
  /\ DOMAIN table = DOMAIN reference \cup {file}
  /\ table[file] = s
  /\ \A f \in DOMAIN reference : table[f] = reference[f]
  /\ s \in 0 .. Len(more)

LevelAdded(acc, level, file, s, r) ==
  /\ IsMaps(r)
  /\ r.streams = WithStream(acc.streams, acc.logStreams, file)
  /\ r.logStreams = Insert(acc.logStreams, file, s)
  /\ r.filename = Insert(acc.filename, level, file)
  /\ r.fileStream = Insert(acc.fileStream, level, s)
  /\ r.toFile = IF s = 0 THEN SetValue(acc.toFile, level, FALSE) ELSE acc.toFile

(* insertFile, field by field, for a level that has no file yet.           *)
LEMMA InsertedFields ==
  ASSUME NEW acc, NEW level, NEW file, NEW s, NEW r,
         IsMaps(acc),
         DOMAIN acc.filename = {} => level = Global,
         s = StreamOf(acc.streams, acc.logStreams, file),
         r = InsertFile(acc, level, file)
  PROVE  LevelAdded(acc, level, file, s, r)
<1> DEFINE more == WithStream(acc.streams, acc.logStreams, file)
           table == Insert(acc.logStreams, file, s)
           names == Insert(acc.filename, level, file)
           fileStreams == Insert(acc.fileStream, level, s)
           toFiles == IF s = 0 THEN SetValue(acc.toFile, level, FALSE) ELSE acc.toFile
<1>1. r = [acc EXCEPT !.streams = more, !.logStreams = table,
                      !.filename = names, !.fileStream = fileStreams,
                      !.toFile = toFiles]
  BY Zenon DEF InsertFile, WithStream, StreamOf, NewStream
<1> HIDE DEF more, table, names, fileStreams, toFiles
<1>2. /\ IsMaps(r)
      /\ r.streams = more
      /\ r.logStreams = table
      /\ r.filename = names
      /\ r.fileStream = fileStreams
      /\ r.toFile = toFiles
  BY <1>1 DEF IsMaps
<1> QED BY <1>2, Zenon DEF LevelAdded, more, table, names, fileStreams, toFiles

(* A file gets one stream, and no other file's stream changes.             *)
LEMMA InsertKeepsStreams ==
  ASSUME NEW all, NEW reference, NEW file \in Files, NEW s, NEW more, NEW table,
         StreamsOK(all, reference),
         s = StreamOf(all, reference, file),
         more = WithStream(all, reference, file),
         table = Insert(reference, file, s)
  PROVE  StreamAdded(all, reference, file, s, more, table)
<1>1. /\ all \in Seq(Streams) /\ Len(all) \in Nat
      /\ DOMAIN reference \subseteq Files
      /\ \A f \in DOMAIN reference :
           /\ reference[f] \in 0 .. Len(all)
           /\ reference[f] # 0 => all[reference[f]].file = f
      /\ \A i \in 1 .. Len(all) :
           /\ all[i].file \in DOMAIN reference
           /\ reference[all[i].file] = i
  <2>1. all \in Seq(Streams)
    BY Zenon DEF StreamsOK
  <2>2. Len(all) \in Nat
    BY <2>1, LenProperties
  <2> QED BY <2>1, <2>2, Zenon DEF StreamsOK
<1>2. CASE file \in DOMAIN reference
  <2>1. table = reference /\ more = all /\ s = reference[file]
    BY <1>2, Zenon DEF Insert, StreamOf, WithStream
  <2>2. DOMAIN reference \cup {file} = DOMAIN reference
    BY <1>2
  <2>3. Grown(all, all)
    BY <1>1 DEF Grown
  <2> QED BY <1>1, <1>2, <2>1, <2>2, <2>3 DEF StreamAdded
<1>3. CASE file \notin DOMAIN reference
  <2>1. table = [f \in DOMAIN reference \cup {file} |->
                   IF f = file THEN s ELSE reference[f]]
    BY <1>3 DEF Insert, Put
  <2>2. CASE file \in unusable
    <3>1. s = 0 /\ more = all
      BY <1>3, <2>2, Zenon DEF StreamOf, WithStream
    <3> QED BY <1>1, <1>3, <2>1, <3>1 DEF StreamsOK, Grown, StreamAdded
  <2>3. CASE file \notin unusable
    <3>1. s = Len(all) + 1 /\ more = Append(all, NewStream(file))
      BY <1>1, <1>3, <2>3 DEF StreamOf, WithStream
    <3>2. NewStream(file) \in Streams /\ NewStream(file).file = file
          /\ NewStream(file).buffer = <<>> /\ NewStream(file).failed = FALSE
      BY DEF NewStream, Streams
    <3>3. /\ more \in Seq(Streams) /\ Len(more) = Len(all) + 1
          /\ \A i \in 1 .. Len(all) : more[i] = all[i]
          /\ more[Len(all) + 1] = NewStream(file)
      BY <1>1, <3>1, <3>2, AppendProperties
    <3>4. /\ DOMAIN table = DOMAIN reference \cup {file}
          /\ table[file] = s
          /\ \A f \in DOMAIN reference : table[f] = reference[f]
      BY <1>3, <2>1
    <3>5. Grown(all, more)
      BY <1>1, <3>2, <3>3 DEF Grown
    <3>6. \A f \in DOMAIN table :
            /\ table[f] \in 0 .. Len(more)
            /\ table[f] # 0 => more[table[f]].file = f
      BY <1>1, <3>1, <3>2, <3>3, <3>4
    <3>7. ASSUME NEW i \in 1 .. Len(more)
          PROVE  more[i].file \in DOMAIN table /\ table[more[i].file] = i
      <4>1. CASE i = Len(all) + 1
        BY <3>1, <3>2, <3>3, <3>4, <4>1
      <4>2. CASE i \in 1 .. Len(all)
        BY <1>1, <3>3, <3>4, <4>2
      <4> QED BY <1>1, <3>3, <4>1, <4>2
    <3>8. StreamsOK(more, table)
      BY <1>1, <3>3, <3>4, <3>6, <3>7 DEF StreamsOK
    <3> QED BY <1>1, <3>1, <3>3, <3>4, <3>5, <3>8 DEF StreamAdded
  <2> QED BY <2>2, <2>3
<1> QED BY <1>2, <1>3
LEMMA GrownIsTransitive ==
  ASSUME NEW a, NEW b, NEW c, Grown(a, b), Grown(b, c),
         Len(a) \in Nat, Len(b) \in Nat, Len(c) \in Nat
  PROVE  Grown(a, c)
<1>1. ASSUME NEW i \in Len(a) + 1 .. Len(c)
      PROVE  c[i].buffer = <<>> /\ c[i].failed = FALSE
  <2>1. CASE i <= Len(b)
    BY <2>1 DEF Grown
  <2>2. CASE ~(i <= Len(b))
    BY <2>2 DEF Grown
  <2> QED BY <2>1, <2>2
<1>2. Len(a) <= Len(c) /\ \A i \in 1 .. Len(a) : c[i] = a[i]
  BY DEF Grown
<1> QED BY <1>1, <1>2 DEF Grown

(* One level more.                                                         *)
LEMMA InsertIsBuilt ==
  ASSUME NEW conf, ConfigurationsOK(conf), NEW all, Len(all) \in Nat,
         NEW T \in SUBSET AllLevels, NEW level \in AllLevels \ T,
         IF level = Global THEN T = {} ELSE Global \in T,
         NEW acc, BuiltOK(acc, conf, all, T)
  PROVE  BuiltOK(InsertFile(acc, level, conf.Filename[level]), conf, all,
                 T \cup {level})
<1> DEFINE file == conf.Filename[level]
           s == StreamOf(acc.streams, acc.logStreams, file)
           r == InsertFile(acc, level, file)
           U == T \cup {level}
<1>1. /\ IsMaps(acc)
      /\ StreamsOK(acc.streams, acc.logStreams)
      /\ Grown(all, acc.streams)
      /\ MapsOK(acc, conf, T)
      /\ ToFileOK(acc, conf, T)
  BY DEF BuiltOK
<1>2. file \in Files /\ \A l \in AllLevels : conf.ToFile[l] \in BOOLEAN
  BY DEF ConfigurationsOK, Types, Values
<1>3. DOMAIN acc.filename = T /\ DOMAIN acc.fileStream = T
  BY <1>1 DEF MapsOK
<1>4. /\ IsMaps(r)
      /\ r.streams = WithStream(acc.streams, acc.logStreams, file)
      /\ r.logStreams = Insert(acc.logStreams, file, s)
      /\ r.filename = Insert(acc.filename, level, file)
      /\ r.fileStream = Insert(acc.fileStream, level, s)
      /\ r.toFile = IF s = 0 THEN SetValue(acc.toFile, level, FALSE)
                    ELSE acc.toFile
  <2>1. DOMAIN acc.filename = {} => level = Global
    BY <1>3
  <2> HIDE DEF s, r
  <2>2. /\ s = StreamOf(acc.streams, acc.logStreams, file)
        /\ r = InsertFile(acc, level, file)
    BY Zenon DEF s, r
  <2> HIDE DEF file
  <2>3. LevelAdded(acc, level, file, s, r)
    BY <1>1, <2>1, <2>2, InsertedFields
  <2> QED BY <2>3 DEF LevelAdded
<1>5. s = StreamOf(acc.streams, acc.logStreams, file)
  OBVIOUS
<1> HIDE DEF file, s, r
<1>6. /\ StreamsOK(r.streams, r.logStreams)
      /\ Grown(acc.streams, r.streams)
      /\ DOMAIN r.logStreams = DOMAIN acc.logStreams \cup {file}
      /\ r.logStreams[file] = s
      /\ \A f \in DOMAIN acc.logStreams : r.logStreams[f] = acc.logStreams[f]
      /\ s \in 0 .. Len(r.streams)
  <2>1. StreamAdded(acc.streams, acc.logStreams, file, s, r.streams, r.logStreams)
    BY <1>1, <1>2, <1>4, <1>5, InsertKeepsStreams
  <2> QED BY <2>1 DEF StreamAdded
<1>7. Grown(all, r.streams)
  <2>1. Len(acc.streams) \in Nat /\ Len(r.streams) \in Nat
    BY <1>1, <1>6, LenProperties DEF StreamsOK
  <2> QED BY <1>1, <1>6, <2>1, GrownIsTransitive
<1>8. /\ r.filename = [l \in U |-> IF l = level THEN file ELSE acc.filename[l]]
      /\ r.fileStream = [l \in U |-> IF l = level THEN s ELSE acc.fileStream[l]]
  BY <1>3, <1>4 DEF Insert, Put
<1>9. MapsOK(r, conf, U)
  BY <1>1, <1>3, <1>6, <1>8 DEF MapsOK, file
<1>10. ToFileOK(r, conf, U)
  <2>1. \A l \in T : r.fileStream[l] = acc.fileStream[l]
    BY <1>8
  <2>2. r.fileStream[level] = s
    BY <1>8
  <2>3. /\ Global \in DOMAIN acc.toFile
        /\ acc.toFile[Global] = IF Global \in T /\ acc.fileStream[Global] = 0
                                THEN FALSE ELSE conf.ToFile[Global]
        /\ \A l \in Levels : (l \in T => acc.fileStream[l] # 0) =>
             /\ l \in DOMAIN acc.toFile <=> conf.ToFile[l] # conf.ToFile[Global]
             /\ l \in DOMAIN acc.toFile => acc.toFile[l] = conf.ToFile[l]
    BY <1>1 DEF ToFileOK
  <2>4. CASE s # 0
    <3>1. r.toFile = acc.toFile
      BY <1>4, <2>4
    <3> QED BY <2>1, <2>2, <2>3, <2>4, <3>1 DEF ToFileOK
  <2>5. CASE s = 0
    <3>1. r.toFile = IF acc.toFile[Global] = FALSE THEN acc.toFile
                     ELSE Put(acc.toFile, level, FALSE)
      BY <1>4, <2>3, <2>5 DEF SetValue
    <3>2. CASE acc.toFile[Global] = FALSE
      <4>1. r.toFile = acc.toFile
        BY <3>1, <3>2
      <4> QED BY <2>1, <2>2, <2>3, <2>5, <3>2, <4>1 DEF ToFileOK
    <3>3. CASE acc.toFile[Global] # FALSE
      <4>1. /\ DOMAIN r.toFile = DOMAIN acc.toFile \cup {level}
            /\ r.toFile[level] = FALSE
            /\ \A l \in DOMAIN acc.toFile \ {level} : r.toFile[l] = acc.toFile[l]
        BY <3>1, <3>3 DEF Put
      <4> QED BY <2>1, <2>2, <2>3, <2>5, <3>3, <4>1 DEF ToFileOK
    <3> QED BY <3>2, <3>3
  <2> QED BY <2>4, <2>5
<1> QED BY <1>4, <1>6, <1>7, <1>9, <1>10, Zenon DEF BuiltOK, file, r

(* The streams and maps that build makes of any configurations.            *)
THEOREM BuildGivesWhatIsAsked ==
  ASSUME NEW conf, NEW all, NEW reference,
         ConfigurationsOK(conf), StreamsOK(all, reference)
  PROVE  BuiltOK(Build(conf, all, reference), conf, all, AllLevels)
<1> DEFINE n == Len(Registered)
           Seen(k) == {l \in AllLevels : \E i \in 1 .. k : Registered[i] = l}
           start == [toFile |-> BuildMap(conf.ToFile), filename |-> <<>>,
                     fileStream |-> <<>>, streams |-> all, logStreams |-> reference]
<1>1. Build(conf, all, reference) = StreamFold!Folded(start, Registered, conf, 0)
  BY Zenon DEF Build, FoldLeft, MapThenFoldSet, Max, StreamFold!Folded, StreamFold!Max
<1>2. PICK h : /\ StreamFold!IsHistory(h, start, Registered, conf, 0)
               /\ StreamFold!Folded(start, Registered, conf, 0) = h[n]
  BY RegisteredLevels, StreamFold!FoldHistory
<1>3. /\ h[0] = start
      /\ \A k \in 1 .. n : h[k] = InsertFile(h[k - 1], Registered[k],
                                            conf.Filename[Registered[k]])
  BY <1>2, Zenon DEF StreamFold!IsHistory
<1>4. Len(all) \in Nat
  BY LenProperties DEF StreamsOK
<1>5. BuiltOK(start, conf, all, {})
  <2>1. IsMaps(start) /\ StreamsOK(start.streams, start.logStreams)
    BY DEF IsMaps
  <2>2. Grown(all, start.streams)
    BY <1>4 DEF Grown
  <2>3. MapsOK(start, conf, {})
    BY DEF MapsOK
  <2>4. ToFileOK(start, conf, {})
    <3>1. start.toFile =
            [l \in {Global} \cup {l \in Levels : conf.ToFile[l] # conf.ToFile[Global]}
               |-> conf.ToFile[l]]
      BY BuildMapContents
    <3> HIDE DEF start
    <3> QED BY <3>1, LevelsAssumption DEF ToFileOK
  <2> HIDE DEF start
  <2> QED BY <2>1, <2>2, <2>3, <2>4 DEF BuiltOK
<1> HIDE DEF start
<1> DEFINE S == {k \in 1 .. n : BuiltOK(h[k], conf, all, Seen(k))}
<1>6. 1 \in S
  <2>1. /\ h[1] = InsertFile(start, Global, conf.Filename[Global])
        /\ 1 \in 1 .. n /\ Global \in AllLevels
    BY <1>3, RegisteredLevels DEF AllLevels
  <2>2. BuiltOK(h[1], conf, all, {} \cup {Global})
    BY <1>4, <1>5, <2>1, InsertIsBuilt
  <2>3. Seen(1) = {} \cup {Global}
    BY RegisteredLevels DEF AllLevels
  <2> HIDE DEF Seen
  <2> QED BY <2>1, <2>2, <2>3
<1>7. ASSUME NEW k \in 2 .. n, k - 1 \in S
      PROVE  k \in S
  <2> DEFINE acc == h[k - 1]
             level == Registered[k]
             T == Seen(k - 1)
  <2>1. /\ h[k] = InsertFile(acc, level, conf.Filename[level])
        /\ BuiltOK(acc, conf, all, T)
        /\ k \in 1 .. n
    BY <1>3, <1>7
  <2>2. /\ level \in AllLevels \ T /\ level # Global
        /\ Global \in T /\ T \in SUBSET AllLevels
    BY RegisteredLevels, LevelsAssumption DEF AllLevels
  <2>3. Seen(k) = T \cup {level}
    BY RegisteredLevels
  <2> HIDE DEF acc, level, T, Seen
  <2>4. BuiltOK(InsertFile(acc, level, conf.Filename[level]), conf, all, T \cup {level})
    BY <1>4, <2>1, <2>2, InsertIsBuilt
  <2> QED BY <2>1, <2>3, <2>4
<1>8. n \in S
  <2> HIDE DEF S
  <2> QED BY <1>6, <1>7, LevelInduction
<1>9. Seen(n) = AllLevels
  BY RegisteredLevels DEF AllLevels
<1> QED BY <1>1, <1>2, <1>8, <1>9
(* What the logger finds for a level in its maps.                          *)
LookupsOK(acc, conf) ==
  /\ \A l \in AllLevels : conf.Filename[l] \in DOMAIN acc.logStreams
  /\ \A l \in Levels :
       /\ GetConfig(BuildMap(conf.Enabled), l) = conf.Enabled[l]
       /\ GetConfig(BuildMap(conf.LogFlushThreshold), l) = conf.LogFlushThreshold[l]
       /\ GetConfig(acc.filename, l) = conf.Filename[l]
       /\ GetConfig(acc.fileStream, l) = acc.logStreams[conf.Filename[l]]
       /\ GetConfig(acc.fileStream, l) # 0 =>
            (GetConfig(acc.toFile, l) <=>
               /\ conf.ToFile[l]
               /\ conf.ToFile[Global] => acc.logStreams[conf.Filename[Global]] # 0)

LEMMA LookupsGiveWhatIsAsked ==
  ASSUME NEW conf, NEW all, NEW acc,
         ConfigurationsOK(conf), BuiltOK(acc, conf, all, AllLevels)
  PROVE  LookupsOK(acc, conf)
<1>1. /\ acc.filename = [l \in AllLevels |-> conf.Filename[l]]
      /\ DOMAIN acc.fileStream = AllLevels
      /\ \A l \in AllLevels :
           /\ conf.Filename[l] \in DOMAIN acc.logStreams
           /\ acc.fileStream[l] = acc.logStreams[conf.Filename[l]]
  BY Zenon DEF BuiltOK, MapsOK
<1>2. /\ Global \in AllLevels
      /\ \A l \in Levels : l \in AllLevels
      /\ \A l \in AllLevels : conf.ToFile[l] \in BOOLEAN
  BY DEF AllLevels, ConfigurationsOK, Types, Values
<1>3. ASSUME NEW l \in Levels, acc.fileStream[l] # 0
      PROVE  GetConfig(acc.toFile, l) <=>
               /\ conf.ToFile[l]
               /\ conf.ToFile[Global] => acc.logStreams[conf.Filename[Global]] # 0
  <2>1. /\ Global \in DOMAIN acc.toFile
        /\ acc.toFile[Global] = IF acc.fileStream[Global] = 0
                                THEN FALSE ELSE conf.ToFile[Global]
        /\ l \in DOMAIN acc.toFile <=> conf.ToFile[l] # conf.ToFile[Global]
        /\ l \in DOMAIN acc.toFile => acc.toFile[l] = conf.ToFile[l]
    BY <1>2, <1>3 DEF BuiltOK, ToFileOK
  <2>2. acc.fileStream[Global] = acc.logStreams[conf.Filename[Global]]
    BY <1>1, <1>2
  <2>3. CASE l \in DOMAIN acc.toFile
    BY <1>2, <2>1, <2>3 DEF GetConfig
  <2>4. CASE l \notin DOMAIN acc.toFile
    BY <1>2, <2>1, <2>2, <2>4 DEF GetConfig
  <2> QED BY <2>3, <2>4
<1>4. ASSUME NEW l \in Levels
      PROVE  /\ GetConfig(acc.filename, l) = conf.Filename[l]
             /\ GetConfig(acc.fileStream, l) = acc.fileStream[l]
             /\ GetConfig(acc.fileStream, l) = acc.logStreams[conf.Filename[l]]
             /\ GetConfig(BuildMap(conf.Enabled), l) = conf.Enabled[l]
             /\ GetConfig(BuildMap(conf.LogFlushThreshold), l) =
                  conf.LogFlushThreshold[l]
  <2>1. l \in AllLevels
    BY <1>2
  <2>2. GetConfig(acc.filename, l) = acc.filename[l]
    BY <1>1, <2>1 DEF GetConfig
  <2>3. GetConfig(acc.fileStream, l) = acc.fileStream[l]
    BY <1>1, <2>1 DEF GetConfig
  <2> QED BY <1>1, <2>1, <2>2, <2>3, MapsGiveBack
<1> QED BY <1>1, <1>3, <1>4 DEF LookupsOK

-----------------------------------------------------------------------------
(* Lines in sequence.                                                      *)
LEMMA UpToBoth ==
  ASSUME NEW a \in Seq(Lines), NEW b \in Seq(Lines), NEW m, UpTo(a, m), UpTo(b, m)
  PROVE  UpTo(a \o b, m)
<1> SUFFICES ASSUME NEW i \in 1 .. Len(a \o b) PROVE (a \o b)[i].number <= m
  BY DEF UpTo
<1>1. Len(a) \in Nat /\ Len(b) \in Nat
  BY LenProperties
<1>2. (a \o b)[i] = IF i <= Len(a) THEN a[i] ELSE b[i - Len(a)]
  BY ConcatProperties
<1>3. Len(a \o b) = Len(a) + Len(b)
  BY ConcatProperties
<1>4. CASE i <= Len(a)
  BY <1>1, <1>2, <1>3, <1>4 DEF UpTo
<1>5. CASE ~(i <= Len(a))
  BY <1>1, <1>2, <1>3, <1>5 DEF UpTo
<1> QED BY <1>4, <1>5

LEMMA ContainsBoth ==
  ASSUME NEW a \in Seq(Lines), NEW b \in Seq(Lines), NEW x
  PROVE  Contains(a \o b, x) <=> Contains(a, x) \/ Contains(b, x)
<1>1. /\ Len(a) \in Nat /\ Len(b) \in Nat /\ Len(a \o b) = Len(a) + Len(b)
      /\ \A i \in 1 .. Len(a) + Len(b) :
           (a \o b)[i] = IF i <= Len(a) THEN a[i] ELSE b[i - Len(a)]
  BY LenProperties, ConcatProperties
<1>2. ASSUME NEW i \in 1 .. Len(a), a[i] = x PROVE Contains(a \o b, x)
  BY <1>1, <1>2 DEF Contains
<1>3. ASSUME NEW i \in 1 .. Len(b), b[i] = x PROVE Contains(a \o b, x)
  <2>1. i + Len(a) \in 1 .. Len(a \o b) /\ (a \o b)[i + Len(a)] = x
    BY <1>1, <1>3
  <2> QED BY <2>1 DEF Contains
<1>4. ASSUME NEW i \in 1 .. Len(a \o b), (a \o b)[i] = x
      PROVE  Contains(a, x) \/ Contains(b, x)
  <2>1. CASE i <= Len(a)
    BY <1>1, <1>4, <2>1 DEF Contains
  <2>2. CASE ~(i <= Len(a))
    <3>1. i - Len(a) \in 1 .. Len(b) /\ b[i - Len(a)] = x
      BY <1>1, <1>4, <2>2
    <3> QED BY <3>1 DEF Contains
  <2> QED BY <2>1, <2>2
<1> QED BY <1>2, <1>3, <1>4 DEF Contains

LEMMA AppendLast ==
  ASSUME NEW a \in Seq(Lines), NEW m \in Nat, NEW x \in Lines, x.number = m + 1,
         Increasing(a), UpTo(a, m)
  PROVE  Increasing(Append(a, x)) /\ UpTo(Append(a, x), m + 1)
<1>1. /\ Len(a) \in Nat /\ Len(Append(a, x)) = Len(a) + 1
      /\ \A i \in 1 .. Len(a) : Append(a, x)[i] = a[i]
      /\ Append(a, x)[Len(a) + 1] = x
  BY LenProperties, AppendProperties
<1>2. \A i \in 1 .. Len(a) : a[i].number \in Nat /\ a[i].number <= m
  <2>1. \A i \in 1 .. Len(a) : a[i] \in Lines
    BY ElementOfSeq
  <2> QED BY <2>1, LoggingAssumption DEF Lines, UpTo
<1>3. UpTo(Append(a, x), m + 1)
  BY <1>1, <1>2 DEF UpTo
<1>4. Increasing(Append(a, x))
  BY <1>1, <1>2 DEF Increasing
<1> QED BY <1>3, <1>4

LEMMA AppendToBoth ==
  ASSUME NEW a \in Seq(Lines), NEW b \in Seq(Lines), NEW x \in Lines
  PROVE  a \o Append(b, x) = Append(a \o b, x)
<1>1. a \o b \in Seq(Lines) /\ Append(b, x) \in Seq(Lines)
  BY ConcatProperties, AppendProperties
<1>2. /\ a \o Append(b, x) \in Seq(Lines) /\ Append(a \o b, x) \in Seq(Lines)
      /\ Len(a) \in Nat /\ Len(b) \in Nat /\ Len(a \o b) = Len(a) + Len(b)
      /\ Len(a \o Append(b, x)) = Len(a) + (Len(b) + 1)
      /\ Len(Append(a \o b, x)) = Len(a \o b) + 1
  BY <1>1, LenProperties, ConcatProperties, AppendProperties
<1>3. ASSUME NEW i \in 1 .. Len(a) + (Len(b) + 1)
      PROVE  (a \o Append(b, x))[i] = Append(a \o b, x)[i]
  BY <1>1, <1>2, ConcatProperties, AppendProperties
<1> QED BY <1>2, <1>3, SeqEqual
-----------------------------------------------------------------------------
(* A flush of stream s: nothing, a stream that fails, or a buffer that     *)
(* reaches its file.                                                       *)
FlushedTo(d, e, s) ==
  /\ e \in Disks
  /\ e.accepted = d.accepted
  /\ Len(e.streams) = Len(d.streams)
  /\ \A i \in 1 .. Len(d.streams) :
       /\ e.streams[i].file = d.streams[i].file
       /\ i # s => e.streams[i] = d.streams[i]
  /\ \/ /\ d.streams[s].failed \/ d.streams[s].buffer = <<>>
        /\ e.streams[s] = d.streams[s]
        /\ e.content = d.content
     \/ /\ e.streams[s].failed = TRUE
        /\ e.streams[s].buffer = d.streams[s].buffer
        /\ e.content = d.content
     \/ /\ ~d.streams[s].failed
        /\ e.streams[s].failed = FALSE
        /\ e.streams[s].buffer = <<>>
        /\ e.content = [d.content EXCEPT ![d.streams[s].file] =
                           @ \o d.streams[s].buffer]

LEMMA FlushedCases ==
  ASSUME NEW d \in Disks, NEW s \in 1 .. Len(d.streams)
  PROVE  FlushedTo(d, Flushed(d, s), s) /\ Flushed(d, s).unflushed = d.unflushed
<1> DEFINE stream == d.streams[s]
           e == Flushed(d, s)
<1>1. /\ d.streams \in Seq(Streams) /\ d.content \in [Files -> Seq(Lines)]
      /\ stream \in Streams
  BY ElementOfSeq DEF Disks
<1>2. CASE stream.failed \/ stream.buffer = <<>>
  <2>1. e = d
    BY <1>2 DEF Flushed
  <2> QED BY <1>1, <1>2, <2>1 DEF FlushedTo
<1>3. CASE ~(stream.failed \/ stream.buffer = <<>>) /\ diskFull
  <2> DEFINE failed == [stream EXCEPT !.failed = TRUE]
             more == [d.streams EXCEPT ![s] = failed]
  <2>1. e = [d EXCEPT !.streams = more]
    BY <1>3 DEF Flushed
  <2>2. failed \in Streams /\ failed.failed = TRUE /\ failed.file = stream.file
        /\ failed.buffer = stream.buffer
    BY <1>1 DEF Streams
  <2> HIDE DEF failed, stream
  <2>3. /\ more \in Seq(Streams) /\ Len(more) = Len(d.streams)
        /\ \A j \in 1 .. Len(d.streams) :
             more[j] = IF j = s THEN failed ELSE d.streams[j]
    BY <1>1, <2>2, ExceptSeq
  <2> HIDE DEF more, e
  <2>4. /\ e \in Disks /\ e.streams = more /\ e.content = d.content
        /\ e.accepted = d.accepted /\ e.unflushed = d.unflushed
    BY <2>1, <2>3 DEF Disks
  <2>5. FlushedTo(d, e, s)
    BY <2>2, <2>3, <2>4 DEF FlushedTo, stream
  <2> QED BY <2>4, <2>5 DEF e
<1>4. CASE ~(stream.failed \/ stream.buffer = <<>>) /\ ~diskFull
  <2> DEFINE empty == [stream EXCEPT !.buffer = <<>>]
             more == [d.streams EXCEPT ![s] = empty]
             longer == [d.content EXCEPT ![stream.file] = @ \o stream.buffer]
  <2>1. e = [d EXCEPT !.streams = more, !.content = longer]
    BY <1>4 DEF Flushed
  <2>2. empty \in Streams /\ empty.failed = FALSE /\ empty.file = stream.file
        /\ empty.buffer = <<>>
    <3>1. stream.failed = FALSE
      BY <1>1, <1>4 DEF Streams
    <3>2. <<>> \in Seq(Lines)
      OBVIOUS
    <3> HIDE DEF stream
    <3> QED BY <1>1, <3>1, <3>2 DEF Streams
  <2>3. longer \in [Files -> Seq(Lines)]
    <3>1. stream.file \in Files /\ stream.buffer \in Seq(Lines)
      BY <1>1 DEF Streams
    <3>2. d.content[stream.file] \o stream.buffer \in Seq(Lines)
      BY <1>1, <3>1, ConcatProperties
    <3> QED BY <1>1, <3>2
  <2> HIDE DEF empty, stream, longer
  <2>4. /\ more \in Seq(Streams) /\ Len(more) = Len(d.streams)
        /\ \A j \in 1 .. Len(d.streams) :
             more[j] = IF j = s THEN empty ELSE d.streams[j]
    BY <1>1, <2>2, ExceptSeq
  <2> HIDE DEF more, e
  <2>5. /\ e \in Disks /\ e.streams = more /\ e.content = longer
        /\ e.accepted = d.accepted /\ e.unflushed = d.unflushed
    BY <2>1, <2>3, <2>4 DEF Disks
  <2>6. FlushedTo(d, e, s)
    BY <1>4, <2>2, <2>4, <2>5 DEF FlushedTo, stream, longer
  <2> QED BY <2>5, <2>6 DEF e
<1> QED BY <1>2, <1>3, <1>4

(* Logger::flush also forgets the count of the level.                      *)
LEMMA FlushCases ==
  ASSUME NEW d \in Disks, NEW l \in Levels, NEW s \in 1 .. Len(d.streams)
  PROVE  /\ FlushedTo(d, Flush(d, l, s), s)
         /\ Flush(d, l, s).unflushed = [d.unflushed EXCEPT ![l] = 0]
<1> DEFINE f == Flushed(d, s)
           e == Flush(d, l, s)
<1>1. FlushedTo(d, f, s) /\ f.unflushed = d.unflushed
  BY FlushedCases
<1>2. e = [f EXCEPT !.unflushed = [f.unflushed EXCEPT ![l] = 0]]
  BY DEF Flush
<1> HIDE DEF f, e
<1>3. f \in Disks
  BY <1>1 DEF FlushedTo
<1>4. /\ e \in Disks /\ e.streams = f.streams /\ e.content = f.content
      /\ e.accepted = f.accepted /\ e.unflushed = [f.unflushed EXCEPT ![l] = 0]
  BY <1>2, <1>3 DEF Disks
<1>5. FlushedTo(d, e, s)
  BY <1>1, <1>4 DEF FlushedTo
<1> QED BY <1>1, <1>4, <1>5 DEF e
(* A stream that has nothing to write, or will not write it.               *)
Quiet(d, i) == d.streams[i].failed \/ d.streams[i].buffer = <<>>

LEMMA DiskTypes ==
  ASSUME NEW d \in Disks
  PROVE  /\ d.streams \in Seq(Streams) /\ Len(d.streams) \in Nat
         /\ \A f \in Files : d.content[f] \in Seq(Lines)
         /\ \A i \in 1 .. Len(d.streams) :
              /\ d.streams[i].file \in Files
              /\ d.streams[i].buffer \in Seq(Lines)
              /\ d.streams[i].failed \in BOOLEAN
         /\ \A a \in d.accepted : a.file \in Files /\ a.line \in Lines
<1>1. d.streams \in Seq(Streams) /\ Len(d.streams) \in Nat
  BY LenProperties DEF Disks
<1>2. \A i \in 1 .. Len(d.streams) : d.streams[i] \in Streams
  BY <1>1, ElementOfSeq
<1> QED BY <1>1, <1>2 DEF Disks, Streams

LEMMA FlushKeepsOrder ==
  ASSUME NEW d \in Disks, NEW m, NEW s \in 1 .. Len(d.streams), NEW e,
         FlushedTo(d, e, s), OneStreamPerFile(d), InOrderOn(d, m)
  PROVE  InOrderOn(e, m)
<1> DEFINE file == d.streams[s].file
           buffer == d.streams[s].buffer
<1>1. /\ e \in Disks /\ Len(e.streams) = Len(d.streams)
      /\ \A i \in 1 .. Len(d.streams) :
           /\ e.streams[i].file = d.streams[i].file
           /\ i # s => e.streams[i] = d.streams[i]
  BY DEF FlushedTo
<1>2. /\ \A f \in Files : Increasing(d.content[f]) /\ UpTo(d.content[f], m)
      /\ \A i \in 1 .. Len(d.streams) :
           /\ Increasing(d.content[d.streams[i].file] \o d.streams[i].buffer)
           /\ UpTo(d.streams[i].buffer, m)
  BY DEF InOrderOn
<1>3. /\ file \in Files /\ buffer \in Seq(Lines)
      /\ d.content[file] \in Seq(Lines) /\ d.content[file] \o buffer \in Seq(Lines)
      /\ d.content \in [Files -> Seq(Lines)]
      /\ \A i \in 1 .. Len(d.streams) : d.streams[i].file \in Files
  BY DiskTypes, ConcatProperties DEF Disks
<1>4. ASSUME e.content = d.content, e.streams[s].buffer = buffer
      PROVE  InOrderOn(e, m)
  <2>1. \A i \in 1 .. Len(e.streams) : /\ e.streams[i].file = d.streams[i].file
                                       /\ e.streams[i].buffer = d.streams[i].buffer
    BY <1>1, <1>4
  <2> HIDE DEF buffer, file
  <2> QED BY <1>1, <1>2, <1>4, <2>1 DEF InOrderOn
<1>5. ASSUME e.content = [d.content EXCEPT ![file] = d.content[file] \o buffer],
             e.streams[s].buffer = <<>>
      PROVE  InOrderOn(e, m)
  <2>1. Increasing(d.content[file] \o buffer) /\ UpTo(d.content[file] \o buffer, m)
    BY <1>2, <1>3, UpToBoth
  <2>2. \A f \in Files : e.content[f] = IF f = file THEN d.content[file] \o buffer
                                        ELSE d.content[f]
    BY <1>3, <1>5
  <2>3. \A f \in Files : Increasing(e.content[f]) /\ UpTo(e.content[f], m)
    BY <1>2, <2>1, <2>2
  <2>4. ASSUME NEW i \in 1 .. Len(e.streams)
        PROVE  /\ Increasing(e.content[e.streams[i].file] \o e.streams[i].buffer)
               /\ UpTo(e.streams[i].buffer, m)
    <3>1. CASE i = s
      <4>1. e.content[file] \o <<>> = e.content[file]
        <5>1. e.content[file] \in Seq(Lines)
          BY <1>3, <2>2
        <5> QED BY <5>1, ConcatEmptySeq
      <4>2. UpTo(<<>>, m)
        BY DEF UpTo
      <4>3. e.streams[i].file = file /\ e.streams[i].buffer = <<>>
        BY <1>1, <1>5, <3>1
      <4> HIDE DEF file
      <4> QED BY <1>3, <2>3, <4>1, <4>2, <4>3
    <3>2. CASE i # s
      <4>1. d.streams[i].file # file /\ d.streams[i].file \in Files
        BY <1>1, <1>3, <3>2 DEF OneStreamPerFile
      <4> QED BY <1>1, <1>2, <2>2, <3>2, <4>1
    <3> QED BY <3>1, <3>2
  <2> QED BY <2>3, <2>4 DEF InOrderOn
<1> QED BY <1>4, <1>5 DEF FlushedTo
LEMMA FlushKeepsLines ==
  ASSUME NEW d \in Disks, NEW s \in 1 .. Len(d.streams), NEW e,
         FlushedTo(d, e, s), NothingLostOn(d)
  PROVE  NothingLostOn(e)
<1> SUFFICES ASSUME NEW a \in d.accepted PROVE Kept(e, a)
  BY DEF NothingLostOn, FlushedTo
<1> DEFINE file == d.streams[s].file
           buffer == d.streams[s].buffer
<1>1. /\ Len(e.streams) = Len(d.streams)
      /\ \A i \in 1 .. Len(d.streams) :
           /\ e.streams[i].file = d.streams[i].file
           /\ i # s => e.streams[i] = d.streams[i]
  BY DEF FlushedTo
<1>2. /\ a.file \in Files /\ file \in Files /\ d.content[file] \in Seq(Lines)
      /\ buffer \in Seq(Lines) /\ d.content \in [Files -> Seq(Lines)]
  BY DiskTypes DEF Disks
<1>3. Contains(d.content[a.file], a.line) => Contains(e.content[a.file], a.line)
  <2>1. ASSUME e.content = [d.content EXCEPT ![file] = @ \o buffer]
        PROVE  e.content[a.file] = IF a.file = file THEN d.content[file] \o buffer
                                   ELSE d.content[a.file]
    BY <1>2, <2>1
  <2>2. Contains(d.content[file] \o buffer, a.line) <=>
          Contains(d.content[file], a.line) \/ Contains(buffer, a.line)
    BY <1>2, ContainsBoth
  <2>3. \/ e.content = d.content
        \/ e.content = [d.content EXCEPT ![file] = @ \o buffer]
    BY DEF FlushedTo
  <2> HIDE DEF file, buffer
  <2> QED BY <2>1, <2>2, <2>3
<1>4. CASE Contains(d.content[a.file], a.line)
  BY <1>3, <1>4 DEF Kept
<1>5. ASSUME NEW i \in 1 .. Len(d.streams), d.streams[i].file = a.file,
             d.streams[i].failed \/ Contains(d.streams[i].buffer, a.line)
      PROVE  Kept(e, a)
  <2>1. CASE i # s
    BY <1>1, <1>5, <2>1 DEF Kept
  <2>2. CASE i = s /\ e.streams[s] = d.streams[s]
    BY <1>1, <1>5, <2>2 DEF Kept
  <2>3. CASE i = s /\ e.streams[s].failed = TRUE
    BY <1>1, <1>5, <2>3 DEF Kept
  <2>4. CASE /\ i = s /\ ~d.streams[s].failed
             /\ e.content = [d.content EXCEPT ![file] = @ \o buffer]
    <3>1. e.content[a.file] = d.content[file] \o buffer
      BY <1>2, <1>5, <2>4
    <3>2. Contains(buffer, a.line)
      BY <1>5, <2>4
    <3>3. Contains(d.content[file] \o buffer, a.line)
      BY <1>2, <3>2, ContainsBoth
    <3> QED BY <3>1, <3>3 DEF Kept
  <2>5. \/ e.streams[s] = d.streams[s]
        \/ e.streams[s].failed = TRUE
        \/ /\ ~d.streams[s].failed
           /\ e.content = [d.content EXCEPT ![file] = @ \o buffer]
    BY DEF FlushedTo
  <2> QED BY <2>1, <2>2, <2>3, <2>4, <2>5
<1> QED BY <1>4, <1>5 DEF NothingLostOn, Kept

LEMMA FlushKeeps ==
  ASSUME NEW d, NEW m, DiskInv(d, m), NEW s \in 1 .. Len(d.streams), NEW e,
         FlushedTo(d, e, s)
  PROVE  /\ DiskInv(e, m)
         /\ Quiet(e, s)
         /\ \A i \in 1 .. Len(d.streams) : Quiet(d, i) => Quiet(e, i)
         /\ \A l : Held(e, l) \subseteq Held(d, l)
<1>1. /\ d \in Disks /\ e \in Disks /\ Len(e.streams) = Len(d.streams)
      /\ \A i \in 1 .. Len(d.streams) :
           /\ e.streams[i].file = d.streams[i].file
           /\ i # s => e.streams[i] = d.streams[i]
      /\ OneStreamPerFile(d) /\ InOrderOn(d, m) /\ NothingLostOn(d) /\ OwnStreams(d)
  BY DEF FlushedTo, DiskInv
<1>2. Quiet(e, s)
  BY DEF FlushedTo, Quiet
<1>3. \A i \in 1 .. Len(e.streams) :
        ~Quiet(e, i) => i # s /\ e.streams[i] = d.streams[i]
  BY <1>1, <1>2
<1>4. OneStreamPerFile(e)
  BY <1>1 DEF OneStreamPerFile
<1>5. InOrderOn(e, m)
  BY <1>1, FlushKeepsOrder
<1>6. NothingLostOn(e)
  BY <1>1, FlushKeepsLines
<1>7. Len(<<>>) = 0
  OBVIOUS
<1>8. OwnStreams(e)
  <2>1. ASSUME NEW i \in 1 .. Len(e.streams), ~e.streams[i].failed,
               NEW j \in 1 .. Len(e.streams[i].buffer)
        PROVE  LET l == e.streams[i].buffer[j].level IN ToFile(l) /\ FileStream(l) = i
    <3>1. ~Quiet(e, i)
      BY <1>7, <2>1 DEF Quiet
    <3>2. e.streams[i] = d.streams[i]
      BY <1>3, <3>1
    <3> QED BY <1>1, <2>1, <3>2 DEF OwnStreams
  <2>2. \A l \in Levels :
          /\ Filename(l) \in Files
          /\ FileStream(l) \in 0 .. Len(e.streams)
          /\ FileStream(l) # 0 => e.streams[FileStream(l)].file = Filename(l)
    BY <1>1, LenProperties DEF OwnStreams, Disks
  <2> QED BY <2>1, <2>2 DEF OwnStreams
<1>9. ASSUME NEW l
      PROVE  Held(e, l) \subseteq Held(d, l)
  <2>1. ASSUME NEW i \in 1 .. Len(e.streams), NEW line, ~e.streams[i].failed,
               Contains(e.streams[i].buffer, line)
        PROVE  e.streams[i] = d.streams[i]
    <3>1. e.streams[i].buffer # <<>>
      BY <1>7, <2>1 DEF Contains
    <3> QED BY <1>3, <2>1, <3>1 DEF Quiet
  <2> QED BY <1>1, <2>1 DEF Held
<1>10. \A i \in 1 .. Len(d.streams) : Quiet(d, i) => Quiet(e, i)
  BY <1>1, <1>3 DEF Quiet
<1> QED BY <1>1, <1>2, <1>4, <1>5, <1>6, <1>8, <1>9, <1>10 DEF DiskInv
-----------------------------------------------------------------------------
(* A line that dispatch gives to stream s.                                 *)
WrittenTo(d, e, l, s, line) ==
  /\ e \in Disks
  /\ e.content = d.content
  /\ e.unflushed = [d.unflushed EXCEPT ![l] = @ + 1]
  /\ e.accepted = d.accepted \cup {[file |-> Filename(l), line |-> line]}
  /\ Len(e.streams) = Len(d.streams)
  /\ \A i \in 1 .. Len(d.streams) :
       /\ e.streams[i].file = d.streams[i].file
       /\ i # s => e.streams[i] = d.streams[i]
  /\ e.streams[s].failed = d.streams[s].failed
  /\ e.streams[s].buffer = Append(d.streams[s].buffer, line)

Write(d, l, s, line) ==
  [d EXCEPT !.streams[s].buffer = Append(@, line),
            !.unflushed[l] = @ + 1,
            !.accepted = @ \cup {[file |-> Filename(l), line |-> line]}]

LEMMA WriteCases ==
  ASSUME NEW d \in Disks, NEW l \in Levels, NEW s \in 1 .. Len(d.streams),
         NEW line \in Lines, Filename(l) \in Files
  PROVE  WrittenTo(d, Write(d, l, s, line), l, s, line)
<1> DEFINE stream == d.streams[s]
           longer == Append(stream.buffer, line)
           other == [stream EXCEPT !.buffer = longer]
           more == [d.streams EXCEPT ![s] = other]
           counts == [d.unflushed EXCEPT ![l] = d.unflushed[l] + 1]
           given == d.accepted \cup {[file |-> Filename(l), line |-> line]}
           e == Write(d, l, s, line)
<1>1. e = [d EXCEPT !.streams = more, !.unflushed = counts, !.accepted = given]
  BY DEF Write
<1>2. /\ d.streams \in Seq(Streams) /\ stream \in Streams
      /\ d.unflushed \in [Levels -> Nat]
      /\ d.accepted \in SUBSET [file : Files, line : Lines]
  BY ElementOfSeq DEF Disks
<1>3. longer \in Seq(Lines)
  <2>1. stream.buffer \in Seq(Lines)
    BY <1>2 DEF Streams
  <2> QED BY <2>1, AppendProperties
<1> HIDE DEF longer, stream
<1>4. /\ other \in Streams /\ other.file = stream.file
      /\ other.failed = stream.failed /\ other.buffer = longer
  BY <1>2, <1>3 DEF Streams
<1> HIDE DEF other
<1>5. /\ more \in Seq(Streams) /\ Len(more) = Len(d.streams)
      /\ \A j \in 1 .. Len(d.streams) :
           more[j] = IF j = s THEN other ELSE d.streams[j]
  BY <1>2, <1>4, ExceptSeq
<1>6. counts \in [Levels -> Nat]
  BY <1>2
<1>7. given \in SUBSET [file : Files, line : Lines]
  BY <1>2
<1> HIDE DEF more, counts, given, e
<1>8. /\ e \in Disks /\ e.streams = more /\ e.content = d.content
      /\ e.unflushed = counts /\ e.accepted = given
  BY <1>1, <1>5, <1>6, <1>7 DEF Disks
<1>9. WrittenTo(d, e, l, s, line)
  BY <1>4, <1>5, <1>8 DEF WrittenTo, stream, longer, counts, given
<1> QED BY <1>9 DEF e

LEMMA WriteKeepsOrder ==
  ASSUME NEW d \in Disks, NEW m \in Nat, NEW l, NEW s \in 1 .. Len(d.streams),
         NEW line \in Lines, line.number = m + 1, NEW e,
         WrittenTo(d, e, l, s, line), InOrderOn(d, m)
  PROVE  InOrderOn(e, m + 1)
<1>1. /\ e.content = d.content /\ Len(e.streams) = Len(d.streams)
      /\ \A i \in 1 .. Len(d.streams) :
           /\ e.streams[i].file = d.streams[i].file
           /\ i # s => e.streams[i] = d.streams[i]
      /\ e.streams[s].buffer = Append(d.streams[s].buffer, line)
  BY DEF WrittenTo
<1>2. /\ \A f \in Files : d.content[f] \in Seq(Lines)
      /\ \A i \in 1 .. Len(d.streams) : /\ d.streams[i].file \in Files
                                        /\ d.streams[i].buffer \in Seq(Lines)
  BY DiskTypes
<1>3. /\ \A f \in Files : Increasing(d.content[f]) /\ UpTo(d.content[f], m)
      /\ \A i \in 1 .. Len(d.streams) :
           /\ Increasing(d.content[d.streams[i].file] \o d.streams[i].buffer)
           /\ UpTo(d.streams[i].buffer, m)
  BY DEF InOrderOn
<1>4. ASSUME NEW a \in Seq(Lines), UpTo(a, m)
      PROVE  UpTo(a, m + 1)
  <2>1. \A i \in 1 .. Len(a) : a[i] \in Lines
    BY ElementOfSeq
  <2>2. \A i \in 1 .. Len(a) : a[i].number \in Nat
    BY <2>1, LoggingAssumption DEF Lines
  <2> QED BY <1>4, <2>2 DEF UpTo
<1>5. \A f \in Files : Increasing(e.content[f]) /\ UpTo(e.content[f], m + 1)
  BY <1>1, <1>2, <1>3, <1>4
<1>6. ASSUME NEW i \in 1 .. Len(e.streams)
      PROVE  /\ Increasing(e.content[e.streams[i].file] \o e.streams[i].buffer)
             /\ UpTo(e.streams[i].buffer, m + 1)
  <2>1. CASE i # s
    BY <1>1, <1>2, <1>3, <1>4, <2>1
  <2>2. CASE i = s
    <3> DEFINE a == d.content[d.streams[s].file]
               b == d.streams[s].buffer
    <3>1. /\ a \in Seq(Lines) /\ b \in Seq(Lines)
          /\ Increasing(a) /\ UpTo(a, m) /\ Increasing(a \o b) /\ UpTo(b, m)
      BY <1>2, <1>3
    <3>2. /\ e.content[e.streams[i].file] = a
          /\ e.streams[i].buffer = Append(b, line)
      BY <1>1, <2>2
    <3> HIDE DEF a, b
    <3>3. a \o b \in Seq(Lines) /\ UpTo(a \o b, m)
      BY <3>1, ConcatProperties, UpToBoth
    <3>4. Increasing(Append(a \o b, line))
      BY <3>1, <3>3, AppendLast
    <3>5. a \o Append(b, line) = Append(a \o b, line)
      BY <3>1, AppendToBoth
    <3>6. UpTo(Append(b, line), m + 1)
      <4>1. /\ Len(b) \in Nat /\ Len(Append(b, line)) = Len(b) + 1
            /\ \A j \in 1 .. Len(b) : Append(b, line)[j] = b[j]
            /\ Append(b, line)[Len(b) + 1] = line
        BY <3>1, LenProperties, AppendProperties
      <4>2. UpTo(b, m + 1)
        BY <1>4, <3>1
      <4> QED BY <4>1, <4>2 DEF UpTo
    <3> QED BY <3>2, <3>4, <3>5, <3>6
  <2> QED BY <2>1, <2>2
<1> QED BY <1>5, <1>6 DEF InOrderOn
LEMMA WriteKeepsLines ==
  ASSUME NEW d \in Disks, NEW l, NEW s \in 1 .. Len(d.streams),
         NEW line \in Lines, NEW e, WrittenTo(d, e, l, s, line),
         d.streams[s].file = Filename(l), NothingLostOn(d)
  PROVE  NothingLostOn(e)
<1>1. /\ e.content = d.content /\ Len(e.streams) = Len(d.streams)
      /\ \A i \in 1 .. Len(d.streams) :
           /\ e.streams[i].file = d.streams[i].file
           /\ i # s => e.streams[i] = d.streams[i]
      /\ e.streams[s].failed = d.streams[s].failed
      /\ e.streams[s].buffer = Append(d.streams[s].buffer, line)
      /\ e.accepted = d.accepted \cup {[file |-> Filename(l), line |-> line]}
  BY DEF WrittenTo
<1> DEFINE b == d.streams[s].buffer
<1>2. /\ Len(b) \in Nat /\ Len(Append(b, line)) = Len(b) + 1
      /\ \A j \in 1 .. Len(b) : Append(b, line)[j] = b[j]
      /\ Append(b, line)[Len(b) + 1] = line
  BY DiskTypes, LenProperties, AppendProperties
<1>3. \A x : Contains(b, x) => Contains(Append(b, line), x)
  BY <1>2 DEF Contains
<1>4. Contains(Append(b, line), line)
  BY <1>2 DEF Contains
<1> HIDE DEF b
<1>5. ASSUME NEW a \in d.accepted PROVE Kept(e, a)
  <2>1. CASE Contains(d.content[a.file], a.line)
    BY <1>1, <2>1 DEF Kept
  <2>2. ASSUME NEW i \in 1 .. Len(d.streams), d.streams[i].file = a.file,
               d.streams[i].failed \/ Contains(d.streams[i].buffer, a.line)
        PROVE  Kept(e, a)
    <3>1. CASE i # s
      BY <1>1, <2>2, <3>1 DEF Kept
    <3>2. CASE i = s
      BY <1>1, <1>3, <2>2, <3>2 DEF Kept, b
    <3> QED BY <3>1, <3>2
  <2> QED BY <2>1, <2>2 DEF NothingLostOn, Kept
<1>6. Kept(e, [file |-> Filename(l), line |-> line])
  BY <1>1, <1>4 DEF Kept, b
<1> QED BY <1>1, <1>5, <1>6 DEF NothingLostOn

LEMMA WriteKeeps ==
  ASSUME NEW d, NEW m \in Nat, DiskInv(d, m), NEW l \in Levels,
         FileStream(l) # 0, ToFile(l), NEW line \in Lines,
         line.level = l, line.number = m + 1,
         NEW e, WrittenTo(d, e, l, FileStream(l), line)
  PROVE  /\ DiskInv(e, m + 1)
         /\ \A k : Held(e, k) \subseteq Held(d, k) \cup {line}
         /\ \A k : k # l => Held(e, k) \subseteq Held(d, k)
<1> DEFINE s == FileStream(l)
           b == d.streams[s].buffer
<1>1. /\ d \in Disks /\ OneStreamPerFile(d) /\ InOrderOn(d, m)
      /\ NothingLostOn(d) /\ OwnStreams(d)
  BY DEF DiskInv
<1>2. /\ s \in 1 .. Len(d.streams)
      /\ d.streams[s].file = Filename(l)
  BY <1>1, DiskTypes DEF OwnStreams
<1>3. /\ e \in Disks /\ Len(e.streams) = Len(d.streams)
      /\ \A i \in 1 .. Len(d.streams) :
           /\ e.streams[i].file = d.streams[i].file
           /\ i # s => e.streams[i] = d.streams[i]
      /\ e.streams[s].failed = d.streams[s].failed
      /\ e.streams[s].buffer = Append(b, line)
  BY DEF WrittenTo
<1>4. OneStreamPerFile(e)
  BY <1>1, <1>3 DEF OneStreamPerFile
<1>5. InOrderOn(e, m + 1)
  BY <1>1, <1>2, WriteKeepsOrder
<1>6. NothingLostOn(e)
  BY <1>1, <1>2, WriteKeepsLines
<1>7. /\ Len(b) \in Nat /\ Len(Append(b, line)) = Len(b) + 1
      /\ \A j \in 1 .. Len(b) : Append(b, line)[j] = b[j]
      /\ Append(b, line)[Len(b) + 1] = line
  BY <1>1, <1>2, DiskTypes, LenProperties, AppendProperties
<1> HIDE DEF b, s
<1>8. OwnStreams(e)
  <2>1. ASSUME NEW i \in 1 .. Len(e.streams), ~e.streams[i].failed,
               NEW j \in 1 .. Len(e.streams[i].buffer)
        PROVE  LET k == e.streams[i].buffer[j].level IN ToFile(k) /\ FileStream(k) = i
    <3>1. CASE i # s
      BY <1>1, <1>3, <2>1, <3>1 DEF OwnStreams
    <3>2. CASE i = s /\ j <= Len(b)
      <4>1. /\ j \in 1 .. Len(b) /\ e.streams[i].buffer[j] = b[j]
            /\ ~d.streams[i].failed
        BY <1>3, <1>7, <2>1, <3>2
      <4> QED BY <1>1, <1>2, <3>2, <4>1 DEF OwnStreams, b
    <3>3. CASE i = s /\ ~(j <= Len(b))
      <4>1. e.streams[i].buffer[j] = line
        BY <1>3, <1>7, <2>1, <3>3
      <4> QED BY <3>3, <4>1 DEF s
    <3> QED BY <3>1, <3>2, <3>3
  <2> QED BY <1>1, <1>3, <2>1 DEF OwnStreams
<1>9. \A x : Contains(Append(b, line), x) => Contains(b, x) \/ x = line
  BY <1>7 DEF Contains
<1>10. \A k : Held(e, k) \subseteq Held(d, k) \cup {line}
  BY <1>2, <1>3, <1>9 DEF Held, b
<1>11. \A k : k # l => Held(e, k) \subseteq Held(d, k)
  <2>1. \A k : \A x \in Held(e, k) : x.level = k
    BY DEF Held
  <2> QED BY <1>10, <2>1
<1> QED BY <1>3, <1>4, <1>5, <1>6, <1>8, <1>10, <1>11 DEF DiskInv
-----------------------------------------------------------------------------
(* The counts bound what is held back.                                     *)
LEMMA FewerHeld ==
  ASSUME NEW d \in Disks, NEW e \in Disks, NEW k \in Levels,
         Held(e, k) \subseteq Held(d, k), e.unflushed[k] = d.unflushed[k],
         CountOK(d, k)
  PROVE  CountOK(e, k)
<1>1. /\ IsFiniteSet(Held(e, k)) /\ Cardinality(Held(e, k)) <= Cardinality(Held(d, k))
      /\ Cardinality(Held(e, k)) \in Nat /\ Cardinality(Held(d, k)) \in Nat
  BY FS_Subset, FS_CardinalityType DEF CountOK
<1>2. e.unflushed[k] \in Nat
  BY DEF Disks
<1> QED BY <1>1, <1>2 DEF CountOK

LEMMA OneMoreHeld ==
  ASSUME NEW d \in Disks, NEW e \in Disks, NEW k \in Levels, NEW line,
         Held(e, k) \subseteq Held(d, k) \cup {line},
         e.unflushed[k] = d.unflushed[k] + 1, e.unflushed[k] < Limit(k),
         CountOK(d, k)
  PROVE  CountOK(e, k)
<1> DEFINE S == Held(d, k) \cup {line}
<1>1. /\ IsFiniteSet(S) /\ Cardinality(S) <= Cardinality(Held(d, k)) + 1
      /\ Cardinality(Held(d, k)) \in Nat /\ Cardinality(S) \in Nat
  <2> DEFINE H == Held(d, k)
  <2>1. IsFiniteSet(H) /\ Cardinality(H) \in Nat
    BY FS_CardinalityType DEF CountOK
  <2> HIDE DEF H
  <2>2. /\ IsFiniteSet(H \cup {line})
        /\ Cardinality(H \cup {line}) = IF line \in H THEN Cardinality(H)
                                       ELSE Cardinality(H) + 1
    BY <2>1, FS_AddElement
  <2> QED BY <2>1, <2>2 DEF H
<1> HIDE DEF S
<1>2. /\ IsFiniteSet(Held(e, k)) /\ Cardinality(Held(e, k)) <= Cardinality(S)
      /\ Cardinality(Held(e, k)) \in Nat
  BY <1>1, FS_Subset, FS_CardinalityType DEF S
<1>3. d.unflushed[k] \in Nat
  BY DEF Disks
<1> QED BY <1>1, <1>2, <1>3 DEF CountOK

LEMMA LimitIsPositive ==
  ASSUME NEW l, Threshold(l) \in Nat
  PROVE  Limit(l) \in Nat /\ 0 < Limit(l)
BY DEF Limit

LEMMA NoneHeld ==
  ASSUME NEW e, NEW k \in Levels, Held(e, k) = {}, e.unflushed[k] = 0,
         Threshold(k) \in Nat
  PROVE  CountOK(e, k)
BY FS_EmptySet, LimitIsPositive DEF CountOK

(* Nothing of a level whose stream is quiet is held back.                  *)
LEMMA QuietHoldsNone ==
  ASSUME NEW e, OwnStreams(e), NEW l \in Levels, Len(e.streams) \in Nat,
         FileStream(l) \in 1 .. Len(e.streams) => Quiet(e, FileStream(l))
  PROVE  Held(e, l) = {}
<1> SUFFICES ASSUME NEW line \in Held(e, l) PROVE FALSE
  OBVIOUS
<1>1. PICK i \in 1 .. Len(e.streams) :
        ~e.streams[i].failed /\ Contains(e.streams[i].buffer, line)
  BY DEF Held
<1>2. PICK j \in 1 .. Len(e.streams[i].buffer) : e.streams[i].buffer[j] = line
  BY <1>1 DEF Contains
<1>3. line.level = l
  BY DEF Held
<1>4. FileStream(l) = i
  BY <1>1, <1>2, <1>3 DEF OwnStreams
<1>5. e.streams[i].buffer # <<>>
  BY <1>2, Len(<<>>) = 0
<1> QED BY <1>1, <1>4, <1>5 DEF Quiet

LEMMA LaterIsFine ==
  ASSUME NEW d, NEW m \in Nat, DiskInv(d, m)
  PROVE  DiskInv(d, m + 1)
<1>1. ASSUME NEW a \in Seq(Lines), UpTo(a, m)
      PROVE  UpTo(a, m + 1)
  <2>1. \A i \in 1 .. Len(a) : a[i] \in Lines
    BY ElementOfSeq
  <2>2. \A i \in 1 .. Len(a) : a[i].number \in Nat
    BY <2>1, LoggingAssumption DEF Lines
  <2> QED BY <1>1, <2>2 DEF UpTo
<1>2. d \in Disks /\ InOrderOn(d, m)
  BY DEF DiskInv
<1>3. InOrderOn(d, m + 1)
  BY <1>1, <1>2, DiskTypes DEF InOrderOn
<1> QED BY <1>3 DEF DiskInv

(* What a dispatch leaves as it was.                                       *)
SameFiles(d, e) ==
  /\ Len(e.streams) = Len(d.streams)
  /\ \A i \in 1 .. Len(d.streams) : e.streams[i].file = d.streams[i].file

LEMMA SameFilesKeepTable ==
  ASSUME NEW d, NEW e \in Disks, NEW reference,
         SameFiles(d, e), StreamsOK(d.streams, reference)
  PROVE  StreamsOK(e.streams, reference)
<1> DEFINE all == d.streams
           more == e.streams
<1>1. /\ all \in Seq(Streams) /\ Len(all) \in Nat
      /\ DOMAIN reference \subseteq Files
      /\ \A f \in DOMAIN reference :
           /\ reference[f] \in 0 .. Len(all)
           /\ reference[f] # 0 => all[reference[f]].file = f
      /\ \A i \in 1 .. Len(all) :
           /\ all[i].file \in DOMAIN reference
           /\ reference[all[i].file] = i
  <2>1. all \in Seq(Streams)
    BY Zenon DEF StreamsOK
  <2>2. Len(all) \in Nat
    BY <2>1, LenProperties
  <2> QED BY <2>1, <2>2, Zenon DEF StreamsOK
<1>2. /\ more \in Seq(Streams) /\ Len(more) = Len(all)
      /\ \A i \in 1 .. Len(all) : more[i].file = all[i].file
  BY DiskTypes DEF SameFiles
<1> HIDE DEF all, more
<1>3. \A f \in DOMAIN reference :
        /\ reference[f] \in 0 .. Len(more)
        /\ reference[f] # 0 => more[reference[f]].file = f
  <2> SUFFICES ASSUME NEW f \in DOMAIN reference, reference[f] # 0
               PROVE  more[reference[f]].file = f
    BY <1>1, <1>2
  <2>1. reference[f] \in 1 .. Len(all)
    BY <1>1
  <2> QED BY <1>1, <1>2, <2>1
<1>4. \A i \in 1 .. Len(more) :
        more[i].file \in DOMAIN reference /\ reference[more[i].file] = i
  BY <1>1, <1>2
<1>5. StreamsOK(more, reference)
  BY <1>1, <1>2, <1>3, <1>4 DEF StreamsOK
<1> QED BY <1>5 DEF more

LEMMA DispatchKeeps ==
  ASSUME NEW d, NEW m \in Nat, m + 1 \in 1 .. MaxLines, NEW l \in Levels,
         DiskInv(d, m), CountsOK(d), \A k \in Levels : Threshold(k) \in Nat
  PROVE  /\ DiskInv(Dispatch(d, l, m + 1), m + 1)
         /\ CountsOK(Dispatch(d, l, m + 1))
         /\ SameFiles(d, Dispatch(d, l, m + 1))
<1> DEFINE s == FileStream(l)
           line == [level |-> l, number |-> m + 1]
           e == Write(d, l, s, line)
           f == Flush(e, l, s)
           r == Dispatch(d, l, m + 1)
<1>1. /\ d \in Disks /\ OwnStreams(d) /\ Len(d.streams) \in Nat
      /\ line \in Lines /\ line.level = l /\ line.number = m + 1
  BY DiskTypes DEF DiskInv, Lines
<1>2. CASE ~ToFile(l) \/ s = 0 \/ d.streams[s].failed
  <2>1. r = d
    BY <1>2, Zenon DEF Dispatch
  <2> QED BY <2>1, LaterIsFine DEF SameFiles
<1>3. CASE ToFile(l) /\ s # 0 /\ ~d.streams[s].failed
  <2>1. r = IF e.unflushed[l] >= Threshold(l) THEN f ELSE e
    BY <1>3, Zenon DEF Dispatch, Write
  <2>2. s \in 1 .. Len(d.streams) /\ Filename(l) \in Files
    BY <1>1, <1>3 DEF OwnStreams
  <2> HIDE DEF e, f, r, line
  <2>3. WrittenTo(d, e, l, s, line)
    BY <1>1, <2>2, WriteCases DEF e
  <2> HIDE DEF s
  <2>4. /\ DiskInv(e, m + 1)
        /\ \A k : Held(e, k) \subseteq Held(d, k) \cup {line}
        /\ \A k : k # l => Held(e, k) \subseteq Held(d, k)
    BY <1>1, <1>3, <2>3, WriteKeeps DEF s
  <2>5. /\ e \in Disks /\ SameFiles(d, e) /\ Len(e.streams) = Len(d.streams)
        /\ e.unflushed = [d.unflushed EXCEPT ![l] = @ + 1]
    BY <2>3 DEF WrittenTo, SameFiles
  <2>6. d.unflushed \in [Levels -> Nat] /\ \A k \in Levels : CountOK(d, k)
    BY <1>1 DEF Disks, CountsOK
  <2>7. CASE ~(e.unflushed[l] >= Threshold(l))
    <3>1. e.unflushed[l] = d.unflushed[l] + 1 /\ e.unflushed[l] < Limit(l)
      BY <2>5, <2>6, <2>7 DEF Limit
    <3>2. ASSUME NEW k \in Levels PROVE CountOK(e, k)
      <4>1. CASE k = l
        BY <1>1, <2>4, <2>5, <2>6, <3>1, <4>1, OneMoreHeld
      <4>2. CASE k # l
        <5>1. e.unflushed[k] = d.unflushed[k]
          BY <2>5, <2>6, <4>2
        <5> QED BY <1>1, <2>4, <2>5, <2>6, <4>2, <5>1, FewerHeld
      <4> QED BY <4>1, <4>2
    <3>3. r = e
      BY <2>1, <2>7
    <3> QED BY <2>4, <2>5, <3>2, <3>3 DEF CountsOK, r
  <2>8. CASE e.unflushed[l] >= Threshold(l)
    <3>1. r = f
      BY <2>1, <2>8
    <3>2. /\ FlushedTo(e, f, s)
          /\ f.unflushed = [e.unflushed EXCEPT ![l] = 0]
      BY <2>2, <2>5, FlushCases DEF f
    <3>3. /\ DiskInv(f, m + 1) /\ Quiet(f, s)
          /\ \A k : Held(f, k) \subseteq Held(e, k)
      BY <2>2, <2>4, <2>5, <3>2, FlushKeeps
    <3>4. f \in Disks /\ SameFiles(e, f) /\ OwnStreams(f) /\ Len(f.streams) \in Nat
      BY <1>1, <2>5, <3>2, <3>3 DEF FlushedTo, SameFiles, DiskInv
    <3>5. ASSUME NEW k \in Levels PROVE CountOK(f, k)
      <4>1. CASE k = l
        <5>1. Held(f, l) = {}
          BY <3>3, <3>4, QuietHoldsNone DEF s
        <5>2. f.unflushed[l] = 0
          BY <2>5, <2>6, <3>2
        <5> QED BY <4>1, <5>1, <5>2, NoneHeld
      <4>2. CASE k # l
        <5>1. f.unflushed[k] = d.unflushed[k] /\ Held(f, k) \subseteq Held(d, k)
          BY <2>4, <2>5, <2>6, <3>2, <3>3, <4>2
        <5> QED BY <1>1, <2>6, <3>4, <5>1, FewerHeld
      <4> QED BY <4>1, <4>2
    <3>6. SameFiles(d, f)
      BY <2>5, <3>4 DEF SameFiles
    <3> QED BY <3>1, <3>3, <3>5, <3>6 DEF CountsOK, r
  <2> QED BY <2>7, <2>8
<1> QED BY <1>2, <1>3
-----------------------------------------------------------------------------
(* Before the logger is configured anew, every stream is flushed that has  *)
(* something to write: it has it from a level that the loop visits.        *)
FlushedAll(d, e, m) ==
  /\ DiskInv(e, m)
  /\ e.unflushed = [l \in Levels |-> 0]
  /\ e.accepted = d.accepted
  /\ SameFiles(d, e)

LEMMA FlushLevelKeeps ==
  ASSUME NEW d, NEW m, DiskInv(d, m), d.unflushed = [l \in Levels |-> 0],
         NEW l \in Levels
  PROVE  /\ FlushedAll(d, FlushLevel(d, l), m)
         /\ \A i \in 1 .. Len(d.streams) : Quiet(d, i) => Quiet(FlushLevel(d, l), i)
         /\ ToFile(l) /\ FileStream(l) # 0 => Quiet(FlushLevel(d, l), FileStream(l))
<1> DEFINE s == FileStream(l)
           e == FlushLevel(d, l)
<1>1. CASE ~(ToFile(l) /\ s # 0)
  <2>1. e = d
    BY <1>1, Zenon DEF FlushLevel
  <2> HIDE DEF e, s
  <2>2. FlushedAll(d, e, m)
    BY <2>1 DEF FlushedAll, SameFiles
  <2> QED BY <1>1, <2>1, <2>2 DEF e, s
<1>2. CASE ToFile(l) /\ s # 0
  <2>1. e = Flush(d, l, s)
    BY <1>2, Zenon DEF FlushLevel
  <2>2. d \in Disks /\ s \in 1 .. Len(d.streams)
    BY <1>2, DiskTypes DEF DiskInv, OwnStreams
  <2> HIDE DEF e, s
  <2>3. FlushedTo(d, e, s) /\ e.unflushed = [d.unflushed EXCEPT ![l] = 0]
    BY <2>1, <2>2, FlushCases
  <2>4. /\ DiskInv(e, m) /\ Quiet(e, s)
        /\ \A i \in 1 .. Len(d.streams) : Quiet(d, i) => Quiet(e, i)
    BY <2>2, <2>3, FlushKeeps
  <2>5. e.unflushed = [k \in Levels |-> 0]
    BY <2>3
  <2>6. FlushedAll(d, e, m)
    BY <2>3, <2>4, <2>5 DEF FlushedAll, SameFiles, FlushedTo
  <2> QED BY <2>4, <2>6 DEF e, s
<1> QED BY <1>1, <1>2

LEMMA FlushFoldQuiets ==
  ASSUME NEW d, NEW m, DiskInv(d, m), d.unflushed = [l \in Levels |-> 0],
         NEW e, e = FlushFold!Folded(d, Tail(Registered), 0, 0)
  PROVE  /\ FlushedAll(d, e, m)
         /\ \A i \in 1 .. Len(e.streams) : Quiet(e, i)
<1> DEFINE seq == Tail(Registered)
           n == Len(seq)
<1>1. /\ seq \in Seq(AllLevels) /\ n \in Nat /\ n = Len(Registered) - 1
      /\ DOMAIN seq = 1 .. n /\ \A j \in 1 .. n : seq[j] = Registered[j + 1]
  <2>1. Registered # <<>>
    BY RegisteredLevels, Len(<<>>) = 0
  <2> QED BY <2>1, RegisteredLevels, HeadTailProperties, LenProperties
<1>2. \A j \in 1 .. n : seq[j] \in Levels
  BY <1>1, RegisteredLevels
<1>3. \A l \in Levels : \E j \in 1 .. n : seq[j] = l
  <2> SUFFICES ASSUME NEW l \in Levels PROVE \E j \in 1 .. n : seq[j] = l
    OBVIOUS
  <2>1. PICK i \in 2 .. Len(Registered) : Registered[i] = l
    BY RegisteredLevels
  <2>2. i - 1 \in 1 .. n /\ seq[i - 1] = l
    BY <1>1, <2>1, RegisteredLevels
  <2> QED BY <2>2
<1> HIDE DEF seq
<1>4. PICK h : /\ FlushFold!IsHistory(h, d, seq, 0, 0)
               /\ FlushFold!Folded(d, seq, 0, 0) = h[n]
  BY <1>1, FlushFold!FoldHistory
<1>5. /\ h[0] = d
      /\ \A k \in 1 .. n : h[k] = FlushLevel(h[k - 1], seq[k])
  BY <1>4, Zenon DEF FlushFold!IsHistory
<1> DEFINE Visited(k) ==
             \A j \in 1 .. k : ToFile(seq[j]) /\ FileStream(seq[j]) # 0 =>
                                Quiet(h[k], FileStream(seq[j]))
           S == {k \in 0 .. n : FlushedAll(d, h[k], m) /\ Visited(k)}
<1>6. 0 \in S
  <2>1. FlushedAll(d, d, m)
    BY DEF FlushedAll, SameFiles
  <2> QED BY <1>1, <1>5, <2>1
<1>7. ASSUME NEW k \in 0 .. n - 1, k \in S
      PROVE  k + 1 \in S
  <2> DEFINE a == h[k]
             b == h[k + 1]
             l == seq[k + 1]
  <2>1. /\ k + 1 \in 1 .. n /\ k + 1 \in 0 .. n
        /\ b = FlushLevel(a, l) /\ l \in Levels
    <3>1. k + 1 \in 1 .. n /\ (k + 1) - 1 = k
      BY <1>1
    <3> QED BY <1>1, <1>2, <1>5, <3>1
  <2>2. FlushedAll(d, a, m) /\ Visited(k)
    BY <1>7
  <2>3. DiskInv(a, m) /\ a.unflushed = [x \in Levels |-> 0] /\ OwnStreams(a)
        /\ a \in Disks
    BY <2>2 DEF FlushedAll, DiskInv
  <2> HIDE DEF a, b, l
  <2>4. /\ FlushedAll(a, b, m)
        /\ \A i \in 1 .. Len(a.streams) : Quiet(a, i) => Quiet(b, i)
        /\ ToFile(l) /\ FileStream(l) # 0 => Quiet(b, FileStream(l))
    BY <2>1, <2>3, FlushLevelKeeps
  <2>5. FlushedAll(d, b, m)
    BY <2>2, <2>4 DEF FlushedAll, SameFiles, a
  <2>6. Visited(k + 1)
    <3> SUFFICES ASSUME NEW j \in 1 .. k + 1, ToFile(seq[j]), FileStream(seq[j]) # 0
                 PROVE  Quiet(b, FileStream(seq[j]))
      BY DEF b
    <3>1. CASE j = k + 1
      BY <2>4, <3>1 DEF l
    <3>2. CASE j \in 1 .. k
      <4>1. Quiet(a, FileStream(seq[j]))
        BY <2>2, <3>2 DEF a
      <4>2. seq[j] \in Levels
        BY <1>1, <1>2, <3>2
      <4>3. FileStream(seq[j]) \in 1 .. Len(a.streams)
        BY <2>3, <4>2, DiskTypes DEF OwnStreams
      <4> QED BY <2>4, <4>1, <4>3
    <3> QED BY <3>1, <3>2
  <2> QED BY <2>1, <2>5, <2>6 DEF b
<1>8. n \in S
  <2>1. 0 .. n \subseteq S
    <3> HIDE DEF S
    <3> QED BY <1>1, <1>6, <1>7, FlushFold!Induction
  <2> QED BY <1>1, <2>1
<1>9. e = h[n]
  BY <1>4 DEF seq
<1>10. FlushedAll(d, e, m) /\ Visited(n)
  BY <1>8, <1>9
<1>11. ASSUME NEW i \in 1 .. Len(e.streams)
       PROVE  Quiet(e, i)
  <2> SUFFICES ASSUME ~e.streams[i].failed, e.streams[i].buffer # <<>> PROVE FALSE
    BY DEF Quiet
  <2>1. e \in Disks /\ OwnStreams(e)
    BY <1>10 DEF FlushedAll, DiskInv
  <2>2. 1 \in 1 .. Len(e.streams[i].buffer) /\ e.streams[i].buffer[1] \in Lines
    <3>1. e.streams[i].buffer \in Seq(Lines)
      BY <2>1, DiskTypes
    <3>2. Len(e.streams[i].buffer) \in Nat \ {0}
      BY <3>1, EmptySeq
    <3> QED BY <3>1, <3>2, ElementOfSeq
  <2> DEFINE l == e.streams[i].buffer[1].level
  <2>3. l \in Levels /\ ToFile(l) /\ FileStream(l) = i
    BY <2>1, <2>2 DEF OwnStreams, Lines
  <2>4. PICK j \in 1 .. n : seq[j] = l
    BY <1>3, <2>3
  <2>5. Quiet(e, i)
    BY <1>9, <1>10, <2>3, <2>4
  <2> QED BY <2>5 DEF Quiet
<1> QED BY <1>10, <1>11
-----------------------------------------------------------------------------
(* New maps over flushed streams.                                          *)
TypedOf(conf, acc) ==
  [enabled |-> BuildMap(conf.Enabled), toFile |-> acc.toFile,
   logFlushThreshold |-> BuildMap(conf.LogFlushThreshold),
   filename |-> acc.filename, fileStream |-> acc.fileStream]

WithStreams(d, all) ==
  [streams |-> all, content |-> d.content, unflushed |-> d.unflushed,
   accepted |-> d.accepted]

(* What IndInv says of the maps t and the streams and files d, when no     *)
(* stream has anything to write.                                           *)
Fresh(conf, t, reference, d, m) ==
  /\ StreamsOK(d.streams, reference)
  /\ \A l \in AllLevels : conf.Filename[l] \in DOMAIN reference
  /\ \A l \in Levels :
       /\ GetConfig(t.enabled, l) = conf.Enabled[l]
       /\ GetConfig(t.logFlushThreshold, l) = conf.LogFlushThreshold[l]
       /\ GetConfig(t.logFlushThreshold, l) \in Nat
       /\ GetConfig(t.filename, l) = conf.Filename[l]
       /\ GetConfig(t.filename, l) \in Files
       /\ GetConfig(t.fileStream, l) = reference[conf.Filename[l]]
       /\ GetConfig(t.fileStream, l) \in 0 .. Len(d.streams)
       /\ GetConfig(t.fileStream, l) # 0 =>
            /\ d.streams[GetConfig(t.fileStream, l)].file = GetConfig(t.filename, l)
            /\ GetConfig(t.toFile, l) <=>
                 /\ conf.ToFile[l]
                 /\ conf.ToFile[Global] => reference[conf.Filename[Global]] # 0
  /\ d \in Disks /\ OneStreamPerFile(d) /\ InOrderOn(d, m) /\ NothingLostOn(d)
  /\ \A i \in 1 .. Len(d.streams) :
       ~d.streams[i].failed => Len(d.streams[i].buffer) = 0
  /\ \A l \in Levels : /\ d.unflushed[l] = 0
                       /\ IsFiniteSet(Held(d, l))
                       /\ Cardinality(Held(d, l)) = 0

LEMMA NewMapsAreFresh ==
  ASSUME NEW conf, NEW acc, NEW d, NEW m,
         ConfigurationsOK(conf), BuiltOK(acc, conf, d.streams, AllLevels),
         d \in Disks, InOrderOn(d, m), NothingLostOn(d),
         d.unflushed = [l \in Levels |-> 0],
         \A i \in 1 .. Len(d.streams) : Quiet(d, i)
  PROVE  Fresh(conf, TypedOf(conf, acc), acc.logStreams,
               WithStreams(d, acc.streams), m)
<1> DEFINE all == d.streams
           more == acc.streams
           g == WithStreams(d, more)
           t == TypedOf(conf, acc)
<1>1. /\ StreamsOK(more, acc.logStreams) /\ Grown(all, more)
      /\ LookupsOK(acc, conf)
  BY LookupsGiveWhatIsAsked DEF BuiltOK
<1>2. /\ more \in Seq(Streams) /\ Len(more) \in Nat /\ Len(all) \in Nat
      /\ \A i \in 1 .. Len(more) : more[i].file \in Files
  <2>1. more \in Seq(Streams)
    BY <1>1 DEF StreamsOK
  <2>2. \A i \in 1 .. Len(more) : more[i] \in Streams
    BY <2>1, ElementOfSeq
  <2> QED BY <2>1, <2>2, LenProperties, DiskTypes DEF Streams
<1>3. /\ g.streams = more /\ g.content = d.content /\ g.accepted = d.accepted
      /\ g.unflushed = d.unflushed
  BY DEF WithStreams
<1>4. g \in Disks
  BY <1>2 DEF WithStreams, Disks
<1> HIDE DEF g, all, more
<1>5. \A i \in 1 .. Len(more) :
        \/ i \in 1 .. Len(all) /\ more[i] = all[i]
        \/ more[i].buffer = <<>> /\ more[i].failed = FALSE
  BY <1>1, <1>2 DEF Grown
<1>6. OneStreamPerFile(g)
  BY <1>1, <1>3 DEF OneStreamPerFile, StreamsOK
<1>7. InOrderOn(g, m)
  <2>1. /\ \A f \in Files : Increasing(d.content[f]) /\ UpTo(d.content[f], m)
        /\ \A i \in 1 .. Len(all) :
             /\ Increasing(d.content[all[i].file] \o all[i].buffer)
             /\ UpTo(all[i].buffer, m)
    BY DEF InOrderOn, all
  <2>2. ASSUME NEW i \in 1 .. Len(more)
        PROVE  /\ Increasing(d.content[more[i].file] \o more[i].buffer)
               /\ UpTo(more[i].buffer, m)
    <3>1. CASE i \in 1 .. Len(all) /\ more[i] = all[i]
      BY <2>1, <3>1
    <3>2. CASE more[i].buffer = <<>>
      <4>1. d.content[more[i].file] \o <<>> = d.content[more[i].file]
        BY <1>2, DiskTypes, ConcatEmptySeq
      <4>2. UpTo(<<>>, m)
        BY DEF UpTo
      <4> QED BY <1>2, <2>1, <3>2, <4>1, <4>2
    <3> QED BY <1>5, <3>1, <3>2
  <2> QED BY <1>3, <2>1, <2>2 DEF InOrderOn
<1>8. NothingLostOn(g)
  <2> SUFFICES ASSUME NEW a \in d.accepted PROVE Kept(g, a)
    BY <1>3 DEF NothingLostOn
  <2>1. \A i \in 1 .. Len(all) : i \in 1 .. Len(more) /\ more[i] = all[i]
    BY <1>1, <1>2 DEF Grown
  <2>2. Kept(d, a)
    BY DEF NothingLostOn
  <2> QED BY <1>3, <2>1, <2>2 DEF Kept, all
<1>9. ASSUME NEW i \in 1 .. Len(g.streams), ~g.streams[i].failed
      PROVE  Len(g.streams[i].buffer) = 0
  <2>1. g.streams[i].buffer = <<>>
    BY <1>3, <1>5, <1>9 DEF Quiet, all
  <2> QED BY <2>1
<1>10. ASSUME NEW l \in Levels
       PROVE  /\ g.unflushed[l] = 0
              /\ IsFiniteSet(Held(g, l)) /\ Cardinality(Held(g, l)) = 0
  <2>1. Held(g, l) = {}
    BY <1>9 DEF Held, Contains
  <2> QED BY <1>3, <2>1, FS_EmptySet
<1>11. /\ t.enabled = BuildMap(conf.Enabled) /\ t.toFile = acc.toFile
       /\ t.logFlushThreshold = BuildMap(conf.LogFlushThreshold)
       /\ t.filename = acc.filename /\ t.fileStream = acc.fileStream
  BY DEF TypedOf
<1> HIDE DEF t
<1>12. ASSUME NEW l \in Levels
       PROVE
       /\ GetConfig(t.enabled, l) = conf.Enabled[l]
       /\ GetConfig(t.logFlushThreshold, l) = conf.LogFlushThreshold[l]
       /\ GetConfig(t.logFlushThreshold, l) \in Nat
       /\ GetConfig(t.filename, l) = conf.Filename[l]
       /\ GetConfig(t.filename, l) \in Files
       /\ GetConfig(t.fileStream, l) = acc.logStreams[conf.Filename[l]]
       /\ GetConfig(t.fileStream, l) \in 0 .. Len(more)
       /\ GetConfig(t.fileStream, l) # 0 =>
            /\ more[GetConfig(t.fileStream, l)].file = GetConfig(t.filename, l)
            /\ GetConfig(t.toFile, l) <=>
                 /\ conf.ToFile[l]
                 /\ conf.ToFile[Global] =>
                      acc.logStreams[conf.Filename[Global]] # 0
  <2>1. /\ l \in AllLevels
        /\ conf.Filename[l] \in Files /\ conf.LogFlushThreshold[l] \in Nat
    BY DEF AllLevels, ConfigurationsOK, Types, Values
  <2>2. /\ acc.logStreams[conf.Filename[l]] \in 0 .. Len(more)
        /\ acc.logStreams[conf.Filename[l]] # 0 =>
             more[acc.logStreams[conf.Filename[l]]].file = conf.Filename[l]
    BY <1>1, <2>1 DEF StreamsOK, LookupsOK
  <2> QED BY <1>1, <1>11, <2>1, <2>2 DEF LookupsOK
<1>13. \A l \in AllLevels : conf.Filename[l] \in DOMAIN acc.logStreams
  BY <1>1 DEF LookupsOK
<1>14. Fresh(conf, t, acc.logStreams, g, m)
  BY <1>1, <1>3, <1>4, <1>6, <1>7, <1>8, <1>9, <1>10, <1>12, <1>13 DEF Fresh
<1> QED BY <1>14 DEF g, t, more
-----------------------------------------------------------------------------
(* What abort() leaves of streams and files.                               *)
LEMMA AbandonedFields ==
  ASSUME NEW d \in Disks
  PROVE  /\ Abandoned(d) \in Disks
         /\ SameFiles(d, Abandoned(d))
         /\ Abandoned(d).content = d.content
         /\ Abandoned(d).accepted = d.accepted
         /\ \A i \in 1 .. Len(d.streams) :
              /\ Abandoned(d).streams[i].failed = d.streams[i].failed
              /\ Abandoned(d).streams[i].buffer = <<>>
<1> DEFINE empty(i) == [d.streams[i] EXCEPT !.buffer = <<>>]
           all == [i \in DOMAIN d.streams |-> empty(i)]
           e == Abandoned(d)
<1>1. /\ d = [streams |-> d.streams, content |-> d.content,
              unflushed |-> d.unflushed, accepted |-> d.accepted]
      /\ d.streams \in Seq(Streams) /\ d.content \in [Files -> Seq(Lines)]
      /\ d.unflushed \in [Levels -> Nat]
      /\ d.accepted \in SUBSET [file : Files, line : Lines]
  BY DEF Disks
<1>2. /\ e = [d EXCEPT !.streams = all]
      /\ e.streams = all /\ e.content = d.content
      /\ e.unflushed = d.unflushed /\ e.accepted = d.accepted
      /\ e = [streams |-> all, content |-> d.content,
              unflushed |-> d.unflushed, accepted |-> d.accepted]
  <2>1. e = [d EXCEPT !.streams = all]
    BY Zenon DEF Abandoned
  <2>2. DOMAIN d = {"streams", "content", "unflushed", "accepted"}
    BY <1>1
  <2> HIDE DEF e, all
  <2> QED BY <2>1, <2>2
<1>3. DOMAIN d.streams = 1 .. Len(d.streams) /\ Len(d.streams) \in Nat
  BY <1>1, LenProperties
<1>4. ASSUME NEW i \in 1 .. Len(d.streams)
      PROVE  /\ empty(i) \in Streams /\ empty(i).file = d.streams[i].file
             /\ empty(i).failed = d.streams[i].failed /\ empty(i).buffer = <<>>
  <2>1. d.streams[i] \in Streams
    BY <1>1, ElementOfSeq
  <2> QED BY <2>1, EmptySeq DEF Streams
<1> HIDE DEF e, empty
<1>5. /\ all \in Seq(Streams) /\ Len(all) = Len(d.streams)
      /\ \A i \in 1 .. Len(d.streams) : all[i] = empty(i)
  <2>1. all \in [1 .. Len(d.streams) -> Streams]
    BY <1>3, <1>4
  <2> QED BY <1>3, <2>1, IsASeq, LenProperties
<1> HIDE DEF all
<1>6. e \in Disks
  BY <1>1, <1>2, <1>5 DEF Disks
<1>7. SameFiles(d, e)
  BY <1>2, <1>4, <1>5 DEF SameFiles
<1> QED BY <1>2, <1>4, <1>5, <1>6, <1>7 DEF e

(* While the process runs, the streams and files are what lines made them. *)
LEMMA RunningInv ==
  ASSUME ~aborted
  PROVE  LinesInv <=> /\ DiskInv(Disk, lines) /\ CountsOK(Disk) /\ dropped = {}
BY Zenon DEF LinesInv, LeftBy, DiskInv

(* The streams and files, after abort() too, have their types.             *)
LEMMA DiskIsTyped ==
  ASSUME LinesInv
  PROVE  /\ Disk \in Disks /\ dropped \subseteq Lines
         /\ Disk.streams = streams /\ Disk.content = content
         /\ Disk.accepted = accepted /\ Disk.unflushed = unflushed
<1>1. PICK d \in Disks : LeftBy(d)
  BY Zenon DEF LinesInv
<1>2. Disk \in Disks /\ dropped \subseteq Lines
  <2>1. Abandoned(d) \in Disks
    BY AbandonedFields
  <2>2. Waiting(d) \subseteq Lines
    BY DEF Waiting
  <2> QED BY <1>1, <2>1, <2>2, Zenon DEF LeftBy
<1> QED BY <1>2 DEF Disk

(* IndInv is an inductive invariant.                                       *)
LEMMA InitIsInv == Init => IndInv
<1> SUFFICES ASSUME Init PROVE IndInv
  OBVIOUS
<1> DEFINE conf == SetToDefault
           built == Build(conf, <<>>, <<>>)
           none == [streams |-> <<>>, content |-> [f \in Files |-> <<>>],
                    unflushed |-> [l \in Levels |-> 0], accepted |-> {}]
<1>1. /\ unusable \in SUBSET Files /\ diskFull = FALSE
      /\ lines = 0 /\ dropped = {} /\ aborted = FALSE
      /\ configurations = conf /\ asked = conf
      /\ typed = TypedOf(conf, built)
      /\ streams = built.streams /\ logStreams = built.logStreams
      /\ unflushed = [l \in Levels |-> 0] /\ content = [f \in Files |-> <<>>]
      /\ accepted = {}
  BY Zenon DEF Init, TypedOf
<1>2. ConfigurationsOK(conf)
  BY DefaultIsOK
<1> HIDE DEF conf, built
<1>3. <<>> \in Seq(Streams) /\ <<>> \in Seq(Lines) /\ Len(<<>>) = 0
  BY EmptySeq
<1>4. StreamsOK(<<>>, <<>>)
  BY <1>3 DEF StreamsOK
<1>5. BuiltOK(built, conf, <<>>, AllLevels)
  BY <1>2, <1>4, BuildGivesWhatIsAsked DEF built
<1>6. none \in Disks
  BY <1>3 DEF Disks
<1>7. /\ InOrderOn(none, 0) /\ NothingLostOn(none)
      /\ \A i \in 1 .. Len(none.streams) : Quiet(none, i)
  BY <1>3 DEF InOrderOn, NothingLostOn, Increasing, UpTo
<1>8. Fresh(conf, TypedOf(conf, built), built.logStreams,
            WithStreams(none, built.streams), 0)
  <2>1. none.streams = <<>> /\ none.unflushed = [l \in Levels |-> 0]
    OBVIOUS
  <2> HIDE DEF none
  <2> QED BY <1>2, <1>5, <1>6, <1>7, <2>1, NewMapsAreFresh
<1>9. Disk = WithStreams(none, built.streams)
  BY <1>1 DEF Disk, WithStreams
<1>10. Fresh(asked, typed, logStreams, Disk, lines)
  BY <1>1, <1>8, <1>9
<1>11. Disk.streams = streams
  BY DEF Disk
<1> HIDE DEF none
<1>12. ConfiguredInv
  BY <1>1, <1>2, <1>10
     DEF ConfiguredInv, Fresh, Enabled, Threshold, Filename, FileStream, ToFile
<1>13. DiskInv(Disk, lines)
  <2>1. OwnStreams(Disk)
    BY <1>10 DEF Fresh, OwnStreams, Filename, FileStream
  <2> QED BY <1>10, <2>1 DEF DiskInv, Fresh
<1>14. CountsOK(Disk)
  BY <1>10 DEF CountsOK, CountOK, Limit, Threshold, Fresh
<1>15. StreamsOK(streams, logStreams)
  BY <1>10, <1>11 DEF Fresh
<1>16. lines \in 0 .. MaxLines
  BY <1>1, LoggingAssumption
<1>17. LinesInv
  BY <1>1, <1>13, <1>14, RunningInv
<1> QED BY <1>1, <1>12, <1>15, <1>16, <1>17 DEF IndInv

LEMMA ReconfigureKeeps ==
  ASSUME IndInv, ReconfigureLogger
  PROVE  IndInv'
<1>1. PICK conf \in AllEdited : Configure(conf)
  BY DEF ReconfigureLogger
<1> DEFINE d == [Disk EXCEPT !.unflushed = [l \in Levels |-> 0]]
           e == FlushFold!Folded(d, Tail(Registered), 0, 0)
           built == Build(conf, e.streams, logStreams)
<1>2. /\ ConfigurationsOK(conf) /\ ConfigurationsOK(configurations)
      /\ StreamsOK(streams, logStreams)
      /\ DiskInv(Disk, lines) /\ dropped = {} /\ ~aborted
  <2>1. ~aborted
    BY DEF ReconfigureLogger
  <2> QED BY <2>1, AllEditedAreOK, RunningInv DEF IndInv, ConfiguredInv
<1>3. SetFromBase(configurations, conf) = conf
  BY <1>2, MergeReplaces DEF ConfigurationsOK
<1>4. /\ unusable' = unusable /\ diskFull' = diskFull /\ lines' = lines
      /\ accepted' = accepted /\ dropped' = dropped /\ aborted' = aborted
  BY DEF ReconfigureLogger
<1>5. /\ asked' = conf /\ configurations' = conf
      /\ typed' = TypedOf(conf, built)
      /\ streams' = built.streams /\ logStreams' = built.logStreams
      /\ unflushed' = e.unflushed /\ content' = e.content
  <2> DEFINE flushLevel(disk, level) ==
               IF ToFile(level) /\ FileStream(level) # 0
               THEN Flush(disk, level, FileStream(level))
               ELSE disk
             f == FoldLeft(flushLevel, d, Tail(Registered))
  <2>1. f = e
    BY Zenon DEF FoldLeft, MapThenFoldSet, Max, FlushLevel,
                 FlushFold!Folded, FlushFold!Max
  <2>2. /\ asked' = conf
        /\ Configured(SetFromBase(configurations, conf), f.streams, logStreams)
        /\ unflushed' = f.unflushed /\ content' = f.content
    BY <1>1, Zenon DEF Configure
  <2> HIDE DEF e, f
  <2>3. Configured(conf, e.streams, logStreams)
    BY <1>3, <2>1, <2>2
  <2> QED BY <2>1, <2>2, <2>3, Zenon DEF Configured, TypedOf
<1>6. /\ d.streams = streams /\ d.content = content /\ d.accepted = accepted
      /\ d.unflushed = [l \in Levels |-> 0]
      /\ Disk.streams = streams /\ Disk.content = content
      /\ Disk.accepted = accepted
  BY DEF Disk
<1>7. DiskInv(d, lines)
  <2>1. d \in Disks
    BY <1>2 DEF DiskInv, Disks
  <2> HIDE DEF d
  <2> QED BY <1>2, <1>6, <2>1
          DEF DiskInv, OneStreamPerFile, InOrderOn, NothingLostOn, Kept, OwnStreams
<1> HIDE DEF d
<1>8. FlushedAll(d, e, lines) /\ \A i \in 1 .. Len(e.streams) : Quiet(e, i)
  BY <1>6, <1>7, FlushFoldQuiets
<1> HIDE DEF e, built
<1>9. /\ DiskInv(e, lines) /\ e \in Disks
      /\ InOrderOn(e, lines) /\ NothingLostOn(e)
      /\ e.unflushed = [l \in Levels |-> 0] /\ e.accepted = accepted
  BY <1>6, <1>8 DEF FlushedAll, DiskInv
<1>10. StreamsOK(e.streams, logStreams)
  <2>1. SameFiles(d, e)
    BY <1>8 DEF FlushedAll
  <2> QED BY <1>2, <1>6, <1>9, <2>1, SameFilesKeepTable
<1>11. BuiltOK(built, conf, e.streams, AllLevels)
  BY <1>2, <1>10, BuildGivesWhatIsAsked DEF built
<1>12. Fresh(conf, TypedOf(conf, built), built.logStreams,
             WithStreams(e, built.streams), lines)
  BY <1>2, <1>8, <1>9, <1>11, NewMapsAreFresh
<1>13. Disk' = WithStreams(e, built.streams)
  BY <1>4, <1>5, <1>9 DEF Disk, WithStreams
<1>14. Fresh(asked', typed', logStreams', Disk', lines')
  BY <1>4, <1>5, <1>12, <1>13
<1>15. Disk'.streams = streams'
  BY DEF Disk
<1>16. ConfiguredInv'
  BY <1>2, <1>5, <1>14
     DEF ConfiguredInv, Fresh, Enabled, Threshold, Filename, FileStream, ToFile
<1>17. DiskInv(Disk, lines)'
  <2>1. OwnStreams(Disk)'
    BY <1>14 DEF Fresh, OwnStreams, Filename, FileStream
  <2> QED BY <1>14, <2>1 DEF DiskInv, Fresh
<1>18. CountsOK(Disk)'
  BY <1>14 DEF CountsOK, CountOK, Limit, Threshold, Fresh
<1>19. StreamsOK(streams, logStreams)'
  BY <1>14, <1>15 DEF Fresh
<1>20. LinesInv'
  <2>1. (~aborted /\ dropped = {})'
    BY <1>2, <1>4
  <2>2. (LeftBy(Disk) /\ Disk \in Disks)'
    BY <1>17, <2>1 DEF LeftBy, DiskInv
  <2> QED BY <1>17, <1>18, <2>2, Zenon DEF LinesInv
<1> QED BY <1>4, <1>16, <1>19, <1>20 DEF IndInv

LEMMA ThresholdsAreNumbers ==
  ASSUME ConfiguredInv
  PROVE  \A l \in Levels : Threshold(l) \in Nat
<1>1. \A l \in Levels : /\ Threshold(l) = asked.LogFlushThreshold[l]
                       /\ asked.LogFlushThreshold[l] \in Nat
  BY DEF ConfiguredInv, ConfigurationsOK, Types, Values, AllLevels
<1> QED BY <1>1

(* What one or two dispatches make of streams and files is what IndInv asks*)
(* for; e is what is left of it.                                           *)
LEMMA WrittenKeeps ==
  ASSUME IndInv, NEW d \in Disks, NEW e \in Disks, Written(e),
         DiskInv(d, lines'), CountsOK(d), SameFiles(Disk, d), SameFiles(d, e),
         IF aborted' THEN e = Abandoned(d) /\ dropped' = Waiting(d)
         ELSE e = d /\ dropped' = {},
         lines' \in 0 .. MaxLines, aborted' \in BOOLEAN,
         UNCHANGED <<configurations, typed, logStreams, unusable, diskFull, asked>>
  PROVE  IndInv'
<1>1. /\ streams' = e.streams /\ content' = e.content
      /\ unflushed' = e.unflushed /\ accepted' = e.accepted
  BY DEF Written
<1>2. Disk' = e
  <2>1. e = [streams |-> e.streams, content |-> e.content,
             unflushed |-> e.unflushed, accepted |-> e.accepted]
    BY DEF Disks
  <2> QED BY <1>1, <2>1, Zenon DEF Disk
<1>3. /\ \A l : Filename(l)' = Filename(l)
      /\ \A l : FileStream(l)' = FileStream(l)
      /\ \A l : ToFile(l)' = ToFile(l)
      /\ \A l : Threshold(l)' = Threshold(l)
      /\ \A l : Enabled(l)' = Enabled(l)
  BY DEF Filename, FileStream, ToFile, Threshold, Enabled
<1>4. DiskInv(d, lines)'
  BY <1>3 DEF DiskInv, OwnStreams
<1>5. CountsOK(d)'
  BY <1>3 DEF CountsOK, CountOK, Limit
<1>6. LeftBy(d)'
  BY <1>2 DEF LeftBy
<1>7. LinesInv'
  BY <1>4, <1>5, <1>6, Zenon DEF LinesInv
<1>8. StreamsOK(streams, logStreams)'
  <2>1. Disk.streams = streams
    BY DEF Disk
  <2>2. StreamsOK(Disk.streams, logStreams)
    BY <2>1 DEF IndInv
  <2>3. StreamsOK(d.streams, logStreams)
    BY <2>2, SameFilesKeepTable
  <2>4. StreamsOK(e.streams, logStreams)
    BY <2>3, SameFilesKeepTable
  <2> QED BY <1>1, <2>4
<1>9. ConfiguredInv'
  BY <1>3 DEF IndInv, ConfiguredInv
<1> QED BY <1>7, <1>8, <1>9 DEF IndInv

LEMMA LogKeeps ==
  ASSUME IndInv, NEW level \in Levels, Log(level)
  PROVE  IndInv'
<1> DEFINE e == Dispatch(Disk, level, lines + 1)
<1>1. /\ lines < MaxLines /\ lines' = lines + 1 /\ Written(e) /\ ~aborted
      /\ UNCHANGED <<configurations, typed, logStreams, unusable, diskFull, asked,
                     dropped, aborted>>
  BY DEF Log
<1>2. /\ lines \in Nat /\ lines + 1 \in 1 .. MaxLines /\ lines' \in 0 .. MaxLines
      /\ DiskInv(Disk, lines) /\ CountsOK(Disk)
      /\ \A k \in Levels : Threshold(k) \in Nat
      /\ dropped' = {} /\ ~aborted' /\ aborted' \in BOOLEAN
  BY <1>1, LoggingAssumption, ThresholdsAreNumbers, RunningInv DEF IndInv
<1>3. DiskInv(e, lines + 1) /\ CountsOK(e) /\ SameFiles(Disk, e)
  BY <1>2, DispatchKeeps
<1> HIDE DEF e
<1>4. e \in Disks /\ DiskInv(e, lines') /\ SameFiles(e, e)
  BY <1>1, <1>3 DEF DiskInv, SameFiles
<1> QED BY <1>1, <1>2, <1>3, <1>4, WrittenKeeps

LEMMA LogFatalKeeps ==
  ASSUME IndInv, LogFatal
  PROVE  IndInv'
<1> DEFINE reported == Dispatch(Disk, Fatal, lines + 1)
           warned == Dispatch(reported, Warning, lines + 2)
           e == IF Enabled(Warning) THEN warned ELSE reported
<1>1. /\ lines + 1 < MaxLines /\ lines' = lines + 2 /\ ~aborted
      /\ dropped' = Waiting(e) /\ Written(Abandoned(e)) /\ aborted' = TRUE
      /\ UNCHANGED <<configurations, typed, logStreams, unusable, diskFull, asked>>
  BY DEF LogFatal
<1>2. /\ lines \in Nat /\ lines + 1 \in Nat
      /\ lines + 1 \in 1 .. MaxLines /\ lines + 2 \in 1 .. MaxLines
      /\ lines' \in 0 .. MaxLines /\ (lines + 1) + 1 = lines + 2
      /\ DiskInv(Disk, lines) /\ CountsOK(Disk)
      /\ \A k \in Levels : Threshold(k) \in Nat
      /\ Fatal \in Levels /\ Warning \in Levels
  BY <1>1, LoggingAssumption, ThresholdsAreNumbers, RunningInv DEF IndInv
<1>3. /\ DiskInv(reported, lines + 1) /\ CountsOK(reported)
      /\ SameFiles(Disk, reported)
  BY <1>2, DispatchKeeps
<1> HIDE DEF reported
<1>4. /\ DiskInv(warned, lines + 2) /\ CountsOK(warned)
      /\ SameFiles(reported, warned)
  <2> DEFINE m == lines + 1
  <2>1. /\ m \in Nat /\ m + 1 \in 1 .. MaxLines /\ m + 1 = lines + 2
        /\ DiskInv(reported, m)
    BY <1>2, <1>3
  <2>2. warned = Dispatch(reported, Warning, m + 1)
    BY <2>1
  <2> HIDE DEF m, warned
  <2>3. /\ DiskInv(Dispatch(reported, Warning, m + 1), m + 1)
        /\ CountsOK(Dispatch(reported, Warning, m + 1))
        /\ SameFiles(reported, Dispatch(reported, Warning, m + 1))
    BY <1>2, <1>3, <2>1, DispatchKeeps
  <2> QED BY <2>1, <2>2, <2>3
<1> HIDE DEF warned
<1>5. /\ DiskInv(reported, (lines + 1) + 1)
      /\ SameFiles(Disk, warned)
  BY <1>2, <1>3, <1>4, LaterIsFine DEF SameFiles
<1>6. DiskInv(e, lines') /\ CountsOK(e) /\ SameFiles(Disk, e)
  BY <1>1, <1>2, <1>3, <1>4, <1>5
<1> HIDE DEF e
<1>7. /\ e \in Disks
      /\ Abandoned(e) \in Disks /\ SameFiles(e, Abandoned(e))
  BY <1>6, AbandonedFields DEF DiskInv
<1> QED BY <1>1, <1>2, <1>6, <1>7, WrittenKeeps

LEMMA UnchangedKeeps ==
  ASSUME IndInv,
         UNCHANGED <<configurations, typed, unflushed, logStreams, streams, content,
                     lines, accepted, asked, dropped, aborted>>,
         unusable' \subseteq Files, diskFull' \in BOOLEAN
  PROVE  IndInv'
<1>1. /\ \A l : Filename(l)' = Filename(l)
      /\ \A l : FileStream(l)' = FileStream(l)
      /\ \A l : ToFile(l)' = ToFile(l)
      /\ \A l : Threshold(l)' = Threshold(l)
      /\ \A l : Enabled(l)' = Enabled(l)
      /\ Disk' = Disk
  BY DEF Filename, FileStream, ToFile, Threshold, Enabled, Disk
<1>2. PICK d \in Disks : DiskInv(d, lines) /\ CountsOK(d) /\ LeftBy(d)
  BY Zenon DEF IndInv, LinesInv
<1>3. DiskInv(d, lines)'
  BY <1>1, <1>2 DEF DiskInv, OwnStreams
<1>4. CountsOK(d)'
  BY <1>1, <1>2 DEF CountsOK, CountOK, Limit
<1>5. LeftBy(d)'
  BY <1>1, <1>2 DEF LeftBy
<1>6. LinesInv'
  BY <1>3, <1>4, <1>5, Zenon DEF LinesInv
<1>7. ConfiguredInv'
  BY <1>1 DEF IndInv, ConfiguredInv
<1> QED BY <1>6, <1>7 DEF IndInv

LEMMA NextKeepsInv == IndInv /\ [Next]_vars => IndInv'
<1> SUFFICES ASSUME IndInv, [Next]_vars PROVE IndInv'
  OBVIOUS
<1>1. CASE ReconfigureLogger
  BY <1>1, ReconfigureKeeps
<1>2. ASSUME NEW level \in Levels, Log(level)
      PROVE  IndInv'
  BY <1>2, LogKeeps
<1>3. CASE LogFatal
  BY <1>3, LogFatalKeeps
<1>4. CASE FilesChange
  <2>1. unusable' \subseteq Files /\ diskFull' \in BOOLEAN
    BY <1>4 DEF FilesChange, IndInv
  <2>2. UNCHANGED <<configurations, typed, unflushed, logStreams, streams, content,
                    lines, accepted, asked, dropped, aborted>>
    BY <1>4 DEF FilesChange
  <2> QED BY <2>1, <2>2, UnchangedKeeps
<1>5. CASE UNCHANGED vars
  <2>1. unusable' \subseteq Files /\ diskFull' \in BOOLEAN
    BY <1>5 DEF vars, IndInv
  <2> QED BY <1>5, <2>1, UnchangedKeeps DEF vars
<1> QED BY <1>1, <1>2, <1>3, <1>4, <1>5 DEF Next

(* The inductive invariant, for any levels, files and configurations.      *)
THEOREM Invariance == Spec => []IndInv
BY InitIsInv, NextKeepsInv, PTL DEF Spec

-----------------------------------------------------------------------------
(* Configurations, streams and files are what they should be.              *)
THEOREM TypeCorrect == Spec => []TypeOK
<1>1. IndInv => TypeOK
  <2> SUFFICES ASSUME IndInv PROVE TypeOK
    OBVIOUS
  <2>1. /\ Disk.streams = streams /\ Disk.content = content
        /\ Disk.accepted = accepted /\ Disk.unflushed = unflushed
        /\ Disk \in Disks /\ dropped \subseteq Lines
    BY DiskIsTyped DEF IndInv
  <2>2. ASSUME NEW type \in Types
        PROVE  configurations[type] \in [AllLevels -> Values[type]]
    BY DEF IndInv, ConfiguredInv, ConfigurationsOK, IsConfigurations
  <2>3. DOMAIN logStreams \subseteq Files
        /\ \A f \in DOMAIN logStreams : logStreams[f] \in 0 .. Len(streams)
    BY DEF IndInv, StreamsOK
  <2>4. ASSUME NEW i \in DOMAIN streams
        PROVE  /\ streams[i].file \in Files
               /\ streams[i].failed \in BOOLEAN
               /\ \A j \in DOMAIN streams[i].buffer : streams[i].buffer[j] \in Lines
    <3>1. i \in 1 .. Len(streams)
      BY <2>1, DiskTypes, LenProperties
    <3>2. /\ streams[i].file \in Files /\ streams[i].failed \in BOOLEAN
          /\ streams[i].buffer \in Seq(Lines)
      BY <2>1, <3>1, DiskTypes
    <3>3. /\ DOMAIN streams[i].buffer = 1 .. Len(streams[i].buffer)
          /\ \A j \in 1 .. Len(streams[i].buffer) : streams[i].buffer[j] \in Lines
      BY <3>2, LenProperties, ElementOfSeq
    <3> QED BY <3>2, <3>3
  <2>5. ASSUME NEW f \in Files, NEW i \in DOMAIN content[f]
        PROVE  content[f][i] \in Lines
    <3>1. content[f] \in Seq(Lines)
      BY <2>1, DiskTypes
    <3> QED BY <3>1, LenProperties, ElementOfSeq
  <2>6. unflushed \in [Levels -> Nat] /\ accepted \subseteq [file : Files, line : Lines]
    BY <2>1 DEF Disks
  <2> QED BY <2>1, <2>2, <2>3, <2>4, <2>5, <2>6 DEF TypeOK, IndInv
<1> QED BY <1>1, Invariance, PTL

(* Every level does what the configurations last given say: through the    *)
(* merge and the maps of TypedConfigurations, in whatever order levels and *)
(* files were named before.                                                *)
THEOREM AlwaysAsAsked == Spec => []DoesAsAsked
<1>1. IndInv => DoesAsAsked
  <2> SUFFICES ASSUME IndInv, NEW l \in Levels
               PROVE  /\ Enabled(l) = asked.Enabled[l]
                      /\ Threshold(l) = asked.LogFlushThreshold[l]
                      /\ (ToFile(l) /\ FileStream(l) # 0) <=>
                           /\ asked.ToFile[l]
                           /\ Usable(asked.Filename[l])
                           /\ asked.ToFile[Global] => Usable(asked.Filename[Global])
                      /\ FileStream(l) # 0 =>
                           streams[FileStream(l)].file = asked.Filename[l]
    BY DEF DoesAsAsked
  <2>1. /\ Enabled(l) = asked.Enabled[l]
        /\ Threshold(l) = asked.LogFlushThreshold[l]
        /\ Filename(l) = asked.Filename[l]
        /\ FileStream(l) = logStreams[asked.Filename[l]]
        /\ FileStream(l) # 0 =>
             (ToFile(l) <=> /\ asked.ToFile[l]
                            /\ asked.ToFile[Global] =>
                                 logStreams[asked.Filename[Global]] # 0)
        /\ asked.Filename[l] \in DOMAIN logStreams
        /\ asked.Filename[Global] \in DOMAIN logStreams
    BY DEF IndInv, ConfiguredInv, AllLevels
  <2>2. FileStream(l) # 0 => streams[FileStream(l)].file = Filename(l)
    BY <2>1 DEF IndInv, StreamsOK
  <2> QED BY <2>1, <2>2 DEF Usable
<1> QED BY <1>1, Invariance, PTL

(* abort() takes lines from the end of what is on its way to a file.       *)
LEMMA LinesStayInOrder ==
  ASSUME LinesInv
  PROVE  InOrderOn(Disk, lines)
<1>1. PICK d \in Disks : DiskInv(d, lines) /\ LeftBy(d)
  BY Zenon DEF LinesInv
<1> DEFINE e == Abandoned(d)
<1>2. /\ e.content = d.content /\ Len(e.streams) = Len(d.streams)
      /\ \A i \in 1 .. Len(d.streams) :
           e.streams[i].file = d.streams[i].file /\ e.streams[i].buffer = <<>>
  BY AbandonedFields DEF SameFiles
<1> HIDE DEF e
<1>3. /\ \A f \in Files : Increasing(d.content[f]) /\ UpTo(d.content[f], lines)
      /\ InOrderOn(d, lines)
  BY <1>1 DEF DiskInv, InOrderOn
<1>4. ASSUME NEW i \in 1 .. Len(d.streams)
      PROVE  /\ Increasing(d.content[d.streams[i].file] \o <<>>)
             /\ UpTo(<<>>, lines)
  <2>1. d.streams[i].file \in Files /\ d.content[d.streams[i].file] \in Seq(Lines)
    BY DiskTypes
  <2>2. d.content[d.streams[i].file] \o <<>> = d.content[d.streams[i].file]
    BY <2>1, ConcatEmptySeq
  <2>3. UpTo(<<>>, lines)
    BY DEF UpTo
  <2> QED BY <1>3, <2>1, <2>2, <2>3
<1>5. InOrderOn(e, lines)
  BY <1>2, <1>3, <1>4 DEF InOrderOn
<1> QED BY <1>1, <1>3, <1>5, Zenon DEF LeftBy, e

(* The lines of a file are in the order in which they were logged.         *)
THEOREM LinesInOrder == Spec => []InOrder
<1>1. IndInv => InOrder
  <2> SUFFICES ASSUME IndInv, NEW i \in DOMAIN streams
               PROVE  LET written == content[streams[i].file] \o streams[i].buffer IN
                      \A j, k \in DOMAIN written :
                        j < k => written[j].number < written[k].number
    BY DEF InOrder
  <2> DEFINE written == content[streams[i].file] \o streams[i].buffer
  <2>1. /\ Disk.streams = streams /\ Disk.content = content /\ Disk \in Disks
        /\ InOrderOn(Disk, lines)
    BY DiskIsTyped, LinesStayInOrder DEF IndInv
  <2>2. i \in 1 .. Len(streams)
    BY <2>1, DiskTypes, LenProperties
  <2>3. content[streams[i].file] \in Seq(Lines) /\ streams[i].buffer \in Seq(Lines)
    BY <2>1, <2>2, DiskTypes
  <2>4. DOMAIN written = 1 .. Len(written)
    BY <2>3, ConcatProperties, LenProperties
  <2>5. Increasing(written)
    BY <2>1, <2>2 DEF InOrderOn
  <2> HIDE DEF written
  <2>6. \A j, k \in DOMAIN written : j < k => written[j].number < written[k].number
    BY <2>4, <2>5 DEF Increasing
  <2> QED BY <2>6 DEF written
<1> QED BY <1>1, Invariance, PTL

(* What waits in a buffer, and the lines of one level among it.            *)
LEMMA WaitingHeld ==
  ASSUME NEW d \in Disks, NEW l
  PROVE  {line \in Waiting(d) : line.level = l} = Held(d, l)
<1>1. DOMAIN d.streams = 1 .. Len(d.streams)
  BY DiskTypes, LenProperties
<1> QED BY <1>1 DEF Waiting, Held

(* A line that was written reaches its file, waits for it, or was lost by  *)
(* a stream that has failed, or by the abort() that ends LOG(FATAL).       *)
THEOREM NoLineLost == Spec => []NothingLost
<1>1. IndInv => NothingLost
  <2> SUFFICES ASSUME IndInv, NEW a \in accepted
               PROVE  \/ Contains(content[a.file], a.line)
                      \/ \E i \in DOMAIN streams :
                           /\ streams[i].file = a.file
                           /\ streams[i].failed \/ Contains(streams[i].buffer, a.line)
                      \/ a.line \in dropped
    BY DEF NothingLost
  <2>1. /\ Disk.streams = streams /\ Disk.content = content
        /\ Disk.accepted = accepted /\ Disk \in Disks
    BY DiskIsTyped DEF IndInv
  <2>2. DOMAIN streams = 1 .. Len(streams)
    BY <2>1, DiskTypes, LenProperties
  <2>3. PICK d \in Disks : DiskInv(d, lines) /\ LeftBy(d)
    BY Zenon DEF IndInv, LinesInv
  <2>4. CASE ~aborted
    <3>1. Disk = d
      BY <2>3, <2>4, Zenon DEF LeftBy
    <3>2. Kept(Disk, a)
      BY <2>1, <2>3, <3>1 DEF DiskInv, NothingLostOn
    <3> QED BY <2>1, <2>2, <3>2 DEF Kept
  <2>5. CASE aborted
    <3>1. Disk = Abandoned(d) /\ dropped = Waiting(d)
      BY <2>3, <2>5, Zenon DEF LeftBy
    <3>2. /\ content = d.content /\ accepted = d.accepted
          /\ Len(streams) = Len(d.streams)
          /\ \A i \in 1 .. Len(d.streams) :
               /\ streams[i].file = d.streams[i].file
               /\ streams[i].failed = d.streams[i].failed
      BY <2>1, <3>1, AbandonedFields DEF SameFiles
    <3>3. Kept(d, a) /\ a.line \in Lines
      BY <2>3, <3>2 DEF DiskInv, NothingLostOn, Disks
    <3>4. ASSUME NEW i \in 1 .. Len(d.streams), ~d.streams[i].failed,
                 Contains(d.streams[i].buffer, a.line)
          PROVE  a.line \in dropped
      <4>1. DOMAIN d.streams = 1 .. Len(d.streams)
        BY DiskTypes, LenProperties
      <4> QED BY <3>1, <3>3, <3>4, <4>1 DEF Waiting
    <3> QED BY <2>2, <3>2, <3>3, <3>4 DEF Kept
  <2> QED BY <2>4, <2>5
<1> QED BY <1>1, Invariance, PTL

(* No level holds back as many lines as its threshold: so abort() loses    *)
(* fewer of them.                                                          *)
THEOREM NoLineHeldBack == Spec => []NothingHeldBack
<1>1. IndInv => NothingHeldBack
  <2> SUFFICES ASSUME IndInv, NEW l \in Levels
               PROVE  Cardinality(HeldBack(l)) < Limit(l)
    BY DEF NothingHeldBack, Limit
  <2>1. PICK d \in Disks : DiskInv(d, lines) /\ CountsOK(d) /\ LeftBy(d)
    BY Zenon DEF IndInv, LinesInv
  <2>2. Waiting(Disk) \cup dropped = Waiting(d)
    <3>1. CASE ~aborted
      BY <2>1, <3>1 DEF LeftBy
    <3>2. CASE aborted
      <4>1. Disk = Abandoned(d) /\ dropped = Waiting(d)
        BY <2>1, <3>2, Zenon DEF LeftBy
      <4>2. /\ Disk \in Disks /\ Len(Disk.streams) = Len(d.streams)
            /\ \A i \in 1 .. Len(d.streams) : Disk.streams[i].buffer = <<>>
        BY <4>1, AbandonedFields DEF SameFiles
      <4>3. DOMAIN Disk.streams = 1 .. Len(d.streams)
        BY <4>2, DiskTypes, LenProperties
      <4>4. Waiting(Disk) = {}
        BY <4>2, <4>3 DEF Waiting, Contains
      <4> QED BY <4>1, <4>4
    <3> QED BY <3>1, <3>2
  <2>3. HeldBack(l) = Held(d, l)
    BY <2>2, WaitingHeld DEF HeldBack
  <2>4. /\ IsFiniteSet(Held(d, l))
        /\ Cardinality(Held(d, l)) <= d.unflushed[l]
        /\ d.unflushed[l] < Limit(l)
    BY <2>1 DEF CountsOK, CountOK
  <2>5. Cardinality(Held(d, l)) \in Nat /\ d.unflushed[l] \in Nat
    BY <2>4, FS_CardinalityType DEF Disks
  <2>6. Limit(l) \in Nat
    BY ThresholdsAreNumbers, LimitIsPositive DEF IndInv
  <2> QED BY <2>3, <2>4, <2>5, <2>6
<1> QED BY <1>1, Invariance, PTL
=============================================================================
