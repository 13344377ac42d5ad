-------------------------- MODULE LogConfigurations --------------------------
(***************************************************************************)
(* What is configured of a logger, as the logging library keeps it: in     *)
(* el::Configurations a value for each level and type, Level::Global among *)
(* the levels, and in TypedConfigurations one map for each type, which has *)
(* the value of Level::Global and of the levels that differ from it.       *)
(* Every Configurations that cbee builds starts with setToDefault, so that *)
(* Level::Global is registered first and every level after it.             *)
(***************************************************************************)
EXTENDS Naturals, Sequences, SequencesExt

CONSTANTS
  Levels,         \* the levels a line can have
  Global,         \* Level::Global
  DefaultLogFile  \* kDefaultLogFile

ASSUME LevelsAssumption == IsFiniteSet(Levels) /\ Global \notin Levels

AllLevels == Levels \cup {Global}

(* The order in which setToDefault registers the levels.                   *)
Registered == <<Global>> \o SetToSeq(Levels)

Types == {"Enabled", "Filename", "ToFile", "LogFlushThreshold"}

Set(conf, level, type, value) ==
  IF level = Global
  THEN [conf EXCEPT ![type] = [l \in AllLevels |-> value]]
  ELSE [conf EXCEPT ![type][level] = value]

(* The public setGlobally leaves Level::Global itself as it was.           *)
SetGlobally(conf, type, value) ==
  [conf EXCEPT ![type] =
     [l \in AllLevels |-> IF l = Global THEN conf[type][Global] ELSE value]]

SetToDefault ==
  [Enabled |-> [l \in AllLevels |-> TRUE],
   Filename |-> [l \in AllLevels |-> DefaultLogFile],
   ToFile |-> [l \in AllLevels |-> TRUE],
   LogFlushThreshold |-> [l \in AllLevels |-> 0]]

(* Seeded fault: the entries of base are set in the opposite order.        *)
SetFromBase_Backwards(conf, base) ==
  LET copied(type) ==
        FoldLeft(LAMBDA c, level : Set(c, level, type, base[type][level]),
                 conf, Reverse(Registered))[type] IN
  [type \in Types |-> copied(type)]

(* Every entry of base is set, in the order of their registration.         *)
SetFromBase(conf, base) ==
  LET copied(type) ==
        FoldLeft(LAMBDA c, level : Set(c, level, type, base[type][level]),
                 conf, Registered)[type] IN
  [type \in Types |-> copied(type)]

(* The entries of an std::unordered_map: insert keeps a key that is there. *)
Put(map, key, value) ==
  [k \in DOMAIN map \cup {key} |-> IF k = key THEN value ELSE map[k]]

Insert(map, key, value) == IF key \in DOMAIN map THEN map ELSE Put(map, key, value)

(* The first value goes to Level::Global; a value that Level::Global has   *)
(* already goes nowhere, even if the level has another one in the map.     *)
SetValue(map, level, value) ==
  IF DOMAIN map = {} THEN Put(map, Global, value)
  ELSE IF Global \in DOMAIN map /\ map[Global] = value THEN map
  ELSE Put(map, level, value)

GetConfig(map, level) == IF level \in DOMAIN map THEN map[level] ELSE map[Global]

(* The first loop of build, for one type.                                  *)
BuildMap(values) ==
  FoldLeft(LAMBDA map, level : SetValue(map, level, values[level]), <<>>,
           Registered)
=============================================================================
