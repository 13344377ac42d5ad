----------------------- MODULE LogConfigurationsProofs -----------------------
(***************************************************************************)
(* What the loops of LogConfigurations compute: a merge leaves exactly what*)
(* is merged, and a map built from configured values gives each level its  *)
(* value back.  Both by induction over the levels, in any order in which   *)
(* Level::Global is the first.                                             *)
(***************************************************************************)
EXTENDS LogConfigurations, FiniteSetTheorems, SequenceTheorems, TLAPS

CopyFold == INSTANCE FoldTheorems
              WITH Step <- LAMBDA c, level, base, type :
                             Set(c, level, type, base[type][level])

MapFold == INSTANCE FoldTheorems
             WITH Step <- LAMBDA map, level, values, q :
                            SetValue(map, level, values[level])

(* A Configurations with a value for each type and level.                  *)
IsConfigurations(conf) ==
  /\ conf = [type \in Types |-> conf[type]]
  /\ \A type \in Types : conf[type] = [l \in AllLevels |-> conf[type][l]]

-----------------------------------------------------------------------------
(* The levels, each of them once, Level::Global first.                     *)
LEMMA RegisteredLevels ==
  /\ Registered \in Seq(AllLevels)
  /\ Len(Registered) \in Nat \ {0}
  /\ DOMAIN Registered = 1 .. Len(Registered)
  /\ Registered[1] = Global
  /\ \A i \in 2 .. Len(Registered) : Registered[i] \in Levels
  /\ \A l \in Levels : \E i \in 2 .. Len(Registered) : Registered[i] = l
  /\ \A i, j \in 1 .. Len(Registered) : Registered[i] = Registered[j] => i = j
<1> DEFINE n == Cardinality(Levels)
           s == SetToSeq(Levels)
<1>1. n \in Nat /\ ExistsBijection(1 .. n, Levels)
  BY LevelsAssumption, FS_CardinalityType
<1>2. s \in [1 .. n -> Levels] /\ IsInjective(s)
  <2>1. \E f \in [1 .. n -> Levels] : IsInjective(f)
    BY <1>1, Zenon DEF ExistsBijection, Bijection, Injection
  <2> QED BY <2>1, Zenon DEF SetToSeq
<1>3. \A l \in Levels : \E i \in 1 .. n : s[i] = l
  <2>1. s \in Injection(1 .. n, Levels)
    BY <1>2, Zenon DEF Injection
  <2>2. Cardinality(1 .. n) = n
    BY <1>1, FS_Interval
  <2>3. s \in Surjection(1 .. n, Levels)
    BY <2>1, <2>2, LevelsAssumption, FS_Injection
  <2> QED BY <2>3, Zenon DEF Surjection
<1> HIDE DEF n, s
<1>4. s \in Seq(Levels) /\ Len(s) = n
  BY <1>1, <1>2
<1>5. s \in Seq(AllLevels) /\ <<Global>> \in Seq(AllLevels) /\ Len(<<Global>>) = 1
  BY <1>4, SeqMonotonic DEF AllLevels
<1>6. Registered = <<Global>> \o s
  BY DEF Registered, s
<1>7. /\ Registered \in Seq(AllLevels)
      /\ Len(Registered) = n + 1
      /\ \A i \in 1 .. n + 1 :
           Registered[i] = IF i <= 1 THEN <<Global>>[i] ELSE s[i - 1]
  BY <1>1, <1>4, <1>5, <1>6, ConcatProperties
<1>8. DOMAIN Registered = 1 .. Len(Registered)
  BY <1>7, LenProperties
<1>9. Registered[1] = Global /\ \A i \in 2 .. n + 1 : Registered[i] = s[i - 1]
  BY <1>1, <1>7
<1>10. \A i \in 2 .. n + 1 : i - 1 \in 1 .. n /\ Registered[i] \in Levels
  BY <1>1, <1>2, <1>9
<1>11. ASSUME NEW l \in Levels
       PROVE  \E i \in 2 .. n + 1 : Registered[i] = l
  <2>1. PICK i \in 1 .. n : s[i] = l
    BY <1>3
  <2>2. i + 1 \in 2 .. n + 1 /\ Registered[i + 1] = l
    BY <1>1, <1>9, <2>1
  <2> QED BY <2>2
<1>12. ASSUME NEW i \in 1 .. n + 1, NEW j \in 1 .. n + 1,
              Registered[i] = Registered[j]
       PROVE  i = j
  <2>1. CASE i = 1 /\ j # 1
    BY <1>1, <1>9, <1>10, <1>12, <2>1, LevelsAssumption
  <2>2. CASE i # 1 /\ j = 1
    BY <1>1, <1>9, <1>10, <1>12, <2>2, LevelsAssumption
  <2>3. CASE i # 1 /\ j # 1
    <3>1. i - 1 \in 1 .. n /\ j - 1 \in 1 .. n /\ s[i - 1] = s[j - 1]
      BY <1>1, <1>9, <1>12, <2>3
    <3>2. i - 1 = j - 1
      BY <1>2, <3>1 DEF IsInjective
    <3> QED BY <3>2
  <2> QED BY <2>1, <2>2, <2>3
<1> QED BY <1>1, <1>7, <1>8, <1>9, <1>10, <1>11, <1>12

(* Induction over the levels, from Level::Global on.                       *)
LEMMA LevelInduction ==
  ASSUME NEW S, 1 \in S,
         \A k \in 2 .. Len(Registered) : k - 1 \in S => k \in S
  PROVE  Len(Registered) \in S
<1> DEFINE n == Len(Registered)
           T == {k \in 0 .. n - 1 : k + 1 \in S}
<1>1. n \in Nat \ {0}
  BY RegisteredLevels
<1> HIDE DEF n
<1>2. 0 \in T
  BY <1>1
<1>3. ASSUME NEW k \in 0 .. (n - 1) - 1, k \in T
      PROVE  k + 1 \in T
  <2>1. k + 2 \in 2 .. n /\ (k + 2) - 1 \in S
    BY <1>1, <1>3
  <2>2. k + 2 \in S
    BY <2>1 DEF n
  <2> QED BY <1>1, <1>3, <2>2
<1>4. 0 .. n - 1 \subseteq T
  <2> HIDE DEF T
  <2>1. n - 1 \in Nat
    BY <1>1
  <2> QED BY <1>2, <1>3, <2>1, CopyFold!Induction
<1>5. n - 1 \in T
  BY <1>1, <1>4
<1>6. (n - 1) + 1 \in S
  BY <1>5
<1> QED BY <1>1, <1>6 DEF n

-----------------------------------------------------------------------------
(* A map holds the value of Level::Global, and of each level that differs. *)
THEOREM BuildMapContents ==
  ASSUME NEW values
  PROVE  BuildMap(values) =
           [l \in {Global} \cup {l \in Levels : values[l] # values[Global]}
              |-> values[l]]
<1> DEFINE n == Len(Registered)
           Seen(k) == {l \in Levels : /\ values[l] # values[Global]
                                      /\ \E i \in 1 .. k : Registered[i] = l}
           Contents(k) == [l \in {Global} \cup Seen(k) |-> values[l]]
<1>1. BuildMap(values) = MapFold!Folded(<<>>, Registered, values, 0)
  BY Zenon DEF BuildMap, FoldLeft, MapThenFoldSet, Max, MapFold!Folded, MapFold!Max
<1>2. PICK h : /\ MapFold!IsHistory(h, <<>>, Registered, values, 0)
               /\ MapFold!Folded(<<>>, Registered, values, 0) = h[n]
  BY RegisteredLevels, MapFold!FoldHistory
<1>3. /\ h[0] = <<>>
      /\ \A k \in 1 .. n : h[k] = SetValue(h[k - 1], Registered[k], values[Registered[k]])
  BY <1>2, Zenon DEF MapFold!IsHistory
<1> DEFINE S == {k \in 1 .. n : h[k] = Contents(k)}
<1>4. 1 \in S
  <2>1. h[1] = SetValue(<<>>, Global, values[Global])
    BY <1>3, RegisteredLevels
  <2>2. h[1] = [l \in {Global} |-> values[Global]]
    BY <2>1 DEF SetValue, Put
  <2>3. Seen(1) = {}
    BY RegisteredLevels, LevelsAssumption
  <2> QED BY <2>2, <2>3, RegisteredLevels
<1>5. ASSUME NEW k \in 2 .. n, k - 1 \in S
      PROVE  k \in S
  <2> DEFINE map == h[k - 1]
             level == Registered[k]
  <2>1. map = Contents(k - 1) /\ h[k] = SetValue(map, level, values[level])
    BY <1>3, <1>5
  <2>2. level \in Levels /\ level \notin Seen(k - 1) /\ level # Global
    BY RegisteredLevels, LevelsAssumption
  <2>3. Global \in DOMAIN map /\ map[Global] = values[Global]
    BY <2>1
  <2>4. Seen(k) = IF values[level] = values[Global] THEN Seen(k - 1)
                  ELSE Seen(k - 1) \cup {level}
    BY <2>2, RegisteredLevels
  <2> HIDE DEF Seen, map, level
  <2>5. CASE values[level] = values[Global]
    <3>1. h[k] = map
      BY <2>1, <2>3, <2>5 DEF SetValue
    <3> QED BY <2>1, <2>4, <2>5, <3>1
  <2>6. CASE values[level] # values[Global]
    <3>1. h[k] = Put(map, level, values[level])
      BY <2>1, <2>3, <2>6 DEF SetValue
    <3>2. Put(Contents(k - 1), level, values[level]) = Contents(k)
      BY <2>2, <2>4, <2>6 DEF Put
    <3> QED BY <2>1, <3>1, <3>2
  <2> QED BY <2>5, <2>6
<1>6. n \in S
  <2> HIDE DEF S
  <2> QED BY <1>4, <1>5, LevelInduction
<1>7. Seen(n) = {l \in Levels : values[l] # values[Global]}
  BY RegisteredLevels
<1> QED BY <1>1, <1>2, <1>6, <1>7

(* Looking a level up in its map gives the value that was configured.      *)
THEOREM MapsGiveBack ==
  ASSUME NEW values, NEW level \in AllLevels
  PROVE  GetConfig(BuildMap(values), level) = values[level]
<1> DEFINE D == {Global} \cup {l \in Levels : values[l] # values[Global]}
<1>1. BuildMap(values) = [l \in D |-> values[l]]
  BY BuildMapContents, Zenon
<1>2. CASE level \in D
  BY <1>1, <1>2 DEF GetConfig
<1>3. CASE level \notin D
  <2>1. values[level] = values[Global]
    BY <1>3 DEF AllLevels
  <2> QED BY <1>1, <1>3, <2>1 DEF GetConfig
<1> QED BY <1>2, <1>3

-----------------------------------------------------------------------------
(* After a merge nothing is left of what was configured before, although   *)
(* setting Level::Global sets every level on the way.                      *)
LEMMA CopyOneType ==
  ASSUME NEW conf, NEW base, NEW type \in Types,
         IsConfigurations(conf), IsConfigurations(base)
  PROVE  CopyFold!Folded(conf, Registered, base, type)[type] = base[type]
<1> DEFINE n == Len(Registered)
           Copied(k, l) == l = Global \/ \E i \in 1 .. k : Registered[i] = l
           Merged(k) == [l \in AllLevels |->
                           base[type][IF Copied(k, l) THEN l ELSE Global]]
<1>1. PICK h : /\ CopyFold!IsHistory(h, conf, Registered, base, type)
               /\ CopyFold!Folded(conf, Registered, base, type) = h[n]
  BY RegisteredLevels, CopyFold!FoldHistory
<1>2. /\ h[0] = conf
      /\ \A k \in 1 .. n :
           h[k] = Set(h[k - 1], Registered[k], type, base[type][Registered[k]])
  BY <1>1, Zenon DEF CopyFold!IsHistory
<1> DEFINE S == {k \in 1 .. n : DOMAIN h[k] = Types /\ h[k][type] = Merged(k)}
<1>3. DOMAIN conf = Types /\ n \in Nat \ {0} /\ 1 \in 1 .. n
  <2>1. n \in Nat \ {0} /\ 1 \in 1 .. n
    BY RegisteredLevels
  <2>2. conf = [t \in Types |-> conf[t]]
    BY DEF IsConfigurations
  <2> QED BY <2>1, <2>2
<1>4. 1 \in S
  <2>1. h[1] = Set(conf, Global, type, base[type][Global])
    BY <1>2, <1>3, RegisteredLevels
  <2>2. h[1] = [conf EXCEPT ![type] = [l \in AllLevels |-> base[type][Global]]]
    BY <2>1 DEF Set
  <2>3. Merged(1) = [l \in AllLevels |-> base[type][Global]]
    BY RegisteredLevels
  <2> HIDE DEF Merged
  <2> QED BY <1>3, <2>2, <2>3
<1>5. ASSUME NEW k \in 2 .. n, k - 1 \in S
      PROVE  k \in S
  <2> DEFINE c == h[k - 1]
             level == Registered[k]
  <2>1. DOMAIN c = Types /\ c[type] = Merged(k - 1)
    BY <1>5
  <2>2. h[k] = Set(c, level, type, base[type][level])
    BY <1>2
  <2>3. level \in Levels /\ level # Global /\ level \in AllLevels
    BY RegisteredLevels, LevelsAssumption DEF AllLevels
  <2>4. \A l : Copied(k, l) <=> Copied(k - 1, l) \/ l = level
    BY RegisteredLevels
  <2> HIDE DEF Copied, c, level
  <2>5. h[k] = [c EXCEPT ![type][level] = base[type][level]]
    BY <2>2, <2>3 DEF Set
  <2>6. h[k][type] = [Merged(k - 1) EXCEPT ![level] = base[type][level]]
    BY <2>1, <2>5
  <2>7. [Merged(k - 1) EXCEPT ![level] = base[type][level]] = Merged(k)
    BY <2>3, <2>4
  <2>8. DOMAIN h[k] = Types
    BY <2>1, <2>5
  <2> QED BY <2>6, <2>7, <2>8
<1>6. n \in S
  <2> HIDE DEF S
  <2> QED BY <1>4, <1>5, LevelInduction
<1>7. Merged(n) = [l \in AllLevels |-> base[type][l]]
  <2>1. \A l \in AllLevels : Copied(n, l)
    BY RegisteredLevels DEF AllLevels
  <2> HIDE DEF Copied
  <2> QED BY <2>1
<1> HIDE DEF Merged
<1>8. base[type] = [l \in AllLevels |-> base[type][l]]
  BY DEF IsConfigurations
<1> QED BY <1>1, <1>6, <1>7, <1>8

(* A merge of configurations that set every value leaves nothing of the    *)
(* configurations before it.                                               *)
THEOREM MergeReplaces ==
  ASSUME NEW conf, NEW base, IsConfigurations(conf), IsConfigurations(base)
  PROVE  SetFromBase(conf, base) = base
<1>1. SetFromBase(conf, base) =
        [type \in Types |-> CopyFold!Folded(conf, Registered, base, type)[type]]
  BY Zenon DEF SetFromBase, FoldLeft, MapThenFoldSet, Max,
               CopyFold!Folded, CopyFold!Max
<1>2. \A type \in Types :
        CopyFold!Folded(conf, Registered, base, type)[type] = base[type]
  BY CopyOneType
<1>3. base = [type \in Types |-> base[type]]
  BY Zenon DEF IsConfigurations
<1> QED BY <1>1, <1>2, <1>3, Zenon
=============================================================================
