--------------------------- MODULE InputCacheProofs ---------------------------
(* What startups take from their device cache, for every number of startups,  *)
(* nodes, devices and changes of them.                                        *)
EXTENDS InputCache, SequenceTheorems, TLAPS

RunType == [kind : Kinds, stage : Stages, lines : Seq(Lines), chosen : Seq(Paths),
            offered : SUBSET [path : Paths, device : Devices], prompted : BOOLEAN,
            used : Seq(Lines), opened : Seq(Devices), steady : BOOLEAN, unmoved : BOOLEAN,
            lost : BOOLEAN]

Accepted == {line \in Lines : WasPicked(line)}

\* The startup chose the path, and while it is unmoved what is behind it is what
\* it picked.
PickedFor(x, path) ==
  \E p \in picked : p.path = path /\ (x.unmoved => p.device = Behind(path))

Choosing == {"check", "repair", "revalidate", "render"}

\* The lines fit the devices as they are now.
Fitting(lines, needsUinput) == Valid(PathsOf(lines), needsUinput) /\ Matches(lines)

\* Of the record x of a startup: its lines were picked; its prompt lists what is
\* there until devices move, and what it chose was picked; from when it accepts
\* or renders lines they are one selection; and while it is steady its next
\* test of them succeeds.
RunSound(x) ==
  /\ x.lines \in Seq(Accepted) /\ x.used \in Seq(Accepted)
  /\ x.stage = "prompt" /\ x.unmoved => \A c \in x.offered : c.device = Behind(c.path)
  /\ x.stage \in Choosing => \A i \in DOMAIN x.chosen : PickedFor(x, x.chosen[i])
  /\ x.stage \in {"truncate", "write"} => x.lines \in selections
  /\ x.stage \in {"validate", "compare", "open", "running"} /\ ~x.prompted /\ ~torn =>
       x.lines \in selections
  /\ x.steady =>
       /\ x.stage \in {"validate", "compare"} => Fitting(x.lines, x.kind.uinput)
       /\ x.stage \in {"render", "truncate", "write"} => Valid(x.chosen, x.kind.uinput)
       /\ x.stage \in {"truncate", "write"} => x.chosen = PathsOf(x.lines) /\ Matches(x.lines)
       /\ x.stage = "list" => x.kind.reset

CacheType == [is : {"cache"}, output : BOOLEAN, lines : Seq(Accepted)]

\* The same of what the file holds.
FileSound(f) ==
  /\ f \in {NoFile, Empty, Garbage} \/ f \in CacheType
  /\ f.is = "cache" /\ ~torn => f.lines \in selections
  /\ settled => f.is = "cache" /\ Fitting(f.lines, f.output)

HostSound ==
  /\ plugged \in [Nodes -> Devices \cup {NoDevice}] /\ readable \subseteq Nodes
  /\ uinput \in BOOLEAN /\ changes \in 0..MaxChanges

Picks ==
  /\ picked \subseteq [path : Paths, device : Devices] /\ drifted \subseteq Lines
  /\ selections \subseteq Seq(Lines) /\ torn \in BOOLEAN

IInv ==
  /\ HostSound /\ Picks
  /\ \A f : f = file => FileSound(f)
  /\ run \in [Runs -> RunType]
  /\ \A r \in Runs : \A x : x = run[r] => RunSound(x)

-----------------------------------------------------------------------------
(* Paths and lines.                                                          *)

LEMMA Resolved ==
  ASSUME NEW path
  PROVE  Resolve(path) \in Nodes \cup {NoNode}
  <1> DEFINE at == {n \in Nodes : plugged[n] \in DOMAIN LinkOf /\ LinkOf[plugged[n]] = path}
  <1>1. at # {} => (CHOOSE n \in at : TRUE) \in at
    OBVIOUS
  <1> QED
    BY <1>1 DEF Resolve

LEMMA BehindIsDevice ==
  ASSUME HostSound, NEW path
  PROVE  /\ Behind(path) \in Devices \cup {NoDevice}
         /\ Readable(path) => Behind(path) \in Devices /\ HasIdentity(path)
  <1>1. Behind(path) \in Devices \cup {NoDevice}
    BY Resolved DEF HostSound, Behind
  <1> QED
    BY <1>1, CacheAssumption DEF Readable, HasIdentity, HostSound

LEMMA LineIsLine ==
  ASSUME HostSound, NEW path \in Paths, HasIdentity(path)
  PROVE  Line(path) \in Lines
  BY Resolved, BehindIsDevice DEF Line, Lines, Identity, HasIdentity

LEMMA NowIsLines ==
  ASSUME HostSound, NEW paths \in Seq(Paths), \A i \in DOMAIN paths : HasIdentity(paths[i])
  PROVE  /\ Now(paths) \in Seq(Lines) /\ PathsOf(Now(paths)) = paths
         /\ Len(Now(paths)) = Len(paths) /\ \A i \in 1..Len(paths) : Now(paths)[i] = Line(paths[i])
         /\ Matches(Now(paths))
  <1>1. DOMAIN Now(paths) = 1..Len(paths) /\ \A i \in 1..Len(paths) : Now(paths)[i] = Line(paths[i])
    BY DEF Now
  <1>2. \A i \in 1..Len(paths) : Line(paths[i]) \in Lines /\ Line(paths[i]).path = paths[i]
                                 /\ Line(paths[i]).identity = Identity(paths[i])
    BY LineIsLine DEF Line
  <1>3. Now(paths) \in Seq(Lines)
    BY <1>1, <1>2 DEF Now
  <1>4. Len(Now(paths)) = Len(paths)
    BY <1>1, <1>3
  <1>5. PathsOf(Now(paths)) = paths
    BY <1>1, <1>2 DEF PathsOf
  <1>6. Matches(Now(paths))
    BY <1>1, <1>2 DEF Matches
  <1> QED
    BY <1>1, <1>3, <1>4, <1>5, <1>6

\* Cached lines that match are the lines of now.
LEMMA MatchingIsNow ==
  ASSUME HostSound, NEW lines \in Seq(Lines), Matches(lines)
  PROVE  Now(PathsOf(lines)) = lines
  <1>1. DOMAIN lines = 1..Len(lines) /\ DOMAIN Now(PathsOf(lines)) = 1..Len(lines)
    BY DEF Now, PathsOf
  <1>2. \A i \in 1..Len(lines) : Now(PathsOf(lines))[i] = lines[i]
    <2> SUFFICES ASSUME NEW i \in 1..Len(lines)
                 PROVE  Now(PathsOf(lines))[i] = lines[i]
      OBVIOUS
    <2>1. lines[i] \in Lines
      OBVIOUS
    <2>2. Now(PathsOf(lines))[i] = Line(lines[i].path)
      BY DEF Now, PathsOf
    <2>3. Identity(lines[i].path) = lines[i].identity
      BY DEF Matches
    <2> QED
      BY <2>1, <2>2, <2>3 DEF Line, Lines
  <1>3. lines = [i \in 1..Len(lines) |-> lines[i]]
    OBVIOUS
  <1>4. Now(PathsOf(lines)) = [i \in 1..Len(lines) |-> Now(PathsOf(lines))[i]]
    BY <1>1 DEF Now
  <1> QED
    BY <1>2, <1>3, <1>4

LEMMA PathsArePaths ==
  ASSUME NEW lines \in Seq(Lines)
  PROVE  PathsOf(lines) \in Seq(Paths)
  <1>1. \A line \in Lines : line.path \in Paths
    BY DEF Lines
  <1> QED
    BY <1>1 DEF PathsOf

-----------------------------------------------------------------------------
(* While no device comes or goes, and permissions are only given, what fits  *)
(* goes on to fit.                                                           *)

Holding == plugged' = plugged /\ readable \subseteq readable' /\ (uinput => uinput')

Recorded ==
  /\ picked \subseteq picked' /\ drifted \subseteq drifted'
  /\ selections \subseteq selections' /\ (torn => torn')

LEMMA AcceptedLines ==
  ASSUME NEW lines \in Seq(Accepted)
  PROVE  lines \in Seq(Lines)
  <1>1. \A i \in 1..Len(lines) : lines[i] \in Lines
    BY DEF Accepted
  <1>2. lines = [i \in 1..Len(lines) |-> lines[i]]
    OBVIOUS
  <1> QED
    BY <1>1, <1>2

LEMMA AcceptedOn ==
  ASSUME Recorded
  PROVE  /\ Accepted \subseteq Accepted'
         /\ \A lines \in Seq(Accepted) : lines \in Seq(Accepted')
  <1>1. Accepted \subseteq Accepted'
    BY DEF Recorded, Accepted, WasPicked
  <1>2. ASSUME NEW lines \in Seq(Accepted)
        PROVE  lines \in Seq(Accepted')
    <2>1. \A i \in 1..Len(lines) : lines[i] \in Accepted'
      BY <1>1
    <2>2. lines = [i \in 1..Len(lines) |-> lines[i]]
      OBVIOUS
    <2> QED
      BY <2>1, <2>2
  <1> QED
    BY <1>1, <1>2

LEMMA FitsOn ==
  ASSUME Holding
  PROVE  /\ \A paths, needs : Valid(paths, needs) => Valid(paths, needs)'
         /\ \A lines : Matches(lines) => Matches(lines)'
         /\ \A lines, needs : Fitting(lines, needs) => Fitting(lines, needs)'
         /\ \A path : Behind(path)' = Behind(path)
  <1>1. \A path : Resolve(path)' = Resolve(path) /\ Behind(path)' = Behind(path)
    BY DEF Holding, Resolve, Behind
  <1>2. \A path : /\ Readable(path) => Readable(path)'
                  /\ HasIdentity(path)' = HasIdentity(path) /\ Identity(path)' = Identity(path)
    BY <1>1 DEF Holding, Readable, HasIdentity, Identity
  <1>3. \A paths, needs : Valid(paths, needs) => Valid(paths, needs)'
    BY <1>1, <1>2 DEF Holding, Valid
  <1>4. \A lines : Matches(lines) => Matches(lines)'
    BY <1>2 DEF Matches
  <1> QED
    BY <1>1, <1>3, <1>4 DEF Fitting

LEMMA PickedOn ==
  ASSUME Recorded, Holding, NEW x, NEW path, PickedFor(x, path)
  PROVE  PickedFor(x, path)'
  BY FitsOn DEF Recorded, PickedFor

LEMMA RunFitsOn ==
  ASSUME Recorded, NEW x \in RunType, RunSound(x), Holding
  PROVE  RunSound(x)'
  <1>1. x.lines \in Seq(Accepted') /\ x.used \in Seq(Accepted')
    BY AcceptedOn DEF RunSound
  <1>2. x.stage = "prompt" /\ x.unmoved => \A c \in x.offered : c.device = Behind(c.path)'
    BY FitsOn DEF RunSound
  <1>3. x.stage \in Choosing => \A i \in DOMAIN x.chosen : PickedFor(x, x.chosen[i])'
    BY PickedOn DEF RunSound
  <1> QED
    BY <1>1, <1>2, <1>3, FitsOn DEF Recorded, RunSound

LEMMA NoCacheInIt ==
  /\ NoFile.is # "cache" /\ Empty.is # "cache" /\ Garbage.is # "cache"
  /\ Empty # Garbage
  BY DEF NoFile, Empty, Garbage

\* What a step has to be shown of, other than the startup that takes it.
Rest == HostSound' /\ Picks' /\ (\A f : f = file' => FileSound(f)')

LEMMA FileStays ==
  ASSUME IInv, UNCHANGED file, Holding, Recorded, settled' => settled
  PROVE  \A f : f = file' => FileSound(f)'
  <1> SUFFICES ASSUME NEW f, f = file
               PROVE  FileSound(f)'
    OBVIOUS
  <1>1. FileSound(f)
    BY DEF IInv
  <1>2. f \in CacheType => f \in CacheType'
    BY AcceptedOn DEF CacheType
  <1> QED
    BY <1>1, <1>2, FitsOn DEF FileSound, Recorded

LEMMA OneRuns ==
  ASSUME IInv, NEW r \in Runs, NEW y \in RunType, run' = [run EXCEPT ![r] = y],
         RunSound(y)', Holding, Recorded, Rest
  PROVE  IInv'
  <1>1. run' \in [Runs -> RunType]
    BY DEF IInv
  <1>2. ASSUME NEW q \in Runs, NEW x, x = run'[q]
        PROVE  RunSound(x)'
    <2>1. CASE q = r
      BY <1>2, <2>1 DEF IInv
    <2>2. CASE q # r
      <3>1. x = run[q] /\ x \in RunType /\ RunSound(x)
        BY <1>2, <2>2 DEF IInv
      <3> QED
        BY <3>1, RunFitsOn
    <2> QED
      BY <2>1, <2>2
  <1> QED
    BY <1>1, <1>2 DEF IInv, Rest

\* A step that only changes the record of a startup.
LEMMA Moves ==
  ASSUME IInv, NEW r \in Runs, NEW y \in RunType, run' = [run EXCEPT ![r] = y],
         RunSound(y), UNCHANGED <<host, file, ghosts>>
  PROVE  IInv'
  <1>1. Holding /\ Recorded
    BY DEF Holding, Recorded, host, ghosts
  <1>2. RunSound(y)'
    BY <1>1, RunFitsOn
  <1>3. Rest
    BY <1>1, FileStays DEF Rest, IInv, HostSound, Picks, host, ghosts
  <1> QED
    BY <1>1, <1>2, <1>3, OneRuns

\* From one stage to another with nothing to show.
Leads(from, to) == to = "failed" \/ (to \in {"repair", "revalidate"} /\ from \in {"check", "repair"})

LEMMA StageMoves ==
  ASSUME IInv, NEW r \in Runs, NEW x \in RunType, x = run[r], NEW s \in Stages, To(r, s)
  PROVE  /\ RunSound(x)
         /\ run' = [run EXCEPT ![r] = [x EXCEPT !.stage = s]] /\ [x EXCEPT !.stage = s] \in RunType
         /\ Leads(x.stage, s) => RunSound([x EXCEPT !.stage = s])
  <1> DEFINE y == [x EXCEPT !.stage = s]
  <1>1. RunSound(x)
    BY DEF IInv
  <1>2. run' = [run EXCEPT ![r] = y] /\ y \in RunType
    BY DEF To, IInv, RunType
  <1>3. /\ y.stage = s /\ y.lines = x.lines /\ y.used = x.used /\ y.prompted = x.prompted
        /\ y.steady = x.steady /\ y.kind = x.kind /\ y.chosen = x.chosen /\ y.unmoved = x.unmoved
    BY DEF RunType
  <1>4. Leads(x.stage, s) => RunSound(y)
    <2> HIDE DEF y
    <2> QED
      BY <1>1, <1>3 DEF RunSound, Leads, Choosing, PickedFor
  <1> QED
    BY <1>1, <1>2, <1>4

LEMMA RefuseStep ==
  ASSUME IInv, NEW r \in Runs, Refuse(r) \/ Cancel(r) \/ Confirm(r)
  PROVE  IInv'
  <1>1. PICK x \in RunType : x = run[r]
    BY DEF IInv
  <1>2. PICK s \in Stages : To(r, s) /\ Leads(x.stage, s)
    <2>1. CASE Refuse(r) \/ Cancel(r)
      BY <2>1 DEF Refuse, Cancel, Leads, Stages
    <2>2. CASE Confirm(r)
      <3>1. x.stage = "check" /\ (To(r, "repair") \/ To(r, "revalidate"))
        BY <1>1, <2>2 DEF Confirm, In
      <3> QED
        BY <3>1 DEF Leads, Stages
    <2> QED
      BY <2>1, <2>2
  <1>3. UNCHANGED <<host, file, ghosts>>
    BY DEF Refuse, Cancel, Confirm
  <1>4. PICK y : y = [x EXCEPT !.stage = s]
    OBVIOUS
  <1>5. y \in RunType /\ RunSound(y) /\ run' = [run EXCEPT ![r] = y]
    BY <1>1, <1>2, <1>4, StageMoves
  <1> QED
    BY <1>3, <1>5, Moves

LEMMA ReadStep ==
  ASSUME IInv, NEW r \in Runs, Read(r)
  PROVE  IInv'
  <1>1. PICK x \in RunType : x = run[r]
    BY DEF IInv
  <1>2. PICK f : f = file
    OBVIOUS
  <1>3. RunSound(x) /\ FileSound(f)
    BY <1>1, <1>2 DEF IInv
  <1> DEFINE usable == f.is = "cache" /\ f.output = x.kind.uinput
             y == [x EXCEPT !.stage = IF usable THEN "validate" ELSE "list",
                            !.lines = IF usable THEN f.lines ELSE <<>>,
                            !.steady = usable /\ settled]
  <1>4. run' = [run EXCEPT ![r] = y]
    BY <1>1, <1>2 DEF Read, IInv
  <1>5. <<>> \in Seq(Lines) /\ <<>> \in Seq(Accepted)
    OBVIOUS
  <1>6. usable => f.lines \in Seq(Accepted) /\ f.lines \in Seq(Lines)
    <2>1. usable => f \in CacheType
      BY <1>3, NoCacheInIt DEF FileSound
    <2>2. usable => f.lines \in Seq(Accepted)
      BY <2>1 DEF CacheType
    <2> QED
      BY <2>2, AcceptedLines
  <1>7. y \in RunType
    <2> DEFINE stage == IF usable THEN "validate" ELSE "list"
               lines == IF usable THEN f.lines ELSE <<>>
               steady == usable /\ settled
    <2>1. stage \in Stages
      BY DEF Stages
    <2>2. lines \in Seq(Lines)
      BY <1>5, <1>6
    <2>3. steady \in BOOLEAN
      BY <1>3 DEF IInv, FileSound
    <2> HIDE DEF usable, stage, lines, steady
    <2>4. [x EXCEPT !.stage = stage, !.lines = lines, !.steady = steady] \in RunType
      BY <2>1, <2>2, <2>3 DEF RunType
    <2> QED
      BY <2>4 DEF stage, lines, steady
  <1>8. RunSound(y)
    <2>1. /\ y.used = x.used /\ y.prompted = x.prompted /\ y.kind = x.kind /\ y.chosen = x.chosen
          /\ y.steady = (usable /\ settled)
          /\ y.stage = (IF usable THEN "validate" ELSE "list")
          /\ y.lines = (IF usable THEN f.lines ELSE <<>>)
      BY DEF RunType
    <2> HIDE DEF y
    <2>2. CASE usable
      BY <1>3, <1>6, <2>1, <2>2 DEF RunSound, FileSound, Choosing
    <2>3. CASE ~usable
      BY <1>3, <1>5, <2>1, <2>3 DEF RunSound, Choosing
    <2> QED
      BY <2>2, <2>3
  <1> QED
    BY <1>4, <1>7, <1>8, Moves DEF Read

LEMMA ValidateStep ==
  ASSUME IInv, NEW r \in Runs, Validate(r)
  PROVE  IInv'
  <1>1. PICK x \in RunType : x = run[r]
    BY DEF IInv
  <1> DEFINE s == IF Valid(PathsOf(x.lines), x.kind.uinput) THEN "compare" ELSE "list"
             y == [x EXCEPT !.stage = s]
  <1>2. To(r, s) /\ x.stage = "validate" /\ s \in Stages
    BY <1>1 DEF Validate, In, Stages
  <1>3. RunSound(x) /\ run' = [run EXCEPT ![r] = y] /\ y \in RunType
    BY <1>1, <1>2, StageMoves
  <1>4. RunSound(y)
    <2>1. /\ y.stage = s /\ y.lines = x.lines /\ y.used = x.used /\ y.prompted = x.prompted
          /\ y.steady = x.steady /\ y.kind = x.kind /\ y.chosen = x.chosen
      BY DEF RunType
    <2> QED
      BY <1>2, <1>3, <2>1 DEF RunSound, Fitting, Choosing
  <1> QED
    BY <1>3, <1>4, Moves DEF Validate

LEMMA CompareStep ==
  ASSUME IInv, NEW r \in Runs, Compare(r)
  PROVE  IInv'
  <1>1. PICK x \in RunType : x = run[r]
    BY DEF IInv
  <1>2. RunSound(x) /\ x.stage = "compare" /\ UNCHANGED <<host, file, ghosts>>
    BY <1>1 DEF IInv, Compare, In
  <1>3. CASE Matches(x.lines)
    <2> DEFINE paths == PathsOf(x.lines)
               y == [x EXCEPT !.stage = "open", !.chosen = paths, !.used = Now(paths)]
    <2>1. run' = [run EXCEPT ![r] = y]
      BY <1>1, <1>3 DEF Compare, IInv
    <2>2. x.lines \in Seq(Lines) /\ Now(paths) = x.lines
      BY <1>3, MatchingIsNow DEF RunType, IInv
    <2>3. paths \in Seq(Paths)
      BY <2>2, PathsArePaths
    <2>4. y \in RunType
      BY <2>2, <2>3 DEF RunType, Stages
    <2>5. RunSound(y)
      <3>1. /\ y.stage = "open" /\ y.lines = x.lines /\ y.used = x.lines /\ y.prompted = x.prompted
        BY <2>2 DEF RunType
      <3> QED
        BY <1>2, <3>1 DEF RunSound, Choosing
    <2> QED
      BY <1>2, <2>1, <2>4, <2>5, Moves
  <1>4. CASE ~Matches(x.lines)
    <2> DEFINE y == [x EXCEPT !.stage = "list"]
    <2>1. run' = [run EXCEPT ![r] = y] /\ y \in RunType
      BY <1>1, <1>4 DEF Compare, IInv, RunType, Stages
    <2>2. RunSound(y)
      <3>1. /\ y.stage = "list" /\ y.lines = x.lines /\ y.used = x.used /\ y.steady = x.steady
        BY DEF RunType
      <3> QED
        BY <1>2, <1>4, <3>1 DEF RunSound, Fitting, Choosing
    <2> QED
      BY <1>2, <2>1, <2>2, Moves
  <1> QED
    BY <1>3, <1>4

LEMMA CandidatesHavePaths ==
  ASSUME HostSound
  PROVE  /\ Candidates \subseteq [path : Paths, device : Devices]
         /\ \A c \in Candidates : c.device = Behind(c.path)
  <1> SUFFICES ASSUME NEW n \in Nodes, plugged[n] \notin {NoDevice, Own}
               PROVE  /\ StablePath(n) \in Paths /\ plugged[n] \in Devices
                      /\ plugged[n] = Behind(StablePath(n))
    BY DEF Candidates
  <1>1. StablePath(n) \in Paths
    BY DEF StablePath, Paths, Links
  <1>2. Resolve(StablePath(n)) = n
    <2>1. Resolve(n) = n
      BY DEF Resolve
    <2> QED
      BY <2>1 DEF StablePath
  <1>3. n # NoNode
    BY CacheAssumption
  <1> QED
    BY <1>1, <1>2, <1>3 DEF HostSound, Behind

LEMMA PromptSteps ==
  ASSUME IInv, NEW r \in Runs, List(r) \/ Select(r)
  PROVE  IInv'
  <1>1. PICK x \in RunType : x = run[r]
    BY DEF IInv
  <1>2. RunSound(x)
    BY <1>1 DEF IInv
  <1>3. CASE List(r)
    <2> DEFINE y == [x EXCEPT !.stage = "prompt", !.offered = Candidates, !.prompted = TRUE,
                         !.unmoved = TRUE]
    <2>1. run' = [run EXCEPT ![r] = y]
      BY <1>1, <1>3 DEF List, IInv
    <2>2. y \in RunType
      BY CandidatesHavePaths DEF RunType, Stages, IInv
    <2>3. RunSound(y)
      <3>1. y.stage = "prompt" /\ y.lines = x.lines /\ y.used = x.used /\ y.offered = Candidates
        BY DEF RunType
      <3>2. \A c \in Candidates : c.device = Behind(c.path)
        BY CandidatesHavePaths DEF IInv
      <3> QED
        BY <1>2, <3>1, <3>2 DEF RunSound, Choosing
    <2> QED
      BY <1>3, <2>1, <2>2, <2>3, Moves DEF List
  <1>4. CASE Select(r)
    <2>1. x.stage = "prompt" /\ UNCHANGED <<host, file, settled, torn, drifted, selections>>
      BY <1>1, <1>4 DEF Select, In
    <2>2. PICK n \in 1..2 : \E entries \in [1..n -> x.offered] :
            /\ run' = [run EXCEPT ![r].stage = "check", ![r].chosen = PathsOf(entries)]
            /\ picked' = picked \cup {entries[i] : i \in 1..n}
      BY <1>1, <1>4 DEF Select
    <2>3. PICK entries \in [1..n -> x.offered] :
            /\ run' = [run EXCEPT ![r].stage = "check", ![r].chosen = PathsOf(entries)]
            /\ picked' = picked \cup {entries[i] : i \in 1..n}
      BY <2>2
    <2>4. PICK y : y = [x EXCEPT !.stage = "check", !.chosen = PathsOf(entries)]
      OBVIOUS
    <2>5. run' = [run EXCEPT ![r] = y]
      BY <1>1, <2>3, <2>4 DEF IInv
    <2>6. \A i \in 1..n : entries[i] \in [path : Paths, device : Devices]
      BY DEF RunType
    <2>7. /\ PathsOf(entries) \in Seq(Paths) /\ DOMAIN PathsOf(entries) = 1..n
          /\ \A i \in 1..n : PathsOf(entries)[i] = entries[i].path
      BY <2>6 DEF PathsOf
    <2>8. /\ y \in RunType /\ y.stage = "check" /\ y.lines = x.lines /\ y.used = x.used
          /\ y.chosen = PathsOf(entries) /\ y.unmoved = x.unmoved
      BY <2>4, <2>7 DEF RunType, Stages
    <2>9. Holding /\ Recorded
      BY <2>1, <2>3 DEF Holding, Recorded, host
    <2>10. RunSound(y)'
      <3>1. RunSound(x)'
        BY <1>2, <2>9, RunFitsOn
      <3>2. ASSUME NEW i \in 1..n
            PROVE  PickedFor(y, entries[i].path)'
        <4>1. entries[i] \in x.offered /\ entries[i] \in picked'
          BY <2>3
        <4>2. x.unmoved => entries[i].device = Behind(entries[i].path)
          BY <1>2, <2>1, <4>1 DEF RunSound
        <4>3. Behind(entries[i].path)' = Behind(entries[i].path)
          BY <2>9, FitsOn
        <4> QED
          BY <2>8, <4>1, <4>2, <4>3 DEF PickedFor
      <3>3. \A i \in DOMAIN y.chosen : PickedFor(y, y.chosen[i])'
        BY <2>7, <2>8, <3>2
      <3> QED
        BY <2>8, <3>1, <3>3 DEF RunSound
    <2>11. Rest
      <3>1. \A f : f = file' => FileSound(f)'
        BY <2>1, <2>9, FileStays
      <3>2. Picks'
        BY <2>1, <2>3, <2>6 DEF IInv, Picks
      <3> QED
        BY <2>1, <3>1, <3>2 DEF Rest, IInv, HostSound, host
    <2> QED
      BY <2>5, <2>8, <2>9, <2>10, <2>11, OneRuns
  <1> QED
    BY <1>3, <1>4

LEMMA RevalidateStep ==
  ASSUME IInv, NEW r \in Runs, Revalidate(r)
  PROVE  IInv'
  <1>1. PICK x \in RunType : x = run[r]
    BY DEF IInv
  <1>2. RunSound(x) /\ x.stage = "revalidate" /\ UNCHANGED <<host, file, ghosts>>
    BY <1>1 DEF IInv, Revalidate, In
  <1> DEFINE y == IF Valid(x.chosen, x.kind.uinput)
                  THEN [x EXCEPT !.stage = "render", !.steady = TRUE]
                  ELSE [x EXCEPT !.stage = "failed"]
  <1>3. run' = [run EXCEPT ![r] = y]
    BY <1>1 DEF Revalidate, IInv
  <1>4. y \in RunType
    BY DEF RunType, Stages
  <1>5. RunSound(y)
    <2>1. CASE Valid(x.chosen, x.kind.uinput)
      <3>1. /\ y.stage = "render" /\ y.lines = x.lines /\ y.used = x.used
            /\ y.chosen = x.chosen /\ y.kind = x.kind /\ y.unmoved = x.unmoved
        BY <2>1 DEF RunType
      <3> HIDE DEF y
      <3> QED
        BY <1>2, <2>1, <3>1 DEF RunSound, Choosing, PickedFor
    <2>2. CASE ~Valid(x.chosen, x.kind.uinput)
      <3>1. y.stage = "failed" /\ y.lines = x.lines /\ y.used = x.used
        BY <2>2 DEF RunType
      <3> QED
        BY <1>2, <3>1 DEF RunSound, Choosing
    <2> QED
      BY <2>1, <2>2
  <1> QED
    BY <1>2, <1>3, <1>4, <1>5, Moves

LEMMA OpenStep ==
  ASSUME IInv, NEW r \in Runs, Open(r)
  PROVE  IInv'
  <1>1. PICK x \in RunType : x = run[r]
    BY DEF IInv
  <1>2. RunSound(x) /\ x.stage = "open" /\ UNCHANGED <<host, file, ghosts>>
    BY <1>1 DEF IInv, Open, In
  <1> DEFINE paths == x.chosen
             all == \A i \in DOMAIN paths : Readable(paths[i])
             y == IF all
                  THEN [x EXCEPT !.stage = "running", !.opened = [i \in DOMAIN paths |-> Behind(paths[i])]]
                  ELSE [x EXCEPT !.stage = "failed"]
  <1>3. run' = [run EXCEPT ![r] = y]
    BY <1>1 DEF Open, IInv
  <1>4. all => [i \in DOMAIN paths |-> Behind(paths[i])] \in Seq(Devices)
    <2>1. paths \in Seq(Paths)
      BY DEF RunType
    <2>2. all => \A i \in DOMAIN paths : Behind(paths[i]) \in Devices
      BY BehindIsDevice DEF IInv
    <2> QED
      BY <2>1, <2>2
  <1>5. y \in RunType
    BY <1>4 DEF RunType, Stages
  <1>6. RunSound(y)
    <2>1. y.stage \in {"running", "failed"} /\ y.lines = x.lines /\ y.used = x.used /\ y.prompted = x.prompted
      BY DEF RunType
    <2> HIDE DEF y
    <2> QED
      BY <1>2, <2>1 DEF RunSound, Choosing
  <1> QED
    BY <1>2, <1>3, <1>5, <1>6, Moves

LEMMA RepairStep ==
  ASSUME IInv, NEW r \in Runs, Repair(r)
  PROVE  IInv'
  <1>1. PICK x \in RunType : x = run[r]
    BY DEF IInv
  <1>2. PICK i \in 0..Len(x.chosen) :
          /\ \A j \in 1..i : Behind(x.chosen[j]) # NoDevice
          /\ readable' = readable \cup {Resolve(x.chosen[j]) : j \in 1..i}
          /\ \/ uinput' = (uinput \/ x.kind.uinput) /\ To(r, "revalidate")
             \/ UNCHANGED uinput /\ To(r, "failed")
    BY <1>1 DEF Repair
  <1>3. x.stage = "repair" /\ UNCHANGED <<plugged, changes, file, settled, torn, picked, drifted, selections>>
    BY <1>1 DEF Repair, ghosts, In
  <1>4. readable' \subseteq Nodes
    <2>1. \A j \in 1..i : Resolve(x.chosen[j]) \in Nodes
      BY <1>2, Resolved DEF Behind
    <2> QED
      BY <1>2, <2>1 DEF IInv, HostSound
  <1>5. uinput' \in BOOLEAN /\ Holding /\ Recorded
    <2>1. x.kind.uinput \in BOOLEAN
      BY CacheAssumption DEF RunType
    <2> QED
      BY <1>2, <1>3, <2>1 DEF Holding, Recorded, IInv, HostSound
  <1>6. PICK s \in {"revalidate", "failed"} : To(r, s)
    BY <1>2
  <1>7. s \in Stages /\ Leads(x.stage, s)
    BY <1>3 DEF Stages, Leads
  <1>8. PICK y : y = [x EXCEPT !.stage = s]
    OBVIOUS
  <1>9. run' = [run EXCEPT ![r] = y] /\ y \in RunType /\ RunSound(y)
    BY <1>1, <1>6, <1>7, <1>8, StageMoves
  <1>10. RunSound(y)'
    BY <1>5, <1>9, RunFitsOn
  <1>11. Rest
    BY <1>3, <1>4, <1>5, FileStays DEF Rest, IInv, HostSound, Picks
  <1> QED
    BY <1>5, <1>9, <1>10, <1>11, OneRuns

LEMMA RenderStep ==
  ASSUME IInv, NEW r \in Runs, Render(r)
  PROVE  IInv'
  <1>1. PICK x \in RunType : x = run[r]
    BY DEF IInv
  <1> DEFINE paths == x.chosen
  <1>2. RunSound(x) /\ x.stage = "render" /\ UNCHANGED <<host, file, settled, torn>>
    BY <1>1 DEF IInv, Render, In
  <1>3. CASE \A i \in DOMAIN paths : HasIdentity(paths[i])
    <2>1. PICK y : y = [x EXCEPT !.stage = "truncate", !.lines = Now(paths), !.used = Now(paths)]
      OBVIOUS
    <2>2. /\ run' = [run EXCEPT ![r] = y]
          /\ drifted' = drifted \cup Drifted(r, Now(paths)) /\ UNCHANGED picked
          /\ selections' = selections \cup {Now(paths)}
      BY <1>1, <1>3, <2>1 DEF Render, IInv
    <2>3. paths \in Seq(Paths)
      BY DEF RunType
    <2>4. /\ Now(paths) \in Seq(Lines) /\ PathsOf(Now(paths)) = paths /\ Matches(Now(paths))
          /\ Len(Now(paths)) = Len(paths) /\ \A i \in 1..Len(paths) : Now(paths)[i] = Line(paths[i])
      BY <1>3, <2>3, NowIsLines DEF IInv
    <2>5. Drifted(r, Now(paths)) \subseteq Lines
      BY <2>4 DEF Drifted
    <2>6. y \in RunType
      BY <2>1, <2>4 DEF RunType, Stages
    <2>7. Holding /\ Recorded
      BY <1>2, <2>2 DEF Holding, Recorded, host
    <2>8. RunSound(y)'
      <3>1. /\ y.stage = "truncate" /\ y.lines = Now(paths) /\ y.used = Now(paths)
            /\ y.chosen = paths /\ y.kind = x.kind /\ y.steady = x.steady
        BY <2>1 DEF RunType
      <3>2. y.lines \in Seq(Accepted') /\ y.lines \in selections'
        <4>1. ASSUME NEW i \in 1..Len(paths)
              PROVE  Now(paths)[i] \in Accepted'
          <5>1. PICK p \in picked : p.path = paths[i] /\ (x.unmoved => p.device = Behind(paths[i]))
            BY <1>2, <2>3 DEF RunSound, Choosing, PickedFor
          <5>2. /\ Now(paths)[i] \in Lines /\ Now(paths)[i].path = paths[i]
                /\ Now(paths)[i].identity.device = Behind(paths[i])
            <6>1. Now(paths)[i] = Line(paths[i])
              BY <2>4
            <6> QED
              BY <2>4, <6>1 DEF Line, Identity
          <5>3. x.unmoved \/ Now(paths)[i] \in drifted'
            BY <1>1, <2>2, <2>4 DEF Drifted
          <5> QED
            BY <2>2, <5>1, <5>2, <5>3 DEF Accepted, WasPicked
        <4>2. Now(paths) = [i \in 1..Len(paths) |-> Now(paths)[i]]
          BY <2>4
        <4>3. Now(paths) \in Seq(Accepted')
          BY <2>3, <4>1, <4>2
        <4> QED
          BY <2>2, <3>1, <4>3
      <3>3. y.chosen = PathsOf(y.lines) /\ Matches(y.lines)
        BY <2>4, <3>1
      <3>4. PathsOf(y.lines)' = PathsOf(y.lines)
        BY DEF PathsOf
      <3>5. y.steady => Valid(y.chosen, y.kind.uinput)
        BY <1>2, <3>1 DEF RunSound, Choosing
      <3> QED
        BY <2>7, <3>1, <3>2, <3>3, <3>4, <3>5, FitsOn DEF RunSound, Choosing
    <2>9. Rest
      <3>1. \A f : f = file' => FileSound(f)'
        BY <1>2, <2>7, FileStays
      <3>2. Picks'
        BY <1>2, <2>2, <2>4, <2>5 DEF IInv, Picks
      <3>3. HostSound'
        BY <1>2 DEF IInv, HostSound, host
      <3> QED
        BY <3>1, <3>2, <3>3 DEF Rest
    <2> QED
      BY <2>2, <2>6, <2>7, <2>8, <2>9, OneRuns
  <1>4. CASE ~\A i \in DOMAIN paths : HasIdentity(paths[i])
    <2>1. To(r, "failed") /\ UNCHANGED <<host, file, ghosts>>
      BY <1>1, <1>2, <1>4 DEF Render, ghosts
    <2>2. "failed" \in Stages /\ Leads(x.stage, "failed")
      BY DEF Stages, Leads
    <2> QED
      BY <1>1, <2>1, <2>2, StageMoves, Moves
  <1> QED
    BY <1>3, <1>4

\* Whatever else a step does, a startup whose record is as before, or is no
\* longer steady, is as sound as before.
LEMMA ShakenRun ==
  ASSUME IInv, NEW q \in Runs, run'[q].steady => run[q].steady /\ Holding, Recorded,
         run'[q].unmoved => run[q].unmoved /\ plugged' = plugged, run'[q] \in RunType,
         /\ run'[q].stage = run[q].stage /\ run'[q].lines = run[q].lines
         /\ run'[q].used = run[q].used /\ run'[q].chosen = run[q].chosen
         /\ run'[q].prompted = run[q].prompted /\ run'[q].kind = run[q].kind
         /\ run'[q].offered = run[q].offered
  PROVE  \A y : y = run'[q] => RunSound(y)'
  <1> SUFFICES ASSUME NEW y, y = run'[q]
               PROVE  RunSound(y)'
    OBVIOUS
  <1>1. PICK x \in RunType : x = run[q]
    BY DEF IInv
  <1>2. RunSound(x)
    BY <1>1 DEF IInv
  <1>3. y.lines \in Seq(Accepted') /\ y.used \in Seq(Accepted')
    BY <1>1, <1>2, AcceptedOn DEF RunSound
  <1>4. y.unmoved => x.unmoved /\ \A path : Behind(path)' = Behind(path)
    BY <1>1 DEF Behind, Resolve
  <1>5. y.stage = "prompt" /\ y.unmoved => \A c \in y.offered : c.device = Behind(c.path)'
    BY <1>1, <1>2, <1>4 DEF RunSound
  <1>6. y.stage \in Choosing => \A i \in DOMAIN y.chosen : PickedFor(y, y.chosen[i])'
    BY <1>1, <1>2, <1>4 DEF RunSound, PickedFor, Recorded
  <1>7. CASE y.steady
    <2>1. RunSound(x)'
      BY <1>1, <1>2, <1>7, RunFitsOn
    <2> QED
      BY <1>1, <1>3, <1>5, <1>6, <1>7, <2>1 DEF RunSound
  <1>8. CASE ~y.steady
    BY <1>1, <1>2, <1>3, <1>5, <1>6, <1>8 DEF RunSound, Recorded
  <1> QED
    BY <1>7, <1>8

LEMMA ResetStep ==
  ASSUME IInv, NEW r \in Runs, Reset(r)
  PROVE  IInv'
  <1>1. PICK x \in RunType : x = run[r]
    BY DEF IInv
  <1>2. RunSound(x) /\ x.stage = "start" /\ x.kind.reset
    BY <1>1 DEF IInv, Reset, In
  <1>3. /\ file' = NoFile /\ settled' = FALSE /\ UNCHANGED <<host, torn, picked, drifted, selections>>
        /\ run' = [q \in Runs |-> [run[q] EXCEPT !.lost = @ \/ run[q].stage = "write",
                                                 !.stage = IF q = r THEN "list" ELSE @]]
    BY DEF Reset
  <1>4. Holding /\ Recorded
    BY <1>3 DEF Holding, Recorded, host
  <1>5. run' \in [Runs -> RunType]
    <2>1. ASSUME NEW y \in RunType, NEW lost \in BOOLEAN, NEW stage \in Stages
          PROVE  [y EXCEPT !.lost = lost, !.stage = stage] \in RunType
      BY DEF RunType
    <2>2. ASSUME NEW q \in Runs
          PROVE  run'[q] \in RunType
      <3>1. run[q] \in RunType /\ run[q].lost \in BOOLEAN /\ run[q].stage \in Stages
        BY DEF IInv, RunType
      <3>2. "list" \in Stages /\ (run[q].lost \/ run[q].stage = "write") \in BOOLEAN
        BY DEF Stages
      <3> QED
        BY <1>3, <2>1, <3>1, <3>2
    <2> QED
      BY <1>3, <2>2
  <1>6. ASSUME NEW q \in Runs, q # r
        PROVE  \A y : y = run'[q] => RunSound(y)'
    <2>1. run[q] \in RunType /\ run'[q] \in RunType
      BY <1>5 DEF IInv
    <2>2. /\ run'[q].stage = run[q].stage /\ run'[q].lines = run[q].lines
          /\ run'[q].used = run[q].used /\ run'[q].chosen = run[q].chosen
          /\ run'[q].prompted = run[q].prompted /\ run'[q].kind = run[q].kind
          /\ run'[q].steady = run[q].steady /\ run'[q].unmoved = run[q].unmoved
          /\ run'[q].offered = run[q].offered
      BY <1>3, <1>6, <2>1 DEF RunType
    <2> QED
      BY <1>4, <2>1, <2>2, ShakenRun DEF Holding
  <1>7. \A y : y = run'[r] => RunSound(y)'
    <2> SUFFICES ASSUME NEW y, y = run'[r]
                 PROVE  RunSound(y)'
      OBVIOUS
    <2>1. y.stage = "list" /\ y.lines = x.lines /\ y.used = x.used /\ y.kind = x.kind
      BY <1>1, <1>3 DEF RunType
    <2>2. y.lines \in Seq(Accepted') /\ y.used \in Seq(Accepted')
      BY <1>2, <1>4, <2>1, AcceptedOn DEF RunSound
    <2> QED
      BY <1>2, <2>1, <2>2 DEF RunSound, Choosing
  <1>8. \A f : f = file' => FileSound(f)'
    BY <1>3, NoCacheInIt DEF FileSound
  <1>9. HostSound' /\ Picks'
    BY <1>3 DEF IInv, HostSound, Picks, host
  <1> QED
    BY <1>5, <1>6, <1>7, <1>8, <1>9 DEF IInv

LEMMA ChangedStep ==
  ASSUME IInv, Changed, plugged' \in [Nodes -> Devices \cup {NoDevice}], readable' \subseteq Nodes,
         UNCHANGED uinput
  PROVE  IInv'
  <1>1. /\ settled' = FALSE /\ changes' \in 0..MaxChanges /\ UNCHANGED <<file, torn, picked, drifted, selections>>
        /\ run' = [r \in Runs |-> [run[r] EXCEPT !.steady = FALSE, !.unmoved = @ /\ plugged' = plugged]]
    <2>1. changes' \in 0..MaxChanges
      <3>1. changes < MaxChanges /\ changes' = changes + 1
        BY DEF Changed
      <3>2. changes \in 0..MaxChanges /\ MaxChanges \in Nat
        BY CacheAssumption DEF IInv, HostSound
      <3> QED
        BY <3>1, <3>2
    <2> QED
      BY <2>1 DEF Changed
  <1>2. run' \in [Runs -> RunType]
    <2>1. \A y \in RunType : [y EXCEPT !.steady = FALSE, !.unmoved = @ /\ plugged' = plugged] \in RunType
      BY DEF RunType
    <2> QED
      BY <1>1, <2>1 DEF IInv
  <1>3. ASSUME NEW q \in Runs
        PROVE  \A y : y = run'[q] => RunSound(y)'
    <2>1. run[q] \in RunType /\ run'[q] \in RunType
      BY <1>2 DEF IInv
    <2>2. /\ run'[q].stage = run[q].stage /\ run'[q].lines = run[q].lines
          /\ run'[q].used = run[q].used /\ run'[q].chosen = run[q].chosen
          /\ run'[q].prompted = run[q].prompted /\ run'[q].kind = run[q].kind
          /\ run'[q].offered = run[q].offered /\ run'[q].steady = FALSE
          /\ run'[q].unmoved = (run[q].unmoved /\ plugged' = plugged)
      BY <1>1, <2>1 DEF RunType
    <2>3. Recorded
      BY <1>1 DEF Recorded
    <2> QED
      BY <2>1, <2>2, <2>3, ShakenRun
  <1>4. \A f : f = file' => FileSound(f)'
    BY <1>1 DEF IInv, FileSound, CacheType, Accepted, WasPicked
  <1>5. HostSound' /\ Picks'
    BY <1>1 DEF IInv, HostSound, Picks
  <1> QED
    BY <1>2, <1>3, <1>4, <1>5 DEF IInv

LEMMA HostStep ==
  ASSUME IInv, Host
  PROVE  IInv'
  <1> PICK n \in Nodes : Unplug(n) \/ Revoke(n) \/ \E d \in Devices : Plug(d, n)
    BY DEF Host
  <1>1. Changed /\ UNCHANGED uinput
    BY DEF Unplug, Revoke, Plug
  <1>2. plugged' \in [Nodes -> Devices \cup {NoDevice}] /\ readable' \subseteq Nodes
    BY DEF Unplug, Revoke, Plug, IInv, HostSound
  <1> QED
    BY <1>1, <1>2, ChangedStep

LEMMA TruncateStep ==
  ASSUME IInv, NEW r \in Runs, Truncate(r)
  PROVE  IInv'
  <1>1. PICK x \in RunType : x = run[r]
    BY DEF IInv
  <1>2. RunSound(x) /\ x.stage = "truncate"
    BY <1>1 DEF IInv, Truncate, In
  <1>3. PICK y : y = [x EXCEPT !.stage = "write", !.lost = FALSE]
    OBVIOUS
  <1>4. /\ file' = Empty /\ settled' = FALSE /\ UNCHANGED <<host, torn, picked, drifted, selections>>
        /\ run' = [run EXCEPT ![r] = y]
    BY <1>1, <1>3 DEF Truncate, IInv
  <1>5. y \in RunType
    BY <1>3 DEF RunType, Stages
  <1>6. Holding /\ Recorded
    BY <1>4 DEF Holding, Recorded, host
  <1>7. RunSound(y)'
    <2>1. /\ y.stage = "write" /\ y.lines = x.lines /\ y.used = x.used
          /\ y.chosen = x.chosen /\ y.kind = x.kind /\ y.steady = x.steady
      BY <1>3 DEF RunType
    <2>2. RunSound(y)
      BY <1>2, <2>1 DEF RunSound, Choosing
    <2> QED
      BY <1>5, <1>6, <2>2, RunFitsOn
  <1>8. Rest
    <2>1. \A f : f = file' => FileSound(f)'
      BY <1>4, NoCacheInIt DEF FileSound
    <2> QED
      BY <1>4, <2>1 DEF Rest, IInv, HostSound, Picks, host
  <1> QED
    BY <1>4, <1>5, <1>6, <1>7, <1>8, OneRuns

\* What writes leave in the file are lines that were in it or in what is written.
LEMMA WrittenLines ==
  ASSUME NEW new \in CacheType, NEW old, old \in {NoFile, Empty, Garbage} \/ old \in CacheType
  PROVE  /\ \A f \in Over(new, old) \cup Prefixes(new) : f \in {Empty, Garbage} \/ f \in CacheType
         /\ old = Empty => Over(new, old) = {new}
  <1>1. \A i \in 0..Len(new.lines) : SubSeq(new.lines, 1, i) \in Seq(Accepted)
    <2> SUFFICES ASSUME NEW i \in 0..Len(new.lines)
                 PROVE  SubSeq(new.lines, 1, i) \in Seq(Accepted)
      OBVIOUS
    <2>1. new.lines \in Seq(Accepted)
      BY DEF CacheType
    <2>2. \A j \in 1..i : new.lines[j] \in Accepted
      BY <2>1
    <2> QED
      BY <2>1, <2>2, SubSeqProperties
  <1>2. \A f \in Prefixes(new) : f \in {Empty, Garbage} \/ f \in CacheType
    BY <1>1 DEF Prefixes, Cache, CacheType
  <1>3. ASSUME old.is = "cache", NEW k \in 2..Len(old.lines)
        PROVE  Cache(new.output, new.lines \o SubSeq(old.lines, k, Len(old.lines))) \in CacheType
    <2> DEFINE rest == SubSeq(old.lines, k, Len(old.lines))
    <2>1. old.lines \in Seq(Accepted) /\ new.lines \in Seq(Accepted) /\ new.output \in BOOLEAN
      BY <1>3, NoCacheInIt DEF CacheType
    <2>2. k \in Nat /\ \A j \in k..Len(old.lines) : old.lines[j] \in Accepted
      BY <2>1
    <2>3. rest \in Seq(Accepted)
      BY <2>1, <2>2, SubSeqProperties
    <2>4. new.lines \o rest \in Seq(Accepted)
      BY <2>1, <2>3, ConcatProperties
    <2> QED
      BY <2>1, <2>4 DEF Cache, CacheType
  <1>4. \A f \in Over(new, old) : f \in {Empty, Garbage} \/ f \in CacheType
    BY <1>3 DEF Over
  <1>5. old = Empty => Over(new, old) = {new}
    BY NoCacheInIt DEF Over
  <1> QED
    BY <1>2, <1>4, <1>5

LEMMA NewIsCache ==
  ASSUME IInv, NEW r \in Runs, NEW x \in RunType, x = run[r]
  PROVE  New(r) = Cache(x.kind.uinput, x.lines) /\ New(r) \in CacheType
         /\ New(r).is = "cache" /\ New(r).output = x.kind.uinput /\ New(r).lines = x.lines
  <1>1. x.kind.uinput \in BOOLEAN /\ x.lines \in Seq(Accepted)
    BY CacheAssumption DEF RunType, IInv, RunSound
  <1> QED
    BY <1>1 DEF New, Cache, CacheType

LEMMA WriteStep ==
  ASSUME IInv, NEW r \in Runs, Write(r)
  PROVE  IInv'
  <1>1. PICK x \in RunType : x = run[r]
    BY DEF IInv
  <1>2. RunSound(x) /\ x.stage = "write" /\ To(r, "open")
    BY <1>1 DEF IInv, Write, In
  <1>3. PICK y : y = [x EXCEPT !.stage = "open"]
    OBVIOUS
  <1>4. run' = [run EXCEPT ![r] = y] /\ y \in RunType
    BY <1>1, <1>2, <1>3, StageMoves DEF Stages
  <1>5. UNCHANGED <<host, picked, drifted, selections>> /\ Holding /\ Recorded
    BY DEF Write, Holding, Recorded, host
  <1>6. RunSound(y)'
    <2>1. y.stage = "open" /\ y.lines = x.lines /\ y.used = x.used
      BY <1>3 DEF RunType
    <2>2. RunSound(y)
      BY <1>2, <2>1 DEF RunSound, Choosing
    <2> QED
      BY <1>4, <1>5, <2>2, RunFitsOn
  <1>7. HostSound' /\ Picks'
    BY <1>5 DEF Write, IInv, HostSound, Picks, host
  <1>8. \A f : f = file' => FileSound(f)'
    <2>1. CASE run[r].lost
      BY <1>5, <2>1, FileStays DEF Write
    <2>2. CASE ~run[r].lost
      <3>1. PICK old : old = file
        OBVIOUS
      <3>2. PICK new : new = New(r)
        OBVIOUS
      <3>3. /\ file' \in Over(new, old) /\ settled' = (x.steady /\ old = Empty)
            /\ torn' = (torn \/ old # Empty)
        BY <1>1, <2>2, <3>1, <3>2 DEF Write
      <3>4. /\ new \in CacheType /\ new.is = "cache" /\ new.output = x.kind.uinput /\ new.lines = x.lines
            /\ (old \in {NoFile, Empty, Garbage} \/ old \in CacheType)
        BY <1>1, <3>1, <3>2, NewIsCache DEF IInv, FileSound
      <3>5. file' \in {Empty, Garbage} \/ file' \in CacheType
        BY <3>3, <3>4, WrittenLines
      <3>6. CacheType' = CacheType
        BY <1>5 DEF CacheType, Accepted, WasPicked
      <3>7. old = Empty => file' = new
        BY <3>3, <3>4, WrittenLines, NoCacheInIt
      <3>8. new.lines \in selections'
        BY <1>2, <1>5, <3>4 DEF RunSound
      <3>9. settled' => Fitting(new.lines, new.output)
        BY <1>2, <3>3, <3>4 DEF RunSound, Fitting
      <3>10. settled' => Fitting(new.lines, new.output)'
        BY <1>5, <3>9, FitsOn
      <3> QED
        BY <3>3, <3>4, <3>5, <3>6, <3>7, <3>8, <3>10 DEF FileSound
    <2> QED
      BY <2>1, <2>2
  <1> QED
    BY <1>4, <1>5, <1>6, <1>7, <1>8, OneRuns DEF Rest

LEMMA RunOutOfSpaceStep ==
  ASSUME IInv, NEW r \in Runs, RunOutOfSpace(r)
  PROVE  IInv'
  <1>1. PICK x \in RunType : x = run[r]
    BY DEF IInv
  <1>2. To(r, "failed") /\ file' \in Prefixes(New(r)) /\ settled' = FALSE /\ torn' = TRUE
        /\ UNCHANGED <<host, picked, drifted, selections>>
    BY DEF RunOutOfSpace
  <1>3. PICK y : y = [x EXCEPT !.stage = "failed"]
    OBVIOUS
  <1>4. run' = [run EXCEPT ![r] = y] /\ y \in RunType /\ RunSound(y)
    BY <1>1, <1>2, <1>3, StageMoves DEF Stages, Leads
  <1>5. Holding /\ Recorded
    BY <1>2 DEF Holding, Recorded, host
  <1>6. RunSound(y)'
    BY <1>4, <1>5, RunFitsOn
  <1>7. HostSound' /\ Picks'
    BY <1>2 DEF IInv, HostSound, Picks, host
  <1>8. \A f : f = file' => FileSound(f)'
    <2>1. PICK new : new = New(r)
      OBVIOUS
    <2>2. new \in CacheType
      BY <1>1, <2>1, NewIsCache
    <2>3. file' \in {Empty, Garbage} \/ file' \in CacheType
      BY <1>2, <2>1, <2>2, WrittenLines
    <2>4. CacheType' = CacheType
      BY <1>2 DEF CacheType, Accepted, WasPicked
    <2> QED
      BY <1>2, <2>3, <2>4 DEF FileSound
  <1> QED
    BY <1>4, <1>5, <1>6, <1>7, <1>8, OneRuns DEF Rest

-----------------------------------------------------------------------------
(* The invariant.                                                            *)

LEMMA InitIsSound == Init => IInv
  <1> SUFFICES ASSUME Init
               PROVE  IInv
    OBVIOUS
  <1>1. HostSound /\ Picks
    <2>1. 0 \in 0..MaxChanges
      BY CacheAssumption
    <2> QED
      BY <2>1 DEF Init, HostSound, Picks
  <1>2. PICK kinds \in [Runs -> Kinds] : run = [r \in Runs |-> Fresh(kinds[r])]
    BY DEF Init
  <1>3. \A k \in Kinds : Fresh(k) \in RunType
    <2>1. <<>> \in Seq(Lines) /\ <<>> \in Seq(Paths) /\ <<>> \in Seq(Devices)
      OBVIOUS
    <2> QED
      BY <2>1 DEF Fresh, RunType, Stages
  <1>4. \A k : RunSound(Fresh(k))
    <2>1. <<>> \in Seq(Accepted)
      OBVIOUS
    <2> QED
      BY <2>1 DEF Fresh, RunSound, Choosing
  <1>5. \A f : f = file => FileSound(f)
    BY NoCacheInIt DEF Init, FileSound
  <1> QED
    BY <1>1, <1>2, <1>3, <1>4, <1>5 DEF IInv

LEMMA StutterStep ==
  ASSUME IInv, UNCHANGED vars
  PROVE  IInv'
  <1>1. UNCHANGED <<host, file, run, ghosts>> /\ Holding /\ Recorded
    BY DEF vars, host, ghosts, Holding, Recorded
  <1>2. \A f : f = file' => FileSound(f)'
    BY <1>1, FileStays DEF ghosts
  <1>3. ASSUME NEW q \in Runs, NEW x, x = run'[q]
        PROVE  RunSound(x)'
    BY <1>1, <1>3, RunFitsOn DEF IInv
  <1> QED
    BY <1>1, <1>2, <1>3 DEF IInv, HostSound, Picks, host, ghosts

LEMMA StepIsSound == IInv /\ [Next]_vars => IInv'
  <1> SUFFICES ASSUME IInv, [Next]_vars
               PROVE  IInv'
    OBVIOUS
  <1>1. ASSUME NEW r \in Runs, Startup(r)
        PROVE  IInv'
    BY <1>1, RefuseStep, ReadStep, ValidateStep, CompareStep, PromptSteps, RevalidateStep, OpenStep,
       RepairStep, RenderStep, ResetStep, TruncateStep, WriteStep, RunOutOfSpaceStep DEF Startup
  <1> QED
    BY <1>1, HostStep, StutterStep DEF Next

LEMMA Invariance == Spec => []IInv
  BY InitIsSound, StepIsSound, PTL DEF Spec

\* For every number of startups, devices and changes, and whatever their writes
\* leave in the file: every device a startup settles on was picked at a prompt
\* under that path, and is the hardware that was listed there, or its line was
\* rendered after devices had come or gone since the listing.
THEOREM DevicesWerePicked == Spec => []Inv
  <1>1. ASSUME IInv
        PROVE  Inv
    <2>1. ASSUME NEW r \in Runs
          PROVE  run[r] \in RunType /\ run[r].lines \in Seq(Accepted) /\ run[r].used \in Seq(Accepted)
      BY <1>1 DEF IInv, RunSound
    <2>2. EveryDeviceWasPicked
      <3> SUFFICES ASSUME NEW r \in Runs, NEW i \in DOMAIN run[r].used
                   PROVE  WasPicked(run[r].used[i])
        BY DEF EveryDeviceWasPicked
      <3>1. run[r].used[i] \in Accepted
        BY <2>1
      <3> QED
        BY <3>1 DEF Accepted
    <2>3. file \in {NoFile, Empty, Garbage}
          \/ (file.is = "cache" /\ file.output \in BOOLEAN /\ file.lines \in Seq(Lines))
      <3>1. \A lines \in Seq(Accepted) : lines \in Seq(Lines)
        BY AcceptedLines
      <3> QED
        BY <1>1, <3>1 DEF IInv, FileSound, CacheType
    <2>4. TypeOK
      BY <1>1, <2>1, <2>3 DEF IInv, HostSound, Picks, TypeOK, RunType
    <2> QED
      BY <2>2, <2>4 DEF Inv
  <1> QED
    BY <1>1, Invariance, PTL

\* For every number of startups: unless a write ran out of space or overlapped
\* another, the lines a startup takes from the cache are one whole selection.
THEOREM SelectionsStayWhole == Spec => []CacheIsUsedWhole
  <1>1. IInv => CacheIsUsedWhole
    BY DEF IInv, RunSound, CacheIsUsedWhole, Settled
  <1> QED
    BY <1>1, Invariance, PTL

\* For every number of startups: one that read a cache written whole, since when
\* no device and no permission has changed, is not sent to the prompt.
THEOREM NoNeedlessPrompt == Spec => []ReusedWhenNothingChanged
  <1>1. IInv => ReusedWhenNothingChanged
    BY DEF IInv, RunSound, ReusedWhenNothingChanged, In
  <1> QED
    BY <1>1, Invariance, PTL
=============================================================================
