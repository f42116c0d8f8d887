------------------------------- MODULE InputCache -------------------------------
(***************************************************************************)
(* How a startup with interactive device selection comes to its devices:   *)
(* it reuses the runtime cache of its script, or prompts, repairs          *)
(* permissions, validates again and writes the cache.  Several startups of *)
(* one script share the file, the devices come and go meanwhile, and the   *)
(* file is read and written the way fs::read_to_string and fs::write do.   *)
(***************************************************************************)
EXTENDS Integers, Sequences, FiniteSets

CONSTANTS
  Runs,       \* startups of the script
  Nodes,      \* event device nodes
  Devices,    \* pieces of hardware
  Own,        \* of them, the runner's uinput device
  LinkOf,     \* by-signal-auras links, for the devices that have one
  Kinds,      \* terminal, --reset-input-cache, output = "uinput" of a startup
  Reads,      \* what a newly plugged device's node may be: readable or not
  MaxChanges, \* how often devices or permissions change by themselves
  NoDevice, NoNode

ASSUME CacheAssumption ==
  /\ Own \in Devices /\ NoDevice \notin Devices /\ NoNode \notin Nodes
  /\ DOMAIN LinkOf \subseteq Devices
  /\ \A d \in DOMAIN LinkOf : LinkOf[d] \notin Nodes
  /\ Kinds \subseteq [interactive : BOOLEAN, reset : BOOLEAN, uinput : BOOLEAN] /\ Reads \subseteq BOOLEAN /\ MaxChanges \in Nat

VARIABLES
  plugged,   \* the device at each node
  readable,  \* the nodes this user may read
  uinput,    \* /dev/uinput may be read and written
  changes,   \* how often the above changed by themselves
  file,      \* the cache file
  run,       \* the startups, see Fresh
  settled,   \* the file was written whole, and nothing has changed since
  torn,      \* some write failed half way, or overlapped another
  picked,    \* the entries of the prompts that users picked
  drifted,   \* lines rendered after devices came or went since their prompt was listed
  selections \* every list of lines that a selection rendered

host == <<plugged, readable, uinput, changes>>
ghosts == <<settled, torn, picked, drifted, selections>>
vars == <<host, file, run, ghosts>>

Links == {LinkOf[d] : d \in DOMAIN LinkOf}
Paths == Nodes \cup Links

(***************************************************************************)
(* The probe: what a path shows of the hardware behind it.                 *)
(***************************************************************************)
Resolve(path) ==
  IF path \in Nodes THEN path
  ELSE LET at == {n \in Nodes : plugged[n] \in DOMAIN LinkOf /\ LinkOf[plugged[n]] = path}
       IN IF at = {} THEN NoNode ELSE CHOOSE n \in at : TRUE

Behind(path) == LET n == Resolve(path) IN IF n = NoNode THEN NoDevice ELSE plugged[n]
Readable(path) == Behind(path) # NoDevice /\ Resolve(path) \in readable

\* event_node_name, and what sysfs tells of the hardware: nothing when the
\* node is gone.  A dangling link still has a name, but not an event node's.
HasIdentity(path) == Resolve(path) # NoNode
Identity(path) == [node |-> Resolve(path), device |-> Behind(path)]

Line(path) == [path |-> path, identity |-> Identity(path)]
Lines == [path : Paths, identity : [node : Nodes, device : Devices \cup {NoDevice}]]

\* interactive_candidates: the link that leads to the node where there is one,
\* and the own device never.
StablePath(n) ==
  IF plugged[n] \in DOMAIN LinkOf /\ Resolve(LinkOf[plugged[n]]) = n THEN LinkOf[plugged[n]] ELSE n
Candidates == {[path |-> StablePath(n), device |-> plugged[n]] :
                 n \in {m \in Nodes : plugged[m] \notin {NoDevice, Own}}}

IsDistinct(s) == \A i, j \in DOMAIN s : s[i] = s[j] => i = j

\* validate_selected_devices.
Valid(paths, needsUinput) ==
  /\ paths # <<>>
  /\ IsDistinct(paths)
  /\ \A i \in DOMAIN paths :
       Readable(paths[i]) /\ Behind(paths[i]) # Own /\ HasIdentity(paths[i])
  /\ needsUinput => uinput

(***************************************************************************)
(* The file: a head with version, script, mode and output, and a line for  *)
(* each device.  What RuntimeDeviceCache::parse refuses is garbage, or     *)
(* empty; lines it does not know it skips.                                 *)
(***************************************************************************)
NoFile == [is |-> "missing"]
Empty == [is |-> "empty"]
Garbage == [is |-> "garbage"]
Cache(output, lines) == [is |-> "cache", output |-> output, lines |-> lines]

\* One write at offset 0 over what others have put there since it was emptied:
\* of a longer text the end stays, whose first line is cut, and skipped, unless
\* the cut falls between two lines.  Garbage may end in an incomplete line.
Over(new, old) ==
  {new} \cup ({old} \cap {Garbage}) \cup
  {Cache(new.output, new.lines \o SubSeq(old.lines, k, Len(old.lines))) :
     k \in IF old.is = "cache" THEN 2..Len(old.lines) ELSE {}}

\* What a write that runs out of space leaves.
Prefixes(new) ==
  {Empty, Garbage} \cup {Cache(new.output, SubSeq(new.lines, 1, i)) : i \in 0..Len(new.lines)}

PathsOf(lines) == [i \in DOMAIN lines |-> lines[i].path]

(***************************************************************************)
(* A startup.  used: the lines as they were when the startup settled on    *)
(* them; steady: the host has not changed since its read of the cache, or  *)
(* its last validation before a write; unmoved: no device has come or gone *)
(* since its prompt was listed; lost: the file it has open was removed.    *)
(***************************************************************************)
Stages == {"start", "validate", "compare", "list", "prompt", "check", "repair", "revalidate",
           "render", "truncate", "write", "open", "running", "failed"}

Fresh(k) == [kind |-> k, stage |-> "start", lines |-> <<>>, chosen |-> <<>>, offered |-> {},
             prompted |-> FALSE, used |-> <<>>, opened |-> <<>>, steady |-> FALSE, unmoved |-> FALSE,
             lost |-> FALSE]

In(r, s) == run[r].stage = s
To(r, s) == run' = [run EXCEPT ![r].stage = s]

\* The cached lines are an object of the validation; a reset, an unreadable or
\* foreign file sends the startup to the prompt.
Read(r) ==
  /\ In(r, "start") /\ ~run[r].kind.reset
  /\ LET usable == file.is = "cache" /\ file.output = run[r].kind.uinput IN
     run' = [run EXCEPT ![r].stage = IF usable THEN "validate" ELSE "list",
                        ![r].lines = IF usable THEN file.lines ELSE <<>>,
                        ![r].steady = usable /\ settled]
  /\ UNCHANGED <<host, file, ghosts>>

Reset(r) ==
  /\ In(r, "start") /\ run[r].kind.reset
  /\ file' = NoFile /\ settled' = FALSE
  /\ run' = [q \in Runs |-> [run[q] EXCEPT
               !.lost = @ \/ run[q].stage = "write",
               !.stage = IF q = r THEN "list" ELSE @]]
  /\ UNCHANGED <<host, torn, picked, drifted, selections>>

\* An unsafe runtime directory, an undeletable file, no directory to list.
Refuse(r) ==
  /\ run[r].stage \in {"start", "list", "render", "truncate"}
  /\ To(r, "failed")
  /\ UNCHANGED <<host, file, ghosts>>

\* Mutant of Validate: cached devices that cannot be used are left out.
ValidateEach(r) ==
  LET usable == SelectSeq(run[r].lines, LAMBDA line : Readable(line.path)) IN
  /\ In(r, "validate")
  /\ run' = [run EXCEPT ![r].lines = usable,
            ![r].stage = IF Valid(PathsOf(usable), run[r].kind.uinput) THEN "compare" ELSE "list"]
  /\ UNCHANGED <<host, file, ghosts>>

Validate(r) ==
  /\ In(r, "validate")
  /\ To(r, IF Valid(PathsOf(run[r].lines), run[r].kind.uinput) THEN "compare" ELSE "list")
  /\ UNCHANGED <<host, file, ghosts>>

\* Mutant of Matches: the identities of the cached devices are not compared.
MatchesAny(lines) == \A i \in DOMAIN lines : HasIdentity(lines[i].path)

Matches(lines) ==
  \A i \in DOMAIN lines : HasIdentity(lines[i].path) /\ Identity(lines[i].path) = lines[i].identity

Now(paths) == [i \in DOMAIN paths |-> Line(paths[i])]

Compare(r) ==
  LET paths == PathsOf(run[r].lines) IN
  /\ In(r, "compare")
  /\ run' = IF Matches(run[r].lines)
            THEN [run EXCEPT ![r].stage = "open", ![r].chosen = paths, ![r].used = Now(paths)]
            ELSE [run EXCEPT ![r].stage = "list"]
  /\ UNCHANGED <<host, file, ghosts>>

List(r) ==
  /\ In(r, "list")
  /\ run' = [run EXCEPT ![r].stage = "prompt", ![r].offered = Candidates, ![r].prompted = TRUE,
                        ![r].unmoved = TRUE]
  /\ UNCHANGED <<host, file, ghosts>>

\* The numbers the user enters may name a device twice.
Select(r) ==
  /\ In(r, "prompt") /\ run[r].kind.interactive
  /\ \E n \in 1..2 : \E entries \in [1..n -> run[r].offered] :
       /\ run' = [run EXCEPT ![r].stage = "check", ![r].chosen = PathsOf(entries)]
       /\ picked' = picked \cup {entries[i] : i \in 1..n}
  /\ UNCHANGED <<host, file, settled, torn, drifted, selections>>

\* The user cancels, there is nothing to select, or there is no terminal.
Cancel(r) == In(r, "prompt") /\ To(r, "failed") /\ UNCHANGED <<host, file, ghosts>>

Incomplete(r) ==
  (\E i \in DOMAIN run[r].chosen : ~Readable(run[r].chosen[i])) \/ (run[r].kind.uinput /\ ~uinput)

Confirm(r) ==
  /\ In(r, "check")
  /\ IF Incomplete(r) THEN To(r, "repair") \/ To(r, "revalidate") ELSE To(r, "revalidate")
  /\ UNCHANGED <<host, file, ghosts>>

\* SudoSetfaclRepair grants path by path and stops at the first that fails.
Repair(r) ==
  LET paths == run[r].chosen IN
  /\ In(r, "repair")
  /\ \E i \in 0..Len(paths) :
       /\ \A j \in 1..i : Behind(paths[j]) # NoDevice
       /\ readable' = readable \cup {Resolve(paths[j]) : j \in 1..i}
       /\ \/ i = Len(paths) /\ uinput' = (uinput \/ run[r].kind.uinput) /\ To(r, "revalidate")
          \/ UNCHANGED uinput /\ To(r, "failed")
  /\ UNCHANGED <<plugged, changes, file, ghosts>>

Revalidate(r) ==
  /\ In(r, "revalidate")
  /\ run' = IF Valid(run[r].chosen, run[r].kind.uinput)
            THEN [run EXCEPT ![r].stage = "render", ![r].steady = TRUE]
            ELSE [run EXCEPT ![r].stage = "failed"]
  /\ UNCHANGED <<host, file, ghosts>>

\* What the devices of a selection come to when they are asked for anew.
Drifted(r, lines) == IF run[r].unmoved THEN {} ELSE {lines[i] : i \in DOMAIN lines}

\* Mutant of Render: the hardware identities are those the prompt was made from.
RenderAsOffered(r) ==
  LET paths == run[r].chosen
      Shown(path) == (CHOOSE c \in run[r].offered : c.path = path).device
      lines == [i \in DOMAIN paths |->
        [path |-> paths[i], identity |-> [node |-> Resolve(paths[i]), device |-> Shown(paths[i])]]]
  IN
  /\ In(r, "render") /\ \A i \in DOMAIN paths : HasIdentity(paths[i])
  /\ run' = [run EXCEPT ![r].stage = "truncate", ![r].lines = lines, ![r].used = lines]
  /\ drifted' = drifted \cup Drifted(r, lines)
  /\ selections' = selections \cup {lines}
  /\ UNCHANGED <<host, file, settled, torn, picked>>

\* write_cache_file asks for the identities anew.
Render(r) ==
  LET paths == run[r].chosen
      lines == Now(paths)
  IN
  /\ In(r, "render")
  /\ IF \A i \in DOMAIN paths : HasIdentity(paths[i])
     THEN /\ run' = [run EXCEPT ![r].stage = "truncate", ![r].lines = lines, ![r].used = lines]
          /\ drifted' = drifted \cup Drifted(r, lines)
          /\ selections' = selections \cup {lines}
     ELSE To(r, "failed") /\ UNCHANGED <<drifted, selections>>
  /\ UNCHANGED <<host, file, settled, torn, picked>>

\* fs::write, first half: the file is created, or emptied.
Truncate(r) ==
  /\ In(r, "truncate")
  /\ file' = Empty /\ settled' = FALSE
  /\ run' = [run EXCEPT ![r].stage = "write", ![r].lost = FALSE]
  /\ UNCHANGED <<host, torn, picked, drifted, selections>>

New(r) == Cache(run[r].kind.uinput, run[r].lines)

Write(r) ==
  /\ In(r, "write")
  /\ To(r, "open")
  /\ IF run[r].lost THEN UNCHANGED <<file, settled, torn>>
     ELSE /\ file' \in Over(New(r), file)
          /\ settled' = (run[r].steady /\ file = Empty)
          /\ torn' = (torn \/ file # Empty)
  /\ UNCHANGED <<host, picked, drifted, selections>>

RunOutOfSpace(r) ==
  /\ In(r, "write") /\ ~run[r].lost
  /\ To(r, "failed")
  /\ file' \in Prefixes(New(r))
  /\ settled' = FALSE /\ torn' = TRUE
  /\ UNCHANGED <<host, picked, drifted, selections>>

\* with_selected_devices, and the provider that opens every one of them.
Open(r) ==
  LET paths == run[r].chosen IN
  /\ In(r, "open")
  /\ run' = IF \A i \in DOMAIN paths : Readable(paths[i])
            THEN [run EXCEPT ![r].stage = "running",
                             ![r].opened = [i \in DOMAIN paths |-> Behind(paths[i])]]
            ELSE [run EXCEPT ![r].stage = "failed"]
  /\ UNCHANGED <<host, file, ghosts>>

(***************************************************************************)
(* The host: devices are plugged and unplugged, permissions expire.        *)
(***************************************************************************)
Changed ==
  /\ changes < MaxChanges /\ changes' = changes + 1
  /\ settled' = FALSE
  /\ run' = [r \in Runs |-> [run[r] EXCEPT !.steady = FALSE, !.unmoved = @ /\ plugged' = plugged]]
  /\ UNCHANGED <<file, torn, picked, drifted, selections>>

Plug(d, n) ==
  /\ plugged[n] = NoDevice /\ \A m \in Nodes : plugged[m] # d
  /\ plugged' = [plugged EXCEPT ![n] = d]
  /\ \E reads \in Reads : readable' = IF reads THEN readable \cup {n} ELSE readable
  /\ UNCHANGED uinput
  /\ Changed

Unplug(n) ==
  /\ plugged[n] # NoDevice
  /\ plugged' = [plugged EXCEPT ![n] = NoDevice]
  /\ readable' = readable \ {n}
  /\ UNCHANGED uinput
  /\ Changed

Revoke(n) ==
  /\ n \in readable
  /\ readable' = readable \ {n}
  /\ UNCHANGED <<plugged, uinput>>
  /\ Changed

Init ==
  /\ plugged \in [Nodes -> Devices \cup {NoDevice}]
  /\ \A m, n \in Nodes : plugged[m] = plugged[n] /\ plugged[m] # NoDevice => m = n
  /\ readable = {n \in Nodes : plugged[n] # NoDevice} /\ uinput \in BOOLEAN /\ changes = 0
  /\ file = NoFile
  /\ \E kinds \in [Runs -> Kinds] : run = [r \in Runs |-> Fresh(kinds[r])]
  /\ settled = FALSE /\ torn = FALSE /\ picked = {} /\ drifted = {} /\ selections = {}

Startup(r) ==
  \/ Read(r) \/ Reset(r) \/ Refuse(r) \/ Validate(r) \/ Compare(r) \/ List(r) \/ Select(r)
  \/ Cancel(r) \/ Confirm(r) \/ Repair(r) \/ Revalidate(r) \/ Render(r) \/ Truncate(r)
  \/ Write(r) \/ RunOutOfSpace(r) \/ Open(r)
Host == \E n \in Nodes : Unplug(n) \/ Revoke(n) \/ \E d \in Devices : Plug(d, n)

Next == Host \/ \E r \in Runs : Startup(r)
Spec == Init /\ [][Next]_vars

(***************************************************************************)
(* Properties.                                                             *)
(***************************************************************************)
TypeOK ==
  /\ plugged \in [Nodes -> Devices \cup {NoDevice}] /\ readable \subseteq Nodes
  /\ uinput \in BOOLEAN /\ changes \in 0..MaxChanges
  /\ file \in {NoFile, Empty, Garbage}
     \/ (file.is = "cache" /\ file.output \in BOOLEAN /\ file.lines \in Seq(Lines))
  /\ \A r \in Runs : /\ run[r].kind \in Kinds /\ run[r].stage \in Stages
                     /\ run[r].lines \in Seq(Lines) /\ run[r].used \in Seq(Lines)
                     /\ run[r].chosen \in Seq(Paths) /\ run[r].opened \in Seq(Devices)
  /\ picked \subseteq [path : Paths, device : Devices] /\ drifted \subseteq Lines
  /\ selections \subseteq Seq(Lines)

Settled(r) == run[r].stage \in {"open", "running"}

WasPicked(line) ==
  \E p \in picked : p.path = line.path /\ (p.device = line.identity.device \/ line \in drifted)

\* Every device a startup settles on, from whatever the file held, is one that
\* some user picked at a prompt: under that path, and the very hardware that was
\* listed there, however the devices were replaced after the cache was written.
\* The exception is what the code does: write_cache_file records what is behind
\* the path by then, so a line that was rendered after devices had come or gone
\* since the listing only answers for its path.
EveryDeviceWasPicked ==
  \A r \in Runs : Settled(r) => \A i \in DOMAIN run[r].used : WasPicked(run[r].used[i])

\* The shape of the state, and whose devices are used.
Inv == TypeOK /\ EveryDeviceWasPicked

\* contracts/runtime-device-cache.md: an entry is not partially used.  What a
\* startup takes from the cache is one whole selection, unless some write ran
\* out of space or overlapped another's.
CacheIsUsedWhole ==
  \A r \in Runs : Settled(r) /\ ~run[r].prompted /\ ~torn => run[r].lines \in selections

\* A startup finds the prompt only for a reason: when the cache was written
\* whole and no device or permission has changed since, it is accepted.
ReusedWhenNothingChanged ==
  \A r \in Runs : In(r, "list") /\ ~run[r].kind.reset => ~run[r].steady

=============================================================================
