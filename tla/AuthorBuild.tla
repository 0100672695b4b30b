------------------------------- MODULE AuthorBuild -------------------------------
(***************************************************************************)
(* `warble author build` (cli/src/author_cli.rs): a new output is built at a   *)
(* path that must not exist, and what a failure leaves is taken away again --  *)
(* but only the directory this process holds open.  It makes one and opens     *)
(* what is at the path; others may build at the same path, and somebody may     *)
(* put another directory there meanwhile.                                      *)
(***************************************************************************)
EXTENDS Naturals, FiniteSets, Sequences

CONSTANTS
    Builders,       \* `author build` processes on the one path
    MaxFiles,       \* files an emission writes
    MaxSwaps        \* times that somebody else replaces what is at the path

VARIABLES path, dirs, build, swaps
buildVars == <<path, dirs, build, swaps>>

\* What the path leads to: no directory, or one of those that were made; made by
\* whom, and what is in it.  Directory n is the nth.
Nowhere == 0
Others == "somebody"
Directory(maker) == [maker |-> maker, files |-> {}]
Build(pc, made, written) == [pc |-> pc, made |-> made, held |-> Nowhere, written |-> written, late |-> FALSE]

BuildInit ==
    /\ path = Nowhere /\ dirs = <<>> /\ swaps = 0
    /\ build = [b \in Builders |-> Build("start", 0, 0)]

Goes(b, pc) == build' = [build EXCEPT ![b].pc = pc]
IsAt(b, pc) == build[b].pc = pc
NewDirectory(maker) == dirs' = Append(dirs, Directory(maker)) /\ path' = Len(dirs) + 1

\* An existing path is refused; then everything is tried in a temporary directory.
BeginBuild(b) ==
    /\ IsAt(b, "start")
    /\ \/ path # Nowhere /\ Goes(b, "refused")
       \/ path = Nowhere /\ \E pc \in {"reserve", "refused"} : Goes(b, pc)
    /\ UNCHANGED <<path, dirs, swaps>>

\* create_dir makes it or fails.
Reserve(b) ==
    /\ IsAt(b, "reserve")
    /\ IF path = Nowhere
       THEN NewDirectory(b) /\ build' = [build EXCEPT ![b].pc = "open", ![b].made = Len(dirs) + 1]
       ELSE Goes(b, "refused") /\ UNCHANGED <<path, dirs>>
    /\ UNCHANGED swaps

\* What is at the path by now is kept open, so that no later directory has its number; a
\* directory that cannot be opened is left where it is.
Retain(b) ==
    /\ IsAt(b, "open")
    /\ \/ path # Nowhere /\ build' = [build EXCEPT ![b].pc = "emit", ![b].held = path]
       \/ Goes(b, "left")
    /\ UNCHANGED <<path, dirs, swaps>>

\* Every file is written through the path; without a directory there, or for any
\* other reason, the emission fails.
Emit(b) ==
    /\ IsAt(b, "emit")
    /\ \/ /\ path # Nowhere /\ build[b].written < MaxFiles
          /\ dirs' = [dirs EXCEPT ![path].files = @ \cup {<<b, build[b].written + 1>>}]
          /\ build' = [build EXCEPT ![b].written = @ + 1]
       \/ build[b].written = MaxFiles /\ Goes(b, "built") /\ UNCHANGED dirs
       \/ build[b].written < MaxFiles /\ Goes(b, "check") /\ UNCHANGED dirs
    /\ UNCHANGED <<path, swaps>>

SameDirectory(b) == path = build[b].held

CheckIdentity(b) ==
    /\ IsAt(b, "check") /\ Goes(b, IF SameDirectory(b) THEN "remove" ELSE "preserved")
    /\ UNCHANGED <<path, dirs, swaps>>

\* Whatever is at the path by now.
RemoveAll(b) ==
    /\ IsAt(b, "remove") /\ Goes(b, IF path = Nowhere THEN "preserved" ELSE "removed")
    /\ path' = Nowhere
    /\ UNCHANGED <<dirs, swaps>>

\* Where a build acts on the path as it was a moment ago.
Hurries(b) == build[b].pc \in {"open", "remove"}

\* Somebody moves the directory away, or puts another one there.
Swap ==
    /\ swaps < MaxSwaps /\ swaps' = swaps + 1
    /\ \/ NewDirectory(Others)
       \/ path # Nowhere /\ path' = Nowhere /\ UNCHANGED dirs
    /\ build' = [b \in Builders |-> [build[b] EXCEPT !.late = @ \/ Hurries(b)]]

BuildNext == Swap \/ \E b \in Builders :
                        BeginBuild(b) \/ Reserve(b) \/ Retain(b) \/ Emit(b) \/ CheckIdentity(b) \/ RemoveAll(b)
BuildSpec == BuildInit /\ [][BuildNext]_buildVars

-------------------------------------------------------------------------------
\* A build that fails takes away its own directory and no other, unless somebody came,
\* perhaps upon another build, between the making of a directory and its opening or between
\* the look and the removal; left alone it takes what it has opened, so that the same
\* command may be given again; and what is called built is one emission.
BuildKeepsToItsOwn ==
    [][\A b \in Builders :
          /\ IsAt(b, "remove") /\ build'[b].pc = "removed" =>
                path = build[b].made \/ \E c \in Builders : build[c].late
          /\ swaps = 0 /\ build'[b].pc = "preserved" => FALSE
          /\ swaps = 0 /\ IsAt(b, "emit") /\ build'[b].pc = "built" =>
                /\ path = build[b].made
                /\ dirs[path].files = {<<b, n>> : n \in 1..MaxFiles}]_buildVars
===============================================================================
