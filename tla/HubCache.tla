-------------------------------- MODULE HubCache --------------------------------
(***************************************************************************)
(* cli/src/hub_fetch.rs: the per-user cache of a Hub release, filled and      *)
(* trusted by every `warble compile` that needs a library component and has   *)
(* no Hub checked out.  Processes share the directory without a lock; what    *)
(* each trusts is the digest of the archive, recomputed, and never what is    *)
(* already extracted.  A release is immutable: it has one content.            *)
(***************************************************************************)
EXTENDS Naturals, FiniteSets

CONSTANTS
    Processes,      \* `warble compile` commands that use the cache
    Files,          \* the component files in the archive
    MaxStarts,      \* commands started in all
    MaxOutages      \* kills, power cuts and bad downloads in all

VARIABLES archive, checksum, extracted, unpacked, proc, starts, mishaps
hubVars == <<archive, checksum, extracted, unpacked, proc, starts, mishaps>>

\* A file of the cache: absent, cut short by a power failure, or the release.
Contents == {"none", "torn", "release"}

\* A directory tree: there or not, with what its files hold.
Tree(there, files) == [there |-> there, files |-> files]
NoDirectory == Tree(FALSE, [f \in {} |-> "none"])
Held(d) == DOMAIN d.files
Without(d, f) == Tree(d.there, [g \in Held(d) \ {f} |-> d.files[g]])
Complete == Tree(TRUE, [f \in Files |-> "release"])

\* pc, what the command has read of each component file, and whether someone
\* else may be blamed if it fails: another command ran at the same time, or the
\* network or the machine let it down.
Command(pc, read, excused) == [pc |-> pc, read |-> read, excused |-> excused]
Idle == {"idle", "done", "failed"}
Running == {p \in Processes : proc[p].pc \notin Idle}

HubTypeOK ==
    /\ archive \in Contents /\ checksum \in Contents
    /\ extracted.there \in BOOLEAN /\ Held(extracted) \subseteq Files
    /\ \A p \in Processes : Held(unpacked[p]) \subseteq Files
    /\ starts \in 0..MaxStarts /\ mishaps \in 0..MaxOutages

HubInit ==
    /\ archive = "none" /\ checksum = "none" /\ extracted = NoDirectory
    /\ unpacked = [p \in Processes |-> NoDirectory]
    /\ proc = [p \in Processes |-> Command("idle", [f \in {} |-> "none"], FALSE)]
    /\ starts = 0 /\ mishaps = 0

-------------------------------------------------------------------------------
At(p, pc) == proc[p].pc = pc
Goto(p, pc) == proc' = [proc EXCEPT ![p].pc = pc]
Fail(p) == Goto(p, "failed")
Outage == mishaps < MaxOutages /\ mishaps' = mishaps + 1
Disk == <<archive, checksum, extracted, unpacked>>
Counts == <<starts, mishaps>>

Start(p) ==
    /\ proc[p].pc \in Idle /\ starts < MaxStarts /\ starts' = starts + 1
    /\ proc' = [q \in Processes |->
                   IF q = p THEN Command("check", [f \in {} |-> "none"], Running # {})
                   ELSE [proc[q] EXCEPT !.excused = @ \/ q \in Running]]
    /\ UNCHANGED <<Disk, mishaps>>

\* Mutant: the sidecar is taken for the archive.
BySidecar == checksum = "release"

\* A hit is the digest of the archive on disk, recomputed, against the sidecar.
cache_hit == archive = "release" /\ checksum = "release"

CheckCache(p) ==
    /\ At(p, "check") /\ Goto(p, IF cache_hit THEN "clear" ELSE "fetch")
    /\ UNCHANGED <<Disk, Counts>>

\* Archive and checksum are fetched and the one is verified against the other
\* before either is written; what fails or is corrupted on the way is an error.
fetched_as(download) == IF download = "release" THEN "write archive" ELSE "failed"

FetchHub(p) ==
    /\ At(p, "fetch")
    /\ \/ Goto(p, fetched_as("release")) /\ UNCHANGED mishaps
       \/ /\ Outage
          /\ \E download \in {"none", "torn"} :
                proc' = [proc EXCEPT ![p].pc = fetched_as(download), ![p].excused = TRUE]
    /\ UNCHANGED <<Disk, starts>>

\* Each through a file of its own that is renamed: nobody sees a part of it.
WriteArchive(p) ==
    /\ At(p, "write archive") /\ archive' = "release" /\ Goto(p, "write checksum")
    /\ UNCHANGED <<checksum, extracted, unpacked, Counts>>

WriteChecksum(p) ==
    /\ At(p, "write checksum") /\ checksum' = "release" /\ Goto(p, "clear")
    /\ UNCHANGED <<archive, extracted, unpacked, Counts>>

\* remove_dir_all, file by file; what another command has removed meanwhile may be
\* an error or be passed over, and a directory that filled again cannot be removed.
ClearFile(p) ==
    /\ proc[p].pc \in {"clear", "clearing"}
    /\ \E f \in Held(extracted) : extracted' = Without(extracted, f)
    /\ Goto(p, "clearing")
    /\ UNCHANGED <<archive, checksum, unpacked, Counts>>

ClearDirectory(p) ==
    /\ proc[p].pc \in {"clear", "clearing"} /\ Held(extracted) = {}
    /\ extracted' = NoDirectory
    /\ \/ Goto(p, "unpack")
       \/ At(p, "clearing") /\ ~extracted.there /\ Fail(p)
    /\ UNCHANGED <<archive, checksum, unpacked, Counts>>

ClearFails(p) ==
    /\ At(p, "clearing") /\ extracted.there /\ proc[p].excused /\ Fail(p)
    /\ UNCHANGED <<Disk, Counts>>

\* The archive is read again and unpacked into a directory of this process; one
\* that is cut short does not unpack.
Unpack(p) ==
    /\ At(p, "unpack")
    /\ IF archive = "release"
       THEN unpacked' = [unpacked EXCEPT ![p] = Complete] /\ Goto(p, "publish")
       ELSE unpacked' = [unpacked EXCEPT ![p] = Tree(TRUE, [f \in {} |-> "none"])] /\ Fail(p)
    /\ UNCHANGED <<archive, checksum, extracted, Counts>>

\* The rename replaces nothing, or an empty directory.
Publish(p) ==
    /\ At(p, "publish")
    /\ IF Held(extracted) = {}
       THEN /\ extracted' = unpacked[p] /\ unpacked' = [unpacked EXCEPT ![p] = NoDirectory]
            /\ Goto(p, "read")
       ELSE Fail(p) /\ UNCHANGED <<extracted, unpacked>>
    /\ UNCHANGED <<archive, checksum, Counts>>

\* The compilation that follows opens one component file after the other.
ReadComponent(p) ==
    /\ At(p, "read")
    /\ \E f \in Files \ DOMAIN proc[p].read :
          IF f \in Held(extracted)
          THEN LET read == [g \in DOMAIN proc[p].read \cup {f} |->
                               IF g = f THEN extracted.files[f] ELSE proc[p].read[g]]
               IN  proc' = [proc EXCEPT ![p].read = read,
                                        ![p].pc = IF DOMAIN read = Files THEN "done" ELSE "read"]
          ELSE Fail(p)
    /\ UNCHANGED <<Disk, Counts>>

\* A command is killed: its own unpacked directory stays as far as it came, and
\* a later process of that name removes it before it unpacks.
Killed(p) ==
    /\ p \in Running /\ Outage
    /\ proc' = [proc EXCEPT ![p].pc = "failed", ![p].excused = TRUE]
    /\ \E kept \in SUBSET Held(unpacked[p]) :
          unpacked' = [unpacked EXCEPT ![p].files = [f \in kept |-> @[f]]]
    /\ UNCHANGED <<archive, checksum, extracted, starts>>

\* The power fails: nothing was synced, so any file may come back cut short.
Tear(content) == IF content = "none" THEN {"none"} ELSE {content, "torn"}
PowerCut ==
    /\ Outage
    /\ archive' \in Tear(archive) /\ checksum' \in Tear(checksum)
    /\ \E torn \in SUBSET Held(extracted) :
          extracted' = [extracted EXCEPT !.files =
                           [f \in Held(extracted) |-> IF f \in torn THEN "torn" ELSE @[f]]]
    /\ proc' = [p \in Processes |->
                   IF p \in Running THEN Command("failed", proc[p].read, TRUE) ELSE proc[p]]
    /\ UNCHANGED <<unpacked, starts>>

HubNext ==
    \/ PowerCut
    \/ \E p \in Processes :
          \/ Start(p) \/ CheckCache(p) \/ FetchHub(p) \/ WriteArchive(p) \/ WriteChecksum(p)
          \/ ClearFile(p) \/ ClearDirectory(p) \/ ClearFails(p) \/ Unpack(p) \/ Publish(p)
          \/ ReadComponent(p) \/ Killed(p)

HubSpec == HubInit /\ [][HubNext]_hubVars

-------------------------------------------------------------------------------
\* A command that ends well has read every component as it was released, whatever
\* the other commands, the power and an earlier kill have left in the directory; and
\* one that had the cache to itself and nothing in its way does not fail, so the
\* retry that the module promises to clear a race does clear it.
HubIsWhole ==
    \A p \in Processes :
        /\ proc[p].pc = "done" => proc[p].read = Complete.files
        /\ proc[p].pc = "failed" => proc[p].excused
===============================================================================
