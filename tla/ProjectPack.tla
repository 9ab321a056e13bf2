---------------------------- MODULE ProjectPack ----------------------------
(***************************************************************************)
(* The project pack (src/footprint/pack.c): every compiler started in a    *)
(* directory synchronises the file ./.project.pack with the configuration  *)
(* it found and the hash of the source it compiles (project_pack_sync).    *)
(* Several compilers may run at once and each can be killed at any point;  *)
(* nothing locks the file.                                                 *)
(*                                                                         *)
(* A sync is one action per call that touches the file system, with the    *)
(* computation between two calls folded into the action before.  A path    *)
(* names an inode, and an open file keeps writing to its inode when the    *)
(* path is renamed or removed.  On Windows rename does not replace a file, *)
(* and a file that is open is neither renamed nor removed.                 *)
(* The bytes of a pack are one record, or Empty, or Torn for bytes that    *)
(* fail the length or CRC test of project_pack_read.                       *)
(*                                                                         *)
(* The root of a pack is left out: every pack the program writes has root  *)
(* ".", which exists.  So is project_pack_should_delete: its guard needs   *)
(* PACK_OWN_PATH, which config_pack_own_flags never sets.                  *)
(***************************************************************************)
EXTENDS Naturals, FiniteSets

CONSTANTS
    Proc,           \* compilers
    Config,         \* configurations config_parse_upwards can return
    Hash,           \* hashes of sources
    Null,           \* a NULL string, an invalid ProjectPack
    Empty, Torn,    \* contents of a file that are no pack
    Inode, NoInode, \* inodes, and no file at that path
    Posix,          \* the file system is POSIX's, FALSE for Windows'
    MaxSync,        \* bound: syncs started
    MaxFault        \* bound: kills, power failures and short writes

Flags == {"NAME", "PATH", "FOOTPRINT"}
String == {Null} \cup {c.name : c \in Config} \cup {c.link : c \in Config}

ASSUME ConfigAssumption ==
    Config \subseteq [valid : BOOLEAN, name : String, link : String]
ASSUME InodeAssumption == NoInode \notin Inode
ASSUME PackBoundAssumption == MaxSync \in Nat /\ MaxFault \in Nat
ASSUME PosixAssumption == Posix \in BOOLEAN

VARIABLES
    dir,     \* the paths .project.pack and .project.pack.tmp
    file,    \* inode -> content
    pc,      \* where each compiler is in project_pack_sync
    args,    \* the arguments of its last call
    pack,    \* its ProjectPack p, Null while p.valid is false
    fd,      \* the inode of the FILE* it writes
    syncs, faults,  \* counted for the bounds
    mishaps, \* history: what has gone wrong so far
    solo     \* history: the compiler that last started, while it has run alone
             \* and without a fault, Null otherwise

vars == <<dir, file, pc, args, pack, fd, syncs, faults, mishaps, solo>>
disk == <<dir, file>>
history == <<syncs, faults, mishaps, solo>>

(***************************************************************************)
(* Computations                                                            *)
(***************************************************************************)
\* The fields of ProjectPackMeta, and the arguments of project_pack_sync.
Meta == [name : String, link : String, hash : Hash, flags : SUBSET Flags]

ASSUME ContentAssumption ==
    Empty # Torn /\ Empty \notin Meta /\ Torn \notin Meta
ASSUME NullAssumption == Null \notin Meta \cup Proc \cup {Empty, Torn}

config_pack_own_flags(c) ==
    {f \in Flags : \/ f = "NAME" /\ c.name # Null
                   \/ f = "FOOTPRINT" /\ c.link # Null}

\* What project_pack_sync_from_config passes on.
SyncArgs(c, h) ==
    IF c.valid
    THEN [name |-> c.name, link |-> c.link, hash |-> h, flags |-> config_pack_own_flags(c)]
    ELSE [name |-> Null, link |-> Null, hash |-> h, flags |-> {}]

\* project_pack_write leaves out of the file what the configuration owns.
Stored(m) == [m EXCEPT !.name = IF "NAME" \in m.flags THEN Null ELSE @,
                       !.link = IF "FOOTPRINT" \in m.flags THEN Null ELSE @]

\* project_pack_read: Null for a missing, short or damaged file.
PackRead(content) == IF content \in {Empty, Torn} THEN Null ELSE content

NameChanged(m, a) == m # Null /\ m.name # a.name

\* Bug for the mutation runs: a change of the configuration alone is not seen.
DirtyHash(m, a) == m = Null \/ m.hash # a.hash

Dirty(m, a) == m = Null \/ m.hash # a.hash \/ m.flags # a.flags

\* Bug for the mutation runs: what was read is written back.
RefreshNothing(m, a) == m

\* The pack a dirty sync writes; m is what it read, or Null.
Refresh(m, a) ==
    LET old == IF m = Null THEN Null ELSE m.link
    IN  [a EXCEPT !.link = IF old = Null /\ "FOOTPRINT" \notin a.flags THEN @ ELSE old]

\* Bytes written from offset 0 over what the inode holds: a longer content
\* keeps its tail, and the CRC then fails.
Overwrite(content, m) ==
    IF content \in {Empty, m} THEN {m} ELSE {m, Torn}

-----------------------------------------------------------------------------
(***************************************************************************)
(* The file system                                                         *)
(***************************************************************************)
Writing == {"flush", "rename", "unlink"}
Bytes(path) == IF dir[path] = NoInode THEN Empty ELSE file[dir[path]]
FreeInode == Inode \ ({dir[f] : f \in DOMAIN dir} \cup {fd[p] : p \in Proc})

IsOpen(i) == \E p \in Proc : fd[p] = i
CanRename == /\ dir["tmp"] # NoInode
             /\ Posix \/ (dir["pack"] = NoInode /\ ~IsOpen(dir["tmp"]))

Goto(p, l) == pc' = [pc EXCEPT ![p] = l]
Holds(p, m) == pack' = [pack EXCEPT ![p] = m]
Close(p) == fd' = [fd EXCEPT ![p] = NoInode]
Fault(kind) == /\ faults < MaxFault
               /\ faults' = faults + 1
               /\ mishaps' = mishaps \cup {kind}
               /\ solo' = Null
               /\ UNCHANGED syncs

\* p is not dirty and is returned, or it is refreshed and written.
Decide(p, m) ==
    IF Dirty(m, args[p])
    THEN Holds(p, Refresh(m, args[p])) /\ Goto(p, "open")
    ELSE Holds(p, m) /\ Goto(p, "idle")

Init ==
    /\ dir = [path \in {"pack", "tmp"} |-> NoInode]
    /\ file = [i \in Inode |-> Empty]
    /\ pc = [p \in Proc |-> "idle"]
    /\ args = [p \in Proc |-> Null]
    /\ pack = [p \in Proc |-> Null]
    /\ fd = [p \in Proc |-> NoInode]
    /\ syncs = 0 /\ faults = 0 /\ mishaps = {} /\ solo = Null

-----------------------------------------------------------------------------
(***************************************************************************)
(* The steps of project_pack_sync                                          *)
(***************************************************************************)
Start(p, c, h) ==
    /\ pc[p] = "idle"
    /\ syncs < MaxSync
    /\ args' = [args EXCEPT ![p] = SyncArgs(c, h)]
    /\ Holds(p, Null)
    /\ Goto(p, "exists")
    /\ syncs' = syncs + 1
    /\ solo' = IF \A q \in Proc \ {p} : pc[q] = "idle" THEN p ELSE Null
    /\ UNCHANGED <<disk, fd, faults, mishaps>>

\* dir_exists(pack_path)
Exists(p) ==
    /\ pc[p] = "exists"
    /\ \/ /\ dir["pack"] # NoInode
          /\ Goto(p, "read")
          /\ UNCHANGED pack
       \/ /\ dir["pack"] = NoInode
          /\ Decide(p, Null)
    /\ UNCHANGED <<disk, args, fd, history>>

\* project_pack_read, and the comparison of the names.
Read(p) ==
    /\ pc[p] = "read"
    /\ LET m == PackRead(Bytes("pack")) IN
       \/ /\ NameChanged(m, args[p])
          /\ Goto(p, "delete")
          /\ UNCHANGED pack
       \/ /\ ~NameChanged(m, args[p])
          /\ Decide(p, m)
    /\ UNCHANGED <<disk, args, fd, history>>

\* Bug for the mutation runs: p stays valid, so it is not dirty.
DeleteOnly(p) ==
    /\ pc[p] = "delete"
    /\ dir' = [dir EXCEPT !["pack"] = NoInode]
    /\ Goto(p, "idle")
    /\ UNCHANGED <<file, args, pack, fd, history>>

\* dir_delete(pack_path); p is cleared.  (No compiler has the file at this path
\* open on Windows, so the removal does not fail.)
Delete(p) ==
    /\ pc[p] = "delete"
    /\ dir' = [dir EXCEPT !["pack"] = NoInode]
    /\ Decide(p, Null)
    /\ UNCHANGED <<file, args, fd, history>>

\* fopen creates a file or takes the one that is there.
OpenAt(p, path, truncated) ==
    /\ pc[p] = "open"
    /\ \E i \in IF dir[path] # NoInode THEN {dir[path]}
                ELSE {CHOOSE i \in FreeInode : TRUE} \cap FreeInode :
          /\ dir' = [dir EXCEPT ![path] = i]
          /\ file' = IF truncated THEN [file EXCEPT ![i] = Empty] ELSE file
          /\ fd' = [fd EXCEPT ![p] = i]
    /\ Goto(p, "flush")
    /\ mishaps' = mishaps \cup
          (IF \E q \in Proc : pc[q] \in Writing THEN {"overlap"} ELSE {})
    /\ UNCHANGED <<args, pack, syncs, faults, solo>>

\* Bugs for the mutation runs: the pack itself is opened; the temporary file is
\* opened without truncating it.
OpenInPlace(p) == OpenAt(p, "pack", TRUE)
OpenUntruncated(p) == OpenAt(p, "tmp", FALSE)

\* dir_write_file: fopen(tmp, "wb") truncates the file that is there.
Open(p) == OpenAt(p, "tmp", TRUE)

\* fopen fails: nobody looks at the result of project_pack_write.
OpenFails(p) ==
    /\ pc[p] = "open"
    /\ Fault("open")
    /\ Goto(p, "idle")
    /\ UNCHANGED <<disk, args, pack, fd>>

\* fwrite fills the buffer of the FILE*, fclose writes it.
Flush(p) ==
    /\ pc[p] = "flush"
    /\ \E c \in Overwrite(file[fd[p]], Stored(pack[p])) :
          file' = [file EXCEPT ![fd[p]] = c]
    /\ Close(p)
    /\ Goto(p, "rename")
    /\ UNCHANGED <<dir, args, pack, history>>

\* A full disk: fwrite comes up short, or fclose does, which is not tested.
ShortFlush(p) ==
    /\ pc[p] = "flush"
    /\ Fault("full")
    /\ \E c \in {file[fd[p]], Torn} : file' = [file EXCEPT ![fd[p]] = c]
    /\ Close(p)
    /\ \E l \in {"unlink", "rename"} : Goto(p, l)
    /\ UNCHANGED <<dir, args, pack>>

Rename(p) ==
    /\ pc[p] = "rename"
    /\ CanRename
    /\ dir' = [path \in {"pack", "tmp"} |-> IF path = "pack" THEN dir["tmp"] ELSE NoInode]
    /\ Goto(p, "idle")
    /\ UNCHANGED <<file, args, pack, fd, history>>

\* Bug for the mutation runs: the rename is tried until it works.
RenameAgain(p) ==
    /\ pc[p] = "rename"
    /\ ~CanRename
    /\ Goto(p, "rename")
    /\ UNCHANGED <<disk, args, pack, fd, history>>

RenameFails(p) ==
    /\ pc[p] = "rename"
    /\ ~CanRename
    /\ Goto(p, "unlink")
    /\ UNCHANGED <<disk, args, pack, fd, history>>

\* Bug for the mutation runs: the temporary file is left behind.
UnlinkNothing(p) ==
    /\ pc[p] = "unlink"
    /\ Goto(p, "idle")
    /\ UNCHANGED <<disk, args, pack, fd, history>>

\* remove(tmp), whosever it is by now.
Unlink(p) ==
    /\ pc[p] = "unlink"
    /\ dir' = IF Posix \/ ~IsOpen(dir["tmp"])
               THEN [dir EXCEPT !["tmp"] = NoInode] ELSE dir
    /\ Goto(p, "idle")
    /\ UNCHANGED <<file, args, pack, fd, history>>

Kill(p) ==
    /\ pc[p] # "idle"
    /\ Fault("kill")
    /\ Goto(p, "idle")
    /\ Holds(p, Null)
    /\ Close(p)
    /\ UNCHANGED <<disk, args>>

\* Everything stops, and what was written may not have reached the disk:
\* dir_write_file does not sync.
PowerFailure ==
    /\ Fault("power")
    /\ \E lost \in SUBSET {dir[f] : f \in DOMAIN dir} :
          file' = [i \in Inode |-> IF i \in lost THEN Torn ELSE file[i]]
    /\ pc' = [p \in Proc |-> "idle"]
    /\ pack' = [p \in Proc |-> Null]
    /\ fd' = [p \in Proc |-> NoInode]
    /\ UNCHANGED <<dir, args>>

\* No bound allows another sync.
Rest ==
    /\ syncs = MaxSync
    /\ \A p \in Proc : pc[p] = "idle"
    /\ UNCHANGED vars

Step(p) == \/ Exists(p) \/ Read(p) \/ Delete(p) \/ Open(p) \/ Flush(p)
           \/ Rename(p) \/ RenameFails(p) \/ Unlink(p)

Next ==
    \/ \E p \in Proc : \/ \E c \in Config, h \in Hash : Start(p, c, h)
                       \/ Step(p)
                       \/ OpenFails(p) \/ ShortFlush(p) \/ Kill(p)
    \/ PowerFailure
    \/ Rest

Spec == Init /\ [][Next]_vars

\* A compiler that is not killed goes on.
FairSpec == Spec /\ \A p \in Proc : WF_vars(Step(p))

-----------------------------------------------------------------------------
(***************************************************************************)
(* Properties                                                              *)
(***************************************************************************)
Steps == {"idle", "exists", "read", "delete", "open"} \cup Writing

\* Types: an open file is exactly what a compiler about to flush has.
TypeOK ==
    /\ dir \in [{"pack", "tmp"} -> Inode \cup {NoInode}]
    /\ file \in [Inode -> Meta \cup {Empty, Torn}]
    /\ pc \in [Proc -> Steps]
    /\ args \in [Proc -> Meta \cup {Null}]
    /\ pack \in [Proc -> Meta \cup {Null}]
    /\ fd \in [Proc -> Inode \cup {NoInode}]
    /\ \A p \in Proc : /\ fd[p] # NoInode <=> pc[p] = "flush"
                       /\ pc[p] # "idle" => args[p] # Null
                       /\ pc[p] \in {"open"} \cup Writing => pack[p] # Null
    /\ syncs \in 0..MaxSync /\ faults \in 0..MaxFault
    /\ mishaps \subseteq {"overlap", "open", "full", "kill", "power"}
    /\ solo \in Proc \cup {Null}

\* The pack a sync returns describes its own job, not what another compiler
\* left in the file (pack.c:132-168).
ReturnCurrent ==
    \A p \in Proc : pc[p] = "idle" /\ pack[p] # Null =>
        /\ pack[p].hash = args[p].hash
        /\ pack[p].flags = args[p].flags
        /\ pack[p].name = args[p].name

\* A sync that has run alone and without a fault leaves its own job in the
\* file, whatever it found there: the pack of another project, a torn pack, a
\* temporary file left by a compiler that was killed.
SoloCurrent ==
    solo # Null /\ pc[solo] = "idle" =>
        PackRead(Bytes("pack")) = Stored(args[solo])

\* A temporary file is left behind only by a compiler that was killed: of any
\* number of compilers that share it the last one removes it.
NoLitter ==
    dir["tmp"] # NoInode =>
        \/ \E p \in Proc : pc[p] \in Writing
        \/ mishaps \cap {"kill", "power"} # {}

\* When nothing has gone wrong and every compiler has ended there is a pack,
\* although each of them may have deleted the one it found.
QuietPack ==
    /\ syncs > 0 /\ mishaps = {}
    /\ \A p \in Proc : pc[p] = "idle"
    => PackRead(Bytes("pack")) # Null

\* What a reader of .project.pack finds, and whether two compilers, a full
\* disk or a power failure may have damaged it.
Visible ==
    IF dir["pack"] = NoInode THEN NoInode
    ELSE IF PackRead(Bytes("pack")) = Null THEN Torn ELSE Bytes("pack")
Trusted == mishaps \cap {"overlap", "full", "power"} = {}

Pack == INSTANCE AtomicFile WITH
            Content <- Meta, Absent <- NoInode, Broken <- Torn,
            cell <- Visible, trusted <- Trusted,
            wanted <- {Stored(pack[p]) : p \in {q \in Proc : pc[q] = "rename"}}

\* The pack is an atomic file, however many compilers are killed: it is never
\* seen half written while writers do not overlap.
AtomicPack == Pack!Spec

\* A sync that is not killed ends, whatever the others do to its files.
SyncEnds == \A p \in Proc : pc[p] # "idle" ~> pc[p] = "idle"

-----------------------------------------------------------------------------
(***************************************************************************)
(* The inductive invariant of the proofs                                   *)
(***************************************************************************)
Job == {SyncArgs(c, h) : c \in Config, h \in Hash}
Unlinked(m) == [m EXCEPT !.link = Null]
Apart == "overlap" \notin mishaps

\* What is in memory is the job; what is in a file has neither name nor link,
\* because the flags of a job say that the configuration owns those it has.
PacksOK ==
    /\ \A p \in Proc : args[p] \in Job \cup {Null}
    /\ \A p \in Proc : pc[p] \in {"exists", "read", "delete"} => pack[p] = Null
    /\ \A p \in Proc : pack[p] # Null =>
          /\ args[p] # Null
          /\ pack[p] = Unlinked(args[p])
    /\ \A i \in Inode : file[i] \in Meta => file[i].name = Null /\ file[i].link = Null

\* Writers that do not overlap have the temporary file to themselves.
WritersOK ==
    /\ dir["tmp"] # NoInode => dir["tmp"] # dir["pack"]
    /\ Apart => /\ \A p, q \in Proc : pc[p] \in Writing /\ pc[q] \in Writing => p = q
                /\ \A p \in Proc : pc[p] = "flush" =>
                      fd[p] = dir["tmp"] /\ file[dir["tmp"]] = Empty
                /\ \A p \in Proc : pc[p] = "rename" => dir["tmp"] # NoInode
    /\ Trusted => /\ dir["pack"] # NoInode => file[dir["pack"]] \in Meta
                  /\ \A p \in Proc : pc[p] = "rename" =>
                        file[dir["tmp"]] = Stored(pack[p])

\* While there is no pack somebody is on the way to writing it.
PackComes ==
    mishaps = {} /\ syncs > 0 /\ dir["pack"] = NoInode =>
        \E p \in Proc : pc[p] \in {"exists", "read", "open", "flush", "rename"}

\* A compiler alone finds in the temporary file what it put there.
SoloOK ==
    Posix /\ solo # Null =>
        /\ args[solo] # Null
        /\ \A q \in Proc \ {solo} : pc[q] = "idle"
        /\ pc[solo] # "unlink"
        /\ pc[solo] = "flush" => fd[solo] = dir["tmp"] /\ file[dir["tmp"]] = Empty
        /\ pc[solo] = "rename" => /\ dir["tmp"] # NoInode
                                  /\ file[dir["tmp"]] = Stored(args[solo])
        /\ pc[solo] = "idle" => /\ dir["pack"] # NoInode
                                /\ file[dir["pack"]] = Stored(args[solo])

\* Inductive: what relates the files to the compilers that write them, and
\* the packs in memory to their jobs.
PackInv == TypeOK /\ PacksOK /\ WritersOK /\ NoLitter /\ PackComes /\ SoloOK
=============================================================================
