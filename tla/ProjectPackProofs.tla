------------------------- MODULE ProjectPackProofs -------------------------
(* What holds of ProjectPack for any number of compilers, and any bound. *)
EXTENDS ProjectPack, TLAPS

USE DEF Flags, Writing, Steps

-----------------------------------------------------------------------------
(* Jobs and packs *)

\* The arguments of a sync own exactly the name and the link they have.
LEMMA JobFacts ==
    ASSUME NEW a \in Job
    PROVE  /\ a \in Meta
           /\ a # Null
           /\ a.name # Null => "NAME" \in a.flags
           /\ a.link # Null => "FOOTPRINT" \in a.flags
<1>1. PICK c \in Config, h \in Hash : a = SyncArgs(c, h)  BY DEF Job
<1>2. c \in [valid : BOOLEAN, name : String, link : String]  BY ConfigAssumption
<1>3. Null \in String  BY DEF String
<1>4. CASE c.valid
    <2>1. a = [name |-> c.name, link |-> c.link, hash |-> h,
               flags |-> config_pack_own_flags(c)]  BY <1>1, <1>4 DEF SyncArgs
    <2>2. config_pack_own_flags(c) \in SUBSET {"NAME", "PATH", "FOOTPRINT"}
        BY DEF config_pack_own_flags
    <2>3. a \in Meta  BY <1>2, <2>1, <2>2 DEF Meta
    <2>4. a.name # Null => "NAME" \in a.flags  BY <2>1 DEF config_pack_own_flags
    <2>5. a.link # Null => "FOOTPRINT" \in a.flags  BY <2>1 DEF config_pack_own_flags
    <2>6. QED  BY <2>3, <2>4, <2>5, NullAssumption
<1>5. CASE ~c.valid
    <2>1. a = [name |-> Null, link |-> Null, hash |-> h, flags |-> {}]
        BY <1>1, <1>5 DEF SyncArgs
    <2>2. a \in Meta  BY <1>3, <2>1 DEF Meta
    <2>3. QED  BY <2>1, <2>2, NullAssumption
<1>6. QED  BY <1>4, <1>5

\* What is written of a job: neither its name nor its link.
LEMMA StoredJob ==
    ASSUME NEW a \in Job
    PROVE  LET m == Unlinked(a) IN
           /\ m \in Meta
           /\ m # Null
           /\ Stored(m) = Stored(a)
           /\ Stored(a) \in Meta
           /\ Stored(a).name = Null /\ Stored(a).link = Null
<1> DEFINE m == Unlinked(a)
<1>1. a \in Meta /\ a # Null /\ (a.name # Null => "NAME" \in a.flags)
          /\ (a.link # Null => "FOOTPRINT" \in a.flags)  BY JobFacts
<1>2. Null \in String  BY DEF String
<1>3. m \in Meta  BY <1>1, <1>2 DEF Meta, Unlinked
<1>4. Stored(a) = [a EXCEPT !.name = Null, !.link = Null]  BY <1>1 DEF Stored, Meta
<1>5. Stored(m) = [a EXCEPT !.name = Null, !.link = Null]  BY <1>1 DEF Stored, Meta, Unlinked
<1>6. Stored(a) \in Meta /\ Stored(a).name = Null /\ Stored(a).link = Null
    BY <1>1, <1>2, <1>4 DEF Meta
<1>7. QED  BY <1>3, <1>4, <1>5, <1>6, NullAssumption

\* A pack read back, when it has the name of the job: a dirty one is refreshed
\* to the job, a clean one is the job as it would be written.
LEMMA DecideFacts ==
    ASSUME NEW p \in Proc, NEW m, args[p] \in Job,
           m \in Meta => m.name = Null /\ m.link = Null,
           m \in Meta \cup {Null}, ~NameChanged(m, args[p]),
           TypeOK, Decide(p, m)
    PROVE  /\ pack' = [pack EXCEPT ![p] = Unlinked(args[p])]
           /\ \/ pc' = [pc EXCEPT ![p] = "open"]
              \/ /\ pc' = [pc EXCEPT ![p] = "idle"]
                 /\ m # Null
                 /\ m = Stored(args[p])
<1> DEFINE a == args[p]
<1>1. a \in Meta /\ a # Null /\ (a.name # Null => "NAME" \in a.flags)
          /\ (a.link # Null => "FOOTPRINT" \in a.flags)  BY JobFacts
<1>2. Stored(a) = [a EXCEPT !.name = Null, !.link = Null]  BY <1>1 DEF Stored, Meta
<1>3. CASE Dirty(m, a)
    <2>1. Refresh(m, a) = Unlinked(a)  BY <1>1 DEF Refresh, Unlinked, Meta
    <2>2. QED  BY <1>3, <2>1 DEF Decide, Holds, Goto
<1>4. CASE ~Dirty(m, a)
    <2>1. m # Null /\ m \in Meta /\ m.hash = a.hash /\ m.flags = a.flags
        BY <1>4 DEF Dirty
    <2>2. m.name = Null /\ m.link = Null /\ a.name = Null
        BY <2>1 DEF NameChanged
    <2>3. m = Unlinked(a)  BY <1>1, <2>1, <2>2 DEF Meta, Unlinked
    <2>4. m = Stored(a)  BY <1>1, <1>2, <2>1, <2>2 DEF Meta
    <2>5. QED  BY <1>4, <2>1, <2>3, <2>4 DEF Decide, Holds, Goto
<1>5. QED  BY <1>3, <1>4

-----------------------------------------------------------------------------
(* Types and packs *)

\* What project_pack_read returns is NULL or a pack without name and link.
LEMMA ReadFacts ==
    ASSUME TypeOK, PacksOK, NEW path \in {"pack", "tmp"}
    PROVE  LET m == PackRead(Bytes(path)) IN
           /\ m \in Meta \cup {Null}
           /\ m \in Meta => m.name = Null /\ m.link = Null
<1>1. Bytes(path) \in Meta \cup {Empty, Torn}  BY DEF Bytes, TypeOK
<1>2. Bytes(path) \in Meta => Bytes(path).name = Null /\ Bytes(path).link = Null
    <2>1. CASE dir[path] = NoInode  BY <2>1, ContentAssumption DEF Bytes
    <2>2. CASE dir[path] # NoInode
        <3>1. dir[path] \in Inode  BY <2>2 DEF TypeOK
        <3>2. QED  BY <2>2, <3>1 DEF Bytes, PacksOK
    <2>3. QED  BY <2>1, <2>2
<1>3. QED  BY <1>1, <1>2, ContentAssumption, NullAssumption DEF PackRead

\* The pack a compiler writes, by its arguments.
LEMMA PackFacts ==
    ASSUME TypeOK, PacksOK, NEW p \in Proc, pack[p] # Null
    PROVE  /\ args[p] \in Job
           /\ pack[p] = Unlinked(args[p])
           /\ Stored(pack[p]) = Stored(args[p])
           /\ Stored(pack[p]) \in Meta
           /\ Stored(pack[p]).name = Null /\ Stored(pack[p]).link = Null
<1>1. args[p] \in Job /\ pack[p] = Unlinked(args[p])  BY DEF PacksOK
<1>2. QED  BY <1>1, StoredJob

\* What the last write leaves in a file is the pack, or bytes that are no pack.
LEMMA OverwriteFacts ==
    ASSUME NEW content, NEW m, NEW c \in Overwrite(content, m)
    PROVE  /\ c \in {m, Torn}
           /\ content = Empty => c = m
BY DEF Overwrite

\* Exists, Read and Delete: they agree on what they leave unchanged, and each
\* either goes to the next call or decides.
LEMMA LookFacts ==
    ASSUME TypeOK, PacksOK, NEW p \in Proc, Exists(p) \/ Read(p) \/ Delete(p)
    PROVE  /\ pc[p] \in {"exists", "read", "delete"}
           /\ args[p] \in Job
           /\ UNCHANGED <<file, args, fd, syncs, faults, mishaps, solo>>
           /\ dir'["tmp"] = dir["tmp"]
           /\ dir' = dir \/ (Delete(p) /\ dir' = [dir EXCEPT !["pack"] = NoInode])
           /\ \/ /\ pack' = pack
                 /\ \/ pc' = [pc EXCEPT ![p] = "read"] /\ dir["pack"] # NoInode
                    \/ pc' = [pc EXCEPT ![p] = "delete"] /\ dir["pack"] # NoInode
              \/ /\ pack' = [pack EXCEPT ![p] = Unlinked(args[p])]
                 /\ \/ pc' = [pc EXCEPT ![p] = "open"]
                    \/ /\ pc' = [pc EXCEPT ![p] = "idle"]
                       /\ dir' = dir
                       /\ dir["pack"] # NoInode
                       /\ file[dir["pack"]] = Stored(args[p])
<1>1. pc[p] \in {"exists", "read", "delete"}  BY DEF Exists, Read, Delete
<1>2. args[p] \in Job  BY <1>1 DEF TypeOK, PacksOK
<1>3. ~NameChanged(Null, args[p])  BY DEF NameChanged
<1>4. Null \notin Meta  BY NullAssumption
<1>5. CASE Exists(p)
    <2>1. CASE dir["pack"] # NoInode
        BY <1>1, <1>2, <1>5, <2>1 DEF Exists, Goto, disk, history
    <2>2. CASE dir["pack"] = NoInode
        <3>1. Decide(p, Null)  BY <1>5, <2>2 DEF Exists
        <3>2. /\ pack' = [pack EXCEPT ![p] = Unlinked(args[p])]
              /\ pc' = [pc EXCEPT ![p] = "open"]
            BY <1>2, <1>3, <1>4, <3>1, DecideFacts
        <3>3. QED  BY <1>1, <1>2, <1>5, <3>2 DEF Exists, disk, history
    <2>3. QED  BY <2>1, <2>2
<1>6. CASE Read(p)
    <2> DEFINE m == PackRead(Bytes("pack"))
    <2>1. /\ m \in Meta \cup {Null}
          /\ m \in Meta => m.name = Null /\ m.link = Null  BY ReadFacts
    <2>2. m # Null => dir["pack"] # NoInode /\ m = file[dir["pack"]]
        BY DEF PackRead, Bytes
    <2>3. CASE NameChanged(m, args[p])
        <3>1. m # Null  BY <2>3 DEF NameChanged
        <3>2. QED  BY <1>1, <1>2, <1>6, <2>2, <2>3, <3>1 DEF Read, Goto, disk, history
    <2>4. CASE ~NameChanged(m, args[p])
        <3>1. Decide(p, m)  BY <1>6, <2>4 DEF Read
        <3>2. /\ pack' = [pack EXCEPT ![p] = Unlinked(args[p])]
              /\ \/ pc' = [pc EXCEPT ![p] = "open"]
                 \/ /\ pc' = [pc EXCEPT ![p] = "idle"]
                    /\ m # Null
                    /\ m = Stored(args[p])
            <4> HIDE DEF m
            <4>1. QED  BY <1>2, <2>1, <2>4, <3>1, DecideFacts
        <3>3. QED  BY <1>1, <1>2, <1>6, <2>2, <3>2 DEF Read, disk, history
    <2>5. QED  BY <2>3, <2>4
<1>7. CASE Delete(p)
    <2>1. Decide(p, Null)  BY <1>7 DEF Delete
    <2>2. /\ pack' = [pack EXCEPT ![p] = Unlinked(args[p])]
          /\ pc' = [pc EXCEPT ![p] = "open"]
        BY <1>2, <1>3, <1>4, <2>1, DecideFacts
    <2>3. dir' = [dir EXCEPT !["pack"] = NoInode] /\ dir'["tmp"] = dir["tmp"]
        BY <1>7 DEF Delete, TypeOK
    <2>4. QED  BY <1>1, <1>2, <1>7, <2>2, <2>3 DEF Delete, history
<1>8. QED  BY <1>5, <1>6, <1>7

\* fopen: the inode the temporary file has, or one nobody names or has open.
LEMMA OpenFacts ==
    ASSUME TypeOK, NEW p \in Proc, Open(p)
    PROVE  \E i \in Inode :
              /\ dir' = [dir EXCEPT !["tmp"] = i]
              /\ file' = [file EXCEPT ![i] = Empty]
              /\ fd' = [fd EXCEPT ![p] = i]
              /\ dir["tmp"] # NoInode => i = dir["tmp"]
              /\ dir["tmp"] = NoInode => i # dir["pack"]
<1>1. PICK i \in IF dir["tmp"] # NoInode THEN {dir["tmp"]}
                 ELSE {CHOOSE i \in FreeInode : TRUE} \cap FreeInode :
          /\ dir' = [dir EXCEPT !["tmp"] = i]
          /\ file' = [file EXCEPT ![i] = Empty]
          /\ fd' = [fd EXCEPT ![p] = i]
    BY DEF Open, OpenAt
<1>2. CASE dir["tmp"] # NoInode
    <2>1. i \in Inode /\ i = dir["tmp"]  BY <1>1, <1>2 DEF TypeOK
    <2>2. QED  BY <1>1, <1>2, <2>1
<1>3. CASE dir["tmp"] = NoInode
    <2>1. i \in FreeInode  BY <1>1, <1>3
    <2>2. dir["pack"] \in {dir[f] : f \in DOMAIN dir}  BY DEF TypeOK
    <2>3. i \in Inode /\ i # dir["pack"]  BY <2>1, <2>2 DEF FreeInode
    <2>4. QED  BY <1>1, <1>3, <2>3
<1>4. QED  BY <1>2, <1>3

\* Types and packs are kept by every step.
LEMMA TypeStep ==
    ASSUME TypeOK, PacksOK, [Next]_vars
    PROVE  TypeOK' /\ PacksOK'
<1> DEFINE Goal == TypeOK' /\ PacksOK'
<1>1. ASSUME NEW p \in Proc, NEW c \in Config, NEW h \in Hash, Start(p, c, h)
      PROVE  Goal
    <2>1. SyncArgs(c, h) \in Job  BY DEF Job
    <2>2. SyncArgs(c, h) \in Meta /\ SyncArgs(c, h) # Null  BY <2>1, JobFacts
    <2>3. /\ pc[p] = "idle"
          /\ args' = [args EXCEPT ![p] = SyncArgs(c, h)]
          /\ pack' = [pack EXCEPT ![p] = Null]
          /\ pc' = [pc EXCEPT ![p] = "exists"]
          /\ syncs < MaxSync /\ syncs' = syncs + 1
          /\ solo' \in Proc \cup {Null}
          /\ UNCHANGED <<dir, file, fd, faults, mishaps>>
        BY <1>1 DEF Start, Holds, Goto, disk
    <2>4. syncs' \in 0..MaxSync  BY <2>3, PackBoundAssumption DEF TypeOK
    <2>5. TypeOK'  BY <2>2, <2>3, <2>4 DEF TypeOK
    <2>6. PacksOK'  BY <2>1, <2>3 DEF PacksOK, TypeOK
    <2>7. QED  BY <2>5, <2>6
<1>2. ASSUME NEW p \in Proc, Exists(p) \/ Read(p) \/ Delete(p)
      PROVE  Goal
    <2>1. /\ pc[p] \in {"exists", "read", "delete"}
          /\ args[p] \in Job
          /\ UNCHANGED <<file, args, fd, syncs, faults, mishaps, solo>>
          /\ dir' = dir \/ dir' = [dir EXCEPT !["pack"] = NoInode]
          /\ \/ /\ pack' = pack
                /\ \/ pc' = [pc EXCEPT ![p] = "read"]
                   \/ pc' = [pc EXCEPT ![p] = "delete"]
             \/ /\ pack' = [pack EXCEPT ![p] = Unlinked(args[p])]
                /\ pc' = [pc EXCEPT ![p] = "open"] \/ pc' = [pc EXCEPT ![p] = "idle"]
        BY <1>2, LookFacts
    <2>2. Unlinked(args[p]) \in Meta /\ Unlinked(args[p]) # Null  BY <2>1, StoredJob
    <2>3. dir' \in [{"pack", "tmp"} -> Inode \cup {NoInode}]  BY <2>1 DEF TypeOK
    <2>4. fd[p] = NoInode /\ pack[p] = Null /\ args[p] # Null
        BY <2>1 DEF TypeOK, PacksOK
    <2>5. pack' \in [Proc -> Meta \cup {Null}] /\ pc' \in [Proc -> Steps]
        BY <2>1, <2>2 DEF TypeOK
    <2>6. \A q \in Proc : /\ fd'[q] # NoInode <=> pc'[q] = "flush"
                          /\ pc'[q] # "idle" => args'[q] # Null
                          /\ pc'[q] \in {"open"} \cup Writing => pack'[q] # Null
        BY <2>1, <2>2, <2>4 DEF TypeOK
    <2>7. TypeOK'  BY <2>1, <2>3, <2>5, <2>6 DEF TypeOK
    <2>8. PacksOK'  BY <2>1, <2>2, <2>4 DEF PacksOK, TypeOK
    <2>9. QED  BY <2>7, <2>8
<1>3. ASSUME NEW p \in Proc, Open(p)
      PROVE  Goal
    <2>1. PICK i \in Inode : /\ dir' = [dir EXCEPT !["tmp"] = i]
                             /\ file' = [file EXCEPT ![i] = Empty]
                             /\ fd' = [fd EXCEPT ![p] = i]
        BY <1>3, OpenFacts
    <2>2. /\ pc[p] = "open"
          /\ pc' = [pc EXCEPT ![p] = "flush"]
          /\ mishaps' \subseteq mishaps \cup {"overlap"}
          /\ UNCHANGED <<args, pack, syncs, faults, solo>>
        BY <1>3 DEF Open, OpenAt, Goto
    <2>3. TypeOK'  BY <2>1, <2>2, InodeAssumption DEF TypeOK
    <2>4. PacksOK'  BY <2>1, <2>2, ContentAssumption DEF PacksOK, TypeOK
    <2>5. QED  BY <2>3, <2>4
<1>4. ASSUME NEW p \in Proc, Flush(p)
      PROVE  Goal
    <2>1. pc[p] = "flush" /\ fd[p] \in Inode /\ pack[p] # Null
        BY <1>4 DEF Flush, TypeOK
    <2>2. PICK c \in Overwrite(file[fd[p]], Stored(pack[p])) :
              file' = [file EXCEPT ![fd[p]] = c]
        BY <1>4 DEF Flush
    <2>3. c \in {Stored(pack[p]), Torn}  BY <2>2, OverwriteFacts
    <2>4. /\ Stored(pack[p]) \in Meta
          /\ Stored(pack[p]).name = Null /\ Stored(pack[p]).link = Null
        BY <2>1, PackFacts
    <2>5. /\ pc' = [pc EXCEPT ![p] = "rename"]
          /\ fd' = [fd EXCEPT ![p] = NoInode]
          /\ UNCHANGED <<dir, args, pack, syncs, faults, mishaps, solo>>
        BY <1>4 DEF Flush, Goto, Close, history
    <2>6. c \in Meta \cup {Empty, Torn} /\ (c \in Meta => c.name = Null /\ c.link = Null)
        BY <2>3, <2>4, ContentAssumption
    <2>7. TypeOK'  BY <2>1, <2>2, <2>5, <2>6 DEF TypeOK
    <2>8. PacksOK'  BY <2>1, <2>2, <2>5, <2>6 DEF PacksOK, TypeOK
    <2>9. QED  BY <2>7, <2>8
<1>5. ASSUME NEW p \in Proc, ShortFlush(p)
      PROVE  Goal
    <2>1. pc[p] = "flush" /\ fd[p] \in Inode  BY <1>5 DEF ShortFlush, TypeOK
    <2>2. PICK c \in {file[fd[p]], Torn} : file' = [file EXCEPT ![fd[p]] = c]
        BY <1>5 DEF ShortFlush
    <2>3. /\ pc' = [pc EXCEPT ![p] = "unlink"] \/ pc' = [pc EXCEPT ![p] = "rename"]
          /\ fd' = [fd EXCEPT ![p] = NoInode]
          /\ faults < MaxFault /\ faults' = faults + 1
          /\ mishaps' = mishaps \cup {"full"} /\ solo' = Null
          /\ UNCHANGED <<dir, args, pack, syncs>>
        BY <1>5 DEF ShortFlush, Goto, Close, Fault
    <2>4. faults' \in 0..MaxFault  BY <2>3, PackBoundAssumption DEF TypeOK
    <2>5. TypeOK'  BY <2>1, <2>2, <2>3, <2>4 DEF TypeOK
    <2>6. PacksOK'  BY <2>1, <2>2, <2>3, ContentAssumption DEF PacksOK, TypeOK
    <2>7. QED  BY <2>5, <2>6
<1>6. ASSUME NEW p \in Proc, OpenFails(p)
      PROVE  Goal
    <2>1. /\ pc[p] = "open" /\ pc' = [pc EXCEPT ![p] = "idle"]
          /\ faults < MaxFault /\ faults' = faults + 1
          /\ mishaps' = mishaps \cup {"open"} /\ solo' = Null
          /\ UNCHANGED <<dir, file, args, pack, fd, syncs>>
        BY <1>6 DEF OpenFails, Goto, Fault, disk
    <2>2. faults' \in 0..MaxFault  BY <2>1, PackBoundAssumption DEF TypeOK
    <2>3. TypeOK'  BY <2>1, <2>2 DEF TypeOK
    <2>4. PacksOK'  BY <2>1 DEF PacksOK, TypeOK
    <2>5. QED  BY <2>3, <2>4
<1>7. ASSUME NEW p \in Proc, Rename(p) \/ RenameFails(p) \/ Unlink(p)
      PROVE  Goal
    <2>1. /\ pc[p] \in {"rename", "unlink"}
          /\ pc' = [pc EXCEPT ![p] = "idle"] \/ pc' = [pc EXCEPT ![p] = "unlink"]
          /\ UNCHANGED <<file, args, pack, fd, syncs, faults, mishaps, solo>>
        BY <1>7 DEF Rename, RenameFails, Unlink, Goto, disk, history
    <2>2. dir' \in [{"pack", "tmp"} -> Inode \cup {NoInode}]
        BY <1>7 DEF Rename, RenameFails, Unlink, TypeOK, disk
    <2>3. TypeOK'  BY <2>1, <2>2 DEF TypeOK
    <2>4. PacksOK'  BY <2>1 DEF PacksOK, TypeOK
    <2>5. QED  BY <2>3, <2>4
<1>8. ASSUME NEW p \in Proc, Kill(p)
      PROVE  Goal
    <2>1. /\ pc' = [pc EXCEPT ![p] = "idle"]
          /\ pack' = [pack EXCEPT ![p] = Null]
          /\ fd' = [fd EXCEPT ![p] = NoInode]
          /\ faults < MaxFault /\ faults' = faults + 1
          /\ mishaps' = mishaps \cup {"kill"} /\ solo' = Null
          /\ UNCHANGED <<dir, file, args, syncs>>
        BY <1>8 DEF Kill, Goto, Holds, Close, Fault, disk
    <2>2. faults' \in 0..MaxFault  BY <2>1, PackBoundAssumption DEF TypeOK
    <2>3. TypeOK'  BY <2>1, <2>2 DEF TypeOK
    <2>4. PacksOK'  BY <2>1 DEF PacksOK, TypeOK
    <2>5. QED  BY <2>3, <2>4
<1>9. ASSUME PowerFailure
      PROVE  Goal
    <2>1. PICK lost : file' = [i \in Inode |-> IF i \in lost THEN Torn ELSE file[i]]
        BY <1>9 DEF PowerFailure
    <2>2. /\ pc' = [p \in Proc |-> "idle"]
          /\ pack' = [p \in Proc |-> Null]
          /\ fd' = [p \in Proc |-> NoInode]
          /\ faults < MaxFault /\ faults' = faults + 1
          /\ mishaps' = mishaps \cup {"power"} /\ solo' = Null
          /\ UNCHANGED <<dir, args, syncs>>
        BY <1>9 DEF PowerFailure, Fault
    <2>3. faults' \in 0..MaxFault  BY <2>2, PackBoundAssumption DEF TypeOK
    <2>4. TypeOK'  BY <2>1, <2>2, <2>3 DEF TypeOK
    <2>5. PacksOK'  BY <2>1, <2>2, ContentAssumption DEF PacksOK, TypeOK
    <2>6. QED  BY <2>4, <2>5
<1>10. ASSUME UNCHANGED vars
       PROVE  Goal
    <2>1. UNCHANGED <<dir, file, pc, args, pack, fd, syncs, faults, mishaps, solo>>
        BY <1>10 DEF vars
    <2>2. TypeOK'  BY <2>1 DEF TypeOK
    <2>3. PacksOK'  BY <2>1 DEF PacksOK
    <2>4. QED  BY <2>2, <2>3
<1>11. QED
    BY <1>1, <1>2, <1>3, <1>4, <1>5, <1>6, <1>7, <1>8, <1>9, <1>10
    DEF Next, Step, Rest

-----------------------------------------------------------------------------
(* Writers and the temporary file *)

\* A compiler about to rename keeps its pack until it has done so.
LEMMA PackKept ==
    ASSUME TypeOK, PacksOK, [Next]_vars,
           NEW q \in Proc, pc[q] = "rename", pc'[q] = "rename"
    PROVE  pack'[q] = pack[q]
<1>1. ASSUME NEW p \in Proc, NEW m, pc[p] # "rename" \/ pc'[p] # "rename",
             pack' = pack \/ pack' = [pack EXCEPT ![p] = m]
      PROVE  pack'[q] = pack[q]
    BY <1>1 DEF TypeOK
<1>2. ASSUME NEW p \in Proc, NEW c \in Config, NEW h \in Hash, Start(p, c, h)
      PROVE  pack'[q] = pack[q]
    BY <1>1, <1>2 DEF Start, Holds
<1>3. ASSUME NEW p \in Proc, Exists(p) \/ Read(p) \/ Delete(p)
      PROVE  pack'[q] = pack[q]
    <2>1. pc[p] # "rename"
          /\ (pack' = pack \/ pack' = [pack EXCEPT ![p] = Unlinked(args[p])])
        BY <1>3, LookFacts
    <2>2. QED  BY <1>1, <2>1
<1>4. ASSUME NEW p \in Proc, \/ Open(p) \/ OpenFails(p) \/ Flush(p) \/ ShortFlush(p)
                             \/ Rename(p) \/ RenameFails(p) \/ Unlink(p)
      PROVE  pack'[q] = pack[q]
    BY <1>4 DEF Open, OpenAt, OpenFails, Flush, ShortFlush, Rename, RenameFails, Unlink
<1>5. ASSUME NEW p \in Proc, Kill(p)
      PROVE  pack'[q] = pack[q]
    <2>1. pc'[p] = "idle" /\ pack' = [pack EXCEPT ![p] = Null]
        BY <1>5 DEF Kill, Goto, Holds, TypeOK
    <2>2. QED  BY <1>1, <2>1
<1>6. ASSUME PowerFailure
      PROVE  FALSE
    BY <1>6 DEF PowerFailure
<1>7. ASSUME UNCHANGED vars
      PROVE  pack'[q] = pack[q]
    BY <1>7 DEF vars
<1>8. QED  BY <1>2, <1>3, <1>4, <1>5, <1>6, <1>7 DEF Next, Step, Rest

\* What a step does to the writers and their files, whatever the step is.
LEMMA WritersStep ==
    ASSUME TypeOK, PacksOK, WritersOK, [Next]_vars
    PROVE  WritersOK'
<1>1. ASSUME NEW p \in Proc, NEW c \in Config, NEW h \in Hash, Start(p, c, h)
      PROVE  WritersOK'
    <2>1. pc' = [pc EXCEPT ![p] = "exists"] /\ UNCHANGED <<dir, file, fd, mishaps>>
        BY <1>1 DEF Start, Goto, disk
    <2>2. \A q \in Proc : /\ pc'[q] \in Writing => pc[q] \in Writing
                          /\ pc'[q] = "flush" => pc[q] = "flush"
                          /\ pc'[q] = "rename" => pc[q] = "rename"
        BY <2>1 DEF TypeOK
    <2>3. \A q \in Proc : pc'[q] = "rename" => pack'[q] = pack[q]
        BY <2>2, PackKept
    <2>4. QED  BY <2>1, <2>2, <2>3 DEF WritersOK, Apart, Trusted
<1>2. ASSUME NEW p \in Proc, Exists(p) \/ Read(p) \/ Delete(p)
      PROVE  WritersOK'
    <2>1. /\ UNCHANGED <<file, fd, mishaps>>
          /\ dir'["tmp"] = dir["tmp"]
          /\ dir' = dir \/ dir' = [dir EXCEPT !["pack"] = NoInode]
          /\ \E l \in {"read", "delete", "open", "idle"} : pc' = [pc EXCEPT ![p] = l]
        BY <1>2, LookFacts
    <2>2. dir'["pack"] \in {dir["pack"], NoInode}  BY <2>1 DEF TypeOK
    <2>3. \A q \in Proc : /\ pc'[q] \in Writing => pc[q] \in Writing
                          /\ pc'[q] = "flush" => pc[q] = "flush"
                          /\ pc'[q] = "rename" => pc[q] = "rename"
        BY <2>1 DEF TypeOK
    <2>4. \A q \in Proc : pc'[q] = "rename" => pack'[q] = pack[q]
        BY <2>3, PackKept
    <2>5. QED  BY <2>1, <2>2, <2>3, <2>4 DEF WritersOK, Apart, Trusted
<1>3. ASSUME NEW p \in Proc, Open(p)
      PROVE  WritersOK'
    <2>1. PICK i \in Inode : /\ dir' = [dir EXCEPT !["tmp"] = i]
                             /\ file' = [file EXCEPT ![i] = Empty]
                             /\ fd' = [fd EXCEPT ![p] = i]
                             /\ dir["tmp"] # NoInode => i = dir["tmp"]
                             /\ dir["tmp"] = NoInode => i # dir["pack"]
        BY <1>3, OpenFacts
    <2>2. /\ pc' = [pc EXCEPT ![p] = "flush"]
          /\ mishaps' = mishaps \cup
                (IF \E q \in Proc : pc[q] \in Writing THEN {"overlap"} ELSE {})
        BY <1>3 DEF Open, OpenAt, Goto
    <2>3. i # dir["pack"] /\ dir'["tmp"] = i /\ dir'["pack"] = dir["pack"]
        BY <2>1, InodeAssumption DEF WritersOK, TypeOK
    <2>4. file'[i] = Empty /\ \A j \in Inode \ {i} : file'[j] = file[j]
        BY <2>1 DEF TypeOK
    <2>5. Apart' => Apart /\ \A q \in Proc : pc[q] \notin Writing
        BY <2>2 DEF Apart
    <2>6. Apart' => /\ \A q \in Proc : pc'[q] \in Writing => q = p /\ pc'[q] = "flush"
                    /\ fd'[p] = i
        BY <2>1, <2>2, <2>5 DEF TypeOK
    <2>7. Trusted' => Trusted /\ Apart'  BY <2>2 DEF Trusted, Apart
    <2>8. Trusted' /\ dir'["pack"] # NoInode => file'[dir'["pack"]] \in Meta
        BY <2>3, <2>4, <2>7 DEF WritersOK, TypeOK
    <2>9. QED  BY <2>3, <2>4, <2>6, <2>7, <2>8 DEF WritersOK
<1>4. ASSUME NEW p \in Proc, Flush(p) \/ ShortFlush(p)
      PROVE  WritersOK'
    <2>1. /\ pc[p] = "flush" /\ fd[p] \in Inode /\ pack[p] # Null
          /\ \/ pc' = [pc EXCEPT ![p] = "rename"]
             \/ pc' = [pc EXCEPT ![p] = "unlink"] /\ ShortFlush(p)
          /\ fd' = [fd EXCEPT ![p] = NoInode]
          /\ dir' = dir
          /\ mishaps' = mishaps \/ (mishaps' = mishaps \cup {"full"} /\ ShortFlush(p))
        BY <1>4 DEF Flush, ShortFlush, Goto, Close, Fault, history, TypeOK
    <2>2. PICK c : /\ file' = [file EXCEPT ![fd[p]] = c]
                   /\ Flush(p) => c \in Overwrite(file[fd[p]], Stored(pack[p]))
        BY <1>4 DEF Flush, ShortFlush
    <2>3. Stored(pack[p]) \in Meta  BY <2>1, PackFacts
    <2>4. Apart' => /\ Apart
                    /\ fd[p] = dir["tmp"]
                    /\ file[dir["tmp"]] = Empty
                    /\ \A q \in Proc \ {p} : pc[q] \notin Writing
        BY <2>1 DEF Apart, WritersOK
    <2>5. Trusted' => Trusted /\ Apart' /\ mishaps' = mishaps
        BY <2>1 DEF Trusted, Apart
    <2>6. Trusted' => Flush(p)
        BY <1>4, <2>5 DEF ShortFlush, Fault, Trusted
    <2>7. Trusted' => c = Stored(pack[p])
        BY <2>2, <2>3, <2>4, <2>5, <2>6, OverwriteFacts
    <2>8. \A q \in Proc : pc'[q] # "flush" \/ (q # p /\ pc[q] = "flush")
        BY <2>1 DEF TypeOK
    <2>9. Apart' => /\ \A q, r \in Proc : pc'[q] \in Writing /\ pc'[r] \in Writing => q = r
                    /\ \A q \in Proc : pc'[q] # "flush"
                    /\ \A q \in Proc : pc'[q] = "rename" => q = p
                    /\ dir'["tmp"] # NoInode
        BY <2>1, <2>4, InodeAssumption DEF TypeOK
    <2>10. Trusted' => /\ file'[dir'["tmp"]] = Stored(pack'[p])
                       /\ dir'["pack"] # NoInode => file'[dir'["pack"]] \in Meta
        BY <1>4, <2>1, <2>2, <2>3, <2>4, <2>5, <2>7
        DEF WritersOK, TypeOK, Flush, ShortFlush
    <2>11. Trusted' => /\ dir'["pack"] # NoInode => file'[dir'["pack"]] \in Meta
                       /\ \A q \in Proc : pc'[q] = "rename" =>
                             file'[dir'["tmp"]] = Stored(pack'[q])
        <3>1. HAVE Trusted'
        <3>2. \A q \in Proc : pc'[q] = "rename" => q = p  BY <2>5, <2>9, <3>1
        <3>3. QED  BY <2>10, <3>1, <3>2
    <2>12. dir'["tmp"] # NoInode => dir'["tmp"] # dir'["pack"]
        BY <2>1 DEF WritersOK
    <2>13. \A q \in Proc : pc'[q] = "flush" => ~Apart'
        BY <2>9
    <2>14. QED  BY <2>9, <2>11, <2>12, <2>13 DEF WritersOK
<1>5. ASSUME NEW p \in Proc, Rename(p)
      PROVE  WritersOK'
    <2>1. /\ pc[p] = "rename" /\ pc' = [pc EXCEPT ![p] = "idle"]
          /\ dir'["pack"] = dir["tmp"] /\ dir'["tmp"] = NoInode
          /\ UNCHANGED <<file, fd, mishaps>>
        BY <1>5 DEF Rename, Goto, history
    <2>2. \A q \in Proc : /\ pc'[q] \in Writing => pc[q] \in Writing /\ q # p
                          /\ pc'[q] = "flush" => pc[q] = "flush"
        BY <2>1 DEF TypeOK
    <2>3. Apart' => \A q \in Proc : pc'[q] \notin Writing
        BY <2>1, <2>2 DEF Apart, WritersOK
    <2>4. Trusted' => file'[dir'["pack"]] \in Meta
        <3>1. Trusted' => file[dir["tmp"]] = Stored(pack[p])
            BY <2>1 DEF Trusted, WritersOK
        <3>2. pack[p] # Null  BY <2>1 DEF TypeOK
        <3>3. QED  BY <2>1, <3>1, <3>2, PackFacts
    <2>5. Trusted' => Apart'  BY DEF Trusted, Apart
    <2>6. QED  BY <2>1, <2>3, <2>4, <2>5 DEF WritersOK
<1>6. ASSUME NEW p \in Proc, RenameFails(p) \/ OpenFails(p) \/ Kill(p)
      PROVE  WritersOK'
    <2>1. /\ \/ pc' = [pc EXCEPT ![p] = "idle"]
             \/ pc[p] = "rename" /\ pc' = [pc EXCEPT ![p] = "unlink"]
          /\ fd' = fd \/ (fd' = [fd EXCEPT ![p] = NoInode] /\ pc'[p] = "idle")
          /\ UNCHANGED <<dir, file>>
          /\ \E s \in {{}, {"open"}, {"kill"}} : mishaps' = mishaps \cup s
        <3>1. CASE RenameFails(p)
            <4>1. mishaps' = mishaps \cup {}  BY <3>1 DEF RenameFails, history
            <4>2. QED  BY <3>1, <4>1 DEF RenameFails, Goto, disk
        <3>2. CASE OpenFails(p)
            BY <3>2 DEF OpenFails, Goto, Fault, disk
        <3>3. CASE Kill(p)
            <4>1. pc' = [pc EXCEPT ![p] = "idle"] /\ pc'[p] = "idle"
                BY <3>3 DEF Kill, Goto, TypeOK
            <4>2. QED  BY <3>3, <4>1 DEF Kill, Close, Fault, disk
        <3>4. QED  BY <1>6, <3>1, <3>2, <3>3
    <2>2. \A q \in Proc : /\ pc'[q] \in Writing => pc[q] \in Writing
                          /\ pc'[q] = "flush" => pc[q] = "flush" /\ fd'[q] = fd[q]
                          /\ pc'[q] = "rename" => pc[q] = "rename"
        BY <2>1 DEF TypeOK
    <2>3. (Apart' => Apart) /\ (Trusted' => Trusted)  BY <2>1 DEF Apart, Trusted
    <2>4. \A q \in Proc : pc'[q] = "rename" => pack'[q] = pack[q]
        BY <2>2, PackKept
    <2>5. QED  BY <2>1, <2>2, <2>3, <2>4 DEF WritersOK
<1>7. ASSUME NEW p \in Proc, Unlink(p)
      PROVE  WritersOK'
    <2>1. /\ pc[p] = "unlink" /\ pc' = [pc EXCEPT ![p] = "idle"]
          /\ dir'["pack"] = dir["pack"]
          /\ dir'["tmp"] \in {dir["tmp"], NoInode}
          /\ UNCHANGED <<file, fd, mishaps>>
        BY <1>7 DEF Unlink, Goto, history, TypeOK
    <2>2. \A q \in Proc : /\ pc'[q] \in Writing => pc[q] \in Writing /\ q # p
                          /\ pc'[q] = "flush" => pc[q] = "flush"
                          /\ pc'[q] = "rename" => pc[q] = "rename"
        BY <2>1 DEF TypeOK
    <2>3. Apart' => \A q \in Proc : pc'[q] \notin Writing
        BY <2>1, <2>2 DEF Apart, WritersOK
    <2>4. (Apart' => Apart) /\ (Trusted' => Trusted /\ Apart')
        BY <2>1 DEF Apart, Trusted
    <2>5. QED  BY <2>1, <2>3, <2>4 DEF WritersOK
<1>8. ASSUME PowerFailure
      PROVE  WritersOK'
    <2>1. /\ pc' = [p \in Proc |-> "idle"]
          /\ dir' = dir
          /\ "power" \in mishaps'
        BY <1>8 DEF PowerFailure, Fault
    <2>2. ~Trusted' /\ \A q \in Proc : pc'[q] = "idle"  BY <2>1 DEF Trusted
    <2>3. QED  BY <2>1, <2>2 DEF WritersOK
<1>9. ASSUME UNCHANGED vars
      PROVE  WritersOK'
    BY <1>9 DEF vars, WritersOK, Apart, Trusted
<1>10. QED
    BY <1>1, <1>2, <1>3, <1>4, <1>5, <1>6, <1>7, <1>8, <1>9 DEF Next, Step, Rest

\* A temporary file is somebody's, unless its writer was killed.
LEMMA LitterStep ==
    ASSUME TypeOK, PacksOK, NoLitter, [Next]_vars
    PROVE  NoLitter'
<1>1. ASSUME NEW p \in Proc, NEW c \in Config, NEW h \in Hash, Start(p, c, h)
      PROVE  NoLitter'
    <2>1. /\ pc[p] = "idle" /\ pc' = [pc EXCEPT ![p] = "exists"]
          /\ UNCHANGED <<dir, mishaps>>
        BY <1>1 DEF Start, Goto, disk
    <2>2. \A q \in Proc : pc[q] \in Writing => pc'[q] \in Writing  BY <2>1 DEF TypeOK
    <2>3. QED  BY <2>1, <2>2 DEF NoLitter
<1>2. ASSUME NEW p \in Proc, Exists(p) \/ Read(p) \/ Delete(p)
      PROVE  NoLitter'
    <2>1. /\ pc[p] \in {"exists", "read", "delete"}
          /\ mishaps' = mishaps /\ dir'["tmp"] = dir["tmp"]
          /\ \E l \in {"read", "delete", "open", "idle"} : pc' = [pc EXCEPT ![p] = l]
        BY <1>2, LookFacts
    <2>2. \A q \in Proc : pc[q] \in Writing => pc'[q] \in Writing  BY <2>1 DEF TypeOK
    <2>3. QED  BY <2>1, <2>2 DEF NoLitter
<1>3. ASSUME NEW p \in Proc, Open(p)
      PROVE  NoLitter'
    <2>1. pc'[p] = "flush"  BY <1>3 DEF Open, OpenAt, Goto, TypeOK
    <2>2. QED  BY <2>1 DEF NoLitter
<1>4. ASSUME NEW p \in Proc, Flush(p) \/ ShortFlush(p) \/ RenameFails(p)
      PROVE  NoLitter'
    <2>1. pc'[p] \in Writing
        BY <1>4 DEF Flush, ShortFlush, RenameFails, Goto, TypeOK
    <2>2. QED  BY <2>1 DEF NoLitter
<1>5. ASSUME NEW p \in Proc, Rename(p)
      PROVE  NoLitter'
    BY <1>5 DEF Rename, NoLitter
<1>6. ASSUME NEW p \in Proc, OpenFails(p)
      PROVE  NoLitter'
    <2>1. /\ pc[p] = "open" /\ pc' = [pc EXCEPT ![p] = "idle"]
          /\ mishaps' = mishaps \cup {"open"} /\ dir' = dir
        BY <1>6 DEF OpenFails, Goto, Fault, disk
    <2>2. \A q \in Proc : pc[q] \in Writing => pc'[q] \in Writing  BY <2>1 DEF TypeOK
    <2>3. QED  BY <2>1, <2>2 DEF NoLitter
<1>7. ASSUME NEW p \in Proc, Unlink(p)
      PROVE  NoLitter'
    <2>1. /\ pc[p] = "unlink" /\ pc' = [pc EXCEPT ![p] = "idle"]
          /\ dir'["tmp"] # NoInode => IsOpen(dir["tmp"]) /\ dir["tmp"] # NoInode
          /\ dir'["tmp"] # NoInode => dir' = dir
        BY <1>7 DEF Unlink, Goto, TypeOK
    <2>2. ASSUME dir'["tmp"] # NoInode
          PROVE  \E q \in Proc : pc'[q] \in Writing
        <3>1. PICK q \in Proc : fd[q] = dir["tmp"]  BY <2>1, <2>2 DEF IsOpen
        <3>2. pc[q] = "flush" /\ q # p  BY <2>1, <2>2, <3>1 DEF TypeOK
        <3>3. pc'[q] = "flush"  BY <2>1, <3>2 DEF TypeOK
        <3>4. QED  BY <3>3
    <2>3. QED  BY <2>2 DEF NoLitter
<1>8. ASSUME (\E p \in Proc : Kill(p)) \/ PowerFailure
      PROVE  NoLitter'
    <2>1. "kill" \in mishaps' \/ "power" \in mishaps'
        BY <1>8 DEF Kill, PowerFailure, Fault
    <2>2. QED  BY <2>1 DEF NoLitter
<1>9. ASSUME UNCHANGED vars
      PROVE  NoLitter'
    BY <1>9 DEF vars, NoLitter
<1>10. QED
    BY <1>1, <1>2, <1>3, <1>4, <1>5, <1>6, <1>7, <1>8, <1>9 DEF Next, Step, Rest

\* Nothing having gone wrong, whoever finds no pack goes on to write it.
LEMMA ComesStep ==
    ASSUME TypeOK, PacksOK, WritersOK, PackComes, [Next]_vars
    PROVE  PackComes'
<1> DEFINE Coming == {"exists", "read", "open", "flush", "rename"}
<1>1. ASSUME NEW p \in Proc, NEW c \in Config, NEW h \in Hash, Start(p, c, h)
      PROVE  PackComes'
    <2>1. pc'[p] = "exists"  BY <1>1 DEF Start, Goto, TypeOK
    <2>2. QED  BY <2>1 DEF PackComes
<1>2. ASSUME NEW p \in Proc, Exists(p) \/ Read(p) \/ Delete(p)
      PROVE  PackComes'
    <2>1. CASE pc'[p] \in Coming  BY <2>1 DEF PackComes
    <2>2. CASE pc'[p] \notin Coming
        <3>1. /\ \E l \in {"delete", "idle"} : pc' = [pc EXCEPT ![p] = l]
              /\ dir["pack"] # NoInode
              /\ dir' = dir \/ Delete(p)
            BY <1>2, <2>2, LookFacts DEF TypeOK
        <3>2. ~Delete(p)
            <4>1. SUFFICES ASSUME Delete(p) PROVE FALSE  OBVIOUS
            <4>2. args[p] \in Job  BY <1>2, LookFacts
            <4>3. Decide(p, Null) /\ ~NameChanged(Null, args[p]) /\ Null \notin Meta
                BY <4>1, NullAssumption DEF Delete, NameChanged
            <4>4. pc' = [pc EXCEPT ![p] = "open"]  BY <4>2, <4>3, DecideFacts
            <4>5. QED  BY <2>2, <4>4 DEF TypeOK
        <3>3. QED  BY <3>1, <3>2 DEF PackComes
    <2>3. QED  BY <2>1, <2>2
<1>3. ASSUME NEW p \in Proc, Open(p)
      PROVE  PackComes'
    <2>1. pc'[p] = "flush"  BY <1>3 DEF Open, OpenAt, Goto, TypeOK
    <2>2. QED  BY <2>1 DEF PackComes
<1>4. ASSUME NEW p \in Proc, Flush(p)
      PROVE  PackComes'
    <2>1. pc'[p] = "rename"  BY <1>4 DEF Flush, Goto, TypeOK
    <2>2. QED  BY <2>1 DEF PackComes
<1>5. ASSUME NEW p \in Proc, Rename(p)
      PROVE  PackComes'
    <2>1. dir'["pack"] # NoInode  BY <1>5 DEF Rename, CanRename
    <2>2. QED  BY <2>1 DEF PackComes
<1>6. ASSUME NEW p \in Proc, RenameFails(p)
      PROVE  PackComes'
    <2>1. /\ pc[p] = "rename" /\ ~CanRename
          /\ UNCHANGED <<dir, syncs, mishaps>>
          /\ pc' = [pc EXCEPT ![p] = "unlink"]
        BY <1>6 DEF RenameFails, Goto, disk, history
    <2>2. SUFFICES ASSUME mishaps = {}, dir["pack"] = NoInode
                   PROVE  FALSE
        BY <2>1 DEF PackComes
    <2>3. dir["tmp"] # NoInode /\ \A q \in Proc : pc[q] \in Writing => q = p
        BY <2>1, <2>2 DEF WritersOK, Apart
    <2>4. IsOpen(dir["tmp"])  BY <2>1, <2>2, <2>3 DEF CanRename
    <2>5. PICK q \in Proc : fd[q] = dir["tmp"]  BY <2>4 DEF IsOpen
    <2>6. pc[q] = "flush"  BY <2>3, <2>5 DEF TypeOK
    <2>7. QED  BY <2>1, <2>3, <2>6
<1>7. ASSUME NEW p \in Proc, Unlink(p)
      PROVE  PackComes'
    <2>1. /\ pc[p] = "unlink" /\ pc' = [pc EXCEPT ![p] = "idle"]
          /\ UNCHANGED <<syncs, mishaps>> /\ dir'["pack"] = dir["pack"]
        BY <1>7 DEF Unlink, Goto, history, TypeOK
    <2>2. \A q \in Proc : pc[q] \in Coming => pc'[q] \in Coming  BY <2>1 DEF TypeOK
    <2>3. QED  BY <2>1, <2>2 DEF PackComes
<1>8. ASSUME \/ \E p \in Proc : OpenFails(p) \/ ShortFlush(p) \/ Kill(p)
             \/ PowerFailure
      PROVE  PackComes'
    <2>1. mishaps' # {}
        BY <1>8 DEF OpenFails, ShortFlush, Kill, PowerFailure, Fault
    <2>2. QED  BY <2>1 DEF PackComes
<1>9. ASSUME UNCHANGED vars
      PROVE  PackComes'
    BY <1>9 DEF vars, PackComes
<1>10. QED
    BY <1>1, <1>2, <1>3, <1>4, <1>5, <1>6, <1>7, <1>8, <1>9 DEF Next, Step, Rest

\* A compiler that has run alone so far has its own files before it.
LEMMA SoloStep ==
    ASSUME TypeOK, PacksOK, SoloOK, [Next]_vars
    PROVE  SoloOK'
<1> SUFFICES ASSUME Posix, solo' # Null
             PROVE  /\ args'[solo'] # Null
                    /\ \A q \in Proc \ {solo'} : pc'[q] = "idle"
                    /\ pc'[solo'] # "unlink"
                    /\ pc'[solo'] = "flush" =>
                          fd'[solo'] = dir'["tmp"] /\ file'[dir'["tmp"]] = Empty
                    /\ pc'[solo'] = "rename" =>
                          dir'["tmp"] # NoInode /\ file'[dir'["tmp"]] = Stored(args'[solo'])
                    /\ pc'[solo'] = "idle" =>
                          dir'["pack"] # NoInode /\ file'[dir'["pack"]] = Stored(args'[solo'])
    BY DEF SoloOK, Stored
<1> DEFINE Goal ==
        /\ args'[solo'] # Null
        /\ \A q \in Proc \ {solo'} : pc'[q] = "idle"
        /\ pc'[solo'] # "unlink"
        /\ pc'[solo'] = "flush" =>
              fd'[solo'] = dir'["tmp"] /\ file'[dir'["tmp"]] = Empty
        /\ pc'[solo'] = "rename" =>
              dir'["tmp"] # NoInode /\ file'[dir'["tmp"]] = Stored(args'[solo'])
        /\ pc'[solo'] = "idle" =>
              dir'["pack"] # NoInode /\ file'[dir'["pack"]] = Stored(args'[solo'])
<1>1. ASSUME NEW p \in Proc, NEW c \in Config, NEW h \in Hash, Start(p, c, h)
      PROVE  Goal
    <2>1. SyncArgs(c, h) # Null
        <3>1. SyncArgs(c, h) \in Job  BY DEF Job
        <3>2. QED  BY <3>1, JobFacts
    <2>2. /\ solo' = p /\ \A q \in Proc \ {p} : pc[q] = "idle"
          /\ pc' = [pc EXCEPT ![p] = "exists"]
          /\ args' = [args EXCEPT ![p] = SyncArgs(c, h)]
        BY <1>1 DEF Start, Goto
    <2>3. pc'[p] = "exists" /\ args'[p] # Null /\ \A q \in Proc \ {p} : pc'[q] = "idle"
        BY <2>1, <2>2 DEF TypeOK
    <2>4. QED  BY <2>2, <2>3
\* Any other step that keeps the compiler alone is a step of that compiler.
<1>2. ASSUME NEW p \in Proc, pc[p] # "idle", solo' = solo, args' = args,
             NEW l \in Steps, pc' = [pc EXCEPT ![p] = l]
      PROVE  /\ p = solo /\ args[p] # Null /\ args'[p] = args[p]
             /\ pc'[p] = l /\ pc[p] # "unlink"
             /\ \A q \in Proc \ {p} : pc'[q] = "idle"
    <2>1. solo # Null /\ solo \in Proc  BY <1>2 DEF TypeOK
    <2>2. p = solo /\ args[p] # Null /\ pc[p] # "unlink"
              /\ \A q \in Proc \ {p} : pc[q] = "idle"
        BY <1>2, <2>1 DEF SoloOK
    <2>3. QED  BY <1>2, <2>2 DEF TypeOK
<1>3. ASSUME NEW p \in Proc, Exists(p) \/ Read(p) \/ Delete(p)
      PROVE  Goal
    <2>1. PICK l \in {"read", "delete", "open", "idle"} :
              /\ pc[p] \in {"exists", "read", "delete"}
              /\ UNCHANGED <<file, args, solo>>
              /\ pc' = [pc EXCEPT ![p] = l]
              /\ l = "idle" => /\ dir' = dir /\ dir["pack"] # NoInode
                               /\ file[dir["pack"]] = Stored(args[p])
        <3>1. /\ pc[p] \in {"exists", "read", "delete"}
              /\ UNCHANGED <<file, args, solo>>
            BY <1>3, LookFacts
        <3>2. \/ pc' = [pc EXCEPT ![p] = "read"]
              \/ pc' = [pc EXCEPT ![p] = "delete"]
              \/ pc' = [pc EXCEPT ![p] = "open"]
              \/ /\ pc' = [pc EXCEPT ![p] = "idle"]
                 /\ dir' = dir /\ dir["pack"] # NoInode
                 /\ file[dir["pack"]] = Stored(args[p])
            BY <1>3, LookFacts
        <3>3. QED  BY <3>1, <3>2
    <2>2. /\ p = solo /\ args'[p] # Null /\ pc'[p] = l
          /\ \A q \in Proc \ {p} : pc'[q] = "idle"
        BY <1>2, <2>1
    <2>3. QED  BY <2>1, <2>2
<1>4. ASSUME NEW p \in Proc, Open(p)
      PROVE  Goal
    <2>1. PICK i \in Inode : /\ dir' = [dir EXCEPT !["tmp"] = i]
                             /\ file' = [file EXCEPT ![i] = Empty]
                             /\ fd' = [fd EXCEPT ![p] = i]
        BY <1>4, OpenFacts
    <2>2. /\ pc[p] = "open" /\ pc' = [pc EXCEPT ![p] = "flush"]
          /\ UNCHANGED <<args, solo>>
        BY <1>4 DEF Open, OpenAt, Goto
    <2>3. /\ p = solo /\ args'[p] # Null /\ pc'[p] = "flush"
          /\ \A q \in Proc \ {p} : pc'[q] = "idle"
        BY <1>2, <2>2
    <2>4. fd'[p] = dir'["tmp"] /\ file'[dir'["tmp"]] = Empty  BY <2>1 DEF TypeOK
    <2>5. QED  BY <2>2, <2>3, <2>4
<1>5. ASSUME NEW p \in Proc, Flush(p)
      PROVE  Goal
    <2>1. /\ pc[p] = "flush" /\ pc' = [pc EXCEPT ![p] = "rename"]
          /\ UNCHANGED <<dir, args, solo>>
          /\ fd[p] \in Inode /\ pack[p] # Null
        BY <1>5 DEF Flush, Goto, history, TypeOK
    <2>2. /\ p = solo /\ args'[p] # Null /\ pc'[p] = "rename"
          /\ \A q \in Proc \ {p} : pc'[q] = "idle"
        BY <1>2, <2>1
    <2>3. fd[p] = dir["tmp"] /\ file[dir["tmp"]] = Empty
        BY <2>1, <2>2, NullAssumption DEF SoloOK
    <2>4. Stored(pack[p]) = Stored(args[p])  BY <2>1, PackFacts
    <2>5. PICK c \in Overwrite(file[fd[p]], Stored(pack[p])) :
              file' = [file EXCEPT ![fd[p]] = c]
        BY <1>5 DEF Flush
    <2>6. c = Stored(args[p])  BY <2>3, <2>4, <2>5, OverwriteFacts
    <2>7. dir'["tmp"] # NoInode /\ file'[dir'["tmp"]] = Stored(args[p])
        BY <2>1, <2>3, <2>5, <2>6, InodeAssumption DEF TypeOK
    <2>8. QED  BY <2>1, <2>2, <2>7
<1>6. ASSUME NEW p \in Proc, Rename(p)
      PROVE  Goal
    <2>1. /\ pc[p] = "rename" /\ pc' = [pc EXCEPT ![p] = "idle"]
          /\ UNCHANGED <<file, args, solo>>
          /\ dir'["pack"] = dir["tmp"]
        BY <1>6 DEF Rename, Goto, history
    <2>2. /\ p = solo /\ args'[p] # Null /\ pc'[p] = "idle"
          /\ \A q \in Proc \ {p} : pc'[q] = "idle"
        BY <1>2, <2>1
    <2>3. dir["tmp"] # NoInode /\ file[dir["tmp"]] = Stored(args[p])
        BY <2>1, <2>2, NullAssumption DEF SoloOK
    <2>4. QED  BY <2>1, <2>2, <2>3
<1>7. ASSUME NEW p \in Proc, RenameFails(p) \/ Unlink(p)
      PROVE  FALSE
    <2>1. /\ pc[p] \in {"rename", "unlink"}
          /\ \E l \in {"unlink", "idle"} : pc' = [pc EXCEPT ![p] = l]
          /\ UNCHANGED <<args, solo>>
        BY <1>7 DEF RenameFails, Unlink, Goto, history
    <2>2. p = solo /\ pc[p] = "rename"  BY <1>2, <2>1
    <2>3. dir["tmp"] # NoInode  BY <2>2, NullAssumption DEF SoloOK
    <2>4. QED  BY <1>7, <2>2, <2>3 DEF RenameFails, Unlink, CanRename
<1>8. ASSUME \/ \E p \in Proc : OpenFails(p) \/ ShortFlush(p) \/ Kill(p)
             \/ PowerFailure
      PROVE  FALSE
    BY <1>8 DEF OpenFails, ShortFlush, Kill, PowerFailure, Fault
<1>9. ASSUME UNCHANGED vars
      PROVE  Goal
    BY <1>9 DEF vars, SoloOK
<1>10. QED
    BY <1>1, <1>3, <1>4, <1>5, <1>6, <1>7, <1>8, <1>9 DEF Next, Step, Rest

-----------------------------------------------------------------------------
(* Theorems *)

LEMMA InitInv == Init => PackInv
<1> SUFFICES ASSUME Init PROVE PackInv  OBVIOUS
<1>1. TypeOK  BY PackBoundAssumption DEF Init, TypeOK
<1>2. PacksOK  BY ContentAssumption DEF Init, PacksOK
<1>3. WritersOK  BY DEF Init, WritersOK
<1>4. NoLitter /\ PackComes /\ SoloOK
    BY PackBoundAssumption DEF Init, NoLitter, PackComes, SoloOK
<1>5. QED  BY <1>1, <1>2, <1>3, <1>4 DEF PackInv

\* The inductive invariant: the files, the writers and the jobs agree, for any
\* number of compilers, kills and failures.
THEOREM PackInvariance == Spec => []PackInv
<1>1. Init => PackInv  BY InitInv
<1>2. PackInv /\ [Next]_vars => PackInv'
    BY TypeStep, WritersStep, LitterStep, ComesStep, SoloStep DEF PackInv
<1>3. QED  BY <1>1, <1>2, PTL DEF Spec

\* Types, and that a compiler has a file open exactly while it writes.
THEOREM PackTypeCorrect == Spec => []TypeOK
BY PackInvariance, PTL DEF PackInv

\* The pack a sync returns is its own, whatever other compilers do to the file.
THEOREM ReturnsOwnPack == Spec => []ReturnCurrent
<1>1. PackInv => ReturnCurrent
    <2> SUFFICES ASSUME PackInv, NEW p \in Proc, pack[p] # Null
                 PROVE  /\ pack[p].hash = args[p].hash
                        /\ pack[p].flags = args[p].flags
                        /\ pack[p].name = args[p].name
        BY DEF ReturnCurrent
    <2>1. args[p] \in Job /\ pack[p] = Unlinked(args[p])  BY DEF PackInv, PacksOK
    <2>2. args[p] \in Meta  BY <2>1, JobFacts
    <2>3. QED  BY <2>1, <2>2 DEF Unlinked, Meta
<1>2. QED  BY <1>1, PackInvariance, PTL

\* Only a kill or a power failure leaves a temporary file behind.
THEOREM NoTemporaryLeft == Spec => []NoLitter
BY PackInvariance, PTL DEF PackInv

\* Without faults and overlapping writers there is a whole pack at rest.
THEOREM PackAtRest == Spec => []QuietPack
<1>1. PackInv => QuietPack
    <2> SUFFICES ASSUME PackInv, syncs > 0, mishaps = {},
                        \A p \in Proc : pc[p] = "idle"
                 PROVE  PackRead(Bytes("pack")) # Null
        BY DEF QuietPack
    <2>1. dir["pack"] # NoInode  BY DEF PackInv, PackComes
    <2>2. file[dir["pack"]] \in Meta  BY <2>1 DEF PackInv, WritersOK, Trusted
    <2>3. QED  BY <2>1, <2>2, ContentAssumption, NullAssumption DEF PackRead, Bytes
<1>2. QED  BY <1>1, PackInvariance, PTL

\* Where rename replaces, a sync alone leaves its own pack, whatever it found.
THEOREM SoloLeavesItsPack ==
    ASSUME Posix
    PROVE  Spec => []SoloCurrent
<1>1. PackInv => SoloCurrent
    <2> SUFFICES ASSUME PackInv, solo # Null, pc[solo] = "idle"
                 PROVE  PackRead(Bytes("pack")) = Stored(args[solo])
        BY DEF SoloCurrent
    <2>1. dir["pack"] # NoInode /\ file[dir["pack"]] = Stored(args[solo])
        BY DEF PackInv, SoloOK
    <2>2. solo \in Proc /\ args[solo] # Null  BY DEF PackInv, TypeOK, SoloOK
    <2>3. args[solo] \in Job  BY <2>2 DEF PackInv, PacksOK
    <2>4. Stored(args[solo]) \in Meta  BY <2>3, StoredJob
    <2>5. QED  BY <2>1, <2>4, ContentAssumption DEF PackRead, Bytes
<1>2. QED  BY <1>1, PackInvariance, PTL

-----------------------------------------------------------------------------
(* The pack implements an atomic file *)

\* What a reader finds depends only on what the path leads to.
LEMMA VisibleSame ==
    ASSUME dir'["pack"] = dir["pack"],
           dir["pack"] # NoInode => file'[dir["pack"]] = file[dir["pack"]]
    PROVE  Visible' = Visible
BY DEF Visible, PackRead, Bytes

\* While trust lasts a step leaves what a reader finds alone, removes it, or
\* puts there what a compiler about to rename means to put there.
LEMMA VisibleStep ==
    ASSUME PackInv, [Next]_vars, Trusted'
    PROVE  /\ Trusted
           /\ \/ Visible' = Visible
              \/ Visible' = NoInode
              \/ \E p \in Proc : /\ pc[p] = "rename"
                                 /\ Visible' = Stored(pack[p])
                                 /\ Visible' \in Meta
<1> USE DEF PackInv
<1>1. ASSUME NEW p \in Proc, NEW c \in Config, NEW h \in Hash, Start(p, c, h)
      PROVE  Trusted /\ Visible' = Visible
    <2>1. UNCHANGED <<dir, file, mishaps>>  BY <1>1 DEF Start, disk
    <2>2. QED  BY <2>1, VisibleSame DEF Trusted
<1>2. ASSUME NEW p \in Proc, Exists(p) \/ Read(p) \/ Delete(p)
      PROVE  Trusted /\ (Visible' = Visible \/ Visible' = NoInode)
    <2>1. /\ UNCHANGED <<file, mishaps>>
          /\ dir' = dir \/ dir' = [dir EXCEPT !["pack"] = NoInode]
        BY <1>2, LookFacts
    <2>2. CASE dir' = dir  BY <2>1, <2>2, VisibleSame DEF Trusted
    <2>3. CASE dir' = [dir EXCEPT !["pack"] = NoInode]
        <3>1. dir'["pack"] = NoInode  BY <2>3 DEF TypeOK
        <3>2. QED  BY <2>1, <3>1 DEF Visible, Trusted
    <2>4. QED  BY <2>1, <2>2, <2>3
<1>3. ASSUME NEW p \in Proc, Open(p)
      PROVE  Trusted /\ Visible' = Visible
    <2>1. PICK i \in Inode : /\ dir' = [dir EXCEPT !["tmp"] = i]
                             /\ file' = [file EXCEPT ![i] = Empty]
                             /\ dir["tmp"] # NoInode => i = dir["tmp"]
                             /\ dir["tmp"] = NoInode => i # dir["pack"]
        BY <1>3, OpenFacts
    <2>2. i # dir["pack"] /\ dir'["pack"] = dir["pack"]
        BY <2>1 DEF WritersOK, TypeOK
    <2>3. dir["pack"] # NoInode => file'[dir["pack"]] = file[dir["pack"]]
        BY <2>1, <2>2 DEF TypeOK
    <2>4. mishaps \subseteq mishaps'  BY <1>3 DEF Open, OpenAt
    <2>5. QED  BY <2>2, <2>3, <2>4, VisibleSame DEF Trusted
<1>4. ASSUME NEW p \in Proc, Flush(p)
      PROVE  Trusted /\ Visible' = Visible
    <2>1. /\ pc[p] = "flush" /\ UNCHANGED <<dir, mishaps>> /\ fd[p] \in Inode
        BY <1>4 DEF Flush, history, TypeOK
    <2>2. PICK c : file' = [file EXCEPT ![fd[p]] = c]  BY <1>4 DEF Flush
    <2>3. Trusted /\ Apart  BY <2>1 DEF Trusted, Apart
    <2>4. fd[p] = dir["tmp"] /\ dir["tmp"] # dir["pack"]
        BY <2>1, <2>3, InodeAssumption DEF WritersOK
    <2>5. dir["pack"] # NoInode => file'[dir["pack"]] = file[dir["pack"]]
        BY <2>2, <2>4 DEF TypeOK
    <2>6. QED  BY <2>1, <2>3, <2>5, VisibleSame
<1>5. ASSUME NEW p \in Proc, Rename(p)
      PROVE  /\ Trusted
             /\ pc[p] = "rename"
             /\ Visible' = Stored(pack[p])
             /\ Visible' \in Meta
    <2>1. /\ pc[p] = "rename" /\ dir["tmp"] # NoInode
          /\ dir'["pack"] = dir["tmp"] /\ UNCHANGED <<file, mishaps>>
        BY <1>5 DEF Rename, CanRename, history
    <2>2. Trusted  BY <2>1 DEF Trusted
    <2>3. file[dir["tmp"]] = Stored(pack[p])  BY <2>1, <2>2 DEF WritersOK
    <2>4. pack[p] # Null  BY <2>1 DEF TypeOK
    <2>5. Stored(pack[p]) \in Meta  BY <2>4, PackFacts
    <2>6. Visible' = Stored(pack[p])
        BY <2>1, <2>3, <2>5, ContentAssumption, NullAssumption DEF Visible, PackRead, Bytes
    <2>7. QED  BY <2>1, <2>2, <2>5, <2>6
<1>6. ASSUME NEW p \in Proc, RenameFails(p) \/ OpenFails(p) \/ Kill(p)
      PROVE  Trusted /\ Visible' = Visible
    <2>1. UNCHANGED <<dir, file>> /\ mishaps \subseteq mishaps'
        BY <1>6 DEF RenameFails, OpenFails, Kill, Fault, disk, history
    <2>2. QED  BY <2>1, VisibleSame DEF Trusted
<1>7. ASSUME NEW p \in Proc, Unlink(p)
      PROVE  Trusted /\ Visible' = Visible
    <2>1. dir'["pack"] = dir["pack"] /\ UNCHANGED <<file, mishaps>>
        BY <1>7 DEF Unlink, history, TypeOK
    <2>2. QED  BY <2>1, VisibleSame DEF Trusted
<1>8. ASSUME (\E p \in Proc : ShortFlush(p)) \/ PowerFailure
      PROVE  FALSE
    <2>1. "full" \in mishaps' \/ "power" \in mishaps'
        BY <1>8 DEF ShortFlush, PowerFailure, Fault
    <2>2. QED  BY <2>1 DEF Trusted
<1>9. ASSUME UNCHANGED vars
      PROVE  Trusted /\ Visible' = Visible
    <2>1. UNCHANGED <<dir, file, mishaps>>  BY <1>9 DEF vars
    <2>2. QED  BY <2>1, VisibleSame DEF Trusted
<1>10. QED
    BY <1>1, <1>2, <1>3, <1>4, <1>5, <1>6, <1>7, <1>8, <1>9 DEF Next, Step, Rest

\* The pack is an atomic file as long as writers do not overlap, the disk is
\* not full and the power does not fail: kills never show in it.
THEOREM PackIsAtomic == Spec => AtomicPack
<1>1. Init => Pack!Init
    BY DEF Init, Pack!Init, Visible, Trusted
<1>2. PackInv /\ PackInv' /\ [Next]_vars => [Pack!Next]_<<Visible, Trusted>>
    <2> SUFFICES ASSUME PackInv, PackInv', [Next]_vars
                 PROVE  Pack!Next \/ (Visible' = Visible /\ Trusted' = Trusted)
        OBVIOUS
    <2>1. CASE ~Trusted'
        <3>1. Trusted' = FALSE  BY <2>1
        <3>2. Visible' \in Meta \cup {NoInode, Torn}
            BY NullAssumption DEF PackInv, TypeOK, Visible, PackRead, Bytes
        <3>3. QED  BY <3>1, <3>2 DEF Pack!Next, Pack!Distrust
    <2>2. CASE Trusted'
        <3>1. /\ Trusted
              /\ \/ Visible' = Visible
                 \/ Visible' = NoInode
                 \/ \E p \in Proc : /\ pc[p] = "rename"
                                    /\ Visible' = Stored(pack[p])
                                    /\ Visible' \in Meta
            BY <2>2, VisibleStep
        <3>2. Trusted' = Trusted  BY <2>2, <3>1 DEF Trusted
        <3>3. CASE Visible' = NoInode
            BY <3>1, <3>2, <3>3 DEF Pack!Next, Pack!Remove
        <3>4. ASSUME NEW p \in Proc, pc[p] = "rename", Visible' = Stored(pack[p]),
                     Visible' \in Meta
              PROVE  Pack!Next
            BY <3>1, <3>2, <3>4 DEF Pack!Next, Pack!Replace
        <3>5. QED  BY <3>1, <3>2, <3>3, <3>4
    <2>3. QED  BY <2>1, <2>2
<1>3. QED  BY <1>1, <1>2, PackInvariance, PTL DEF Spec, AtomicPack, Pack!Spec
=============================================================================
