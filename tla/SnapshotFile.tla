---------------------------- MODULE SnapshotFile -----------------------------
(***************************************************************************)
(* save_file and load_file of persistence.cpp, step by step, over files    *)
(* that outlive the process.  Nothing serialises save_file: every          *)
(* connection thread that handles SAVE calls it, and all of them write the *)
(* same <path>.tmp.  The file operations are a superset of what POSIX and  *)
(* Windows do: an open file may or may not be removable, and rename may or *)
(* may not replace an existing file.  The format is a parameter; that of   *)
(* the code is SnapshotCodec.                                              *)
(***************************************************************************)
EXTENDS Integers, Sequences

CONSTANTS
    Saver,             \* threads that may be in save_file
    Snapshot,          \* names of the snapshots that are saved
    Value(_),          \* the PersistenceSnapshot of a name
    Encode(_),         \* encode: the words of a snapshot
    Decode(_),         \* decode: what a build may make of words, Rejected included
    Readings(_),       \* what a build may read back for a snapshot
    ValidSnapshot(_),  \* the semantic checks of decode
    MaxSaves,          \* bound: calls of save_file
    None,              \* no file, no snapshot
    Rejected           \* load_file threw

Blob == [x \in Snapshot |-> Encode(Value(x))]

(* Bound: one file for every save, and one more. *)
Inode == 1 .. MaxSaves + 1

ASSUME FileAssumption ==
    /\ \A x \in Snapshot : Blob[x] \in Seq(Int)
    /\ MaxSaves \in Nat /\ None \notin Inode /\ None \notin Snapshot

VARIABLES
    disk,      \* the words of every file
    path,      \* the file that <path> names, or None
    tmp,       \* the file that <path>.tmp names, or None
    pc,        \* where each saver is in save_file
    snap,      \* the snapshot it was called with
    out,       \* the file its stream writes to, or None
    pos,       \* the stream's position
    in,        \* the reader's file, or None
    size,      \* what tellg() said
    result,    \* what the last load_file returned
    saves,     \* calls of save_file so far
    alone,     \* history: savers that have overlapped with no other save
    durable,   \* history: the snapshot that <path> is due to hold, or None
    kept       \* history: a save has returned; none since has overlapped another
               \* or begun while <path> was missing

vars == <<disk, path, tmp, pc, snap, out, pos, in, size, result, saves, alone, durable, kept>>
reading == <<in, size, result>>

Saving(s) == pc[s] # "idle"
OpenStreams == {out[s] : s \in Saver} \cup {in}

Init ==
    /\ disk = [i \in Inode |-> <<>>]
    /\ path = None /\ tmp = None
    /\ pc = [s \in Saver |-> "idle"]
    /\ snap = [s \in Saver |-> None]
    /\ out = [s \in Saver |-> None]
    /\ pos = [s \in Saver |-> 0]
    /\ in = None /\ size = 0 /\ result = None
    /\ saves = 0 /\ alone = {} /\ durable = None /\ kept = FALSE

-----------------------------------------------------------------------------
(* save_file                                                               *)

(* encode(s); it is the caller's own copy of the state. *)
save_file(s, x) ==
    /\ ~Saving(s) /\ saves < MaxSaves
    /\ saves' = saves + 1
    /\ pc' = [pc EXCEPT ![s] = "open"]
    /\ snap' = [snap EXCEPT ![s] = x]
    /\ alone' = IF \E t \in Saver : Saving(t) THEN {} ELSE {s}
    /\ kept' = (kept /\ path # None /\ \A t \in Saver : ~Saving(t))
    /\ UNCHANGED <<disk, path, tmp, out, pos, durable, reading>>

returns(s) ==
    /\ pc' = [pc EXCEPT ![s] = "idle"]
    /\ snap' = [snap EXCEPT ![s] = None]
    /\ alone' = alone \ {s}

(* std::ofstream out(tmp, binary | trunc) *)
open_tmp(s) ==
    /\ pc[s] = "open"
    /\ LET free == Inode \ ({path} \cup OpenStreams)
           i == IF tmp # None THEN tmp ELSE CHOOSE j \in free : TRUE
       IN  /\ tmp # None \/ free # {}
           /\ tmp' = i
           /\ disk' = [disk EXCEPT ![i] = <<>>]
           /\ out' = [out EXCEPT ![s] = i]
           /\ pos' = [pos EXCEPT ![s] = 0]
    /\ pc' = [pc EXCEPT ![s] = "write"]
    /\ UNCHANGED <<path, snap, saves, alone, durable, kept, reading>>

open_fails(s) ==
    /\ pc[s] = "open"
    /\ returns(s)
    /\ UNCHANGED <<disk, path, tmp, out, pos, saves, durable, kept, reading>>

(* A stream writes at its own position; a gap left before it reads as zeros. *)
written(old, at, words) ==
    [i \in 1 .. (IF Len(old) > at + Len(words) THEN Len(old) ELSE at + Len(words)) |->
        IF i \in at + 1 .. at + Len(words) THEN words[i - at]
        ELSE IF i <= Len(old) THEN old[i] ELSE 0]

(* out.write(blob); the blob reaches the file in two pieces. *)
write(s) ==
    LET blob == Blob[snap[s]]
        upto == IF pos[s] < Len(blob) \div 2 THEN Len(blob) \div 2 ELSE Len(blob)
    IN  /\ pc[s] = "write" /\ pos[s] < Len(blob)
        /\ disk' = [disk EXCEPT ![out[s]] = written(@, pos[s], SubSeq(blob, pos[s] + 1, upto))]
        /\ pos' = [pos EXCEPT ![s] = upto]
        /\ UNCHANGED <<path, tmp, pc, snap, out, saves, alone, durable, kept, reading>>

closed(s) == out' = [out EXCEPT ![s] = None] /\ pos' = [pos EXCEPT ![s] = 0]

(* out.flush(), out.good(), and the end of the stream's scope. *)
close_at_return(s) ==
    /\ pc[s] = "write" /\ pos[s] = Len(Blob[snap[s]])
    /\ pc' = [pc EXCEPT ![s] = "remove"]
    /\ durable' = None
    /\ UNCHANGED <<disk, path, tmp, snap, out, pos, saves, alone, kept, reading>>

close(s) ==
    /\ pc[s] = "write" /\ pos[s] = Len(Blob[snap[s]])
    /\ pc' = [pc EXCEPT ![s] = "remove"]
    /\ closed(s)
    /\ durable' = None
    /\ UNCHANGED <<disk, path, tmp, snap, saves, alone, kept, reading>>

(* The disk is full: the stream is not good, and save_file throws. *)
write_fails_unnoticed(s) ==
    /\ pc[s] = "write" /\ pos[s] < Len(Blob[snap[s]])
    /\ pc' = [pc EXCEPT ![s] = "remove"]
    /\ closed(s)
    /\ UNCHANGED <<disk, path, tmp, snap, saves, alone, durable, kept, reading>>

write_fails(s) ==
    /\ pc[s] = "write" /\ pos[s] < Len(Blob[snap[s]])
    /\ returns(s)
    /\ closed(s)
    /\ UNCHANGED <<disk, path, tmp, saves, durable, kept, reading>>

(* std::remove(path): nobody looks at its result. *)
remove_path(s) ==
    /\ pc[s] = "remove"
    /\ pc' = [pc EXCEPT ![s] = "rename"]
    /\ \/ path' = None
       \/ path # None /\ path \in OpenStreams /\ path' = path
    /\ UNCHANGED <<disk, tmp, snap, out, pos, saves, alone, durable, kept, reading>>

rename(s) ==
    /\ pc[s] = "rename"
    /\ tmp # None
    /\ path' = tmp /\ tmp' = None
    /\ returns(s)
    /\ durable' = IF s \in alone THEN snap[s] ELSE None
    /\ kept' = (kept \/ s \in alone)
    /\ UNCHANGED <<disk, out, pos, saves, reading>>

rename_fails(s) ==
    /\ pc[s] = "rename"
    /\ tmp = None \/ path # None \/ tmp \in OpenStreams
    /\ returns(s)
    /\ UNCHANGED <<disk, path, tmp, out, pos, saves, durable, kept, reading>>

-----------------------------------------------------------------------------
(* load_file, in this or in another process                                *)

load_open ==
    /\ in = None
    /\ IF path = None
       THEN result' = Rejected /\ UNCHANGED <<in, size>>
       ELSE in' = path /\ size' = Len(disk[path]) /\ result' = None
    /\ UNCHANGED <<disk, path, tmp, pc, snap, out, pos, saves, alone, durable, kept>>

load_read ==
    /\ in # None
    /\ result' \in IF Len(disk[in]) < size THEN {Rejected}
                   ELSE Decode(SubSeq(disk[in], 1, size))
    /\ in' = None /\ size' = 0
    /\ UNCHANGED <<disk, path, tmp, pc, snap, out, pos, saves, alone, durable, kept>>

(* The coordinator's process dies; the files stay as they are. *)
crash ==
    /\ \E s \in Saver : Saving(s)
    /\ pc' = [s \in Saver |-> "idle"]
    /\ snap' = [s \in Saver |-> None]
    /\ out' = [s \in Saver |-> None]
    /\ pos' = [s \in Saver |-> 0]
    /\ alone' = {}
    /\ UNCHANGED <<disk, path, tmp, saves, durable, kept, reading>>

Next ==
    \/ \E s \in Saver :
          \/ \E x \in Snapshot : save_file(s, x)
          \/ open_tmp(s) \/ open_fails(s) \/ write(s) \/ write_fails(s) \/ close(s)
          \/ remove_path(s) \/ rename(s) \/ rename_fails(s)
    \/ load_open \/ load_read \/ crash

Spec == Init /\ [][Next]_vars

-----------------------------------------------------------------------------

(* The type of the state; a saver's stream is open only while it writes, so  *)
(* its own file is closed when it is renamed; and no file is longer than    *)
(* the longest blob, because the temporary is truncated when it is opened.  *)
TypeOK ==
    /\ path \in Inode \cup {None} /\ tmp \in Inode \cup {None} /\ in \in Inode \cup {None}
    /\ path # None => path # tmp
    /\ \A i \in Inode : disk[i] = <<>> \/ \E x \in Snapshot : Len(disk[i]) <= Len(Blob[x])
    /\ \A s \in Saver :
          /\ pc[s] \in {"idle", "open", "write", "remove", "rename"}
          /\ out[s] \in Inode \cup {None} /\ (out[s] # None <=> pc[s] = "write")
          /\ snap[s] \in Snapshot \cup {None} /\ (snap[s] # None <=> Saving(s))
          /\ pos[s] \in 0 .. IF pc[s] = "write" THEN Len(Blob[snap[s]]) ELSE 0
    /\ alone \subseteq Saver /\ durable \in Snapshot \cup {None}

(* Whatever load_file accepts is a snapshot that save_file was given, field *)
(* for field, with the three words of an epoch in the order in which the    *)
(* build reads them: no interleaving of saves into the shared temporary,    *)
(* partial write, crash or read during a save makes it return anything else. *)
AcceptedWasSaved ==
    result \notin {None, Rejected} => \E x \in Snapshot : result \in Readings(Value(x))

(* Once a save that no other overlapped has returned, <path> holds it, and  *)
(* loads as what the build reads for it if it is one decode accepts, until  *)
(* another save has written its own temporary completely: failed saves and  *)
(* crashes before that point change nothing.                                *)
ReturnedSaveIsLoadable ==
    durable # None =>
        /\ path # None
        /\ Decode(disk[path]) =
              IF ValidSnapshot(Value(durable)) THEN Readings(Value(durable)) ELSE {Rejected}

(* As long as saves do not overlap, once one has returned a whole snapshot  *)
(* is on the disk at every moment, between remove and rename too: under     *)
(* <path>, or under <path>.tmp (where load_file does not look for it).  It  *)
(* ends when a process that crashed between the two calls is replaced by    *)
(* one that saves without having restored <path>: opening the temporary     *)
(* truncates the only copy.                                                 *)
NoMomentWithoutACopy ==
    kept => \E i \in {path, tmp} \ {None}, x \in Snapshot : disk[i] = Blob[x]
===============================================================================
