-------------------------- MODULE SnapshotFileProofs --------------------------
(***************************************************************************)
(* What save_file guarantees for any number of threads, snapshots, files   *)
(* and calls, whatever the format.  A save that overlaps no other has its  *)
(* temporary to itself (AloneInv): this is what makes the file that it     *)
(* renames whole, and what keeps the renamed one out of everybody's reach  *)
(* until the next temporary is complete (DurableInv, KeptInv).             *)
(***************************************************************************)
EXTENDS SnapshotFile, TLAPS

Types ==
    /\ disk \in [Inode -> Seq(Int)]
    /\ pc \in [Saver -> {"idle", "open", "write", "remove", "rename"}]
    /\ snap \in [Saver -> Snapshot \cup {None}]
    /\ out \in [Saver -> Inode \cup {None}]
    /\ pos \in [Saver -> Nat]

TypeInv == Types /\ TypeOK

(* A save that has not overlapped another is the only one, and what it has  *)
(* written is what its temporary holds.                                     *)
AloneOK(s) ==
    /\ Saving(s) /\ \A t \in Saver \ {s} : ~Saving(t)
    /\ pc[s] = "write" => out[s] = tmp /\ disk[tmp] = SubSeq(Blob[snap[s]], 1, pos[s])
    /\ pc[s] \in {"remove", "rename"} => tmp # None /\ disk[tmp] = Blob[snap[s]]

AloneInv == \A s \in alone : AloneOK(s)

(* <path> is whole, and no stream writes to it. *)
Whole == path # None /\ (\E x \in Snapshot : disk[path] = Blob[x]) /\ \A s \in Saver : out[s] # path

DurableInv ==
    durable # None =>
        /\ path # None /\ disk[path] = Blob[durable]
        /\ \A s \in Saver : out[s] # path /\ pc[s] \notin {"remove", "rename"}

KeptInv ==
    kept =>
        /\ \A s \in Saver : Saving(s) => s \in alone
        /\ \/ Whole
           \/ /\ path = None /\ tmp # None /\ \E x \in Snapshot : disk[tmp] = Blob[x]
              /\ \A s \in Saver : pc[s] \notin {"open", "write", "remove"}

(* What a stream makes of its file.                                        *)

LEMMA SeqLen ==
    ASSUME NEW q \in Seq(Int)
    PROVE  Len(q) \in Nat /\ DOMAIN q = 1 .. Len(q) /\ \A i \in 1 .. Len(q) : q[i] \in Int
  OBVIOUS

LEMMA SeqFunction ==
    ASSUME NEW n \in Nat, NEW f \in [1 .. n -> Int]
    PROVE  f \in Seq(Int) /\ Len(f) = n
  OBVIOUS

LEMMA SeqEqual ==
    ASSUME NEW q \in Seq(Int), NEW r \in Seq(Int), Len(q) = Len(r),
           \A i \in 1 .. Len(q) : q[i] = r[i]
    PROVE  q = r
  BY SMTT(30)

LEMMA SubSeqTyped ==
    ASSUME NEW q \in Seq(Int), NEW m \in Nat, NEW n \in Nat, 1 <= m, m <= n + 1, n <= Len(q)
    PROVE  /\ SubSeq(q, m, n) \in Seq(Int) /\ Len(SubSeq(q, m, n)) = n - m + 1
           /\ \A i \in 1 .. n - m + 1 : SubSeq(q, m, n)[i] = q[m + i - 1]
  OBVIOUS

LEMMA WrittenTyped ==
    ASSUME NEW old \in Seq(Int), NEW at \in Nat, NEW words \in Seq(Int)
    PROVE  /\ written(old, at, words) \in Seq(Int)
           /\ Len(written(old, at, words)) =
                 IF Len(old) > at + Len(words) THEN Len(old) ELSE at + Len(words)
  BY SeqLen, SeqFunction DEF written
(* A stream that continues where it stopped, in a file that nobody else     *)
(* writes, leaves a longer prefix of its blob.                              *)
LEMMA WrittenPrefix ==
    ASSUME NEW b \in Seq(Int), NEW p \in Nat, NEW u \in Nat, p <= u, u <= Len(b)
    PROVE  written(SubSeq(b, 1, p), p, SubSeq(b, p + 1, u)) = SubSeq(b, 1, u)
  <1> DEFINE old == SubSeq(b, 1, p)
             w == SubSeq(b, p + 1, u)
             q == written(old, p, w)
             r == SubSeq(b, 1, u)
  <1>0. Len(b) \in Nat
    BY SeqLen
  <1>1. /\ old \in Seq(Int) /\ Len(old) = p
        /\ \A i \in 1 .. p : old[i] = b[i]
    BY <1>0, SubSeqTyped
  <1>2. /\ w \in Seq(Int) /\ Len(w) = u - p
        /\ \A i \in 1 .. u - p : w[i] = b[p + i]
    BY <1>0, SubSeqTyped
  <1>3. /\ r \in Seq(Int) /\ Len(r) = u
        /\ \A i \in 1 .. u : r[i] = b[i]
    BY <1>0, SubSeqTyped
  <1> HIDE DEF old, w, r
  <1>4. q \in Seq(Int) /\ Len(q) = u
    BY <1>1, <1>2, WrittenTyped
  <1>5. ASSUME NEW i \in 1 .. u
        PROVE  q[i] = b[i]
    BY <1>1, <1>2, SMTT(30) DEF written
  <1> QED BY <1>3, <1>4, <1>5, SeqEqual DEF old, w, r

LEMMA Half ==
    ASSUME NEW n \in Nat, NEW p \in Nat, p < n
    PROVE  LET u == IF p < n \div 2 THEN n \div 2 ELSE n
           IN  u \in Nat /\ p <= u /\ u <= n
  <1>1. n \div 2 \in Nat /\ n \div 2 <= n
    OBVIOUS
  <1> QED BY <1>1

LEMMA WriteStep ==
    ASSUME TypeInv, NEW s \in Saver, write(s)
    PROVE  /\ pc[s] = "write" /\ out[s] \in Inode /\ out[s] # None /\ snap[s] \in Snapshot
           /\ Blob[snap[s]] \in Seq(Int)
           /\ \E u \in Nat :
                 /\ pos[s] <= u /\ u <= Len(Blob[snap[s]])
                 /\ pos' = [pos EXCEPT ![s] = u]
                 /\ disk' = [disk EXCEPT ![out[s]] =
                                written(disk[out[s]], pos[s], SubSeq(Blob[snap[s]], pos[s] + 1, u))]
           /\ UNCHANGED <<path, tmp, pc, snap, out, saves, alone, durable, kept, in, size, result>>
  <1>1. pc[s] = "write" /\ out[s] \in Inode /\ out[s] # None /\ snap[s] \in Snapshot
    BY Zenon DEF TypeInv, Types, TypeOK, write, Saving
  <1>2. Blob[snap[s]] \in Seq(Int) /\ Len(Blob[snap[s]]) \in Nat /\ pos[s] \in Nat
    BY <1>1, FileAssumption, SeqLen, Zenon DEF TypeInv, Types
  <1>3. UNCHANGED <<path, tmp, pc, snap, out, saves, alone, durable, kept, in, size, result>>
    BY Zenon DEF write, reading
  <1> DEFINE n == Len(Blob[snap[s]])
             u == IF pos[s] < n \div 2 THEN n \div 2 ELSE n
  <1>4. u \in Nat /\ pos[s] <= u /\ u <= n
    <2>1. pos[s] < n
      BY Zenon DEF write
    <2> QED BY <1>2, <2>1, Half, Zenon
  <1>5. /\ pos' = [pos EXCEPT ![s] = u]
        /\ disk' = [disk EXCEPT ![out[s]] =
                       written(disk[out[s]], pos[s], SubSeq(Blob[snap[s]], pos[s] + 1, u))]
    BY Zenon DEF write
  <1> HIDE DEF u
  <1> QED BY <1>1, <1>2, <1>3, <1>4, <1>5, Zenon
-----------------------------------------------------------------------------
(* Types                                                                   *)

(* A saver as TypeOK has it. *)
SaverOK(s) ==
    /\ pc[s] \in {"idle", "open", "write", "remove", "rename"}
    /\ out[s] \in Inode \cup {None} /\ (out[s] # None <=> pc[s] = "write")
    /\ snap[s] \in Snapshot \cup {None} /\ (snap[s] # None <=> Saving(s))
    /\ pos[s] \in 0 .. IF pc[s] = "write" THEN Len(Blob[snap[s]]) ELSE 0

FileOK(i) == disk[i] = <<>> \/ \E x \in Snapshot : Len(disk[i]) <= Len(Blob[x])

FilesOK ==
    /\ path \in Inode \cup {None} /\ tmp \in Inode \cup {None} /\ in \in Inode \cup {None}
    /\ path # None => path # tmp
    /\ alone \subseteq Saver /\ durable \in Snapshot \cup {None}

LEMMA TypeParts ==
    TypeInv <=> Types /\ FilesOK /\ (\A i \in Inode : FileOK(i)) /\ \A s \in Saver : SaverOK(s)
  BY Zenon DEF TypeInv, TypeOK, FilesOK, FileOK, SaverOK

(* The temporary that open_tmp truncates is not the one that <path> names. *)
LEMMA OpenStep ==
    ASSUME TypeInv, NEW s \in Saver, open_tmp(s)
    PROVE  \E i \in Inode :
              /\ i # path /\ (tmp # None => i = tmp) /\ tmp' = i
              /\ pc[s] = "open" /\ pc' = [pc EXCEPT ![s] = "write"]
              /\ disk' = [disk EXCEPT ![i] = <<>>]
              /\ out' = [out EXCEPT ![s] = i] /\ pos' = [pos EXCEPT ![s] = 0]
              /\ UNCHANGED <<path, snap, saves, alone, durable, kept, in, size, result>>
  <1> DEFINE free == Inode \ ({path} \cup OpenStreams)
             i == IF tmp # None THEN tmp ELSE CHOOSE j \in free : TRUE
  <1>1. /\ tmp # None \/ free # {}
        /\ tmp' = i /\ pc[s] = "open" /\ pc' = [pc EXCEPT ![s] = "write"]
        /\ disk' = [disk EXCEPT ![i] = <<>>]
        /\ out' = [out EXCEPT ![s] = i] /\ pos' = [pos EXCEPT ![s] = 0]
        /\ UNCHANGED <<path, snap, saves, alone, durable, kept, in, size, result>>
    BY Zenon DEF open_tmp, reading
  <1>2. i \in Inode /\ i # path /\ (tmp # None => i = tmp)
    <2>1. FilesOK /\ None \notin Inode
      BY TypeParts, FileAssumption, Zenon
    <2>2. CASE tmp # None
      BY <2>1, <2>2, Zenon DEF FilesOK
    <2>3. CASE tmp = None
      BY <1>1, <2>1, <2>3, Zenon
    <2> QED BY <2>2, <2>3, Zenon
  <1> HIDE DEF i
  <1> QED BY <1>1, <1>2, Zenon

(* One saver moves, and is again as TypeOK has it. *)
LEMMA SaverNext ==
    ASSUME TypeInv, NEW s \in Saver,
           NEW p \in {"idle", "open", "write", "remove", "rename"}, NEW x \in Snapshot \cup {None},
           NEW o \in Inode \cup {None}, NEW n \in Nat,
           pc' = [pc EXCEPT ![s] = p], snap' = [snap EXCEPT ![s] = x],
           out' = [out EXCEPT ![s] = o], pos' = [pos EXCEPT ![s] = n],
           o # None <=> p = "write", x # None <=> p # "idle",
           n = 0 \/ (p = "write" /\ n <= Len(Blob[x]))
    PROVE  /\ pc' \in [Saver -> {"idle", "open", "write", "remove", "rename"}]
           /\ snap' \in [Saver -> Snapshot \cup {None}] /\ out' \in [Saver -> Inode \cup {None}]
           /\ pos' \in [Saver -> Nat]
           /\ \A t \in Saver : SaverOK(t)'
  <1>1. /\ pc \in [Saver -> {"idle", "open", "write", "remove", "rename"}]
        /\ snap \in [Saver -> Snapshot \cup {None}] /\ out \in [Saver -> Inode \cup {None}]
        /\ pos \in [Saver -> Nat] /\ \A t \in Saver : SaverOK(t)
    BY TypeParts, Zenon DEF Types
  <1>2. ASSUME NEW t \in Saver PROVE SaverOK(t)'
    <2>1. CASE t = s
      <3>1. pc'[s] = p /\ snap'[s] = x /\ out'[s] = o /\ pos'[s] = n
        BY <1>1, Zenon
      <3>2. n \in 0 .. IF p = "write" THEN Len(Blob[x]) ELSE 0
        <4>1. p = "write" => Len(Blob[x]) \in Nat
          BY FileAssumption, SeqLen, Zenon
        <4> QED BY <4>1
      <3> QED BY <2>1, <3>1, <3>2, Zenon DEF SaverOK, Saving
    <2>2. CASE t # s
      <3>1. pc'[t] = pc[t] /\ snap'[t] = snap[t] /\ out'[t] = out[t] /\ pos'[t] = pos[t]
        BY <1>1, <2>2, Zenon
      <3> QED BY <1>1, <3>1, Zenon DEF SaverOK, Saving
    <2> QED BY <2>1, <2>2, Zenon
  <1> QED BY <1>1, <1>2, Zenon
(* What is known of a saver. *)
LEMMA SaverNow ==
    ASSUME TypeInv, NEW s \in Saver
    PROVE  /\ pc[s] \in {"idle", "open", "write", "remove", "rename"} /\ pc = [pc EXCEPT ![s] = pc[s]]
           /\ snap[s] \in Snapshot \cup {None} /\ snap = [snap EXCEPT ![s] = snap[s]]
           /\ out[s] \in Inode \cup {None} /\ out = [out EXCEPT ![s] = out[s]]
           /\ pos[s] \in Nat /\ pos = [pos EXCEPT ![s] = pos[s]]
           /\ snap[s] # None <=> pc[s] # "idle"
           /\ out[s] # None <=> pc[s] = "write"
           /\ pc[s] # "write" => pos[s] = 0
  <1>1. Types /\ SaverOK(s)
    BY TypeParts, Zenon
  <1>2. pc[s] # "write" => pos[s] = 0
    <2>1. pc[s] # "write" => pos[s] \in 0 .. 0
      BY <1>1, Zenon DEF SaverOK
    <2> QED BY <2>1
  <1> QED BY <1>1, <1>2, Zenon DEF Types, SaverOK, Saving

LEMMA TypeSaver ==
    ASSUME TypeInv, NEW s \in Saver,
           \/ \E x \in Snapshot : save_file(s, x)
           \/ open_tmp(s) \/ open_fails(s) \/ write(s) \/ write_fails(s) \/ close(s)
           \/ remove_path(s) \/ rename(s) \/ rename_fails(s)
    PROVE  /\ pc' \in [Saver -> {"idle", "open", "write", "remove", "rename"}]
           /\ snap' \in [Saver -> Snapshot \cup {None}] /\ out' \in [Saver -> Inode \cup {None}]
           /\ pos' \in [Saver -> Nat]
           /\ \A t \in Saver : SaverOK(t)'
  <1> DEFINE Goal == /\ pc' \in [Saver -> {"idle", "open", "write", "remove", "rename"}]
                     /\ snap' \in [Saver -> Snapshot \cup {None}]
                     /\ out' \in [Saver -> Inode \cup {None}]
                     /\ pos' \in [Saver -> Nat]
                     /\ \A t \in Saver : SaverOK(t)'
  <1> HIDE DEF Goal
  <1>0. None \notin Snapshot /\ None \notin Inode /\ 0 \in Nat
    BY FileAssumption
  <1>1. ASSUME NEW x \in Snapshot, save_file(s, x) PROVE Goal
    <2>1. /\ pc[s] = "idle" /\ pc' = [pc EXCEPT ![s] = "open"] /\ snap' = [snap EXCEPT ![s] = x]
          /\ UNCHANGED <<out, pos>>
      BY <1>1, Zenon DEF save_file, Saving
    <2>2. /\ out' = [out EXCEPT ![s] = None] /\ pos' = [pos EXCEPT ![s] = 0]
      BY <2>1, <1>0, SaverNow, Zenon
    <2> QED BY <2>1, <2>2, <1>0, SaverNext, Zenon DEF Goal
  <1>2. CASE open_tmp(s)
    <2>1. PICK i : /\ pc[s] = "open" /\ pc' = [pc EXCEPT ![s] = "write"] /\ snap' = snap
                   /\ i \in Inode /\ out' = [out EXCEPT ![s] = i] /\ pos' = [pos EXCEPT ![s] = 0]
      BY <1>2, OpenStep, Zenon
    <2>2. snap' = [snap EXCEPT ![s] = snap[s]] /\ snap[s] \in Snapshot /\ snap[s] # None
      BY <2>1, <1>0, SaverNow, Zenon
    <2> QED BY <2>1, <2>2, <1>0, SaverNext, Zenon DEF Goal
  <1>3. CASE open_fails(s) \/ rename(s) \/ rename_fails(s)
    <2>1. /\ pc[s] # "write" /\ pc' = [pc EXCEPT ![s] = "idle"] /\ snap' = [snap EXCEPT ![s] = None]
          /\ UNCHANGED <<out, pos>>
      BY <1>3, Zenon DEF open_fails, rename, rename_fails, returns
    <2>2. /\ out' = [out EXCEPT ![s] = None] /\ pos' = [pos EXCEPT ![s] = 0]
      BY <2>1, <1>0, SaverNow, Zenon
    <2> QED BY <2>1, <2>2, <1>0, SaverNext, Zenon DEF Goal
  <1>4. CASE write(s)
    <2>1. PICK u \in Nat : /\ pc[s] = "write" /\ UNCHANGED <<pc, snap, out>>
                           /\ u <= Len(Blob[snap[s]]) /\ pos' = [pos EXCEPT ![s] = u]
      BY <1>4, WriteStep, Zenon
    <2>2. /\ pc' = [pc EXCEPT ![s] = "write"] /\ snap' = [snap EXCEPT ![s] = snap[s]]
          /\ out' = [out EXCEPT ![s] = out[s]] /\ snap[s] \in Snapshot /\ snap[s] # None
          /\ out[s] \in Inode /\ out[s] # None
      BY <2>1, <1>0, SaverNow, Zenon
    <2> QED BY <2>1, <2>2, <1>0, SaverNext, Zenon DEF Goal
  <1>5. CASE write_fails(s)
    <2>1. /\ pc' = [pc EXCEPT ![s] = "idle"] /\ snap' = [snap EXCEPT ![s] = None]
          /\ out' = [out EXCEPT ![s] = None] /\ pos' = [pos EXCEPT ![s] = 0]
      BY <1>5, Zenon DEF write_fails, returns, closed
    <2> QED BY <2>1, <1>0, SaverNow, SaverNext, Zenon DEF Goal
  <1>6. CASE close(s)
    <2>1. /\ pc[s] = "write" /\ pc' = [pc EXCEPT ![s] = "remove"] /\ snap' = snap
          /\ out' = [out EXCEPT ![s] = None] /\ pos' = [pos EXCEPT ![s] = 0]
      BY <1>6, Zenon DEF close, closed
    <2>2. snap' = [snap EXCEPT ![s] = snap[s]] /\ snap[s] \in Snapshot /\ snap[s] # None
      BY <2>1, <1>0, SaverNow, Zenon
    <2> QED BY <2>1, <2>2, <1>0, SaverNext, Zenon DEF Goal
  <1>7. CASE remove_path(s)
    <2>1. pc[s] = "remove" /\ pc' = [pc EXCEPT ![s] = "rename"] /\ UNCHANGED <<snap, out, pos>>
      BY <1>7, Zenon DEF remove_path
    <2>2. /\ snap' = [snap EXCEPT ![s] = snap[s]] /\ snap[s] \in Snapshot /\ snap[s] # None
          /\ out' = [out EXCEPT ![s] = None] /\ pos' = [pos EXCEPT ![s] = 0]
      BY <2>1, <1>0, SaverNow, Zenon
    <2> QED BY <2>1, <2>2, <1>0, SaverNext, Zenon DEF Goal
  <1> QED BY <1>1, <1>2, <1>3, <1>4, <1>5, <1>6, <1>7, Zenon DEF Goal
LEMMA DiskNext ==
    ASSUME TypeInv, [Next]_vars
    PROVE  disk' \in [Inode -> Seq(Int)] /\ \A i \in Inode : FileOK(i)'
  <1>0. disk \in [Inode -> Seq(Int)] /\ \A i \in Inode : FileOK(i)
    BY TypeParts, Zenon DEF Types
  <1>1. CASE disk' = disk
    BY <1>0, <1>1, Zenon DEF FileOK
  <1>2. ASSUME NEW s \in Saver, open_tmp(s)
        PROVE  disk' \in [Inode -> Seq(Int)] /\ \A i \in Inode : FileOK(i)'
    <2>1. PICK k \in Inode : disk' = [disk EXCEPT ![k] = <<>>]
      BY <1>2, OpenStep, Zenon
    <2>2. <<>> \in Seq(Int)
      OBVIOUS
    <2> QED BY <1>0, <2>1, <2>2, Zenon DEF FileOK
  <1>3. ASSUME NEW s \in Saver, write(s)
        PROVE  disk' \in [Inode -> Seq(Int)] /\ \A i \in Inode : FileOK(i)'
    <2>1. PICK u \in Nat :
             /\ pos[s] <= u /\ u <= Len(Blob[snap[s]])
             /\ disk' = [disk EXCEPT ![out[s]] =
                            written(disk[out[s]], pos[s], SubSeq(Blob[snap[s]], pos[s] + 1, u))]
      BY <1>3, WriteStep, Zenon
    <2>2. /\ out[s] \in Inode /\ disk[out[s]] \in Seq(Int) /\ FileOK(out[s])
          /\ snap[s] \in Snapshot /\ Blob[snap[s]] \in Seq(Int) /\ pos[s] \in Nat
      BY <1>0, <1>3, WriteStep, SaverNow, Zenon
    <2>3. PICK w : w = SubSeq(Blob[snap[s]], pos[s] + 1, u)
      BY Zenon
    <2>4. w \in Seq(Int) /\ pos[s] + Len(w) = u
      <3>1. Len(Blob[snap[s]]) \in Nat
        BY <2>2, SeqLen, Zenon
      <3>2. pos[s] + 1 \in Nat /\ 1 <= pos[s] + 1 /\ pos[s] + 1 <= u + 1
        BY <2>1, <2>2
      <3>3. w \in Seq(Int) /\ Len(w) = u - (pos[s] + 1) + 1
        BY <2>1, <2>2, <2>3, <3>2, SubSeqTyped, Zenon
      <3> QED BY <2>2, <3>3
    <2>5. PICK q : q = written(disk[out[s]], pos[s], w)
      BY Zenon
    <2>6. q \in Seq(Int) /\ (Len(q) = Len(disk[out[s]]) \/ Len(q) = u)
      BY <2>2, <2>4, <2>5, WrittenTyped, Zenon
    <2>7. disk' = [disk EXCEPT ![out[s]] = q]
      BY <2>1, <2>3, <2>5, Zenon
    <2>8. \E x \in Snapshot : Len(q) <= Len(Blob[x])
      <3>1. CASE Len(q) = u
        BY <2>1, <2>2, <3>1, Zenon
      <3>2. CASE Len(q) = Len(disk[out[s]]) /\ disk[out[s]] # <<>>
        BY <2>2, <3>2, Zenon DEF FileOK
      <3>3. CASE Len(q) = Len(disk[out[s]]) /\ disk[out[s]] = <<>>
        <4>1. Len(q) = 0 /\ Len(Blob[snap[s]]) \in Nat
          BY <2>2, <3>3, SeqLen
        <4> QED BY <2>2, <4>1
      <3> QED BY <2>6, <3>1, <3>2, <3>3, Zenon
    <2> QED BY <1>0, <2>2, <2>6, <2>7, <2>8, Zenon DEF FileOK
  <1> QED BY <1>1, <1>2, <1>3, Zenon DEF Next, vars, save_file, open_fails, write_fails, close,
                                       remove_path, rename, rename_fails, load_open, load_read, crash
LEMMA FilesNext ==
    ASSUME TypeInv, [Next]_vars
    PROVE  FilesOK'
  <1>0. FilesOK
    BY TypeParts, Zenon
  <1>1. ASSUME NEW s \in Saver, NEW x \in Snapshot, save_file(s, x) PROVE FilesOK'
    BY <1>0, <1>1, Zenon DEF FilesOK, save_file, reading
  <1>2. ASSUME NEW s \in Saver, open_tmp(s) PROVE FilesOK'
    BY <1>0, <1>2, OpenStep, Zenon DEF FilesOK
  <1>3. ASSUME NEW s \in Saver, open_fails(s) \/ write_fails(s) \/ rename_fails(s) PROVE FilesOK'
    BY <1>0, <1>3, Zenon DEF FilesOK, open_fails, write_fails, rename_fails, returns, reading
  <1>4. ASSUME NEW s \in Saver, write(s) PROVE FilesOK'
    BY <1>0, <1>4, WriteStep, Zenon DEF FilesOK
  <1>5. ASSUME NEW s \in Saver, close(s) PROVE FilesOK'
    BY <1>0, <1>5, Zenon DEF FilesOK, close, reading
  <1>6. ASSUME NEW s \in Saver, remove_path(s) PROVE FilesOK'
    BY <1>0, <1>6, Zenon DEF FilesOK, remove_path, reading
  <1>7. ASSUME NEW s \in Saver, rename(s) PROVE FilesOK'
    <2>1. snap[s] \in Snapshot \cup {None}
      BY SaverNow, Zenon
    <2> QED BY <1>0, <1>7, <2>1, Zenon DEF FilesOK, rename, returns, reading
  <1>8. CASE load_open
    BY <1>0, <1>8, Zenon DEF FilesOK, load_open
  <1>9. CASE load_read \/ crash \/ UNCHANGED vars
    BY <1>0, <1>9, Zenon DEF FilesOK, load_read, crash, vars, reading
  <1> QED BY <1>1, <1>2, <1>3, <1>4, <1>5, <1>6, <1>7, <1>8, <1>9, Zenon DEF Next

LEMMA TypeNext ==
    ASSUME TypeInv, [Next]_vars
    PROVE  TypeInv'
  <1> DEFINE Savers == /\ pc' \in [Saver -> {"idle", "open", "write", "remove", "rename"}]
                       /\ snap' \in [Saver -> Snapshot \cup {None}]
                       /\ out' \in [Saver -> Inode \cup {None}]
                       /\ pos' \in [Saver -> Nat]
                       /\ \A t \in Saver : SaverOK(t)'
  <1>1. ASSUME NEW s \in Saver,
               \/ \E x \in Snapshot : save_file(s, x)
               \/ open_tmp(s) \/ open_fails(s) \/ write(s) \/ write_fails(s) \/ close(s)
               \/ remove_path(s) \/ rename(s) \/ rename_fails(s)
        PROVE  Savers
    BY <1>1, TypeSaver, Zenon
  <1>2. ASSUME load_open \/ load_read \/ UNCHANGED vars PROVE Savers
    <2>1. UNCHANGED <<pc, snap, out, pos>>
      BY <1>2, Zenon DEF load_open, load_read, vars
    <2> QED BY <2>1, TypeParts, Zenon DEF Types, SaverOK, Saving
  <1>3. ASSUME crash PROVE Savers
    <2>1. /\ pc' = [s \in Saver |-> "idle"] /\ snap' = [s \in Saver |-> None]
          /\ out' = [s \in Saver |-> None] /\ pos' = [s \in Saver |-> 0]
      BY <1>3, Zenon DEF crash
    <2>2. 0 \in Nat /\ 0 \in 0 .. 0
      OBVIOUS
    <2> QED BY <2>1, <2>2, Zenon DEF SaverOK, Saving
  <1>4. Savers
    BY <1>1, <1>2, <1>3, Zenon DEF Next
  <1>5. Types'
    BY <1>4, DiskNext, Zenon DEF Types
  <1> QED BY <1>4, <1>5, DiskNext, FilesNext, Zenon DEF TypeInv, TypeOK, FilesOK, FileOK, SaverOK

LEMMA TypeInit == Init => TypeInv
  <1> SUFFICES ASSUME Init PROVE TypeInv
    BY Zenon
  <1>1. 0 \in Nat /\ 0 \in 0 .. 0 /\ <<>> \in Seq(Int)
    OBVIOUS
  <1>2. Types
    BY <1>1, Zenon DEF Init, Types
  <1>3. FilesOK /\ \A i \in Inode : FileOK(i)
    BY Zenon DEF Init, FilesOK, FileOK
  <1>4. \A s \in Saver : SaverOK(s)
    BY <1>1, Zenon DEF Init, SaverOK, Saving
  <1> QED BY <1>2, <1>3, <1>4, TypeParts, Zenon

LEMMA TypeInvariant == Spec => []TypeInv
  <1>1. TypeInv /\ [Next]_vars => TypeInv'
    BY TypeNext, Zenon
  <1> QED BY <1>1, TypeInit, PTL DEF Spec

(* Whatever threads save, crash and load: <path> and its temporary are never *)
(* the same file, a stream is open only while its save writes, so that no    *)
(* save renames a file it still writes, and no file outgrows the longest     *)
(* blob.                                                                     *)
THEOREM FilesTyped == Spec => []TypeOK
  <1>1. TypeInv => TypeOK
    BY Zenon DEF TypeInv
  <1> QED BY <1>1, TypeInvariant, PTL
-----------------------------------------------------------------------------
(* A save on its own.                                                      *)

(* Nothing that the invariant is about changes when files are read. *)
LEMMA ReadSteps ==
    ASSUME load_open \/ load_read \/ UNCHANGED vars
    PROVE  UNCHANGED <<disk, path, tmp, pc, snap, out, pos, saves, alone, durable, kept>>
  BY Zenon DEF load_open, load_read, vars

LEMMA OnlyOne ==
    ASSUME AloneInv, NEW s \in Saver, pc[s] # "idle"
    PROVE  alone \subseteq {s}
  BY Zenon DEF AloneInv, AloneOK, Saving

LEMMA WholeBlob ==
    ASSUME NEW b \in Seq(Int)
    PROVE  SubSeq(b, 1, 0) = <<>> /\ SubSeq(b, 1, Len(b)) = b
  OBVIOUS

LEMMA AloneNext ==
    ASSUME TypeInv, AloneInv, [Next]_vars
    PROVE  AloneInv'
  <1>0. /\ disk \in [Inode -> Seq(Int)]
        /\ pc \in [Saver -> {"idle", "open", "write", "remove", "rename"}]
        /\ snap \in [Saver -> Snapshot \cup {None}]
        /\ out \in [Saver -> Inode \cup {None}] /\ pos \in [Saver -> Nat]
    BY Zenon DEF TypeInv, Types
  <1>1. ASSUME NEW s \in Saver, NEW x \in Snapshot, save_file(s, x) PROVE AloneInv'
    <2>1. pc' = [pc EXCEPT ![s] = "open"] /\ alone' = IF \E t \in Saver : Saving(t) THEN {} ELSE {s}
      BY <1>1, Zenon DEF save_file
    <2>2. pc'[s] = "open" /\ \A t \in Saver \ {s} : pc'[t] = pc[t]
      BY <2>1, <1>0, Zenon
    <2>3. \A r \in alone' : r = s /\ \A t \in Saver : pc[t] = "idle"
      BY <2>1, Zenon DEF Saving
    <2> QED BY <2>2, <2>3, Zenon DEF AloneInv, AloneOK, Saving
  <1>2. ASSUME NEW s \in Saver, open_fails(s) \/ write_fails(s) \/ rename(s) \/ rename_fails(s)
        PROVE  AloneInv'
    <2>1. pc[s] # "idle" /\ alone' = alone \ {s}
      BY <1>2, Zenon DEF open_fails, write_fails, rename, rename_fails, returns
    <2> QED BY <2>1, OnlyOne, Zenon DEF AloneInv
  <1>3. ASSUME NEW s \in Saver, pc[s] # "idle", alone' = alone, AloneOK(s) => AloneOK(s)'
        PROVE  AloneInv'
    BY <1>3, OnlyOne, Zenon DEF AloneInv
  <1>4. ASSUME NEW s \in Saver, NEW p, pc' = [pc EXCEPT ![s] = p], p # "idle", AloneOK(s)
        PROVE  pc'[s] = p /\ Saving(s)' /\ \A t \in Saver \ {s} : ~Saving(t)'
    BY <1>0, <1>4, Zenon DEF AloneOK, Saving
  <1>5. ASSUME NEW s \in Saver, open_tmp(s) PROVE AloneInv'
    <2>1. PICK i \in Inode :
             /\ tmp' = i /\ pc[s] = "open" /\ pc' = [pc EXCEPT ![s] = "write"]
             /\ disk' = [disk EXCEPT ![i] = <<>>] /\ out' = [out EXCEPT ![s] = i]
             /\ pos' = [pos EXCEPT ![s] = 0] /\ snap' = snap /\ alone' = alone
      BY <1>5, OpenStep, Zenon
    <2>2. disk'[i] = <<>> /\ out'[s] = i /\ pos'[s] = 0
      BY <1>0, <2>1, Zenon
    <2>3. snap[s] \in Snapshot /\ Blob[snap[s]] \in Seq(Int)
      BY <2>1, SaverNow, FileAssumption, Zenon
    <2>4. ASSUME AloneOK(s) PROVE AloneOK(s)'
      <3>1. pc'[s] = "write" /\ Saving(s)' /\ \A t \in Saver \ {s} : ~Saving(t)'
        BY <1>4, <2>1, <2>4, Zenon
      <3> QED BY <2>4, <3>1, <2>1, <2>2, <2>3, WholeBlob, Zenon DEF AloneOK
    <2> QED BY <1>3, <2>1, <2>4, Zenon
  <1>6. ASSUME NEW s \in Saver, write(s) PROVE AloneInv'
    <2>1. PICK u \in Nat :
             /\ pos[s] <= u /\ u <= Len(Blob[snap[s]]) /\ pos' = [pos EXCEPT ![s] = u]
             /\ disk' = [disk EXCEPT ![out[s]] =
                            written(disk[out[s]], pos[s], SubSeq(Blob[snap[s]], pos[s] + 1, u))]
      BY <1>6, WriteStep, Zenon
    <2>2. /\ pc[s] = "write" /\ out[s] \in Inode /\ Blob[snap[s]] \in Seq(Int) /\ pos[s] \in Nat
          /\ UNCHANGED <<tmp, pc, snap, out, alone>>
      BY <1>6, WriteStep, SaverNow, Zenon
    <2>3. /\ pos'[s] = u
          /\ disk'[out[s]] = written(disk[out[s]], pos[s], SubSeq(Blob[snap[s]], pos[s] + 1, u))
      BY <1>0, <2>1, <2>2, Zenon
    <2>4. AloneOK(s) => disk'[out[s]] = SubSeq(Blob[snap[s]], 1, u)
      <3>1. /\ written(SubSeq(Blob[snap[s]], 1, pos[s]), pos[s], SubSeq(Blob[snap[s]], pos[s] + 1, u))
                 = SubSeq(Blob[snap[s]], 1, u)
        BY <2>1, <2>2, WrittenPrefix, Zenon
      <3>2. AloneOK(s) => disk[out[s]] = SubSeq(Blob[snap[s]], 1, pos[s])
        BY <2>2, Zenon DEF AloneOK
      <3> QED BY <2>3, <3>1, <3>2, Zenon
    <2>5. AloneOK(s) => AloneOK(s)'
      BY <2>2, <2>3, <2>4, Zenon DEF AloneOK, Saving
    <2> QED BY <1>3, <2>2, <2>5, Zenon
  <1>7. ASSUME NEW s \in Saver, close(s) PROVE AloneInv'
    <2>1. /\ pc[s] = "write" /\ pos[s] = Len(Blob[snap[s]]) /\ pc' = [pc EXCEPT ![s] = "remove"]
          /\ UNCHANGED <<disk, tmp, snap, alone>>
      BY <1>7, Zenon DEF close
    <2>2. out[s] # None /\ snap[s] \in Snapshot /\ Blob[snap[s]] \in Seq(Int)
      BY <2>1, SaverNow, FileAssumption, Zenon
    <2>3. ASSUME AloneOK(s) PROVE AloneOK(s)'
      <3>1. pc'[s] = "remove" /\ Saving(s)' /\ \A t \in Saver \ {s} : ~Saving(t)'
        BY <1>4, <2>1, <2>3, Zenon
      <3> QED BY <2>3, <3>1, <2>1, <2>2, WholeBlob, Zenon DEF AloneOK
    <2> QED BY <1>3, <2>1, <2>3, Zenon
  <1>8. ASSUME NEW s \in Saver, remove_path(s) PROVE AloneInv'
    <2>1. /\ pc[s] = "remove" /\ pc' = [pc EXCEPT ![s] = "rename"]
          /\ UNCHANGED <<disk, tmp, snap, alone>>
      BY <1>8, Zenon DEF remove_path
    <2>2. ASSUME AloneOK(s) PROVE AloneOK(s)'
      <3>1. pc'[s] = "rename" /\ Saving(s)' /\ \A t \in Saver \ {s} : ~Saving(t)'
        BY <1>4, <2>1, <2>2, Zenon
      <3> QED BY <2>2, <3>1, <2>1, Zenon DEF AloneOK
    <2> QED BY <1>3, <2>1, <2>2, Zenon
  <1>9. CASE load_open \/ load_read \/ UNCHANGED vars
    <2>1. UNCHANGED <<disk, tmp, pc, snap, out, pos, alone>>
      BY <1>9, ReadSteps, Zenon
    <2>2. \A s : AloneOK(s) => AloneOK(s)'
      BY <2>1, Zenon DEF AloneOK, Saving
    <2> QED BY <2>1, <2>2, Zenon DEF AloneInv
  <1>10. CASE crash
    BY <1>10, Zenon DEF crash, AloneInv
  <1> QED BY <1>1, <1>2, <1>5, <1>6, <1>7, <1>8, <1>9, <1>10, Zenon DEF Next
-----------------------------------------------------------------------------
(* The file that <path> names.                                             *)

(* Steps of a save that leave <path> alone, and the file that it names. *)
LEMMA PathKept ==
    ASSUME TypeInv, NEW s \in Saver, path # None, \A t \in Saver : out[t] # path,
           \/ \E x \in Snapshot : save_file(s, x)
           \/ open_tmp(s) \/ open_fails(s) \/ write(s) \/ write_fails(s) \/ close(s)
    PROVE  /\ path' = path /\ disk'[path] = disk[path] /\ \A t \in Saver : out'[t] # path
           /\ pc'[s] \in {"idle", "open", "write", "remove"}
           /\ durable' = None \/ (durable' = durable /\ pc'[s] # "remove")
           /\ \A t \in Saver \ {s} : pc'[t] = pc[t]
  <1>0. /\ disk \in [Inode -> Seq(Int)]
        /\ pc \in [Saver -> {"idle", "open", "write", "remove", "rename"}]
        /\ out \in [Saver -> Inode \cup {None}]
    BY Zenon DEF TypeInv, Types
  <1>1. path \in Inode
    BY Zenon DEF TypeInv, TypeOK
  <1>2. CASE \E x \in Snapshot : save_file(s, x)
    BY <1>0, <1>2, Zenon DEF save_file
  <1>3. CASE open_tmp(s)
    <2>1. PICK i \in Inode : /\ i # path /\ path' = path /\ pc' = [pc EXCEPT ![s] = "write"]
                            /\ durable' = durable
                            /\ disk' = [disk EXCEPT ![i] = <<>>] /\ out' = [out EXCEPT ![s] = i]
      BY <1>3, OpenStep, Zenon
    <2> QED BY <1>0, <1>1, <2>1, Zenon
  <1>4. CASE open_fails(s)
    BY <1>0, <1>4, Zenon DEF open_fails, returns
  <1>5. CASE write(s)
    <2>1. PICK q : disk' = [disk EXCEPT ![out[s]] = q]
      BY <1>5, Zenon DEF write
    <2>2. UNCHANGED <<path, pc, out, durable>> /\ pc[s] = "write"
      BY <1>5, Zenon DEF write
    <2> QED BY <1>0, <1>1, <2>1, <2>2, Zenon
  <1>6. CASE write_fails(s)
    BY <1>0, <1>6, Zenon DEF write_fails, returns, closed
  <1>7. CASE close(s)
    BY <1>0, <1>7, Zenon DEF close, closed
  <1> QED BY <1>2, <1>3, <1>4, <1>5, <1>6, <1>7, Zenon

(* The rename of a save on its own puts the whole snapshot under <path>. *)
LEMMA AloneRename ==
    ASSUME TypeInv, AloneInv, NEW s \in Saver, rename(s), s \in alone
    PROVE  /\ path' # None /\ snap[s] \in Snapshot /\ disk'[path'] = Blob[snap[s]]
           /\ \A t \in Saver : out'[t] # path' /\ pc'[t] = "idle"
  <1>1. /\ pc[s] = "rename" /\ tmp # None /\ path' = tmp /\ pc' = [pc EXCEPT ![s] = "idle"]
        /\ UNCHANGED <<disk, out>>
    BY Zenon DEF rename, returns
  <1>2. disk[tmp] = Blob[snap[s]] /\ \A t \in Saver \ {s} : pc[t] = "idle"
    BY <1>1, Zenon DEF AloneInv, AloneOK, Saving
  <1>3. snap[s] \in Snapshot /\ \A t \in Saver : pc[t] # "write" => out[t] = None
    BY <1>1, SaverNow, Zenon
  <1>4. \A t \in Saver : pc'[t] = "idle"
    BY <1>1, <1>2, Zenon DEF TypeInv, Types
  <1>5. \A t \in Saver : out[t] = None
    BY <1>1, <1>2, <1>3, Zenon
  <1> QED BY <1>1, <1>2, <1>3, <1>4, <1>5, Zenon

LEMMA DurableNext ==
    ASSUME TypeInv, AloneInv, DurableInv, [Next]_vars
    PROVE  DurableInv'
  <1>1. ASSUME NEW s \in Saver,
               \/ \E x \in Snapshot : save_file(s, x)
               \/ open_tmp(s) \/ open_fails(s) \/ write(s) \/ write_fails(s)
        PROVE  DurableInv'
    <2>1. durable' = durable
      BY <1>1, Zenon DEF save_file, open_tmp, open_fails, write, write_fails
    <2>2. CASE durable # None
      <3>1. /\ path # None /\ disk[path] = Blob[durable]
            /\ \A t \in Saver : out[t] # path /\ pc[t] \notin {"remove", "rename"}
        BY <2>2, Zenon DEF DurableInv
      <3>2. /\ path' = path /\ disk'[path] = disk[path] /\ \A t \in Saver : out'[t] # path
            /\ pc'[s] \in {"idle", "open", "write"}
            /\ \A t \in Saver \ {s} : pc'[t] = pc[t]
        BY <1>1, <2>1, <2>2, <3>1, PathKept, Zenon
      <3> QED BY <2>1, <3>1, <3>2, Zenon DEF DurableInv
    <2> QED BY <2>1, <2>2, Zenon DEF DurableInv
  <1>2. ASSUME NEW s \in Saver, close(s) PROVE DurableInv'
    BY <1>2, Zenon DEF close, DurableInv
  <1>3. ASSUME NEW s \in Saver, remove_path(s) \/ rename_fails(s) PROVE DurableInv'
    BY <1>3, Zenon DEF remove_path, rename_fails, DurableInv
  <1>4. ASSUME NEW s \in Saver, rename(s) PROVE DurableInv'
    <2>1. CASE s \in alone
      <3>1. durable' = snap[s]
        BY <1>4, <2>1, Zenon DEF rename
      <3> QED BY <1>4, <2>1, <3>1, AloneRename, Zenon DEF DurableInv
    <2>2. CASE s \notin alone
      BY <1>4, <2>2, Zenon DEF rename, DurableInv
    <2> QED BY <2>1, <2>2, Zenon
  <1>5. CASE load_open \/ load_read \/ UNCHANGED vars
    BY <1>5, ReadSteps, Zenon DEF DurableInv
  <1>6. CASE crash
    BY <1>6, Zenon DEF crash, DurableInv
  <1> QED BY <1>1, <1>2, <1>3, <1>4, <1>5, <1>6, Zenon DEF Next
(* As long as saves do not overlap there is a whole copy. *)
LEMMA KeptNext ==
    ASSUME TypeInv, AloneInv, KeptInv, [Next]_vars
    PROVE  KeptInv'
  <1> DEFINE Solo == \A s \in Saver : Saving(s) => s \in alone
             Copy == path = None /\ tmp # None /\ \E x \in Snapshot : disk[tmp] = Blob[x]
             Calm == \A s \in Saver : pc[s] \notin {"open", "write", "remove"}
  <1>0. pc \in [Saver -> {"idle", "open", "write", "remove", "rename"}]
    BY Zenon DEF TypeInv, Types
  <1>1. ASSUME NEW s \in Saver, NEW x \in Snapshot, save_file(s, x), kept'
        PROVE  Solo' /\ Whole'
    <2>1. /\ kept /\ path # None /\ \A t \in Saver : pc[t] = "idle"
          /\ alone' = {s} /\ pc' = [pc EXCEPT ![s] = "open"] /\ UNCHANGED <<disk, path, out>>
      BY <1>1, Zenon DEF save_file, Saving
    <2>2. Whole
      BY <2>1, Zenon DEF KeptInv
    <2> QED BY <1>0, <2>1, <2>2, Zenon DEF Whole, Saving
  <1>2. ASSUME NEW s \in Saver, kept', pc[s] \in {"open", "write"},
               open_tmp(s) \/ open_fails(s) \/ write(s) \/ write_fails(s) \/ close(s)
        PROVE  Solo' /\ Whole'
    <2>1. kept' = kept /\ (alone' = alone \/ (alone' = alone \ {s} /\ pc'[s] = "idle"))
      BY <1>0, <1>2, Zenon DEF open_tmp, open_fails, write, write_fails, close, returns
    <2>2. Solo /\ Whole
      BY <1>2, <2>1, Zenon DEF KeptInv
    <2>3. /\ path' = path /\ disk'[path] = disk[path] /\ \A t \in Saver : out'[t] # path
          /\ \A t \in Saver \ {s} : pc'[t] = pc[t]
      BY <1>2, <2>2, PathKept, Zenon DEF Whole
    <2>4. Whole'
      BY <2>2, <2>3, Zenon DEF Whole
    <2>5. Solo'
      BY <1>2, <2>1, <2>2, <2>3, Zenon DEF Saving
    <2> QED BY <2>4, <2>5, Zenon
  <1>3. ASSUME NEW s \in Saver, kept', remove_path(s)
        PROVE  Solo' /\ (Whole' \/ (Copy' /\ Calm'))
    <2>1. /\ pc[s] = "remove" /\ pc' = [pc EXCEPT ![s] = "rename"] /\ kept
          /\ path' = None \/ path' = path
          /\ UNCHANGED <<disk, tmp, snap, out, alone>>
      BY <1>3, Zenon DEF remove_path
    <2>2. Solo /\ Whole
      BY <2>1, Zenon DEF KeptInv
    <2>3. /\ tmp # None /\ disk[tmp] = Blob[snap[s]] /\ \A t \in Saver \ {s} : pc[t] = "idle"
      BY <2>1, <2>2, Zenon DEF AloneInv, AloneOK, Saving
    <2>4. pc'[s] = "rename" /\ \A t \in Saver \ {s} : pc'[t] = "idle"
      BY <1>0, <2>1, <2>3, Zenon
    <2>5. Solo' /\ Calm'
      BY <2>1, <2>2, <2>4, Zenon DEF Saving
    <2>6. snap[s] \in Snapshot
      BY <2>1, SaverNow, Zenon
    <2> QED BY <2>1, <2>2, <2>3, <2>5, <2>6, Zenon DEF Whole
  <1>4. ASSUME NEW s \in Saver, kept', rename(s)
        PROVE  Solo' /\ Whole'
    <2>1. s \in alone
      BY <1>4, Zenon DEF rename, KeptInv, Saving
    <2> QED BY <1>4, <2>1, AloneRename, Zenon DEF Whole, Saving
  <1>5. ASSUME NEW s \in Saver, kept', rename_fails(s)
        PROVE  Solo' /\ (Whole' \/ (Copy' /\ Calm'))
    <2>1. /\ kept /\ pc' = [pc EXCEPT ![s] = "idle"] /\ alone' = alone \ {s}
          /\ UNCHANGED <<disk, path, tmp, out>>
      BY <1>5, Zenon DEF rename_fails, returns
    <2>2. pc'[s] = "idle" /\ \A t \in Saver \ {s} : pc'[t] = pc[t]
      BY <1>0, <2>1, Zenon
    <2>3. Solo /\ (Whole \/ (Copy /\ Calm))
      BY <2>1, Zenon DEF KeptInv
    <2>4. Solo' /\ (Calm => Calm')
      BY <2>1, <2>2, <2>3, Zenon DEF Saving
    <2> QED BY <2>1, <2>3, <2>4, Zenon DEF Whole
  <1>6. ASSUME load_open \/ load_read \/ UNCHANGED vars PROVE KeptInv'
    BY <1>6, ReadSteps, Zenon DEF KeptInv, Whole, Saving
  <1>7. ASSUME crash PROVE KeptInv'
    BY <1>7, Zenon DEF crash, KeptInv, Whole, Saving
  <1>8. ASSUME NEW s \in Saver,
               open_tmp(s) \/ open_fails(s) \/ write(s) \/ write_fails(s) \/ close(s)
        PROVE  pc[s] \in {"open", "write"}
    BY <1>8, Zenon DEF open_tmp, open_fails, write, write_fails, close
  <1> QED BY <1>1, <1>2, <1>3, <1>4, <1>5, <1>6, <1>7, <1>8, Zenon DEF Next, KeptInv

LEMMA Invariant == Spec => [](TypeInv /\ AloneInv /\ DurableInv /\ KeptInv)
  <1>1. Init => AloneInv /\ DurableInv /\ KeptInv
    BY Zenon DEF Init, AloneInv, DurableInv, KeptInv
  <1>2. TypeInv /\ AloneInv /\ DurableInv /\ KeptInv /\ [Next]_vars
        => AloneInv' /\ DurableInv' /\ KeptInv'
    BY AloneNext, DurableNext, KeptNext, Zenon
  <1> QED BY <1>1, <1>2, TypeInvariant, PTL DEF Spec

(* What decode makes of an encoded snapshot: its readings, one per order in *)
(* which a build evaluates arguments, if it passes the semantic checks.     *)
(* SnapshotCodec is checked for it on the snapshots of the runs.            *)
RoundTrip ==
    \A x \in Snapshot :
        Decode(Blob[x]) = IF ValidSnapshot(Value(x)) THEN Readings(Value(x)) ELSE {Rejected}

(* A save that no other overlapped can be loaded once it has returned, until *)
(* another save has written its own temporary completely, for any format    *)
(* that decodes what it encodes: failed saves and crashes of the process    *)
(* before that point, and loads, leave it alone.                            *)
THEOREM ReturnedSaveLoads ==
    ASSUME RoundTrip
    PROVE  Spec => []ReturnedSaveIsLoadable
  <1>1. TypeInv /\ DurableInv => ReturnedSaveIsLoadable
    BY Zenon DEF TypeInv, TypeOK, DurableInv, ReturnedSaveIsLoadable, RoundTrip
  <1> QED BY <1>1, Invariant, PTL

(* As long as saves do not overlap there is a whole snapshot on the disk at *)
(* every moment after the first has returned, between remove and rename and *)
(* after a crash there too.                                                 *)
THEOREM AlwaysACopy == Spec => []NoMomentWithoutACopy
  <1>1. KeptInv => NoMomentWithoutACopy
    BY Zenon DEF KeptInv, Whole, NoMomentWithoutACopy
  <1> QED BY <1>1, Invariant, PTL
===============================================================================
