------------------------------- MODULE KvStore -------------------------------
(***************************************************************************)
(* parsekv.c: the "key=value" file that the network, bluetooth and common  *)
(* daemons update and the publisher reads.  file_update_value reads the    *)
(* whole file into a buffer and then either rewrites it (the key is there: *)
(* truncate, then write) or adds a line where it saw the end (it is not).  *)
(* No lock is taken and a daemon may be killed at any point.               *)
(*                                                                         *)
(* The file is a sequence of lines, all of one length.                     *)
(***************************************************************************)
EXTENDS Naturals, Sequences

CONSTANTS
    Daemons,        \* processes that use the file
    FileKey, FileValue,
    None,           \* no value
    MaxUpdates      \* bound: updates begun

ASSUME NoneAssumption == None \notin FileKey \cup FileValue
ASSUME UpdatesAssumption == MaxUpdates \in Nat

VARIABLES
    file,           \* the lines on disk
    filePc,         \* per daemon: "idle", "truncate", "write" or "append"
    op,             \* the line it wants in the file
    buf,            \* filebuf: the file as it read it, its own line changed
    updates,        \* updates begun
    store,          \* history: the value of each key after the last update
    overlap,        \* history: two updates were under way at once
    fileCut         \* history: a daemon was killed between truncate and write

fileVars == <<file, filePc, op, buf, updates, store, overlap, fileCut>>

Line  == [key : FileKey, value : FileValue]
Hole  == [key |-> None, value |-> None]     \* a gap written over by nobody
Lines == Seq(Line \cup {Hole})

FileTypeOK ==
    /\ file \in Lines
    /\ filePc \in [Daemons -> {"idle", "truncate", "write", "append"}]
    /\ op \in [Daemons -> Line \cup {Hole}]
    /\ buf \in [Daemons -> Lines]
    /\ updates \in 0 .. MaxUpdates
    /\ store \in [FileKey -> FileValue \cup {None}]
    /\ overlap \in BOOLEAN /\ fileCut \in BOOLEAN

-----------------------------------------------------------------------------
Has(f, k) == \E i \in DOMAIN f : f[i].key = k

\* file_get_value, which changes nothing: the first line with the key, or None.
Lookup(f, k) ==
    IF Has(f, k)
    THEN f[CHOOSE i \in DOMAIN f : f[i].key = k /\ \A h \in 1 .. i - 1 : f[h].key # k].value
    ELSE None

\* kv_change_value on every line with the key.
Changed(f, line) == [i \in DOMAIN f |-> IF f[i].key = line.key THEN line ELSE f[i]]

\* f after the lines s were written from offset off on: lines beyond them stay,
\* a gap before them is left as a hole.
WriteAt(f, off, s) ==
    LET end == off + Len(s) IN
    [i \in 1 .. (IF Len(f) > end THEN Len(f) ELSE end) |->
        CASE i > off /\ i <= end     -> s[i - off]
          [] ~(i > off /\ i <= end) /\ i <= Len(f) -> f[i]
          [] ~(i > off /\ i <= end) /\ i > Len(f)  -> Hole]

Updating == {p \in Daemons : filePc[p] # "idle"}

FileInit ==
    /\ \E v \in FileValue, k \in FileKey :
           /\ file = <<[key |-> k, value |-> v]>>
           /\ store = [x \in FileKey |-> IF x = k THEN v ELSE None]
    /\ filePc = [p \in Daemons |-> "idle"]
    /\ op = [p \in Daemons |-> Hole]
    /\ buf = [p \in Daemons |-> <<>>]
    /\ updates = 0 /\ overlap = FALSE /\ fileCut = FALSE

-----------------------------------------------------------------------------

\* file_update_value up to the end of its reading loop.
Load(p, line) ==
    /\ filePc[p] = "idle" /\ updates < MaxUpdates
    /\ op' = [op EXCEPT ![p] = line]
    /\ buf' = [buf EXCEPT ![p] = Changed(file, line)]
    /\ filePc' = [filePc EXCEPT ![p] = IF Has(file, line.key) THEN "truncate" ELSE "append"]
    /\ updates' = updates + 1
    /\ overlap' = (overlap \/ Updating # {})
    /\ UNCHANGED <<file, store, fileCut>>

\* fopen(file, "w+"); when it fails nothing was changed.
Truncate(p) ==
    /\ filePc[p] = "truncate"
    /\ \/ file' = <<>> /\ filePc' = [filePc EXCEPT ![p] = "write"]
       \/ filePc' = [filePc EXCEPT ![p] = "idle"] /\ UNCHANGED file
    /\ UNCHANGED <<op, buf, updates, store, overlap, fileCut>>

\* fputs and fclose.
Write(p) ==
    /\ filePc[p] = "write"
    /\ file' = WriteAt(file, 0, buf[p])
    /\ filePc' = [filePc EXCEPT ![p] = "idle"]
    /\ store' = [store EXCEPT ![op[p].key] = op[p].value]
    /\ UNCHANGED <<op, buf, updates, overlap, fileCut>>

\* Fault: the position is one line too far.
AppendLineBeyond(p) ==
    /\ filePc[p] = "append"
    /\ file' = WriteAt(file, Len(buf[p]) + 1, <<op[p]>>)
    /\ filePc' = [filePc EXCEPT ![p] = "idle"]
    /\ store' = [store EXCEPT ![op[p].key] = op[p].value]
    /\ UNCHANGED <<op, buf, updates, overlap, fileCut>>

\* fprintf at the position where this daemon met the end of the file.
AppendLine(p) ==
    /\ filePc[p] = "append"
    /\ file' = WriteAt(file, Len(buf[p]), <<op[p]>>)
    /\ filePc' = [filePc EXCEPT ![p] = "idle"]
    /\ store' = [store EXCEPT ![op[p].key] = op[p].value]
    /\ UNCHANGED <<op, buf, updates, overlap, fileCut>>

\* The daemon is killed; its buffers die with it.
FileKill(p) ==
        /\ filePc[p] # "idle"
        /\ filePc' = [filePc EXCEPT ![p] = "idle"]
        /\ buf' = [buf EXCEPT ![p] = <<>>]
        /\ fileCut' = (fileCut \/ filePc[p] = "write")
        /\ UNCHANGED <<file, op, updates, store, overlap>>

FileNext == \E p \in Daemons :
            \/ \E line \in Line : Load(p, line)
            \/ Truncate(p) \/ Write(p) \/ AppendLine(p) \/ FileKill(p)

FileSpec == FileInit /\ [][FileNext]_fileVars

-----------------------------------------------------------------------------
(* Properties *)

\* As long as no two updates overlapped and nobody was killed in the window
\* between truncate and write, the file reads like the store the daemons think
\* they share, whenever no rewrite is under way.
FileIsTheStore ==
    ~overlap /\ ~fileCut /\ (\A p \in Daemons : filePc[p] # "write") =>
        \A k \in FileKey : Lookup(file, k) = store[k]

\* Kills alone lose keys but never bring an old value back, not even through
\* the updates that follow the loss.
NoOldValue == ~overlap => \A k \in FileKey : Lookup(file, k) \in {store[k], None}

\* Without overlapping updates a key has one line and the file has no gap.
OneLinePerKey ==
    ~overlap => /\ \A i \in DOMAIN file : file[i] # Hole
                /\ \A i, h \in DOMAIN file : file[i].key = file[h].key => i = h

\* What a daemon may rely on from the shared file (file_update_value).
UpdatesAreKept == FileIsTheStore /\ NoOldValue /\ OneLinePerKey
=============================================================================
