----------------------------- MODULE ConfsProofs -----------------------------
(***************************************************************************)
(* What MCConfs checks of the store, the WAN switch, the bluetooth and the *)
(* common handlers and the publisher, for every value of their constants.  *)
(*   KvStore: FileTypeOK and UpdatesAreKept, for every set of daemons,     *)
(* keys and values and every number of updates and kills.  While no two    *)
(* updates have overlapped at most one daemon is at work, so what it read  *)
(* is still the file when it writes: the invariant of the file says what   *)
(* its buffer will make of it.                                             *)
(*   WanSwitch: OneUplink, for every number of runs, boots and checks.     *)
(* The invariant follows the script: it says what the commands done so far *)
(* have left of the interfaces, given the ones that failed and were spared.*)
(*   BlueConf: whatever names, devices and bounds, what a settings command *)
(* or a list of devices tells is what the profile and the module hold.     *)
(*   CommonConf and Reporting: TypeOK and AnswersAreTrue of the common     *)
(* daemon, that Reporting implements it, and ReportTypeOK and              *)
(* ReportsGoToOnePlatform of the publisher, for every set of values,       *)
(* number of sensors and descriptors, and number of commands and kills.    *)
(***************************************************************************)
EXTENDS KvStore, WanSwitch, BlueConf, Reporting, SequenceTheorems, FiniteSetTheorems, TLAPS

-----------------------------------------------------------------------------
(* The operators on files. *)

\* Every line has the value of its key in s, and no key has two lines.
Good(f, s) ==
    /\ \A i \in DOMAIN f : f[i] \in Line /\ f[i].value = s[f[i].key]
    /\ \A i, h \in DOMAIN f : f[i].key = f[h].key => i = h

\* A key without a line has no value in s.
Complete(f, s) == \A k \in FileKey : ~Has(f, k) => s[k] = None

\* The store once the update of daemon p is done.
After(p) == [store EXCEPT ![op[p].key] = op[p].value]

LEMMA RewriteType ==
    ASSUME NEW f \in Lines, NEW off \in Nat, NEW s \in Lines
    PROVE  WriteAt(f, off, s) \in Lines
<1> DEFINE end == off + Len(s)
           last == IF Len(f) > end THEN Len(f) ELSE end
<1>1. Len(f) \in Nat /\ Len(s) \in Nat /\ last \in Nat
  BY DEF Lines
<1>2. \A i \in 1 .. Len(f) : f[i] \in Line \cup {Hole}
  BY DEF Lines
<1>3. \A i \in 1 .. Len(s) : s[i] \in Line \cup {Hole}
  BY DEF Lines
<1>4. ASSUME NEW i \in 1 .. last
      PROVE  WriteAt(f, off, s)[i] \in Line \cup {Hole}
  <2>1. WriteAt(f, off, s)[i] =
           CASE i > off /\ i <= end     -> s[i - off]
             [] ~(i > off /\ i <= end) /\ i <= Len(f) -> f[i]
             [] ~(i > off /\ i <= end) /\ i > Len(f)  -> Hole
    BY DEF WriteAt
  <2>2. CASE i > off /\ i <= end
    BY <1>1, <1>3, <2>1, <2>2
  <2>3. CASE ~(i > off /\ i <= end) /\ i <= Len(f)
    BY <1>1, <1>2, <2>1, <2>3
  <2>4. CASE ~(i > off /\ i <= end) /\ i > Len(f)
    BY <1>1, <2>1, <2>4
  <2> QED BY <1>1, <2>2, <2>3, <2>4
<1>5. WriteAt(f, off, s) = [i \in 1 .. last |-> WriteAt(f, off, s)[i]]
  BY DEF WriteAt
<1>6. WriteAt(f, off, s) \in [1 .. last -> Line \cup {Hole}]
  BY <1>4, <1>5
<1> QED BY <1>1, <1>6 DEF Lines

\* Writing the buffer into the truncated file leaves the buffer.
LEMMA RewriteWhole ==
    ASSUME NEW s \in Lines
    PROVE  WriteAt(<<>>, 0, s) = s
<1>1. Len(s) \in Nat /\ s = [i \in 1 .. Len(s) |-> s[i]]
  BY DEF Lines
<1>2. DOMAIN WriteAt(<<>>, 0, s) = 1 .. Len(s)
  BY <1>1 DEF WriteAt
<1>3. \A i \in 1 .. Len(s) : WriteAt(<<>>, 0, s)[i] = s[i]
  BY <1>1 DEF WriteAt
<1>4. WriteAt(<<>>, 0, s) = [i \in 1 .. Len(s) |-> WriteAt(<<>>, 0, s)[i]]
  BY <1>1 DEF WriteAt
<1> QED BY <1>1, <1>3, <1>4

\* Writing a line where the file ends adds it.
LEMMA RewriteEnd ==
    ASSUME NEW f \in Lines, NEW l \in Line
    PROVE  LET g == WriteAt(f, Len(f), <<l>>) IN
           /\ DOMAIN g = 1 .. Len(f) + 1
           /\ \A i \in DOMAIN f : g[i] = f[i]
           /\ g[Len(f) + 1] = l
<1>1. Len(f) \in Nat /\ DOMAIN f = 1 .. Len(f) /\ Len(<<l>>) = 1 /\ <<l>>[1] = l
  BY DEF Lines
<1> QED BY <1>1 DEF WriteAt

\* Changing the value of a key in the lines of a file changes it in its store.
LEMMA ChangedGood ==
    ASSUME NEW f \in Lines, NEW l \in Line, NEW s \in [FileKey -> FileValue \cup {None}], Good(f, s)
    PROVE  LET t == [s EXCEPT ![l.key] = l.value] IN
           /\ Changed(f, l) \in Lines
           /\ Len(Changed(f, l)) = Len(f)
           /\ Good(Changed(f, l), t)
           /\ Has(f, l.key) /\ Complete(f, s) => Complete(Changed(f, l), t)
<1> DEFINE t == [s EXCEPT ![l.key] = l.value]
           g == Changed(f, l)
<1>1. Len(f) \in Nat /\ DOMAIN f = 1 .. Len(f) /\ \A i \in DOMAIN f : f[i] \in Line \cup {Hole}
  BY DEF Lines
<1>2. g = [i \in 1 .. Len(f) |-> IF f[i].key = l.key THEN l ELSE f[i]]
  BY <1>1 DEF Changed
<1>3. g \in Lines /\ Len(g) = Len(f)
  BY <1>1, <1>2 DEF Lines
<1>4. l.key \in FileKey /\ l.value \in FileValue /\ \A k \in FileKey : t[k] = IF k = l.key THEN l.value ELSE s[k]
  BY DEF Line
<1>5. DOMAIN g = DOMAIN f /\ \A i \in DOMAIN f : g[i].key = f[i].key
  BY <1>1, <1>2
<1>6. Good(g, t)
  <2>1. \A i \in DOMAIN g : g[i] \in Line
    BY <1>1, <1>2 DEF Good
  <2>2. \A i \in DOMAIN f : f[i].key \in FileKey /\ f[i].value = s[f[i].key]
    BY DEF Good, Line
  <2>3. \A i \in DOMAIN g : g[i].value = t[g[i].key]
    BY <1>1, <1>2, <1>4, <2>2
  <2>4. \A i, h \in DOMAIN g : g[i].key = g[h].key => i = h
    BY <1>5 DEF Good
  <2> QED BY <2>1, <2>3, <2>4 DEF Good
<1>7. ASSUME Has(f, l.key), Complete(f, s) PROVE Complete(g, t)
  <2>1. \A k \in FileKey : Has(g, k) <=> Has(f, k)
    BY <1>5 DEF Has
  <2> QED BY <1>4, <1>7, <2>1 DEF Complete
<1> QED BY <1>3, <1>6, <1>7

\* Adding a line for a key that has none.
LEMMA AddedGood ==
    ASSUME NEW f \in Lines, NEW l \in Line, NEW s \in [FileKey -> FileValue \cup {None}], Good(f, s),
           ~Has(f, l.key)
    PROVE  LET t == [s EXCEPT ![l.key] = l.value]
               g == WriteAt(f, Len(f), <<l>>) IN
           /\ Good(g, t)
           /\ Complete(f, s) => Complete(g, t)
<1> DEFINE t == [s EXCEPT ![l.key] = l.value]
           g == WriteAt(f, Len(f), <<l>>)
<1>1. DOMAIN g = 1 .. Len(f) + 1 /\ (\A i \in DOMAIN f : g[i] = f[i]) /\ g[Len(f) + 1] = l
  BY RewriteEnd
<1>2. Len(f) \in Nat /\ DOMAIN f = 1 .. Len(f)
  BY DEF Lines
<1>3. l.key \in FileKey /\ \A k \in FileKey : t[k] = IF k = l.key THEN l.value ELSE s[k]
  BY DEF Line
<1>4. \A i \in DOMAIN f : f[i] \in Line /\ f[i].key \in FileKey /\ f[i].value = s[f[i].key]
                         /\ f[i].key # l.key
  BY DEF Good, Line, Has
<1> HIDE DEF g, t
<1>5. \A i \in DOMAIN g : i \in DOMAIN f \/ i = Len(f) + 1
  BY <1>1, <1>2
<1>6. \A i \in DOMAIN g : g[i] \in Line /\ g[i].value = t[g[i].key]
  BY <1>1, <1>3, <1>4, <1>5
<1>7. \A i, h \in DOMAIN g : g[i].key = g[h].key => i = h
  BY <1>1, <1>4, <1>5 DEF Good
<1>8. ASSUME Complete(f, s) PROVE Complete(g, t)
  <2>1. \A k \in FileKey : Has(f, k) => Has(g, k)
    BY <1>1, <1>2 DEF Has
  <2>2. Has(g, l.key)
    BY <1>1, <1>2 DEF Has
  <2> QED BY <1>3, <1>8, <2>1, <2>2 DEF Complete
<1> QED BY <1>6, <1>7, <1>8 DEF Good, g, t

\* Reading a good file finds the value in the store, or no line.
LEMMA LookupGood ==
    ASSUME NEW f \in Lines, NEW s, Good(f, s), NEW k \in FileKey
    PROVE  Lookup(f, k) = IF Has(f, k) THEN s[k] ELSE None
<1>1. ASSUME Has(f, k) PROVE Lookup(f, k) = s[k]
  <2> DEFINE first(i) == f[i].key = k /\ \A h \in 1 .. i - 1 : f[h].key # k
  <2>1. PICK j \in DOMAIN f : f[j].key = k
    BY <1>1 DEF Has
  <2>2. Len(f) \in Nat /\ DOMAIN f = 1 .. Len(f)
    BY DEF Lines
  <2>3. \A h \in 1 .. j - 1 : f[h].key # k
    <3> SUFFICES ASSUME NEW h \in 1 .. j - 1, f[h].key = k PROVE FALSE OBVIOUS
    <3>1. h \in DOMAIN f /\ h # j BY <2>2
    <3> QED BY <2>1, <3>1 DEF Good
  <2>4. \E i \in DOMAIN f : first(i)
    BY <2>1, <2>3
  <2> DEFINE c == CHOOSE i \in DOMAIN f : first(i)
  <2>5. c \in DOMAIN f /\ first(c)
    BY <2>4
  <2>6. Lookup(f, k) = f[c].value
    BY <1>1 DEF Lookup
  <2> QED BY <2>5, <2>6 DEF Good
<1>2. ASSUME ~Has(f, k) PROVE Lookup(f, k) = None
  BY <1>2 DEF Lookup
<1> QED BY <1>1, <1>2

-----------------------------------------------------------------------------
(* The inductive invariant. *)

\* A daemon at work knows the line it wants.
OpInv == \A p \in Daemons : filePc[p] # "idle" => op[p] \in Line

\* What an update under way will leave in the file.
UpdateInv == \A p \in Daemons :
    /\ filePc[p] = "write" => file = <<>>
    /\ filePc[p] \in {"truncate", "write"} =>
               /\ Good(buf[p], After(p))
               /\ ~fileCut => Complete(buf[p], After(p))
    /\ filePc[p] = "append" => ~Has(file, op[p].key) /\ Len(buf[p]) = Len(file)

\* The daemons take turns.
TurnsInv == \A p, q \in Daemons : filePc[p] # "idle" /\ filePc[q] # "idle" => p = q

FileInv ==
    /\ Good(file, store)
    /\ ~fileCut /\ (\A p \in Daemons : filePc[p] # "write") => Complete(file, store)

KvInv == ~overlap => TurnsInv /\ FileInv /\ UpdateInv

IInv == FileTypeOK /\ OpInv /\ KvInv

\* The initial file has one line, the store its value.
LEMMA InitInv == FileInit => IInv
<1> SUFFICES ASSUME FileInit PROVE IInv OBVIOUS
<1>1. PICK v \in FileValue, k \in FileKey :
         /\ file = <<[key |-> k, value |-> v]>>
         /\ store = [x \in FileKey |-> IF x = k THEN v ELSE None]
  BY DEF FileInit
<1> DEFINE l == [key |-> k, value |-> v]
<1>2. l \in Line /\ l.key = k /\ l.value = v BY DEF Line
<1>3. filePc = [p \in Daemons |-> "idle"] /\ op = [p \in Daemons |-> Hole]
      /\ buf = [p \in Daemons |-> <<>>] /\ updates = 0 /\ overlap = FALSE /\ fileCut = FALSE
  BY DEF FileInit
<1> HIDE DEF l
<1>4. file = <<l>> BY <1>1 DEF l
<1>5. file \in Lines /\ <<>> \in Lines BY <1>2, <1>4 DEF Lines
<1>6. FileTypeOK
  <2>1. store \in [FileKey -> FileValue \cup {None}] BY <1>1
  <2>2. op \in [Daemons -> Line \cup {Hole}] /\ buf \in [Daemons -> Lines]
        /\ filePc \in [Daemons -> {"idle", "truncate", "write", "append"}]
    BY <1>3, <1>5
  <2>3. updates \in 0 .. MaxUpdates BY <1>3, UpdatesAssumption
  <2> QED BY <1>3, <1>5, <2>1, <2>2, <2>3 DEF FileTypeOK
<1>7. DOMAIN file = {1} /\ file[1] = l BY <1>4
<1>8. Good(file, store)
  BY <1>1, <1>2, <1>7 DEF Good
<1>9. Complete(file, store)
  BY <1>1, <1>2, <1>7 DEF Complete, Has
<1> QED BY <1>3, <1>6, <1>8, <1>9 DEF IInv, OpInv, KvInv, TurnsInv, FileInv, UpdateInv

\* Reading the file: the buffer is what the update will make of it.
LEMMA LoadInv ==
    ASSUME IInv, NEW p \in Daemons, NEW ln \in Line, Load(p, ln)
    PROVE  IInv'
<1> USE DEF IInv
<1>1. filePc[p] = "idle" /\ UNCHANGED <<file, store, fileCut>> /\ updates' = updates + 1
      /\ updates < MaxUpdates /\ overlap' = (overlap \/ Updating # {})
      /\ op' = [op EXCEPT ![p] = ln] /\ buf' = [buf EXCEPT ![p] = Changed(file, ln)]
      /\ filePc' = [filePc EXCEPT ![p] = IF Has(file, ln.key) THEN "truncate" ELSE "append"]
  BY DEF Load
<1>2. file \in Lines /\ filePc \in [Daemons -> {"idle", "truncate", "write", "append"}]
      /\ op \in [Daemons -> Line \cup {Hole}] /\ buf \in [Daemons -> Lines]
      /\ updates \in 0 .. MaxUpdates /\ overlap \in BOOLEAN
      /\ store \in [FileKey -> FileValue \cup {None}] /\ MaxUpdates \in Nat
  BY UpdatesAssumption DEF FileTypeOK
<1>3. Changed(file, ln) \in Lines
  <2>1. Len(file) \in Nat /\ DOMAIN file = 1 .. Len(file)
        /\ \A i \in DOMAIN file : file[i] \in Line \cup {Hole}
    BY <1>2 DEF Lines
  <2>2. Changed(file, ln) \in [1 .. Len(file) -> Line \cup {Hole}]
    BY <2>1 DEF Changed
  <2> QED BY <2>1, <2>2 DEF Lines
<1>4. FileTypeOK'
  BY <1>1, <1>2, <1>3 DEF FileTypeOK
<1>5. OpInv'
  BY <1>1, <1>2 DEF OpInv
<1>6. ASSUME ~overlap' PROVE TurnsInv' /\ FileInv' /\ UpdateInv'
  <2>1. ~overlap /\ \A q \in Daemons : filePc[q] = "idle"
    BY <1>1, <1>6 DEF Updating
  <2>2. Good(file, store) /\ (~fileCut => Complete(file, store))
    BY <2>1 DEF KvInv, FileInv
  <2>3. \A q \in Daemons : q # p => filePc'[q] = "idle"
    BY <1>1, <1>2, <2>1
  <2>4. filePc'[p] = IF Has(file, ln.key) THEN "truncate" ELSE "append"
    BY <1>1, <1>2
  <2>5. op'[p] = ln /\ buf'[p] = Changed(file, ln)
    BY <1>1, <1>2
  <2>6. Good(Changed(file, ln), [store EXCEPT ![ln.key] = ln.value])
        /\ Len(Changed(file, ln)) = Len(file)
        /\ (Has(file, ln.key) /\ ~fileCut =>
               Complete(Changed(file, ln), [store EXCEPT ![ln.key] = ln.value]))
    BY <1>2, <2>2, ChangedGood
  <2>7. After(p)' = [store EXCEPT ![ln.key] = ln.value]
    BY <1>1, <2>5 DEF After
  <2>8. TurnsInv'
    BY <2>3 DEF TurnsInv
  <2>9. FileInv'
    BY <1>1, <2>2 DEF FileInv
  <2>10. UpdateInv'
    <3>1. \A q \in Daemons : filePc'[q] # "idle" => q = p
      BY <2>3
    <3>2. filePc'[p] = "truncate" => Good(buf[p], After(p))' /\ (~fileCut' => Complete(buf[p], After(p))')
      BY <1>1, <2>4, <2>5, <2>6, <2>7 DEF Good, Complete, Has
    <3>3. filePc'[p] = "append" => ~Has(file, op[p].key)' /\ Len(buf'[p]) = Len(file')
      BY <1>1, <2>4, <2>5, <2>6 DEF Has
    <3>4. filePc'[p] \in {"truncate", "append"}
      BY <2>4
    <3> QED BY <3>1, <3>2, <3>3, <3>4 DEF UpdateInv
  <2> QED BY <2>8, <2>9, <2>10
<1> QED BY <1>4, <1>5, <1>6 DEF KvInv

\* The truncation takes the file away; what replaces it is in the buffer.
LEMMA TruncateInv ==
    ASSUME IInv, NEW p \in Daemons, Truncate(p)
    PROVE  IInv'
<1> USE DEF IInv
<1>1. filePc[p] = "truncate" /\ UNCHANGED <<op, buf, updates, store, overlap, fileCut>>
  BY DEF Truncate
<1>2. filePc \in [Daemons -> {"idle", "truncate", "write", "append"}]
  BY DEF FileTypeOK
<1>3. PICK next \in {"write", "idle"} :
         filePc' = [filePc EXCEPT ![p] = next] /\ file' = IF next = "write" THEN <<>> ELSE file
  BY DEF Truncate
<1>4. FileTypeOK'
  BY <1>1, <1>3 DEF FileTypeOK, Lines
<1>5. OpInv'
  BY <1>1, <1>2, <1>3 DEF OpInv
<1>6. ASSUME ~overlap' PROVE TurnsInv' /\ FileInv' /\ UpdateInv'
  <2>1. TurnsInv /\ FileInv /\ UpdateInv
    BY <1>1, <1>6 DEF KvInv
  <2>2. \A q \in Daemons : q # p => filePc'[q] = "idle" /\ filePc[q] = "idle"
    BY <1>1, <1>2, <1>3, <2>1 DEF TurnsInv
  <2>3. filePc'[p] = next
    BY <1>2, <1>3
  <2>4. \A q \in Daemons : After(q)' = After(q)
    BY <1>1 DEF After
  <2>5. TurnsInv'
    BY <2>2 DEF TurnsInv
  <2>6. FileInv'
    BY <1>1, <1>3, <2>1, <2>2, <2>3 DEF FileInv, Good
  <2>7. UpdateInv'
    BY <1>1, <1>3, <2>1, <2>2, <2>3, <2>4 DEF UpdateInv
  <2> QED BY <2>5, <2>6, <2>7
<1> QED BY <1>4, <1>5, <1>6 DEF KvInv

\* The rewrite puts the buffer where the file was.
LEMMA WriteInv ==
    ASSUME IInv, NEW p \in Daemons, Write(p)
    PROVE  IInv'
<1> USE DEF IInv
<1>1. filePc[p] = "write" /\ UNCHANGED <<op, buf, updates, overlap, fileCut>>
      /\ file' = WriteAt(file, 0, buf[p]) /\ filePc' = [filePc EXCEPT ![p] = "idle"]
      /\ store' = [store EXCEPT ![op[p].key] = op[p].value]
  BY DEF Write
<1>2. file \in Lines /\ buf[p] \in Lines /\ op[p] \in Line
      /\ filePc \in [Daemons -> {"idle", "truncate", "write", "append"}]
      /\ store \in [FileKey -> FileValue \cup {None}]
  BY <1>1 DEF FileTypeOK, OpInv
<1>3. file' \in Lines
  BY <1>1, <1>2, RewriteType
<1>4. store' \in [FileKey -> FileValue \cup {None}]
  BY <1>1, <1>2 DEF Line
<1>5. FileTypeOK'
  BY <1>1, <1>3, <1>4 DEF FileTypeOK
<1>6. OpInv'
  BY <1>1, <1>2 DEF OpInv
<1>7. ASSUME ~overlap' PROVE TurnsInv' /\ FileInv' /\ UpdateInv'
  <2>1. TurnsInv /\ UpdateInv
    BY <1>1, <1>7 DEF KvInv
  <2>2. \A q \in Daemons : filePc'[q] = "idle"
    BY <1>1, <1>2, <2>1 DEF TurnsInv
  <2>3. file' = buf[p]
    BY <1>1, <1>2, <2>1, RewriteWhole DEF UpdateInv
  <2>4. store' = After(p)
    BY <1>1 DEF After
  <2>5. FileInv'
    <3>1. Good(buf[p], After(p)) /\ (~fileCut => Complete(buf[p], After(p)))
      <4>1. filePc[p] \in {"truncate", "write"} BY <1>1
      <4> QED BY <2>1, <4>1 DEF UpdateInv
    <3>2. Good(file, store)' /\ (~fileCut => Complete(file, store)')
      BY <2>3, <2>4, <3>1 DEF Good, Complete, Has
    <3> QED BY <1>1, <3>2 DEF FileInv
  <2> QED BY <2>2, <2>5 DEF TurnsInv, UpdateInv
<1> QED BY <1>5, <1>6, <1>7 DEF KvInv

\* The line added for a key that has none stands at the end of the file.
LEMMA AppendInv ==
    ASSUME IInv, NEW p \in Daemons, AppendLine(p)
    PROVE  IInv'
<1> USE DEF IInv
<1>1. filePc[p] = "append" /\ UNCHANGED <<op, buf, updates, overlap, fileCut>>
      /\ file' = WriteAt(file, Len(buf[p]), <<op[p]>>) /\ filePc' = [filePc EXCEPT ![p] = "idle"]
      /\ store' = [store EXCEPT ![op[p].key] = op[p].value]
  BY DEF AppendLine
<1>2. file \in Lines /\ buf[p] \in Lines /\ op[p] \in Line
      /\ filePc \in [Daemons -> {"idle", "truncate", "write", "append"}]
      /\ store \in [FileKey -> FileValue \cup {None}]
  BY <1>1 DEF FileTypeOK, OpInv
<1>3. Len(buf[p]) \in Nat /\ <<op[p]>> \in Lines
  BY <1>2 DEF Lines
<1>4. file' \in Lines
  BY <1>1, <1>2, <1>3, RewriteType
<1>5. store' \in [FileKey -> FileValue \cup {None}]
  BY <1>1, <1>2 DEF Line
<1>6. FileTypeOK'
  BY <1>1, <1>4, <1>5 DEF FileTypeOK
<1>7. OpInv'
  BY <1>1, <1>2 DEF OpInv
<1>8. ASSUME ~overlap' PROVE TurnsInv' /\ FileInv' /\ UpdateInv'
  <2>1. TurnsInv /\ FileInv /\ UpdateInv
    BY <1>1, <1>8 DEF KvInv
  <2>2. \A q \in Daemons : filePc'[q] = "idle"
    BY <1>1, <1>2, <2>1 DEF TurnsInv
  <2>3. ~Has(file, op[p].key) /\ Len(buf[p]) = Len(file) /\ Good(file, store)
    BY <1>1, <2>1 DEF UpdateInv, FileInv
  <2>4. \A q \in Daemons : filePc[q] # "write"
    BY <1>1, <2>1 DEF TurnsInv
  <2>5. FileInv'
    BY <1>1, <1>2, <2>1, <2>3, <2>4, AddedGood DEF FileInv
  <2> QED BY <2>2, <2>5 DEF TurnsInv, UpdateInv
<1> QED BY <1>6, <1>7, <1>8 DEF KvInv

\* A kill leaves the file as it is: empty, if it was being rewritten.
LEMMA KillInv ==
    ASSUME IInv, NEW p \in Daemons, FileKill(p)
    PROVE  IInv'
<1> USE DEF IInv
<1>1. filePc[p] # "idle" /\ UNCHANGED <<file, op, updates, store, overlap>>
      /\ filePc' = [filePc EXCEPT ![p] = "idle"] /\ buf' = [buf EXCEPT ![p] = <<>>]
      /\ fileCut' = (fileCut \/ filePc[p] = "write")
  BY DEF FileKill
<1>2. filePc \in [Daemons -> {"idle", "truncate", "write", "append"}] /\ fileCut \in BOOLEAN
  BY DEF FileTypeOK
<1>3. FileTypeOK'
  BY <1>1 DEF FileTypeOK, Lines
<1>4. OpInv'
  BY <1>1, <1>2 DEF OpInv
<1>5. ASSUME ~overlap' PROVE TurnsInv' /\ FileInv' /\ UpdateInv'
  <2>1. TurnsInv /\ FileInv
    BY <1>1, <1>5 DEF KvInv
  <2>2. \A q \in Daemons : filePc'[q] = "idle" /\ (q # p => filePc[q] = "idle")
    BY <1>1, <1>2, <2>1 DEF TurnsInv
  <2>3. FileInv'
    BY <1>1, <1>2, <2>1, <2>2 DEF FileInv
  <2> QED BY <2>2, <2>3 DEF TurnsInv, UpdateInv
<1> QED BY <1>3, <1>4, <1>5 DEF KvInv

\* The invariant is inductive.
LEMMA StepInv == IInv /\ [FileNext]_fileVars => IInv'
<1> SUFFICES ASSUME IInv, [FileNext]_fileVars PROVE IInv' OBVIOUS
<1>1. CASE FileNext
  BY <1>1, LoadInv, TruncateInv, WriteInv, AppendInv, KillInv DEF FileNext
<1>2. CASE UNCHANGED fileVars
  BY <1>2 DEF fileVars, IInv, FileTypeOK, OpInv, KvInv, TurnsInv, FileInv, UpdateInv, After
<1> QED BY <1>1, <1>2

-----------------------------------------------------------------------------
\* The invariant says what a reader of the file may rely on.
LEMMA InvKeepsUpdates == IInv => UpdatesAreKept
<1> SUFFICES ASSUME IInv PROVE UpdatesAreKept OBVIOUS
<1>1. file \in Lines BY DEF IInv, FileTypeOK
<1>2. ASSUME ~overlap PROVE Good(file, store)
  BY <1>2 DEF IInv, KvInv, FileInv
<1>3. FileIsTheStore
  BY <1>1, <1>2, LookupGood DEF FileIsTheStore, IInv, KvInv, FileInv, Complete
<1>4. NoOldValue
  BY <1>1, <1>2, LookupGood DEF NoOldValue
<1>5. OneLinePerKey
  <2>1. Hole \notin Line BY NoneAssumption DEF Hole, Line
  <2> QED BY <1>2, <2>1 DEF OneLinePerKey, Good
<1> QED BY <1>3, <1>4, <1>5 DEF UpdatesAreKept

\* The file keeps its shape whatever the daemons do to it.
THEOREM FileTypeCorrect == FileSpec => []FileTypeOK
<1>1. FileInit => IInv BY InitInv
<1>2. IInv /\ [FileNext]_fileVars => IInv' BY StepInv
<1>3. IInv => FileTypeOK BY DEF IInv
<1> QED BY <1>1, <1>2, <1>3, PTL DEF FileSpec

\* Any number of daemons that update the file one after the other, each free to
\* be killed at any step, lose no update but to a kill inside the rewrite, and
\* never bring an old value back.
THEOREM UpdatesSurvive == FileSpec => []UpdatesAreKept
<1>1. FileInit => IInv BY InitInv
<1>2. IInv /\ [FileNext]_fileVars => IInv' BY StepInv
<1>3. IInv => UpdatesAreKept BY InvKeepsUpdates
<1> QED BY <1>1, <1>2, <1>3, PTL DEF FileSpec

-----------------------------------------------------------------------------
(* The switch of the uplink. *)

WanTypes ==
    /\ way \in Ways
    /\ wanStep \in 0 .. 6
    /\ netFile \in {"dhcp", "static"}
    /\ eth \in {"down", "dhcp", "static", "bare"}
    /\ wlan \in {"up", "down"} /\ ppp \in {"up", "down"}

\* set_wan_eth: pppoe is down before networkd takes eth0 up again.
EthDone ==
    /\ wanStep >= 2 => ppp = "down"
    /\ wanStep >= 3 => eth \in {"dhcp", "static"}
    /\ wanStep >= 4 => wlan = "down" \/ "wlan_down" \in spared

\* set_wan_wifi: wlan0 is up before eth0 is taken down.
WifiDone ==
    /\ wanStep >= 1 => ppp = "down"
    /\ wanStep >= 3 => wlan = "up"
    /\ wanStep >= 4 => eth = "down" \/ "eth_down" \in spared

\* set_wan_pppoe: the route moves to ppp0 after the session is up.
PppoeDone ==
    /\ wanStep >= 2 => wlan = "down" \/ "wlan_down" \in spared
    /\ wanStep >= 3 => ppp = "up"
    /\ wanStep >= 4 => eth = "bare"

Done == CASE way \in {"dhcp", "static"} -> EthDone
          [] way = "wifi"  -> WifiDone
          [] way = "pppoe" -> PppoeDone

WanInv == WanTypes /\ (running => Done) /\ OneUplink

-----------------------------------------------------------------------------
\* The scripts.
LEMMA ScriptOf ==
    ASSUME NEW w \in Ways
    PROVE  /\ w \in {"dhcp", "static"} => WanScript(w) = EthScript
           /\ w = "wifi" => WanScript(w) = WifiScript
           /\ w = "pppoe" => WanScript(w) = PppoeScript
BY DEF WanScript, Ways

LEMMA ScriptLen ==
    Len(EthScript) = 6 /\ Len(WifiScript) = 6 /\ Len(PppoeScript) = 4
BY DEF EthScript, WifiScript, PppoeScript

LEMMA EthCommands ==
    /\ EthScript[1][1] = "write" /\ EthScript[1][2] = 0
    /\ EthScript[2][1] = "pppoe_stop" /\ EthScript[2][2] # 0
    /\ EthScript[3][1] = "networkd" /\ EthScript[3][2] # 0
    /\ EthScript[4][1] = "wlan_down" /\ EthScript[4][2] = 0
    /\ EthScript[5][1] = "resolved" /\ EthScript[5][2] = 0
    /\ EthScript[6][1] = "dns_link" /\ EthScript[6][2] = 0
BY DEF EthScript

LEMMA WifiCommands ==
    /\ WifiScript[1][1] = "pppoe_stop" /\ WifiScript[1][2] # 0
    /\ WifiScript[2][1] = "networkd" /\ WifiScript[2][2] # 0
    /\ WifiScript[3][1] = "wpa" /\ WifiScript[3][2] # 0
    /\ WifiScript[4][1] = "eth_down" /\ WifiScript[4][2] = 0
    /\ WifiScript[5][1] = "resolved" /\ WifiScript[5][2] = 0
    /\ WifiScript[6][1] = "dns_link" /\ WifiScript[6][2] = 0
BY DEF WifiScript

LEMMA PppoeCommands ==
    /\ PppoeScript[1][1] = "networkd" /\ PppoeScript[1][2] # 0
    /\ PppoeScript[2][1] = "wlan_down" /\ PppoeScript[2][2] = 0
    /\ PppoeScript[3][1] = "pppoe_start" /\ PppoeScript[3][2] # 0
    /\ PppoeScript[4][1] = "route" /\ PppoeScript[4][2] # 0
BY DEF PppoeScript

\* What a command that succeeds changes.
LEMMA Effects ==
    /\ WanEffect("write") => netFile' = way /\ UNCHANGED <<eth, wlan, ppp>>
    /\ WanEffect("networkd") => eth' = netFile /\ UNCHANGED <<netFile, wlan, ppp>>
    /\ WanEffect("pppoe_stop") => ppp' = "down" /\ UNCHANGED <<netFile, eth, wlan>>
    /\ WanEffect("pppoe_start") => ppp' = "up" /\ UNCHANGED <<netFile, eth, wlan>>
    /\ WanEffect("wlan_down") => wlan' = "down" /\ UNCHANGED <<netFile, eth, ppp>>
    /\ WanEffect("wpa") => wlan' = "up" /\ UNCHANGED <<netFile, eth, ppp>>
    /\ WanEffect("eth_down") => eth' = "down" /\ UNCHANGED <<netFile, wlan, ppp>>
    /\ WanEffect("route") => eth' = "bare" /\ UNCHANGED <<netFile, wlan, ppp>>
    /\ WanEffect("resolved") => UNCHANGED <<netFile, eth, wlan, ppp>>
    /\ WanEffect("dns_link") => UNCHANGED <<netFile, eth, wlan, ppp>>
BY DEF WanEffect

\* The tool starts with everything down but eth0.
LEMMA InitWan == WanInit => WanInv
<1> SUFFICES ASSUME WanInit PROVE WanInv OBVIOUS
<1>1. WanTypes
  BY DEF WanInit, WanTypes, Ways
<1> QED BY <1>1 DEF WanInit, WanInv, OneUplink

\* A run starts at the head of its script.
LEMMA RunWan ==
    ASSUME WanInv, NEW w \in Ways, WanRun(w)
    PROVE  WanInv'
<1>1. running' = TRUE /\ way' = w /\ wanStep' = 0 /\ UNCHANGED links
  BY DEF WanRun
<1>2. WanTypes'
  BY <1>1 DEF WanInv, WanTypes, links
<1>3. EthDone' /\ WifiDone' /\ PppoeDone'
  BY <1>1 DEF EthDone, WifiDone, PppoeDone
<1>4. Done'
  BY <1>1, <1>3 DEF Done, Ways
<1> QED BY <1>1, <1>2, <1>4 DEF WanInv, OneUplink

\* A command that fails twice and is fatal ends the run with its error.
LEMMA AbortWan ==
    ASSUME WanInv, wanStep \in 0 .. 5, wanStep' = wanStep + 1, UNCHANGED links,
           NEW r, r # 0, Return(r)
    PROVE  WanInv'
<1>1. running' = FALSE /\ result' # 0 /\ way' = way
  BY DEF Return
<1>2. WanTypes'
  BY <1>1 DEF WanInv, WanTypes, links
<1> QED BY <1>1, <1>2 DEF WanInv, OneUplink

\* The commands of set_wan_eth.
LEMMA EthWan ==
    ASSUME WanInv, Command, way \in {"dhcp", "static"}
    PROVE  WanInv'
<1> DEFINE c == WanScript(way)[wanStep + 1]
<1>0. WanScript(way) = EthScript
  BY ScriptOf DEF WanInv, WanTypes
<1>1. wanStep \in 0 .. 5 /\ wanStep' = wanStep + 1
  <2> DEFINE len == Len(WanScript(way))
  <2>1. wanStep < len /\ wanStep' = wanStep + 1 BY DEF Command
  <2>2. len = 6 BY <1>0, ScriptLen
  <2>3. wanStep \in 0 .. 6 BY DEF WanInv, WanTypes
  <2> HIDE DEF len
  <2> QED BY <2>1, <2>2, <2>3
<1>2. /\ wanStep = 0 => c[1] = "write" /\ c[2] = 0
      /\ wanStep = 1 => c[1] = "pppoe_stop" /\ c[2] # 0
      /\ wanStep = 2 => c[1] = "networkd" /\ c[2] # 0
      /\ wanStep = 3 => c[1] = "wlan_down" /\ c[2] = 0
      /\ wanStep = 4 => c[1] = "resolved" /\ c[2] = 0
      /\ wanStep = 5 => c[1] = "dns_link" /\ c[2] = 0
  <2>1. wanStep = 0 => c = EthScript[1] BY <1>0
  <2>2. wanStep = 1 => c = EthScript[2] BY <1>0
  <2>3. wanStep = 2 => c = EthScript[3] BY <1>0
  <2>4. wanStep = 3 => c = EthScript[4] BY <1>0
  <2>5. wanStep = 4 => c = EthScript[5] BY <1>0
  <2>6. wanStep = 5 => c = EthScript[6] BY <1>0
  <2> HIDE DEF c
  <2> QED BY <2>1, <2>2, <2>3, <2>4, <2>5, <2>6, EthCommands
<1>3. EthDone /\ WanTypes
  <2>1. Done /\ WanTypes BY DEF Command, WanInv
  <2> QED BY <2>1 DEF Done
<1>4. \/ WanEffect(c[1]) /\ UNCHANGED <<running, way, count, result, spared, switches>>
      \/ c[2] = 0 /\ spared' = spared \cup {c[1]}
         /\ UNCHANGED <<running, way, count, result, links, switches>>
      \/ c[2] # 0 /\ Return(c[2]) /\ UNCHANGED <<links, spared>>
  BY DEF Command
<1>5. running
  BY DEF Command
<1> HIDE DEF c
<1>6. CASE WanEffect(c[1]) /\ UNCHANGED <<running, way, count, result, spared, switches>>
  <2>0. WanEffect(c[1]) /\ UNCHANGED <<way, spared>>
    BY <1>6
  <2>1. WanTypes' /\ EthDone'
    <3>1. CASE wanStep = 0
      BY <1>1, <1>2, <1>3, <2>0, <3>1, Effects DEF WanTypes, EthDone
    <3>2. CASE wanStep = 1
      BY <1>1, <1>2, <1>3, <2>0, <3>2, Effects DEF WanTypes, EthDone
    <3>3. CASE wanStep = 2
      BY <1>1, <1>2, <1>3, <2>0, <3>3, Effects DEF WanTypes, EthDone
    <3>4. CASE wanStep = 3
      BY <1>1, <1>2, <1>3, <2>0, <3>4, Effects DEF WanTypes, EthDone
    <3>5. CASE wanStep = 4
      BY <1>1, <1>2, <1>3, <2>0, <3>5, Effects DEF WanTypes, EthDone
    <3>6. CASE wanStep = 5
      BY <1>1, <1>2, <1>3, <2>0, <3>6, Effects DEF WanTypes, EthDone
    <3> QED BY <1>1, <3>1, <3>2, <3>3, <3>4, <3>5, <3>6
  <2> QED BY <1>5, <1>6, <2>0, <2>1 DEF WanInv, Done, OneUplink
<1>7. CASE c[2] = 0 /\ spared' = spared \cup {c[1]}
           /\ UNCHANGED <<running, way, count, result, links, switches>>
  <2>0. c[2] = 0 /\ spared' = spared \cup {c[1]} /\ UNCHANGED <<way, netFile, eth, wlan, ppp>>
    BY <1>7 DEF links
  <2>1. WanTypes'
    BY <1>1, <1>3, <2>0 DEF WanTypes
  <2>2. EthDone'
    BY <1>1, <1>2, <1>3, <2>0 DEF EthDone
  <2> QED BY <1>5, <1>7, <2>0, <2>1, <2>2 DEF WanInv, Done, OneUplink
<1>8. CASE c[2] # 0 /\ Return(c[2]) /\ UNCHANGED <<links, spared>>
  BY <1>1, <1>8, AbortWan
<1> QED BY <1>4, <1>6, <1>7, <1>8

\* The commands of set_wan_wifi.
LEMMA WifiWan ==
    ASSUME WanInv, Command, way = "wifi"
    PROVE  WanInv'
<1> DEFINE c == WanScript(way)[wanStep + 1]
<1>0. WanScript(way) = WifiScript
  BY ScriptOf DEF WanInv, WanTypes
<1>1. wanStep \in 0 .. 5 /\ wanStep' = wanStep + 1
  <2> DEFINE len == Len(WanScript(way))
  <2>1. wanStep < len /\ wanStep' = wanStep + 1 BY DEF Command
  <2>2. len = 6 BY <1>0, ScriptLen
  <2>3. wanStep \in 0 .. 6 BY DEF WanInv, WanTypes
  <2> HIDE DEF len
  <2> QED BY <2>1, <2>2, <2>3
<1>2. /\ wanStep = 0 => c[1] = "pppoe_stop" /\ c[2] # 0
      /\ wanStep = 1 => c[1] = "networkd" /\ c[2] # 0
      /\ wanStep = 2 => c[1] = "wpa" /\ c[2] # 0
      /\ wanStep = 3 => c[1] = "eth_down" /\ c[2] = 0
      /\ wanStep = 4 => c[1] = "resolved" /\ c[2] = 0
      /\ wanStep = 5 => c[1] = "dns_link" /\ c[2] = 0
  <2>1. wanStep = 0 => c = WifiScript[1] BY <1>0
  <2>2. wanStep = 1 => c = WifiScript[2] BY <1>0
  <2>3. wanStep = 2 => c = WifiScript[3] BY <1>0
  <2>4. wanStep = 3 => c = WifiScript[4] BY <1>0
  <2>5. wanStep = 4 => c = WifiScript[5] BY <1>0
  <2>6. wanStep = 5 => c = WifiScript[6] BY <1>0
  <2> HIDE DEF c
  <2> QED BY <2>1, <2>2, <2>3, <2>4, <2>5, <2>6, WifiCommands
<1>3. WifiDone /\ WanTypes
  <2>1. Done /\ WanTypes BY DEF Command, WanInv
  <2> QED BY <2>1 DEF Done
<1>4. \/ WanEffect(c[1]) /\ UNCHANGED <<running, way, count, result, spared, switches>>
      \/ c[2] = 0 /\ spared' = spared \cup {c[1]}
         /\ UNCHANGED <<running, way, count, result, links, switches>>
      \/ c[2] # 0 /\ Return(c[2]) /\ UNCHANGED <<links, spared>>
  BY DEF Command
<1>5. running
  BY DEF Command
<1> HIDE DEF c
<1>6. CASE WanEffect(c[1]) /\ UNCHANGED <<running, way, count, result, spared, switches>>
  <2>0. WanEffect(c[1]) /\ UNCHANGED <<way, spared>>
    BY <1>6
  <2>1. WanTypes' /\ WifiDone'
    <3>1. CASE wanStep = 0
      BY <1>1, <1>2, <1>3, <2>0, <3>1, Effects DEF WanTypes, WifiDone
    <3>2. CASE wanStep = 1
      BY <1>1, <1>2, <1>3, <2>0, <3>2, Effects DEF WanTypes, WifiDone
    <3>3. CASE wanStep = 2
      BY <1>1, <1>2, <1>3, <2>0, <3>3, Effects DEF WanTypes, WifiDone
    <3>4. CASE wanStep = 3
      BY <1>1, <1>2, <1>3, <2>0, <3>4, Effects DEF WanTypes, WifiDone
    <3>5. CASE wanStep = 4
      BY <1>1, <1>2, <1>3, <2>0, <3>5, Effects DEF WanTypes, WifiDone
    <3>6. CASE wanStep = 5
      BY <1>1, <1>2, <1>3, <2>0, <3>6, Effects DEF WanTypes, WifiDone
    <3> QED BY <1>1, <3>1, <3>2, <3>3, <3>4, <3>5, <3>6
  <2> QED BY <1>5, <1>6, <2>0, <2>1 DEF WanInv, Done, OneUplink
<1>7. CASE c[2] = 0 /\ spared' = spared \cup {c[1]}
           /\ UNCHANGED <<running, way, count, result, links, switches>>
  <2>0. c[2] = 0 /\ spared' = spared \cup {c[1]} /\ UNCHANGED <<way, netFile, eth, wlan, ppp>>
    BY <1>7 DEF links
  <2>1. WanTypes'
    BY <1>1, <1>3, <2>0 DEF WanTypes
  <2>2. WifiDone'
    BY <1>1, <1>2, <1>3, <2>0 DEF WifiDone
  <2> QED BY <1>5, <1>7, <2>0, <2>1, <2>2 DEF WanInv, Done, OneUplink
<1>8. CASE c[2] # 0 /\ Return(c[2]) /\ UNCHANGED <<links, spared>>
  BY <1>1, <1>8, AbortWan
<1> QED BY <1>4, <1>6, <1>7, <1>8

\* The commands of set_wan_pppoe.
LEMMA PppoeWan ==
    ASSUME WanInv, Command, way = "pppoe"
    PROVE  WanInv'
<1> DEFINE c == WanScript(way)[wanStep + 1]
<1>0. WanScript(way) = PppoeScript
  BY ScriptOf DEF WanInv, WanTypes
<1>1. wanStep \in 0 .. 3 /\ wanStep' = wanStep + 1
  <2> DEFINE len == Len(WanScript(way))
  <2>1. wanStep < len /\ wanStep' = wanStep + 1 BY DEF Command
  <2>2. len = 4 BY <1>0, ScriptLen
  <2>3. wanStep \in 0 .. 6 BY DEF WanInv, WanTypes
  <2> HIDE DEF len
  <2> QED BY <2>1, <2>2, <2>3
<1>2. /\ wanStep = 0 => c[1] = "networkd" /\ c[2] # 0
      /\ wanStep = 1 => c[1] = "wlan_down" /\ c[2] = 0
      /\ wanStep = 2 => c[1] = "pppoe_start" /\ c[2] # 0
      /\ wanStep = 3 => c[1] = "route" /\ c[2] # 0
  <2>1. wanStep = 0 => c = PppoeScript[1] BY <1>0
  <2>2. wanStep = 1 => c = PppoeScript[2] BY <1>0
  <2>3. wanStep = 2 => c = PppoeScript[3] BY <1>0
  <2>4. wanStep = 3 => c = PppoeScript[4] BY <1>0
  <2> HIDE DEF c
  <2> QED BY <2>1, <2>2, <2>3, <2>4, PppoeCommands
<1>3. PppoeDone /\ WanTypes
  <2>1. Done /\ WanTypes BY DEF Command, WanInv
  <2> QED BY <2>1 DEF Done
<1>4. \/ WanEffect(c[1]) /\ UNCHANGED <<running, way, count, result, spared, switches>>
      \/ c[2] = 0 /\ spared' = spared \cup {c[1]}
         /\ UNCHANGED <<running, way, count, result, links, switches>>
      \/ c[2] # 0 /\ Return(c[2]) /\ UNCHANGED <<links, spared>>
  BY DEF Command
<1>5. running
  BY DEF Command
<1> HIDE DEF c
<1>6. CASE WanEffect(c[1]) /\ UNCHANGED <<running, way, count, result, spared, switches>>
  <2>0. WanEffect(c[1]) /\ UNCHANGED <<way, spared>>
    BY <1>6
  <2>1. WanTypes' /\ PppoeDone'
    <3>1. CASE wanStep = 0
      BY <1>1, <1>2, <1>3, <2>0, <3>1, Effects DEF WanTypes, PppoeDone
    <3>2. CASE wanStep = 1
      BY <1>1, <1>2, <1>3, <2>0, <3>2, Effects DEF WanTypes, PppoeDone
    <3>3. CASE wanStep = 2
      BY <1>1, <1>2, <1>3, <2>0, <3>3, Effects DEF WanTypes, PppoeDone
    <3>4. CASE wanStep = 3
      BY <1>1, <1>2, <1>3, <2>0, <3>4, Effects DEF WanTypes, PppoeDone
    <3> QED BY <1>1, <3>1, <3>2, <3>3, <3>4
  <2> QED BY <1>5, <1>6, <2>0, <2>1 DEF WanInv, Done, OneUplink
<1>7. CASE c[2] = 0 /\ spared' = spared \cup {c[1]}
           /\ UNCHANGED <<running, way, count, result, links, switches>>
  <2>0. c[2] = 0 /\ spared' = spared \cup {c[1]} /\ UNCHANGED <<way, netFile, eth, wlan, ppp>>
    BY <1>7 DEF links
  <2>1. WanTypes'
    BY <1>1, <1>3, <2>0 DEF WanTypes
  <2>2. PppoeDone'
    BY <1>1, <1>2, <1>3, <2>0 DEF PppoeDone
  <2> QED BY <1>5, <1>7, <2>0, <2>1, <2>2 DEF WanInv, Done, OneUplink
<1>8. CASE c[2] # 0 /\ Return(c[2]) /\ UNCHANGED <<links, spared>>
  BY <1>1, <1>8, AbortWan
<1> QED BY <1>4, <1>6, <1>7, <1>8

\* A check that finds the link ends a whole script.
LEMMA CheckWan ==
    ASSUME WanInv, Check
    PROVE  WanInv'
<1>1. wanStep = Len(WanScript(way)) /\ UNCHANGED <<way, wanStep, netFile, eth, wlan, ppp, spared>>
  BY DEF Check, Return, links
<1>2. Done /\ WanTypes
  BY DEF Check, WanInv
<1>3. WanTypes'
  BY <1>1, <1>2 DEF WanTypes
<1>4. Done'
  BY <1>1, <1>2 DEF Done, EthDone, WifiDone, PppoeDone
<1>5. CASE Reachable(way) /\ Return(0)
  <2>1. CASE way \in {"dhcp", "static"}
    <3>1. ppp = "down" /\ eth \in {"dhcp", "static"} /\ (wlan = "down" \/ "wlan_down" \in spared)
      <4>1. wanStep = 6 BY <1>1, <1>2, <2>1, ScriptOf, ScriptLen DEF WanTypes
      <4>2. EthDone BY <1>2, <2>1 DEF Done
      <4> QED BY <4>1, <4>2 DEF EthDone
    <3>2. OneUplink'
      BY <1>1, <2>1, <3>1 DEF OneUplink, Uplinks, Asked
    <3> QED BY <1>3, <1>4, <3>2 DEF WanInv
  <2>2. CASE way = "wifi"
    <3>1. ppp = "down" /\ wlan = "up" /\ (eth = "down" \/ "eth_down" \in spared)
      <4>1. wanStep = 6 BY <1>1, <1>2, <2>2, ScriptOf, ScriptLen DEF WanTypes
      <4>2. WifiDone BY <1>2, <2>2 DEF Done
      <4> QED BY <4>1, <4>2 DEF WifiDone
    <3>2. OneUplink'
      BY <1>1, <2>2, <3>1 DEF OneUplink, Uplinks, Asked
    <3> QED BY <1>3, <1>4, <3>2 DEF WanInv
  <2>3. CASE way = "pppoe"
    <3>1. ppp = "up" /\ eth = "bare" /\ (wlan = "down" \/ "wlan_down" \in spared)
      <4>1. wanStep = 4 BY <1>1, <1>2, <2>3, ScriptOf, ScriptLen DEF WanTypes
      <4>2. PppoeDone BY <1>2, <2>3 DEF Done
      <4> QED BY <4>1, <4>2 DEF PppoeDone
    <3>2. OneUplink'
      BY <1>1, <2>3, <3>1 DEF OneUplink, Uplinks, Asked
    <3> QED BY <1>3, <1>4, <3>2 DEF WanInv
  <2> QED BY <1>2, <2>1, <2>2, <2>3 DEF WanTypes, Ways
<1>6. CASE running' = running
  <2>1. running BY DEF Check
  <2> QED BY <1>3, <1>4, <1>6, <2>1 DEF WanInv, OneUplink
<1>7. CASE Return(-4)
  <2>1. ~running' BY <1>7 DEF Return
  <2>2. result' # 0 BY <1>7 DEF Return
  <2> QED BY <1>3, <2>1, <2>2 DEF WanInv, OneUplink
<1> QED BY <1>5, <1>6, <1>7 DEF Check

\* A boot forgets the result of the last run.
LEMMA BootWan ==
    ASSUME WanInv, NEW w \in Ways, WanBoot(w)
    PROVE  WanInv'
<1>1. ~running' BY DEF WanBoot
<1>2. result' # 0 BY DEF WanBoot
<1>3. WanTypes'
  <2>1. UNCHANGED <<way, wanStep, netFile>> /\ eth' \in {netFile, "down", "bare"}
        /\ wlan' \in {"up", "down"} /\ ppp' \in {"up", "down"}
    BY DEF WanBoot
  <2> QED BY <2>1 DEF WanInv, WanTypes
<1> QED BY <1>1, <1>2, <1>3 DEF WanInv, OneUplink

\* The invariant is inductive.
LEMMA StepWan == WanInv /\ [WanNext]_wanVars => WanInv'
<1> SUFFICES ASSUME WanInv, [WanNext]_wanVars PROVE WanInv' OBVIOUS
<1>1. CASE WanNext
  <2>1. CASE Command
    BY <2>1, EthWan, WifiWan, PppoeWan DEF WanInv, WanTypes, Ways
  <2>2. CASE WifiDead
    <3>1. WanTypes'
      BY <2>2 DEF WifiDead, Return, WanInv, WanTypes
    <3> QED BY <2>2, <3>1 DEF WifiDead, Return, WanInv, OneUplink
  <2> QED BY <1>1, <2>1, <2>2, RunWan, CheckWan, BootWan DEF WanNext
<1>2. CASE UNCHANGED wanVars
  BY <1>2 DEF wanVars, links, WanInv, WanTypes, Done, EthDone, WifiDone, PppoeDone,
              OneUplink, Uplinks, Asked
<1> QED BY <1>1, <1>2

\* Whatever uplinks the gateway went through and however commands failed on the
\* way, a switch that returns 0 leaves the uplink it was asked for, alone but for
\* one whose take-down failed and is ignored, and never eth0 beside PPPoE.
THEOREM SwitchLeavesOneUplink == WanSpec => []OneUplink
<1>1. WanInv => OneUplink BY DEF WanInv
<1> QED BY InitWan, StepWan, <1>1, PTL DEF WanSpec

-----------------------------------------------------------------------------
(* The inductive invariant.                                                *)

\* What the parts below need of the types; no bound and no finite set.
Shapes ==
    /\ bluePc \in {"idle", "script", "settings", "connect", "reconnect", "device",
                   "accept", "refuse"}
    /\ booting \in BOOLEAN /\ blueStep \in 1 .. 6
    /\ want \in Settings /\ dev \in Devices
    /\ hci \in [up : BOOLEAN, name : Names, scan : BOOLEAN]
    /\ blueProf \in [Keys -> Contents] /\ blueOld \in [Keys -> Contents]
    /\ conned \in [1 .. 3 -> Devices \cup {Missing}]

\* Each key of the profile has a value that a command gave it, or none.
ProfileIsReadable ==
    /\ blueProf[1] \in {"on", "off", Missing}
    /\ blueProf[2] \in Names \cup {Missing}
    /\ blueProf[3] \in {"yes", "no", Missing}

\* The settings a step of the script or of the update works on.
StageIsKnown ==
    /\ booting => bluePc \in {"idle", "script"} /\ blueAnswer = "none"
    /\ bluePc # "idle" => blueAnswer = "none"
    /\ bluePc = "script" => /\ want.switch # "other" /\ blueStep <= Len(Script(want))
                            /\ blueStep > 3 => want.visible # "other"
    /\ bluePc = "settings" => /\ want.switch # "other" /\ blueStep <= KeysGiven(want)
                              /\ want.switch = "on" => want.visible # "other"
                              /\ ~settled
    /\ bluePc \in {"connect", "reconnect"} => blueStep = 1
    /\ bluePc = "device" => blueStep <= 3 /\ ~settled

\* Until a command is accepted the profile is the one it found.
ProfileIsOld ==
    /\ bluePc \in {"script", "connect", "reconnect", "refuse"} /\ ~booting => blueProf = blueOld
    /\ bluePc = "idle" /\ blueAnswer = "no" => blueProf = blueOld

\* How far the module follows the settings, and the profile them.
Follows == /\ hci.up = (blueProf[1] = "on")
           /\ hci.up => hci.name = blueProf[2] /\ hci.scan = (blueProf[3] = "yes")

ModuleIsOnItsWay ==
    /\ bluePc = "script" /\ booting =>
           want = [switch |-> blueProf[1], name |-> blueProf[2], visible |-> blueProf[3]]
    /\ bluePc = "script" => /\ blueStep > 2 => hci.name = want.name
                            /\ blueStep > 3 => hci.scan = (want.visible = "yes")
    /\ bluePc = "settings" =>
           /\ hci.up = (want.switch = "on")
           /\ hci.up => hci.name = want.name /\ hci.scan = (want.visible = "yes")
           /\ \A k \in Keys : k < blueStep => blueProf[k] = Setting(want, k)
    /\ settled => Follows

\* The name and the type in the profile are of one device, unless an update was
\* torn; while a device is saved, the keys that have been written are of it.
DeviceIsWhole ==
    /\ ~torn /\ bluePc # "device" => conned[1] = conned[3]
    /\ ~torn /\ bluePc = "device" /\ blueStep = 1 => conned[1] = conned[3]
    /\ bluePc = "device" => \A k \in 1 .. 3 : k < blueStep => conned[k] = dev
    /\ ListedIsOneDevice

Inv == /\ Shapes /\ ProfileIsReadable /\ StageIsKnown /\ ProfileIsOld
       /\ ModuleIsOnItsWay /\ DeviceIsWhole

-----------------------------------------------------------------------------
(* The scripts and the keys, and the first state.                          *)

\* The five commands that switch hci0 on, and the one that switches it off.
LEMMA ScriptSteps ==
    ASSUME NEW c \in Settings, c.switch # "other", NEW i \in 1 .. 6, i <= Len(Script(c))
    PROVE  /\ c.switch = "on" => /\ Len(Script(c)) = 5 /\ i \in 1 .. 5
                                 /\ i = 1 => Script(c)[i] = "up"
                                 /\ i = 2 => Script(c)[i] = "name"
                                 /\ i = 3 => Script(c)[i] = "scan"
                                 /\ i = 4 => Script(c)[i] = "down"
                                 /\ i = 5 => Script(c)[i] = "up"
           /\ c.switch = "off" => Len(Script(c)) = 1 /\ i = 1 /\ Script(c)[i] = "down"
           /\ c.switch \in {"on", "off"}
  BY DEF Script, Settings

\* A key that is written gets a value of its kind.
LEMMA SettingKinds ==
    ASSUME NEW c \in Settings, NEW k \in 1 .. 6, c.switch # "other", k <= KeysGiven(c),
           c.switch = "on" => c.visible # "other"
    PROVE  /\ k \in Keys /\ Setting(c, k) \in Contents
           /\ k = 1 => Setting(c, k) \in {"on", "off"}
           /\ k = 2 => Setting(c, k) \in Names
           /\ k = 3 => Setting(c, k) \in {"yes", "no"}
           /\ KeysGiven(c) \in {1, 4}
  <1>1. c.switch \in {"on", "off"} /\ c.name \in Names /\ c.visible \in {"yes", "no", "other"}
    BY DEF Settings
  <1>2. k \in Keys /\ (k # 1 => c.switch = "on" /\ c.visible \in {"yes", "no"})
        /\ KeysGiven(c) \in {1, 4}
    BY <1>1 DEF KeysGiven, Keys
  <1>3. CASE k = 1
    BY <1>1, <1>2, <1>3 DEF Setting, Contents
  <1>4. CASE k = 2
    BY <1>1, <1>2, <1>4 DEF Setting, Contents
  <1>5. CASE k = 3
    BY <1>1, <1>2, <1>5 DEF Setting, Contents
  <1>6. CASE k = 4
    BY <1>1, <1>2, <1>6 DEF Setting, Contents
  <1> QED BY <1>2, <1>3, <1>4, <1>5, <1>6 DEF Keys

\* A command of the script changes one setting of the module.
LEMMA OneSetting ==
    ASSUME NEW h \in [up : BOOLEAN, name : Names, scan : BOOLEAN], NEW b \in BOOLEAN
    PROVE  /\ [h EXCEPT !.up = b] \in [up : BOOLEAN, name : Names, scan : BOOLEAN]
           /\ [h EXCEPT !.up = b].up = b
           /\ [h EXCEPT !.up = b].name = h.name
           /\ [h EXCEPT !.up = b].scan = h.scan
           /\ [h EXCEPT !.scan = b] \in [up : BOOLEAN, name : Names, scan : BOOLEAN]
           /\ [h EXCEPT !.scan = b].scan = b
           /\ [h EXCEPT !.scan = b].name = h.name
  OBVIOUS

\* What is behind a device's own type is of its name, or nothing.
LEMMA BehindOwnType ==
    ASSUME NEW d \in Devices
    PROVE  /\ Behind(d, d) \in {d, Missing}
           /\ NameLen[d] <= TypeLen[d] => Behind(d, d) = Missing
  <1>1. NameLen[d] \in Nat /\ TypeLen[d] \in Nat
    BY LengthsAssumption
  <1> QED BY <1>1 DEF Behind

\* The gateway starts with the module as the profile says.
LEMMA Start == ASSUME BlueInit PROVE Inv
  <1> DEFINE on == [switch |-> "on", name |-> Factory, visible |-> "yes"]
  <1>1. on \in Settings /\ on.switch = "on" /\ on.name = Factory /\ on.visible = "yes"
    BY FactoryAssumption DEF Settings
  <1>2. /\ blueProf[1] = "on" /\ blueProf[2] = Factory /\ blueProf[3] = "yes" /\ blueProf[4] = Factory
        /\ blueProf \in [Keys -> Contents]
    BY <1>1, FactoryAssumption DEF BlueInit, Keys, Setting, Contents
  <1>3. Shapes
    <2>1. blueStep \in 1 .. 6
      BY DEF BlueInit
    <2>2. hci \in [up : BOOLEAN, name : Names, scan : BOOLEAN]
      BY Zenon, FactoryAssumption DEF BlueInit
    <2>3. conned \in [1 .. 3 -> Devices \cup {Missing}]
      BY DEF BlueInit
    <2>4. want \in Settings /\ blueOld \in [Keys -> Contents]
      BY <1>1, <1>2 DEF BlueInit
    <2>5. booting \in BOOLEAN /\ dev \in Devices
      BY DEF BlueInit
    <2>6. bluePc = "idle"
      BY DEF BlueInit
    <2> QED BY <1>2, <2>1, <2>2, <2>3, <2>4, <2>5, <2>6 DEF Shapes
  <1>4. ProfileIsReadable /\ StageIsKnown /\ ProfileIsOld
    BY <1>2, FactoryAssumption DEF BlueInit, ProfileIsReadable, StageIsKnown, ProfileIsOld
  <1>5. ModuleIsOnItsWay
    BY <1>1, <1>2 DEF BlueInit, ModuleIsOnItsWay, Follows
  <1>6. DeviceIsWhole
    BY DEF BlueInit, DeviceIsWhole, ListedIsOneDevice
  <1> QED BY <1>3, <1>4, <1>5, <1>6 DEF Inv

-----------------------------------------------------------------------------
(* Each step.                                                              *)

\* A command arrives: it is the first of its steps, and the profile is kept.
LEMMA ReceiveSettingsKeeps ==
    ASSUME Inv, ~booting, NEW c \in Settings, ReceiveSettings(c) PROVE Inv'
  <1> USE DEF ReceiveSettings, Arrive
  <1>1. Shapes'
    BY DEF Inv, Shapes
  <1>2. ProfileIsReadable' /\ ProfileIsOld'
    BY DEF Inv, Shapes, ProfileIsReadable, ProfileIsOld
  <1>3. StageIsKnown'
    BY ScriptSteps DEF Inv, Shapes, StageIsKnown, Script
  <1>4. ModuleIsOnItsWay'
    BY DEF Inv, Shapes, StageIsKnown, ModuleIsOnItsWay, Follows
  <1>5. DeviceIsWhole'
    BY DEF Inv, DeviceIsWhole, ListedIsOneDevice
  <1> QED BY <1>1, <1>2, <1>3, <1>4, <1>5 DEF Inv

LEMMA ReceiveDeviceKeeps ==
    ASSUME Inv, ~booting, NEW d \in Devices, ReceiveDevice(d) PROVE Inv'
  <1> USE DEF ReceiveDevice, Arrive
  <1>1. Shapes'
    BY DEF Inv, Shapes
  <1>2. ProfileIsReadable' /\ StageIsKnown' /\ ProfileIsOld'
    BY DEF Inv, Shapes, ProfileIsReadable, StageIsKnown, ProfileIsOld
  <1>3. ModuleIsOnItsWay' /\ DeviceIsWhole'
    BY DEF Inv, Shapes, ModuleIsOnItsWay, Follows, DeviceIsWhole, ListedIsOneDevice
  <1> QED BY <1>1, <1>2, <1>3 DEF Inv

\* The answer takes the name and the type of one device from the profile.
LEMMA ListKeeps == ASSUME Inv, ~booting, List PROVE Inv'
  <1> USE DEF List, Arrive
  <1>1. Shapes'
    BY DEF Inv, Shapes
  <1>2. ProfileIsReadable' /\ StageIsKnown' /\ ProfileIsOld' /\ ModuleIsOnItsWay'
    BY DEF Inv, Shapes, ProfileIsReadable, StageIsKnown, ProfileIsOld, ModuleIsOnItsWay, Follows
  <1>3. ASSUME ~torn PROVE ListedIsOneDevice'
    <2>1. conned[1] = conned[3] /\ conned[1] \in Devices \cup {Missing}
      BY <1>3 DEF Inv, Shapes, DeviceIsWhole
    <2>2. CASE listed' = NoList
      BY <2>2 DEF NoList, ListedIsOneDevice
    <2>3. CASE listed' # NoList
      <3>1. /\ conned[1] \in Devices
            /\ listed'.name = conned[1] /\ listed'.type = conned[1]
            /\ listed'.rest = Behind(conned[1], conned[1])
        BY <2>1, <2>3
      <3> QED BY <3>1, BehindOwnType DEF ListedIsOneDevice
    <2> QED BY <2>2, <2>3
  <1>4. DeviceIsWhole'
    BY <1>3 DEF Inv, DeviceIsWhole, ListedIsOneDevice
  <1> QED BY <1>1, <1>2, <1>4 DEF Inv

\* The last command of the script leaves the module as the settings say.
LEMMA RunScriptKeeps == ASSUME Inv, RunScript PROVE Inv'
  <1> DEFINE s == Script(want)[blueStep]
             done == blueStep = Len(Script(want))
  <1>1. /\ bluePc = "script" /\ want \in Settings /\ want.switch # "other" /\ blueStep \in 1 .. 6
        /\ blueStep <= Len(Script(want)) /\ booting \in BOOLEAN
    BY DEF Inv, Shapes, StageIsKnown, RunScript
  <1>2. /\ want.switch = "on" => /\ Len(Script(want)) = 5 /\ blueStep \in 1 .. 5
                                 /\ blueStep = 1 => s = "up"
                                 /\ blueStep = 2 => s = "name"
                                 /\ blueStep = 3 => s = "scan"
                                 /\ blueStep = 4 => s = "down"
                                 /\ blueStep = 5 => s = "up"
        /\ want.switch = "off" => Len(Script(want)) = 1 /\ blueStep = 1 /\ s = "down"
        /\ want.switch \in {"on", "off"}
    BY <1>1, ScriptSteps
  <1> DEFINE named  == hci'.name = want.name
             seen   == hci'.scan = (want.visible = "yes")
  <1>3. /\ want' = want /\ blueProf' = blueProf /\ blueOld' = blueOld /\ conned' = conned /\ booting' = booting
        /\ dev' = dev /\ blueAnswer' = blueAnswer /\ listed' = listed /\ torn' = torn
    BY DEF RunScript
  <1>4. CASE /\ ~(s = "scan" /\ want.visible = "other") /\ hci' = Effect(s)
             /\ ~done /\ bluePc' = bluePc /\ blueStep' = blueStep + 1 /\ settled' = FALSE
    <2>1. want.switch = "on" /\ blueStep \in 1 .. 4 /\ ~(s = "scan" /\ want.visible = "other")
      <3>1. blueStep # Len(Script(want)) /\ ~(s = "scan" /\ want.visible = "other")
        BY <1>4
      <3>2. want.switch = "on"
        BY <1>2, <3>1
      <3> QED BY <1>1, <1>2, <3>1, <3>2
    <2>2. /\ hci' \in [up : BOOLEAN, name : Names, scan : BOOLEAN]
          /\ blueStep = 1 => hci'.name = hci.name /\ hci'.scan = hci.scan
          /\ blueStep = 2 => named /\ hci'.scan = hci.scan
          /\ blueStep = 3 => hci'.name = hci.name /\ seen
          /\ blueStep = 4 => hci'.name = hci.name /\ hci'.scan = hci.scan
      <3>1. hci \in [up : BOOLEAN, name : Names, scan : BOOLEAN] /\ want.name \in Names
        BY DEF Inv, Shapes, Settings
      <3>2. CASE s = "up" /\ blueStep = 1
        <4>1. hci' = [hci EXCEPT !.up = TRUE]
          BY <1>4, <3>2, Zenon DEF Effect
        <4>2. /\ hci' \in [up : BOOLEAN, name : Names, scan : BOOLEAN]
              /\ hci'.name = hci.name /\ hci'.scan = hci.scan
          BY <3>1, <4>1, OneSetting
        <4> QED BY <3>2, <4>2
      <3>3. CASE s = "name" /\ blueStep = 2
        BY <1>4, <3>1, <3>3 DEF Effect
      <3>4. CASE s = "scan" /\ blueStep = 3
        <4>1. hci' = [hci EXCEPT !.scan = (want.visible = "yes")]
          BY <1>4, <3>4, Zenon DEF Effect
        <4>2. (want.visible = "yes") \in BOOLEAN
          OBVIOUS
        <4>3. /\ hci' \in [up : BOOLEAN, name : Names, scan : BOOLEAN]
              /\ hci'.name = hci.name /\ seen
          BY <3>1, <4>1, <4>2, OneSetting
        <4> QED BY <3>4, <4>3
      <3>5. CASE s = "down" /\ blueStep = 4
        <4>1. hci' = [hci EXCEPT !.up = FALSE]
          BY <1>4, <3>5, Zenon DEF Effect
        <4>2. /\ hci' \in [up : BOOLEAN, name : Names, scan : BOOLEAN]
              /\ hci'.name = hci.name /\ hci'.scan = hci.scan
          BY <3>1, <4>1, OneSetting
        <4> QED BY <3>5, <4>2
      <3> QED BY <1>2, <2>1, <3>2, <3>3, <3>4, <3>5
    <2>3. Shapes'
      <3>1. blueStep' \in 1 .. 6 /\ bluePc' = "script"
        BY <1>1, <1>4, <2>1
      <3> QED BY <1>3, <2>2, <3>1, Zenon DEF Inv, Shapes
    <2>4. ProfileIsReadable' /\ ProfileIsOld' /\ DeviceIsWhole'
      BY <1>1, <1>3, <1>4 DEF Inv, ProfileIsReadable, ProfileIsOld, DeviceIsWhole, ListedIsOneDevice
    <2>5. StageIsKnown'
      <3>1. blueStep' <= Len(Script(want)) /\ (blueStep' > 3 => want.visible # "other")
        <4>1. Len(Script(want)) = 5 /\ blueStep' = blueStep + 1 /\ (blueStep = 3 => want.visible # "other")
          BY <1>2, <1>4, <2>1
        <4>2. blueStep > 3 => want.visible # "other"
          BY <1>1 DEF Inv, StageIsKnown
        <4> QED BY <2>1, <4>1, <4>2
      <3> QED BY <1>1, <1>3, <1>4, <3>1 DEF Inv, StageIsKnown
    <2>6. ModuleIsOnItsWay'
      <3>1. (blueStep' > 2 => named) /\ (blueStep' > 3 => seen)
        BY <1>1, <1>4, <2>1, <2>2 DEF Inv, ModuleIsOnItsWay
      <3> QED BY <1>1, <1>3, <1>4, <3>1 DEF Inv, ModuleIsOnItsWay
    <2> QED BY <2>3, <2>4, <2>5, <2>6 DEF Inv
  <1>5. CASE /\ ~(s = "scan" /\ want.visible = "other") /\ hci' = Effect(s)
             /\ done /\ bluePc' = (IF booting THEN "idle" ELSE "settings") /\ blueStep' = 1
             /\ settled' = booting
    <2>1. /\ hci' \in [up : BOOLEAN, name : Names, scan : BOOLEAN]
          /\ hci'.up = (want.switch = "on")
          /\ want.switch = "on" => named /\ seen
          /\ want.switch = "on" => want.visible # "other"
      <3>1. /\ hci \in [up : BOOLEAN, name : Names, scan : BOOLEAN]
            /\ blueStep = 5 => /\ hci.name = want.name /\ hci.scan = (want.visible = "yes")
                               /\ want.visible # "other"
        BY <1>1 DEF Inv, Shapes, StageIsKnown, ModuleIsOnItsWay
      <3>2. CASE want.switch = "on" /\ s = "up" /\ blueStep = 5
        BY <1>5, <3>1, <3>2 DEF Effect
      <3>3. CASE want.switch = "off" /\ s = "down"
        BY <1>5, <3>1, <3>3 DEF Effect
      <3> QED BY <1>1, <1>2, <1>5, <3>2, <3>3
    <2>2. Shapes'
      <3>1. blueStep' \in 1 .. 6 /\ bluePc' \in {"idle", "settings"}
        BY <1>1, <1>5
      <3> QED BY <1>3, <2>1, <3>1, Zenon DEF Inv, Shapes
    <2>3. ProfileIsReadable' /\ ProfileIsOld' /\ DeviceIsWhole'
      BY <1>1, <1>3, <1>5 DEF Inv, ProfileIsReadable, ProfileIsOld, DeviceIsWhole, ListedIsOneDevice, StageIsKnown
    <2>4. StageIsKnown'
      BY <1>1, <1>3, <1>5, <2>1 DEF Inv, StageIsKnown, KeysGiven
    <2>5. ModuleIsOnItsWay'
      <3>1. CASE booting
        BY <1>1, <1>3, <1>5, <2>1, <3>1 DEF Inv, ModuleIsOnItsWay, Follows
      <3>2. CASE ~booting
        BY <1>1, <1>2, <1>3, <1>5, <2>1, <3>2 DEF ModuleIsOnItsWay, Keys
      <3> QED BY <3>1, <3>2
    <2> QED BY <2>2, <2>3, <2>4, <2>5 DEF Inv
  <1>6. CASE /\ bluePc' = (IF booting THEN "idle" ELSE "refuse") /\ settled' = FALSE
             /\ UNCHANGED <<hci, blueStep>>
    <2>1. Shapes'
      BY <1>1, <1>3, <1>6 DEF Inv, Shapes
    <2>2. ProfileIsReadable' /\ ProfileIsOld' /\ DeviceIsWhole'
      BY <1>1, <1>3, <1>6 DEF Inv, ProfileIsReadable, ProfileIsOld, DeviceIsWhole, ListedIsOneDevice, StageIsKnown
    <2>3. StageIsKnown' /\ ModuleIsOnItsWay'
      BY <1>1, <1>3, <1>6 DEF Inv, StageIsKnown, ModuleIsOnItsWay
    <2> QED BY <2>1, <2>2, <2>3 DEF Inv
  <1> QED BY <1>1, <1>4, <1>5, <1>6 DEF RunScript

\* An accepted command has brought every key to what the module is set to.
LEMMA SaveSettingsKeeps == ASSUME Inv, SaveSettings PROVE Inv'
  <1>1. /\ bluePc = "settings" /\ want \in Settings /\ want.switch # "other" /\ blueStep \in 1 .. 6
        /\ blueStep <= KeysGiven(want) /\ (want.switch = "on" => want.visible # "other")
        /\ ~settled /\ ~booting /\ blueAnswer = "none" /\ blueProf \in [Keys -> Contents]
    BY DEF Inv, Shapes, StageIsKnown, SaveSettings
  <1>2. /\ blueStep \in Keys /\ Setting(want, blueStep) \in Contents
        /\ blueStep = 1 => Setting(want, blueStep) \in {"on", "off"}
        /\ blueStep = 2 => Setting(want, blueStep) \in Names
        /\ blueStep = 3 => Setting(want, blueStep) \in {"yes", "no"}
        /\ KeysGiven(want) \in {1, 4}
    BY <1>1, SettingKinds
  <1>3. /\ want' = want /\ blueOld' = blueOld /\ conned' = conned /\ booting' = booting
        /\ dev' = dev /\ blueAnswer' = blueAnswer /\ listed' = listed /\ hci' = hci /\ torn' = torn
    BY DEF SaveSettings
  <1>4. CASE /\ blueProf' = [blueProf EXCEPT ![blueStep] = Setting(want, blueStep)] /\ blueStep' = blueStep + 1
             /\ IF blueStep = KeysGiven(want) THEN bluePc' = "accept" /\ settled' = TRUE
                ELSE UNCHANGED <<bluePc, settled>>
    <2>1. /\ blueProf' \in [Keys -> Contents] /\ blueProf'[blueStep] = Setting(want, blueStep)
          /\ \A k \in Keys : k # blueStep => blueProf'[k] = blueProf[k]
      BY <1>1, <1>2, <1>4
    <2>2. /\ blueStep' \in 1 .. 6 /\ bluePc' \in {"settings", "accept"}
          /\ bluePc' = "settings" => blueStep' <= KeysGiven(want) /\ ~settled'
      BY <1>1, <1>2, <1>4 DEF Keys
    <2>3. \A k \in Keys : k < blueStep' => blueProf'[k] = Setting(want, k)
      BY <1>1, <1>2, <1>4, <2>1 DEF Inv, ModuleIsOnItsWay, Keys
    <2>4. Shapes'
      BY <1>3, <2>1, <2>2, Zenon DEF Inv, Shapes
    <2>5. ProfileIsReadable'
      BY <1>2, <2>1 DEF Inv, ProfileIsReadable, Keys
    <2>6. StageIsKnown'
      BY <1>1, <1>3, <2>2 DEF StageIsKnown
    <2>7. ProfileIsOld' /\ DeviceIsWhole'
      BY <1>1, <1>3, <1>4, <2>2 DEF Inv, ProfileIsOld, DeviceIsWhole, ListedIsOneDevice
    <2>8. ModuleIsOnItsWay'
      <3>1. (settled' => Follows')
        <4> SUFFICES ASSUME settled' PROVE Follows'
          OBVIOUS
        <4>1. blueStep = KeysGiven(want) /\ blueStep' = blueStep + 1
          BY <1>1, <1>4
        <4>2. blueProf'[1] = want.switch /\ (want.switch = "on" =>
                                             blueProf'[2] = want.name /\ blueProf'[3] = want.visible)
          BY <1>1, <2>3, <4>1 DEF Keys, KeysGiven, Setting
        <4>3. /\ hci.up = (want.switch = "on")
              /\ hci.up => hci.name = want.name /\ hci.scan = (want.visible = "yes")
          BY <1>1 DEF Inv, ModuleIsOnItsWay
        <4> QED BY <1>3, <4>2, <4>3 DEF Follows
      <3> QED BY <1>1, <1>3, <2>2, <2>3, <3>1 DEF Inv, ModuleIsOnItsWay
    <2> QED BY <2>4, <2>5, <2>6, <2>7, <2>8 DEF Inv
  <1>5. CASE bluePc' = "accept" /\ UNCHANGED <<blueProf, blueStep, settled>>
    <2>1. Shapes'
      BY <1>3, <1>5 DEF Inv, Shapes
    <2>2. ProfileIsReadable' /\ ProfileIsOld' /\ DeviceIsWhole'
      BY <1>1, <1>3, <1>5 DEF Inv, ProfileIsReadable, ProfileIsOld, DeviceIsWhole, ListedIsOneDevice
    <2>3. StageIsKnown' /\ ModuleIsOnItsWay'
      BY <1>1, <1>3, <1>5 DEF Inv, StageIsKnown, ModuleIsOnItsWay
    <2> QED BY <2>1, <2>2, <2>3 DEF Inv
  <1> QED BY <1>4, <1>5 DEF SaveSettings

\* Links and their set up change neither the profile nor the settings.
LEMMA ConnectKeeps == ASSUME Inv, Connect PROVE Inv'
  <1>1. /\ bluePc \in {"connect", "reconnect"} /\ ~booting /\ blueStep = 1
        /\ hci \in [up : BOOLEAN, name : Names, scan : BOOLEAN]
    BY DEF Inv, Shapes, StageIsKnown, Connect
  <1>2. /\ want' = want /\ blueProf' = blueProf /\ blueOld' = blueOld /\ conned' = conned /\ booting' = booting
        /\ dev' = dev /\ blueAnswer' = blueAnswer /\ listed' = listed /\ torn' = torn /\ blueStep' = blueStep
        /\ ~settled'
    BY DEF Connect
  <1>3. bluePc' \in {"device", "reconnect", "refuse"}
    BY <1>1, Zenon DEF Connect
  <1>4. hci' \in [up : BOOLEAN, name : Names, scan : BOOLEAN]
    <2>1. hci' = [hci EXCEPT !.up = TRUE] \/ hci' = hci
      BY DEF Connect
    <2>2. [hci EXCEPT !.up = TRUE] \in [up : BOOLEAN, name : Names, scan : BOOLEAN]
      BY <1>1, OneSetting
    <2> QED BY <1>1, <2>1, <2>2
  <1>5. Shapes'
    BY <1>2, <1>3, <1>4, Zenon DEF Inv, Shapes
  <1>6. ProfileIsReadable' /\ StageIsKnown' /\ ProfileIsOld'
    BY <1>1, <1>2, <1>3 DEF Inv, ProfileIsReadable, StageIsKnown, ProfileIsOld
  <1>7. ModuleIsOnItsWay' /\ DeviceIsWhole'
    BY <1>1, <1>2, <1>3 DEF Inv, ModuleIsOnItsWay, DeviceIsWhole, ListedIsOneDevice
  <1> QED BY <1>5, <1>6, <1>7 DEF Inv

\* The three keys of a device are of it once the third is written.
LEMMA SaveDeviceKeeps == ASSUME Inv, SaveDevice PROVE Inv'
  <1>1. /\ bluePc = "device" /\ ~booting /\ blueStep \in 1 .. 3 /\ dev \in Devices
        /\ conned \in [1 .. 3 -> Devices \cup {Missing}]
    BY DEF Inv, Shapes, StageIsKnown, SaveDevice
  <1>2. /\ want' = want /\ blueProf' = blueProf /\ blueOld' = blueOld /\ hci' = hci /\ booting' = booting
        /\ dev' = dev /\ blueAnswer' = blueAnswer /\ listed' = listed /\ settled' = settled
        /\ ~settled /\ (\A k \in 1 .. 3 : k < blueStep => conned[k] = dev) /\ blueAnswer = "none"
    BY DEF Inv, StageIsKnown, DeviceIsWhole, SaveDevice
  <1>3. CASE /\ conned' = [conned EXCEPT ![blueStep] = dev]
             /\ blueStep' = blueStep + 1
             /\ IF blueStep = 3 THEN bluePc' = "accept" /\ torn' = FALSE
                ELSE UNCHANGED <<bluePc, torn>>
    <2>1. /\ conned' \in [1 .. 3 -> Devices \cup {Missing}] /\ conned'[blueStep] = dev
          /\ \A k \in 1 .. 3 : k # blueStep => conned'[k] = conned[k]
      BY <1>1, <1>3
    <2>2. blueStep' \in 1 .. 6 /\ bluePc' \in {"device", "accept"} /\ (bluePc' = "device" => blueStep' <= 3)
      BY <1>1, <1>3
    <2>3. Shapes'
      BY <1>2, <2>1, <2>2, Zenon DEF Inv, Shapes
    <2>4. ProfileIsReadable' /\ StageIsKnown' /\ ProfileIsOld' /\ ModuleIsOnItsWay'
      BY <1>1, <1>2, <1>3, <2>2 DEF Inv, ProfileIsReadable, StageIsKnown, ProfileIsOld,
                                    ModuleIsOnItsWay, Follows
    <2>5. \A k \in 1 .. 3 : k < blueStep' => conned'[k] = dev
      BY <1>1, <1>2, <1>3, <2>1
    <2>6. bluePc' # "device" => blueStep' = 4
      BY <1>1, <1>3
    <2>7. DeviceIsWhole'
      <3>1. blueStep' # 1 /\ (bluePc' # "device" => conned'[1] = conned'[3])
        BY <1>1, <1>3, <2>5, <2>6
      <3>2. ListedIsOneDevice'
        BY <1>2 DEF ListedIsOneDevice
      <3> QED BY <1>2, <2>5, <3>1, <3>2 DEF DeviceIsWhole
    <2> QED BY <2>3, <2>4, <2>7 DEF Inv
  <1>4. CASE bluePc' = "accept" /\ torn' = (torn \/ Tears) /\ UNCHANGED <<conned, blueStep>>
    <2>1. Shapes'
      BY <1>2, <1>4 DEF Inv, Shapes
    <2>2. ProfileIsReadable' /\ StageIsKnown' /\ ProfileIsOld' /\ ModuleIsOnItsWay'
      BY <1>1, <1>2, <1>4 DEF Inv, ProfileIsReadable, StageIsKnown, ProfileIsOld, ModuleIsOnItsWay
    <2>3. ASSUME ~torn' PROVE conned'[1] = conned'[3]
      <3>1. ~torn /\ ~Tears
        BY <1>4, <2>3, Zenon
      <3>2. blueStep = 1
        BY <1>1, <3>1 DEF Tears
      <3> QED BY <1>1, <1>4, <3>1, <3>2 DEF Inv, DeviceIsWhole
    <2>4. DeviceIsWhole'
      BY <1>2, <1>4, <2>3 DEF DeviceIsWhole, ListedIsOneDevice
    <2> QED BY <2>1, <2>2, <2>4 DEF Inv
  <1> QED BY <1>3, <1>4 DEF SaveDevice

LEMMA RespondKeeps == ASSUME Inv, BlueRespond PROVE Inv'
  <1>1. /\ bluePc \in {"accept", "refuse"} /\ ~booting
        /\ bluePc' = "idle" /\ blueAnswer' = IF bluePc = "accept" THEN "yes" ELSE "no"
    BY DEF Inv, StageIsKnown, BlueRespond
  <1>2. UNCHANGED <<booting, want, blueStep, dev, hci, blueProf, conned, listed, settled, torn, blueOld>>
    BY DEF BlueRespond
  <1>3. Shapes'
    BY <1>1, <1>2 DEF Inv, Shapes
  <1>4. ProfileIsReadable' /\ StageIsKnown' /\ ProfileIsOld'
    BY <1>1, <1>2 DEF Inv, ProfileIsReadable, StageIsKnown, ProfileIsOld
  <1>5. ModuleIsOnItsWay' /\ DeviceIsWhole'
    BY <1>1, <1>2 DEF Inv, ModuleIsOnItsWay, Follows, DeviceIsWhole, ListedIsOneDevice
  <1> QED BY <1>3, <1>4, <1>5 DEF Inv

\* A kill while keys are written leaves what was written, or no key at all.
LEMMA KillKeeps == ASSUME Inv, BlueKill PROVE Inv'
  <1>1. /\ bluePc' = "idle" /\ blueAnswer' = "none" /\ ~booting /\ bluePc # "idle"
        /\ UNCHANGED <<booting, want, blueStep, dev, hci, listed, settled, blueOld>>
        /\ \/ torn' = (torn \/ Tears) /\ UNCHANGED <<blueProf, conned>>
           \/ /\ bluePc \in {"settings", "device"} /\ torn' = FALSE
              /\ blueProf' = [k \in Keys |-> Missing] /\ conned' = [k \in 1 .. 3 |-> Missing]
    BY DEF BlueKill
  <1>2. blueProf' \in [Keys -> Contents] /\ conned' \in [1 .. 3 -> Devices \cup {Missing}]
    BY <1>1 DEF Inv, Shapes, Contents
  <1>3. Shapes'
    BY <1>1, <1>2 DEF Inv, Shapes
  <1>4. ProfileIsReadable'
    BY <1>1 DEF Inv, ProfileIsReadable, Keys
  <1>5. StageIsKnown' /\ ProfileIsOld'
    BY <1>1 DEF StageIsKnown, ProfileIsOld
  <1>6. ModuleIsOnItsWay'
    <2>1. settled => UNCHANGED blueProf
      BY <1>1 DEF Inv, StageIsKnown
    <2> QED BY <1>1, <2>1 DEF Inv, ModuleIsOnItsWay, Follows
  <1>7. DeviceIsWhole'
    <2>1. ASSUME ~torn' PROVE conned'[1] = conned'[3]
      <3>1. CASE torn' = (torn \/ Tears) /\ UNCHANGED <<blueProf, conned>>
        <4>1. ~torn /\ ~Tears
          BY <2>1, <3>1, Zenon
        <4>2. bluePc = "device" => blueStep = 1
          BY <4>1 DEF Inv, Shapes, Tears
        <4> QED BY <3>1, <4>1, <4>2 DEF Inv, DeviceIsWhole
      <3>2. CASE conned' = [k \in 1 .. 3 |-> Missing]
        BY <3>2
      <3> QED BY <1>1, <3>1, <3>2
    <2> QED BY <1>1, <2>1 DEF DeviceIsWhole, ListedIsOneDevice
  <1> QED BY <1>3, <1>4, <1>5, <1>6, <1>7 DEF Inv

\* The gateway starts again, with the settings the profile has if it has all.
LEMMA BootKeeps == ASSUME Inv, ~booting, Boot PROVE Inv'
  <1> DEFINE kept == [switch |-> blueProf[1], name |-> blueProf[2], visible |-> blueProf[3]]
  <1>1. /\ bluePc = "idle" /\ blueStep' = 1 /\ booting' = TRUE /\ settled' = FALSE /\ blueAnswer' = "none"
        /\ hci' = [up |-> FALSE, name |-> Factory, scan |-> FALSE]
        /\ UNCHANGED <<dev, blueProf, conned, listed, torn, blueOld>>
    BY DEF Boot
  <1>2. hci' \in [up : BOOLEAN, name : Names, scan : BOOLEAN]
    BY <1>1, Zenon, FactoryAssumption
  <1>3. /\ bluePc' \in {"idle", "script"} /\ want' \in Settings
        /\ bluePc' = "script" => /\ want' = kept /\ want'.switch # "other"
    BY <1>1 DEF Inv, Shapes, ProfileIsReadable, Boot, Settings
  <1>4. Shapes'
    <2>1. blueStep' \in 1 .. 6
      BY <1>1
    <2> QED BY <1>1, <1>2, <1>3, <2>1, Zenon DEF Inv, Shapes
  <1>5. ProfileIsReadable' /\ ProfileIsOld'
    BY <1>1, <1>3 DEF Inv, ProfileIsReadable, ProfileIsOld
  <1>6. StageIsKnown'
    BY <1>1, <1>3 DEF StageIsKnown, Script
  <1>7. ModuleIsOnItsWay'
    <2>1. bluePc' = "script" => want' = kept'
      BY <1>1, <1>3
    <2>2. ~(blueStep' > 2) /\ ~(blueStep' > 3) /\ bluePc' # "settings" /\ ~settled'
      BY <1>1, <1>3
    <2> QED BY <2>1, <2>2 DEF ModuleIsOnItsWay
  <1>8. DeviceIsWhole'
    BY <1>1, <1>3 DEF Inv, DeviceIsWhole, ListedIsOneDevice
  <1> QED BY <1>4, <1>5, <1>6, <1>7, <1>8 DEF Inv

-----------------------------------------------------------------------------
(* The theorems.                                                           *)

\* Every step keeps the invariant.
LEMMA EveryStepKeeps == ASSUME Inv, BlueNext PROVE Inv'
  <1>1. CASE ~booting /\ \E c \in Settings : ReceiveSettings(c)
    BY <1>1, ReceiveSettingsKeeps
  <1>2. CASE ~booting /\ \E d \in Devices : ReceiveDevice(d)
    BY <1>2, ReceiveDeviceKeeps
  <1>3. CASE ~booting /\ (List \/ Boot)
    BY <1>3, ListKeeps, BootKeeps
  <1>4. CASE RunScript \/ SaveSettings
    BY <1>4, RunScriptKeeps, SaveSettingsKeeps
  <1>5. CASE Connect \/ SaveDevice \/ BlueRespond \/ BlueKill
    BY <1>5, ConnectKeeps, SaveDeviceKeeps, RespondKeeps, KillKeeps
  <1>6. CASE \E d \in Devices : LinkChanges(d)
    <2>1. UNCHANGED <<bluePc, booting, want, blueStep, dev, hci, blueProf, conned, blueAnswer, listed,
                      settled, torn, blueOld>>
      BY <1>6 DEF LinkChanges
    <2> QED BY <2>1 DEF Inv, Shapes, ProfileIsReadable, StageIsKnown, ProfileIsOld,
                        ModuleIsOnItsWay, Follows, DeviceIsWhole, ListedIsOneDevice
  <1>7. CASE StartDaemon
    <2>1. /\ bluePc = "idle" /\ booting /\ ~booting' /\ booting' \in BOOLEAN
          /\ UNCHANGED <<bluePc, want, blueStep, dev, hci, blueProf, conned, blueAnswer, listed,
                         settled, torn, blueOld>>
      BY <1>7 DEF StartDaemon
    <2>2. blueAnswer' = "none" /\ bluePc' = "idle"
      BY <2>1 DEF Inv, StageIsKnown
    <2> QED BY <2>1, <2>2 DEF Inv, Shapes, ProfileIsReadable, StageIsKnown, ProfileIsOld,
                              ModuleIsOnItsWay, Follows, DeviceIsWhole, ListedIsOneDevice
  <1> QED BY <1>1, <1>2, <1>3, <1>4, <1>5, <1>6, <1>7 DEF BlueNext

LEMMA Invariance == BlueSpec => []Inv
  <1>1. BlueInit => Inv
    BY Start
  <1>2. Inv /\ UNCHANGED blueVars => Inv'
    BY DEF blueVars, Inv, Shapes, ProfileIsReadable, StageIsKnown, ProfileIsOld,
           ModuleIsOnItsWay, Follows, DeviceIsWhole, ListedIsOneDevice
  <1>3. Inv /\ [BlueNext]_blueVars => Inv'
    BY <1>2, EveryStepKeeps
  <1> QED BY <1>1, <1>3, PTL DEF BlueSpec

\* A refused command keeps the settings of the profile, the module is set as
\* the profile says after a command or a start that ran through, and the list of
\* devices does not mix two, nor has more than a type when the name is short: for
\* any names, devices and lengths, however many commands and restarts, keys that
\* could not be written and kills, one between a device's name and its type
\* excepted (bluetooth_interface_conf, init_blue_net.c, bluetooth_dev_connected).
THEOREM SettingsAreToldAlways == BlueSpec => []SettingsAreTold
  <1>1. Inv => SettingsAreTold
    BY DEF Inv, ProfileIsOld, ModuleIsOnItsWay, Follows, DeviceIsWhole, SettingsAreTold,
           RefusedKeepsSettings, ModuleFollowsProfile
  <1> QED BY <1>1, Invariance, PTL

\* The variables that Shapes leaves out.
Rest ==
    /\ out \subseteq Devices /\ inc \subseteq Devices /\ linked \subseteq Devices
    /\ blueAnswer \in {"none", "yes", "no", "list"}
    /\ settled \in BOOLEAN /\ torn \in BOOLEAN
    /\ blueCommands \in 0 .. MaxBlueCommands /\ events \in 0 .. MaxEvents
    /\ listed \in [num : 0 .. Cardinality(Devices), addresses : SUBSET Devices,
                   name : Devices \cup {Missing}, type : Devices \cup {Missing},
                    rest : Devices \cup {Missing}]

\* An answer lists at most all the devices.
LEMMA ListedType ==
    ASSUME NEW some \in SUBSET Devices, NEW last \in some,
           NEW n \in Devices \cup {Missing}, NEW t \in Devices \cup {Missing},
           NEW r \in Devices \cup {Missing}
    PROVE  [num |-> Cardinality(some), addresses |-> {last}, name |-> n, type |-> t, rest |-> r]
               \in [num : 0 .. Cardinality(Devices), addresses : SUBSET Devices,
                    name : Devices \cup {Missing}, type : Devices \cup {Missing},
                    rest : Devices \cup {Missing}]
  <1>1. /\ Cardinality(some) \in Nat /\ Cardinality(Devices) \in Nat
        /\ Cardinality(some) <= Cardinality(Devices)
    BY FS_Subset, FS_CardinalityType, DevicesAssumption
  <1>2. Cardinality(some) \in 0 .. Cardinality(Devices) /\ {last} \in SUBSET Devices
    BY <1>1
  <1> QED BY <1>2

LEMMA NoListType ==
    NoList \in [num : 0 .. Cardinality(Devices), addresses : SUBSET Devices,
                name : Devices \cup {Missing}, type : Devices \cup {Missing},
                    rest : Devices \cup {Missing}]
  <1>1. 0 \in 0 .. Cardinality(Devices)
    BY FS_CardinalityType, DevicesAssumption
  <1> QED BY <1>1 DEF NoList

LEMMA RestKept == ASSUME Inv, Rest, BlueNext PROVE Rest'
  <1>1. /\ blueCommands' \in 0 .. MaxBlueCommands /\ events' \in 0 .. MaxEvents
    <2>1. blueCommands' = blueCommands \/ (blueCommands < MaxBlueCommands /\ blueCommands' = blueCommands + 1)
      BY Zenon DEF BlueNext, Arrive, ReceiveSettings, ReceiveDevice, List, Boot, RunScript,
             SaveSettings, Connect, SaveDevice, BlueRespond, LinkChanges, BlueKill, StartDaemon
    <2>2. events' = events \/ (events < MaxEvents /\ events' = events + 1)
      BY Zenon DEF BlueNext, Arrive, ReceiveSettings, ReceiveDevice, List, Boot, RunScript,
             SaveSettings, Connect, SaveDevice, BlueRespond, LinkChanges, BlueKill, StartDaemon
    <2> QED BY <2>1, <2>2, BlueBoundsAssumption DEF Rest
  <1>2. out' \subseteq Devices /\ inc' \subseteq Devices /\ linked' \subseteq Devices
    BY DEF Inv, Shapes, Rest, BlueNext, Arrive, ReceiveSettings, ReceiveDevice, List, Boot, RunScript,
           SaveSettings, Connect, SaveDevice, BlueRespond, LinkChanges, BlueKill, StartDaemon
  <1>3. blueAnswer' \in {"none", "yes", "no", "list"}
    BY Zenon DEF Rest, BlueNext, Arrive, ReceiveSettings, ReceiveDevice, List, Boot, RunScript,
           SaveSettings, Connect, SaveDevice, BlueRespond, LinkChanges, BlueKill, StartDaemon
  <1>4. settled' \in BOOLEAN /\ torn' \in BOOLEAN
    BY Zenon DEF Inv, Shapes, Rest, BlueNext, Arrive, ReceiveSettings, ReceiveDevice, List, Boot, RunScript,
           SaveSettings, Connect, SaveDevice, BlueRespond, LinkChanges, BlueKill, Tears, StartDaemon
  <1>5. listed' \in [num : 0 .. Cardinality(Devices), addresses : SUBSET Devices,
                    name : Devices \cup {Missing}, type : Devices \cup {Missing},
                    rest : Devices \cup {Missing}]
    <2>1. CASE List
      <3>1. out \cup inc \in SUBSET Devices /\ conned[1] \in Devices \cup {Missing}
            /\ conned[3] \in Devices \cup {Missing}
            /\ Behind(conned[1], conned[3]) \in Devices \cup {Missing}
        BY DEF Inv, Shapes, Rest, Behind
      <3> QED BY <2>1, <3>1, ListedType, NoListType DEF List
    <2>2. CASE ~List
      <3>1. listed' = listed
        BY <2>2, Zenon DEF BlueNext, ReceiveSettings, ReceiveDevice, Boot, RunScript,
           SaveSettings, Connect, SaveDevice, BlueRespond, LinkChanges, BlueKill, StartDaemon
      <3> QED BY <3>1 DEF Rest
    <2> QED BY <2>1, <2>2
  <1> QED BY <1>1, <1>2, <1>3, <1>4, <1>5 DEF Rest

\* Every variable keeps its type: a stage never runs past its script or its keys,
\* and what is listed is never more than the devices there are.
THEOREM BlueTypeCorrect == BlueSpec => []BlueTypeOK
  <1>1. BlueInit => Rest
    <2> SUFFICES ASSUME BlueInit PROVE Rest
      OBVIOUS
    <2>1. blueCommands \in 0 .. MaxBlueCommands /\ events \in 0 .. MaxEvents
      BY BlueBoundsAssumption DEF BlueInit
    <2> QED BY <2>1, NoListType, Zenon DEF BlueInit, Rest
  <1>2. Inv /\ Rest /\ [BlueNext]_blueVars => Rest'
    <2>1. Rest /\ UNCHANGED blueVars => Rest'
      BY DEF blueVars, Rest
    <2> QED BY <2>1, RestKept
  <1>3. Inv /\ Rest => BlueTypeOK
    BY Zenon DEF Inv, Shapes, Rest, BlueTypeOK
  <1>4. BlueSpec => []Inv
    BY Invariance
  <1> QED BY <1>1, <1>2, <1>3, <1>4, PTL DEF BlueSpec

-----------------------------------------------------------------------------
(* The common daemon and the publisher. *)

(* Commands and the keys they write. *)

\* The contents a key can have.
KeyContents == Values \cup 0 .. MaxSensors \cup {Absent}

LEMMA Sizes ==
    /\ Size("conf_gateway_passwd") = 1 /\ Size("report") = 1
    /\ Size("conf_gateway_info") = 4 /\ Size("conf_platform") = 4
    /\ Size("uart_interface_conf") = 4
    /\ \A p \in Usb : Size(p) = 2 + 3 * MaxSensors
BY DEF Size, Usb

LEMMA SizeNat == \A k \in Kinds \cup {"report"} : Size(k) \in Nat \ {0}
BY Sizes, NumbersAssumption DEF Kinds, Usb

\* A key is one of its kind.
LEMMA KeyShape ==
    ASSUME NEW k \in Key
    PROVE  /\ k[1] \in Kinds \cup {"report"} /\ k[2] \in 1 .. Size(k[1])
           /\ k = <<k[1], k[2]>>
<1>1. PICK kind \in Kinds \cup {"report"} : k \in {<<kind, i>> : i \in 1 .. Size(kind)}
  BY DEF Key
<1>2. PICK i \in 1 .. Size(kind) : k = <<kind, i>>
  BY <1>1
<1> QED BY <1>2

LEMMA KeyIn ==
    ASSUME NEW kind \in Kinds \cup {"report"}, NEW i \in 1 .. Size(kind)
    PROVE  <<kind, i>> \in Key
BY DEF Key

\* A command writes at least one key, and no key that its kind has not.
LEMMA CommandShape ==
    ASSUME NEW c \in Commands
    PROVE  /\ c.kind \in Kinds /\ c.value \in Values /\ c.number \in 0 .. MaxSensors
           /\ KeysWritten(c) \in 1 .. Size(c.kind)
           /\ \A i \in Nat : Content(c, i) \in KeyContents
           /\ c.kind \notin Usb => KeysWritten(c) = Size(c.kind)
<1>1. c.kind \in Kinds /\ c.value \in Values /\ c.number \in 0 .. MaxSensors
  BY NumbersAssumption DEF Commands, Kinds
<1>2. CASE c.kind \in Usb
  <2>1. Size(c.kind) = 2 + 3 * MaxSensors /\ KeysWritten(c) = 2 + 3 * c.number
    BY <1>2, Sizes DEF KeysWritten
  <2>2. KeysWritten(c) \in 1 .. Size(c.kind)
    BY <1>1, <2>1, NumbersAssumption
  <2> QED BY <1>1, <1>2, <2>2 DEF Content, KeyContents
<1>3. CASE c.kind \notin Usb
  <2>1. KeysWritten(c) = Size(c.kind)
    BY <1>3 DEF KeysWritten
  <2>2. Size(c.kind) \in Nat \ {0}
    BY <1>1, SizeNat
  <2> QED BY <1>1, <1>3, <2>1, <2>2 DEF Content, KeyContents
<1> QED BY <1>2, <1>3

\* What a profile reads as when n keys are written.
LEMMA WrittenAt ==
    ASSUME NEW p, NEW c, NEW n, NEW kind, NEW i, <<kind, i>> \in Key
    PROVE  Written(p, c, n)[<<kind, i>>] =
               IF kind = c.kind /\ i <= n THEN Content(c, i) ELSE p[<<kind, i>>]
BY DEF Written

\* Nothing is written at first.
LEMMA WrittenNone ==
    ASSUME NEW p \in [Key -> KeyContents], NEW c
    PROVE  Written(p, c, 0) = p
<1>1. \A k \in Key : ~(k[2] <= 0)
  BY KeyShape, SizeNat
<1> QED BY <1>1 DEF Written

\* One key more.
LEMMA WrittenNext ==
    ASSUME NEW p \in [Key -> KeyContents], NEW c \in Commands, NEW s \in 1 .. Size(c.kind)
    PROVE  [Written(p, c, s - 1) EXCEPT ![<<c.kind, s>>] = Content(c, s)] = Written(p, c, s)
<1> DEFINE q == Written(p, c, s - 1)
           r == [q EXCEPT ![<<c.kind, s>>] = Content(c, s)]
<1>1. c.kind \in Kinds /\ Size(c.kind) \in Nat
  BY CommandShape, SizeNat
<1>2. s \in Nat /\ <<c.kind, s>> \in Key
  BY <1>1, KeyIn
<1>3. DOMAIN q = Key /\ DOMAIN r = Key /\ r = [k \in Key |-> r[k]]
  BY DEF Written
<1>4. ASSUME NEW k \in Key PROVE r[k] = Written(p, c, s)[k]
  <2>1. k = <<k[1], k[2]>> /\ k[2] \in Nat
    BY KeyShape, SizeNat
  <2>2. CASE k = <<c.kind, s>>
    <3>1. r[k] = Content(c, s) BY <1>2, <1>3, <2>2
    <3>2. k[1] = c.kind /\ k[2] = s BY <2>2
    <3> QED BY <1>2, <3>1, <3>2 DEF Written
  <2>3. CASE k # <<c.kind, s>>
    <3>1. r[k] = q[k] BY <1>3, <2>3
    <3>2. k[1] = c.kind => k[2] # s BY <2>1, <2>3
    <3>3. k[1] = c.kind => (k[2] <= s - 1 <=> k[2] <= s) BY <1>2, <2>1, <3>2
    <3> QED BY <3>1, <3>3 DEF Written
  <2> QED BY <2>2, <2>3
<1>5. Written(p, c, s) = [k \in Key |-> Written(p, c, s)[k]]
  BY DEF Written
<1> HIDE DEF r
<1>6. [k \in Key |-> r[k]] = [k \in Key |-> Written(p, c, s)[k]]
  BY <1>4
<1> QED BY <1>3, <1>5, <1>6 DEF r

-----------------------------------------------------------------------------
(* The invariant of the common daemon.  While a command is handled the         *)
(* profile is the old one with the first step - 1 keys of it written; devices  *)
(* and keys of a kind agree unless that kind is being changed, was refused or  *)
(* killed half way, or its file was emptied.                                   *)

Busy(k) == pc # "idle" /\ cmd.kind = k

Settled(k) == outcome[k] \in {"none", "yes"} /\ ~Busy(k) /\ FileOf(k) \notin cut

Agrees(k) ==
    /\ k = "conf_gateway_passwd" => prof[<<k, 1>>] = passwd
    /\ k = "uart_interface_conf" => \A i \in 1 .. 4 : Serial(prof[<<k, i>>]) = line
    /\ k = "conf_platform" => \A i \in 1 .. 4 : prof[<<k, i>>] = prof[<<k, 1>>]
    /\ k \in Usb => /\ prof[<<k, 2>>] \in 0 .. MaxSensors
                    /\ \A i \in 3 .. 2 + 3 * prof[<<k, 2>>] : prof[<<k, i>>] = prof[<<k, 1>>]

SettledInv == \A k \in Kinds : Settled(k) => Agrees(k)

StageInv ==
    /\ pc = "passwd" => cmd.kind = "conf_gateway_passwd"
    /\ pc \in {"open", "serial"} => cmd.kind = "uart_interface_conf"
    /\ pc # "idle" => answer = "none"

DeviceInv == pc \in {"update", "accept"} =>
    /\ cmd.kind = "conf_gateway_passwd" => passwd = cmd.value
    /\ cmd.kind = "uart_interface_conf" => line = Serial(cmd.value)

Whole == prof = Written(old, cmd, KeysWritten(cmd))
Part  == \E n \in 0 .. KeysWritten(cmd) - 1 : prof = Written(old, cmd, n)

ProfileInv ==
    /\ pc \in {"passwd", "open", "serial"} => step = 1 /\ prof = old
    /\ pc = "update" => step \in 1 .. KeysWritten(cmd) /\ prof = Written(old, cmd, step - 1)
    /\ pc = "accept" => Whole
    /\ pc = "refuse" => Part
    /\ pc = "idle" /\ answer = "yes" => Whole
    /\ pc = "idle" /\ answer = "no" => Part

DescriptorInv == leaked = MaxFd => pc \notin {"serial", "accept"} /\ answer # "yes"

\* Outside the ports a key has no number; an emptied file has no payload_info.
ContentInv ==
    /\ \A k \in Key : k[1] \notin Usb => prof[k] \in Values \cup {Absent}
    /\ "info" \in cut => prof[<<"report", 1>>] = Absent

CommonInv ==
    TypeOK /\ StageInv /\ DeviceInv /\ ProfileInv /\ DescriptorInv /\ ContentInv /\ SettledInv

-----------------------------------------------------------------------------
\* The profiles the gateway is delivered with agree with its devices.
LEMMA InitCommon == CommonInit => CommonInv
<1> SUFFICES ASSUME CommonInit PROVE CommonInv OBVIOUS
<1>1. PICK n \in 0 .. MaxSensors : prof = Delivered(Default, n)
  BY DEF CommonInit
<1>2. Default \in Values /\ Serial(Default) = Default
  BY ValuesAssumption DEF Serial
<1>3. n \in Nat /\ n <= MaxSensors
  BY NumbersAssumption
<1>4. \A kind, i : <<kind, i>> \in Key =>
         prof[<<kind, i>>] = IF kind \in Usb /\ i = 2 THEN n
                             ELSE IF kind \in Usb /\ i > 2 + 3 * n THEN Absent ELSE Default
  BY <1>1 DEF Delivered
<1>5. \A k \in Key : prof[k] \in KeyContents /\ (k[1] \notin Usb => prof[k] \in Values)
  BY <1>1, <1>2 DEF Delivered, KeyContents
<1>6. prof \in [Key -> KeyContents] /\ old \in [Key -> KeyContents]
  <2>1. prof \in [Key -> KeyContents]
    BY <1>1, <1>5 DEF Delivered
  <2> QED BY <2>1 DEF CommonInit
<1>7. cmd \in Commands
  BY <1>2 DEF CommonInit, Commands, Kinds, Usb
<1>8. TypeOK
  <2>1. step \in 1 .. 7 + 3 * MaxSensors /\ leaked \in 0 .. MaxFd /\ commands \in 0 .. MaxCommands
        /\ kills \in 0 .. MaxKills
    BY NumbersAssumption DEF CommonInit
  <2>2. outcome \in [Kinds -> {"none", "yes", "no", "killed"}] /\ cut \subseteq Files
    BY DEF CommonInit
  <2>3. pc \in {"idle", "passwd", "open", "serial", "update", "accept", "refuse"}
        /\ passwd \in Values /\ line \in Supported /\ answer \in {"none", "yes", "no"}
    BY <1>2, ValuesAssumption DEF CommonInit
  <2> QED BY <1>6, <1>7, <2>1, <2>2, <2>3 DEF TypeOK, KeyContents
<1>9. StageInv /\ DeviceInv /\ ProfileInv
  BY DEF CommonInit, StageInv, DeviceInv, ProfileInv
<1>10. DescriptorInv
  BY NumbersAssumption DEF CommonInit, DescriptorInv
<1>11. ContentInv
  BY <1>5 DEF CommonInit, ContentInv
<1>12. SettledInv
  <2> SUFFICES ASSUME NEW k \in Kinds PROVE Agrees(k)
    BY DEF SettledInv
  <2>1. \A i \in 1 .. Size(k) : prof[<<k, i>>] = IF k \in Usb /\ i = 2 THEN n
                             ELSE IF k \in Usb /\ i > 2 + 3 * n THEN Absent ELSE Default
    BY <1>4, KeyIn
  <2>2. passwd = Default /\ line = Default
    BY DEF CommonInit
  <2>3. CASE k \in Usb
    <3>1. Size(k) = 2 + 3 * MaxSensors /\ k \notin {"conf_gateway_passwd", "uart_interface_conf", "conf_platform"}
      BY <2>3, Sizes DEF Usb
    <3>2. prof[<<k, 2>>] = n /\ prof[<<k, 1>>] = Default
      BY <1>3, <2>1, <2>3, <3>1, NumbersAssumption
    <3>3. \A i \in 3 .. 2 + 3 * n : prof[<<k, i>>] = Default
      BY <1>3, <2>1, <2>3, <3>1, NumbersAssumption
    <3> QED BY <3>1, <3>2, <3>3 DEF Agrees
  <2>4. CASE k \notin Usb
    <3>1. \A i \in 1 .. Size(k) : prof[<<k, i>>] = Default
      BY <2>1, <2>4
    <3> QED BY <1>2, <2>2, <2>4, <3>1, Sizes DEF Agrees
  <2> QED BY <2>3, <2>4
<1> QED BY <1>8, <1>9, <1>10, <1>11, <1>12 DEF CommonInv

\* What agrees goes on to agree while its keys and its device stay.
LEMMA AgreesSame ==
    ASSUME NEW k \in Kinds, Agrees(k),
           \A i \in 1 .. Size(k) : prof'[<<k, i>>] = prof[<<k, i>>],
           k = "conf_gateway_passwd" => passwd' = passwd,
           k = "uart_interface_conf" => line' = line
    PROVE  Agrees(k)'
<1>1. CASE k \in Usb
  <2>1. Size(k) = 2 + 3 * MaxSensors /\ k \notin {"conf_gateway_passwd", "uart_interface_conf", "conf_platform"}
    BY <1>1, Sizes DEF Usb
  <2>2. prof'[<<k, 1>>] = prof[<<k, 1>>] /\ prof'[<<k, 2>>] = prof[<<k, 2>>]
    BY <2>1, NumbersAssumption
  <2>3. prof[<<k, 2>>] \in 0 .. MaxSensors
    BY <1>1 DEF Agrees
  <2>4. \A i \in 3 .. 2 + 3 * prof[<<k, 2>>] : prof'[<<k, i>>] = prof[<<k, i>>]
    BY <2>1, <2>3, NumbersAssumption
  <2> QED BY <1>1, <2>1, <2>2, <2>3, <2>4 DEF Agrees
<1>2. CASE k \notin Usb
  BY <1>2, Sizes DEF Agrees, Serial
<1> QED BY <1>1, <1>2

\* A step that changes neither the profile nor a device of an idle kind.
LEMMA SettledSame ==
    ASSUME SettledInv, UNCHANGED <<prof, outcome, cut>>,
           \A k \in Kinds : ~Busy(k)' =>
               /\ ~Busy(k)
               /\ k = "conf_gateway_passwd" => passwd' = passwd
               /\ k = "uart_interface_conf" => line' = line
    PROVE  SettledInv'
<1> SUFFICES ASSUME NEW k \in Kinds, Settled(k)' PROVE Agrees(k)'
  BY DEF SettledInv
<1>1. Settled(k)
  BY DEF Settled
<1> QED BY <1>1, AgreesSame DEF SettledInv, Settled

\* A command that arrives finds the profile as the last one left it.
LEMMA ReceiveInv ==
    ASSUME CommonInv, NEW c \in Commands, NEW parity \in BOOLEAN, Receive(c, parity)
    PROVE  CommonInv'
<1>1. pc = "idle" /\ cmd' = c /\ step' = 1 /\ answer' = "none" /\ old' = prof
      /\ UNCHANGED <<prof, passwd, line, leaked, kills, outcome, cut>>
      /\ commands' = commands + 1 /\ commands < MaxCommands
  BY DEF Receive
<1>2. /\ pc' \in {"passwd", "open", "refuse", "update"}
      /\ pc' = "passwd" => c.kind = "conf_gateway_passwd"
      /\ pc' = "open" => c.kind = "uart_interface_conf"
      /\ pc' = "update" => c.kind \notin {"conf_gateway_passwd", "uart_interface_conf"}
  <2>1. pc' = IF c.kind = "conf_gateway_passwd" THEN "passwd"
              ELSE IF c.kind = "uart_interface_conf" THEN (IF parity THEN "open" ELSE "refuse")
              ELSE "update"
    BY Zenon DEF Receive
  <2> QED BY <2>1
<1>3. TypeOK'
  <2>1. step' \in 1 .. 7 + 3 * MaxSensors /\ commands' \in 0 .. MaxCommands
    BY <1>1, NumbersAssumption DEF CommonInv, TypeOK
  <2> QED BY <1>1, <1>2, <2>1 DEF CommonInv, TypeOK
<1>4. StageInv' /\ DeviceInv'
  BY <1>1, <1>2 DEF StageInv, DeviceInv
<1>5. ProfileInv'
  <2>1. KeysWritten(c) \in 1 .. Size(c.kind) /\ Size(c.kind) \in Nat
    BY CommandShape, SizeNat
  <2>2. Written(prof, c, 0) = prof
    BY WrittenNone DEF CommonInv, TypeOK, KeyContents
  <2>3. (KeysWritten(cmd))' = KeysWritten(c)
    BY <1>1
  <2>4. pc' = "refuse" => Part'
    BY <1>1, <2>1, <2>2, <2>3 DEF Part
  <2>5. pc' = "update" => step' \in 1 .. KeysWritten(cmd') /\ prof' = Written(old', cmd', step' - 1)
    BY <1>1, <2>1, <2>2, <2>3
  <2> QED BY <1>1, <1>2, <2>4, <2>5 DEF ProfileInv
<1>6. DescriptorInv'
  BY <1>1, <1>2 DEF DescriptorInv
<1>7. ContentInv'
  BY <1>1 DEF CommonInv, ContentInv
<1>8. SettledInv'
  BY <1>1, <1>2, SettledSame DEF CommonInv, Busy
<1> QED BY <1>3, <1>4, <1>5, <1>6, <1>7, <1>8 DEF CommonInv

\* The devices are changed before the profile; a refusal leaves it as it was.
LEMMA DevicesInv ==
    ASSUME CommonInv, SetPasswd \/ OpenLine \/ SetSerial
    PROVE  CommonInv'
<1>1. /\ pc \in {"passwd", "open", "serial"} /\ pc' \in {"update", "refuse", "serial"}
      /\ UNCHANGED <<cmd, step, prof, answer, commands, kills, old, outcome, cut>>
  BY DEF SetPasswd, OpenLine, SetSerial
<1>2. cmd \in Commands /\ answer = "none" /\ step = 1 /\ prof = old
      /\ cmd.kind \in {"conf_gateway_passwd", "uart_interface_conf"}
  BY <1>1 DEF CommonInv, TypeOK, StageInv, ProfileInv
<1>3. /\ pc' = "serial" => cmd.kind = "uart_interface_conf" /\ leaked < MaxFd /\ leaked' = leaked
      /\ cmd.kind = "conf_gateway_passwd" => line' = line /\ (pc' = "update" => passwd' = cmd.value)
      /\ cmd.kind = "uart_interface_conf" => passwd' = passwd /\ (pc' = "update" => line' = Serial(cmd.value))
      /\ leaked' = leaked \/ (leaked' = leaked + 1 /\ pc = "serial")
      /\ passwd' \in {passwd, cmd.value} /\ line' \in {line, Serial(cmd.value)}
  BY DEF SetPasswd, OpenLine, SetSerial, CommonInv, StageInv
<1>4. TypeOK'
  <2>1. leaked' \in 0 .. MaxFd
    BY <1>3, NumbersAssumption DEF CommonInv, TypeOK, DescriptorInv
  <2>2. passwd' \in Values /\ line' \in Supported
    BY <1>2, <1>3, CommandShape, ValuesAssumption DEF CommonInv, TypeOK, Serial
  <2> QED BY <1>1, <2>1, <2>2 DEF CommonInv, TypeOK
<1>5. StageInv' /\ DeviceInv'
  BY <1>1, <1>2, <1>3 DEF StageInv, DeviceInv
<1>6. ProfileInv'
  <2>1. KeysWritten(cmd) \in 1 .. Size(cmd.kind) /\ Size(cmd.kind) \in Nat
    BY <1>2, CommandShape, SizeNat
  <2>2. Written(old, cmd, 0) = old
    BY WrittenNone DEF CommonInv, TypeOK, KeyContents
  <2>3. (KeysWritten(cmd))' = KeysWritten(cmd)
    BY <1>1
  <2>4. pc' = "refuse" => Part'
    BY <1>1, <1>2, <2>1, <2>2, <2>3 DEF Part
  <2>5. pc' = "update" => step' \in 1 .. KeysWritten(cmd') /\ prof' = Written(old', cmd', step' - 1)
    BY <1>1, <1>2, <2>1, <2>2, <2>3
  <2> QED BY <1>1, <1>2, <2>4, <2>5 DEF ProfileInv
<1>7. DescriptorInv'
  BY <1>1, <1>2, <1>3, NumbersAssumption DEF CommonInv, TypeOK, DescriptorInv
<1>8. ContentInv'
  BY <1>1 DEF CommonInv, ContentInv
<1>9. SettledInv'
  BY <1>1, <1>2, <1>3, SettledSame DEF CommonInv, Busy
<1> QED BY <1>4, <1>5, <1>6, <1>7, <1>8, <1>9 DEF CommonInv

\* One key is written, or the rest of the command is given up.
LEMMA UpdateKeyInv ==
    ASSUME CommonInv, UpdateKey
    PROVE  CommonInv'
<1>1. pc = "update" /\ answer = "none"
      /\ UNCHANGED <<cmd, passwd, line, leaked, answer, commands, kills, old, outcome, cut>>
  BY DEF UpdateKey, CommonInv, StageInv
<1>2. cmd \in Commands /\ old \in [Key -> KeyContents] /\ prof \in [Key -> KeyContents]
      /\ step \in 1 .. KeysWritten(cmd) /\ prof = Written(old, cmd, step - 1)
  BY <1>1 DEF CommonInv, TypeOK, ProfileInv, KeyContents
<1>3. cmd.kind \in Kinds /\ KeysWritten(cmd) \in 1 .. Size(cmd.kind) /\ Size(cmd.kind) \in Nat
      /\ step \in Nat /\ Content(cmd, step) \in KeyContents
      /\ (cmd.kind \notin Usb => Content(cmd, step) \in Values)
  <2>1. cmd.kind \in Kinds /\ KeysWritten(cmd) \in 1 .. Size(cmd.kind) /\ Size(cmd.kind) \in Nat
    BY <1>2, CommandShape, SizeNat
  <2>2. step \in Nat
    BY <1>2, <2>1
  <2> QED BY <1>2, <2>1, <2>2, CommandShape DEF Content
<1>4. (KeysWritten(cmd))' = KeysWritten(cmd)
  BY <1>1
<1>5. CASE pc' = "refuse" /\ UNCHANGED <<prof, step>>
  <2>1. TypeOK' /\ StageInv' /\ DeviceInv' /\ DescriptorInv' /\ ContentInv'
    BY <1>1, <1>5 DEF CommonInv, TypeOK, StageInv, DeviceInv, DescriptorInv, ContentInv
  <2>2. Part'
    <3>1. step - 1 \in 0 .. KeysWritten(cmd) - 1
      BY <1>2, <1>3
    <3>2. prof' = Written(old', cmd', step - 1)
      BY <1>1, <1>2, <1>5
    <3> QED BY <1>4, <3>1, <3>2 DEF Part
  <2>3. SettledInv'
    BY <1>1, <1>5, SettledSame DEF CommonInv, Busy
  <2> QED BY <1>5, <2>1, <2>2, <2>3 DEF CommonInv, ProfileInv
<1>6. CASE /\ leaked < MaxFd
           /\ prof' = [prof EXCEPT ![<<cmd.kind, step>>] = Content(cmd, step)]
           /\ step' = step + 1
           /\ pc' = IF step = KeysWritten(cmd) THEN "accept" ELSE "update"
  <2>1. <<cmd.kind, step>> \in Key
    BY <1>2, <1>3, KeyIn
  <2>2. prof' = Written(old, cmd, step)
    BY <1>2, <1>3, <1>6, WrittenNext
  <2>3. TypeOK'
    <3>1. step' \in 1 .. 7 + 3 * MaxSensors
      <4>1. Size(cmd.kind) <= 4 + 3 * MaxSensors
        BY <1>3, Sizes, NumbersAssumption DEF Kinds, Usb
      <4> QED BY <1>2, <1>3, <1>6, <4>1, NumbersAssumption
    <3>2. prof' \in [Key -> KeyContents]
      BY <1>2, <1>3, <1>6, <2>1
    <3>3. pc' \in {"update", "accept"}
      BY <1>6
    <3> QED BY <1>1, <3>1, <3>2, <3>3 DEF CommonInv, TypeOK, KeyContents
  <2>4. StageInv' /\ DeviceInv'
    BY <1>1, <1>6 DEF CommonInv, StageInv, DeviceInv
  <2>5. ProfileInv'
    <3>1. step # KeysWritten(cmd) => step + 1 \in 1 .. KeysWritten(cmd)
      BY <1>2, <1>3
    <3>2. (step + 1) - 1 = step
      BY <1>3
    <3> QED BY <1>1, <1>4, <1>6, <2>2, <3>1, <3>2 DEF ProfileInv, Whole
  <2>6. DescriptorInv'
    BY <1>1, <1>6, NumbersAssumption DEF CommonInv, TypeOK, DescriptorInv
  <2>7. \A k \in Key : k # <<cmd.kind, step>> => prof'[k] = prof[k]
    BY <1>2, <1>6
  <2>8. prof'[<<cmd.kind, step>>] = Content(cmd, step)
    BY <1>2, <1>6, <2>1
  <2>9. ContentInv'
    <3>1. \A k \in Key : k[1] \notin Usb => prof'[k] \in Values \cup {Absent}
      BY <1>3, <2>7, <2>8 DEF CommonInv, ContentInv
    <3>2. <<"report", 1>> \in Key /\ cmd.kind # "report"
      BY <1>3, KeyIn, Sizes DEF Kinds, Usb
    <3> QED BY <1>1, <2>7, <3>1, <3>2 DEF CommonInv, ContentInv
  <2>10. SettledInv'
    <3> SUFFICES ASSUME NEW k \in Kinds, Settled(k)' PROVE Agrees(k)'
      BY DEF SettledInv
    <3>1. k # cmd.kind
      BY <1>1, <1>6 DEF Settled, Busy
    <3>2. Agrees(k)
      BY <1>1, <3>1 DEF Settled, Busy, CommonInv, SettledInv
    <3>3. \A i \in 1 .. Size(k) : prof'[<<k, i>>] = prof[<<k, i>>]
      BY <2>7, <3>1, KeyIn
    <3> QED BY <1>1, <3>2, <3>3, AgreesSame
  <2> QED BY <2>3, <2>4, <2>5, <2>6, <2>9, <2>10 DEF CommonInv
<1> QED BY <1>5, <1>6 DEF UpdateKey

\* After "yes" devices and keys of the command's kind agree.
LEMMA RespondInv ==
    ASSUME CommonInv, Respond
    PROVE  CommonInv'
<1>1. /\ pc \in {"accept", "refuse"} /\ pc' = "idle" /\ answer' \in {"yes", "no"}
      /\ answer' = "yes" <=> pc = "accept"
      /\ outcome' = [outcome EXCEPT ![cmd.kind] = answer']
      /\ UNCHANGED <<cmd, step, prof, passwd, line, leaked, commands, kills, old, cut>>
  BY DEF Respond
<1>2. cmd \in Commands /\ outcome \in [Kinds -> {"none", "yes", "no", "killed"}]
      /\ cmd.kind \in Kinds /\ cmd.number \in 0 .. MaxSensors
      /\ KeysWritten(cmd) \in 1 .. Size(cmd.kind)
      /\ (cmd.kind \notin Usb => KeysWritten(cmd) = Size(cmd.kind))
  BY CommandShape DEF CommonInv, TypeOK
<1>3. TypeOK'
  BY <1>1, <1>2 DEF CommonInv, TypeOK
<1>4. StageInv' /\ DeviceInv' /\ ContentInv'
  BY <1>1 DEF CommonInv, StageInv, DeviceInv, ContentInv
<1>5. ProfileInv'
  BY <1>1 DEF CommonInv, ProfileInv, Whole, Part
<1>6. DescriptorInv'
  BY <1>1 DEF CommonInv, DescriptorInv
<1>7. SettledInv'
  <2> SUFFICES ASSUME NEW k \in Kinds, Settled(k)' PROVE Agrees(k)'
    BY DEF SettledInv
  <2>1. CASE k # cmd.kind
    <3>1. Settled(k)
      BY <1>1, <1>2, <2>1 DEF Settled, Busy
    <3> QED BY <1>1, <3>1, AgreesSame DEF CommonInv, SettledInv
  <2>2. CASE k = cmd.kind
    <3>1. pc = "accept"
      BY <1>1, <1>2, <2>2 DEF Settled
    <3> DEFINE n == KeysWritten(cmd)
    <3>2. prof = Written(old, cmd, n)
      BY <3>1 DEF CommonInv, ProfileInv, Whole
    <3>3. n \in 1 .. Size(k) /\ Size(k) \in Nat
      BY <1>2, <2>2, SizeNat
    <3>4. \A i \in 1 .. n : prof[<<k, i>>] = Content(cmd, i)
      <4> SUFFICES ASSUME NEW i \in 1 .. n PROVE prof[<<k, i>>] = Content(cmd, i)
        OBVIOUS
      <4>1. i \in 1 .. Size(k) /\ i <= n
        BY <3>3
      <4>2. <<k, i>> \in Key
        BY <4>1, KeyIn
      <4> QED BY <2>2, <3>2, <4>1, <4>2, WrittenAt
    <3>5. CASE k \in Usb
      <4>1. n = 2 + 3 * cmd.number /\ k \notin {"conf_gateway_passwd", "uart_interface_conf", "conf_platform"}
        BY <2>2, <3>5 DEF KeysWritten, Usb
      <4>2. prof[<<k, 2>>] = cmd.number
        BY <1>2, <2>2, <3>4, <3>5, <4>1, NumbersAssumption DEF Content
      <4>3. \A i \in 1 .. n : i # 2 => prof[<<k, i>>] = cmd.value
        BY <3>4 DEF Content
      <4> HIDE DEF n
      <4>4. \A i \in 3 .. 2 + 3 * cmd.number : prof[<<k, i>>] = prof[<<k, 1>>]
        BY <1>2, <4>1, <4>3, NumbersAssumption
      <4> QED BY <1>1, <1>2, <4>1, <4>2, <4>4 DEF Agrees
    <3>6. CASE k \notin Usb
      <4>1. \A i \in 1 .. Size(k) : prof[<<k, i>>] = cmd.value
        BY <1>2, <2>2, <3>4, <3>6 DEF Content
      <4>2. (k = "conf_gateway_passwd" => passwd = cmd.value)
            /\ (k = "uart_interface_conf" => line = Serial(cmd.value))
        BY <2>2, <3>1 DEF CommonInv, DeviceInv
      <4> QED BY <1>1, <3>6, <4>1, <4>2, Sizes DEF Agrees
    <3> QED BY <3>5, <3>6
  <2> QED BY <2>1, <2>2
<1> QED BY <1>3, <1>4, <1>5, <1>6, <1>7 DEF CommonInv

\* A kill parts a device from its keys only in ways that are remembered.
LEMMA KillCommon ==
    ASSUME CommonInv, Kill
    PROVE  CommonInv'
<1>1. /\ kills < MaxKills /\ kills' = kills + 1 /\ pc' = "idle" /\ leaked' = 0
      /\ outcome' = IF pc = "idle" THEN outcome ELSE [outcome EXCEPT ![cmd.kind] = "killed"]
      /\ UNCHANGED <<cmd, step, passwd, line, answer, commands, old>>
  BY DEF Kill
<1>2. \/ UNCHANGED <<prof, cut>>
      \/ /\ pc = "update" /\ cut' = cut \cup {FileOf(cmd.kind)}
         /\ prof' = [k \in Key |-> IF FileOf(k[1]) = FileOf(cmd.kind) THEN Absent ELSE prof[k]]
  BY DEF Kill
<1>3. cmd \in Commands /\ cmd.kind \in Kinds /\ prof \in [Key -> KeyContents]
      /\ outcome \in [Kinds -> {"none", "yes", "no", "killed"}]
  BY CommandShape DEF CommonInv, TypeOK, KeyContents
<1>4. \A k \in Key : prof'[k] \in {prof[k], Absent}
  BY <1>2
<1>5. TypeOK'
  <2>1. kills' \in 0 .. MaxKills /\ leaked' \in 0 .. MaxFd
    BY <1>1, NumbersAssumption DEF CommonInv, TypeOK
  <2>2. prof' \in [Key -> KeyContents]
    BY <1>2, <1>3 DEF KeyContents
  <2>3. cut' \subseteq Files
    BY <1>2 DEF CommonInv, TypeOK, FileOf, Files
  <2>4. outcome' \in [Kinds -> {"none", "yes", "no", "killed"}]
    BY <1>1, <1>3
  <2> QED BY <1>1, <2>1, <2>2, <2>3, <2>4 DEF CommonInv, TypeOK, KeyContents
<1>6. StageInv' /\ DeviceInv'
  BY <1>1 DEF StageInv, DeviceInv
<1>7. ProfileInv'
  <2>1. pc # "idle" => answer' = "none"
    BY <1>1 DEF CommonInv, StageInv
  <2>2. CASE pc # "idle" BY <1>1, <2>1, <2>2 DEF ProfileInv
  <2>3. CASE pc = "idle" BY <1>1, <1>2, <2>3 DEF CommonInv, ProfileInv, Whole, Part
  <2> QED BY <2>2, <2>3
<1>8. DescriptorInv'
  BY <1>1, NumbersAssumption DEF DescriptorInv
<1>9. ContentInv'
  <2>1. \A k \in Key : k[1] \notin Usb => prof'[k] \in Values \cup {Absent}
    BY <1>4 DEF CommonInv, ContentInv
  <2>2. <<"report", 1>> \in Key
    BY KeyIn, Sizes
  <2>3. "info" \in cut' => prof'[<<"report", 1>>] = Absent
    <3>1. CASE UNCHANGED <<prof, cut>>
      BY <3>1 DEF CommonInv, ContentInv
    <3>2. CASE /\ cut' = cut \cup {FileOf(cmd.kind)}
               /\ prof' = [k \in Key |-> IF FileOf(k[1]) = FileOf(cmd.kind) THEN Absent ELSE prof[k]]
      <4>1. prof'[<<"report", 1>>] = IF FileOf("report") = FileOf(cmd.kind) THEN Absent
                                     ELSE prof[<<"report", 1>>]
        BY <2>2, <3>2
      <4>2. FileOf("report") = "info"
        BY DEF FileOf
      <4> QED BY <3>2, <4>1, <4>2 DEF CommonInv, ContentInv
    <3> QED BY <1>2, <3>1, <3>2
  <2> QED BY <2>1, <2>3 DEF ContentInv
<1>10. SettledInv'
  <2> SUFFICES ASSUME NEW k \in Kinds, Settled(k)' PROVE Agrees(k)'
    BY DEF SettledInv
  <2>1. ~Busy(k) /\ outcome'[k] = outcome[k]
    BY <1>1, <1>3 DEF Settled, Busy
  <2>2. FileOf(k) \notin cut' /\ FileOf(k) \notin cut
    BY <1>2 DEF Settled
  <2>3. Agrees(k)
    BY <2>1, <2>2 DEF Settled, CommonInv, SettledInv
  <2>4. \A i \in 1 .. Size(k) : prof'[<<k, i>>] = prof[<<k, i>>]
    <3>1. CASE UNCHANGED <<prof, cut>>
      BY <3>1
    <3>2. CASE /\ cut' = cut \cup {FileOf(cmd.kind)}
               /\ prof' = [j \in Key |-> IF FileOf(j[1]) = FileOf(cmd.kind) THEN Absent ELSE prof[j]]
      BY <2>2, <3>2, KeyIn
    <3> QED BY <1>2, <3>1, <3>2
  <2> QED BY <1>1, <2>3, <2>4, AgreesSame
<1> QED BY <1>5, <1>6, <1>7, <1>8, <1>9, <1>10 DEF CommonInv

\* The invariant is inductive.
LEMMA StepCommon == CommonInv /\ [CommonNext]_commonVars => CommonInv'
<1> SUFFICES ASSUME CommonInv, [CommonNext]_commonVars PROVE CommonInv' OBVIOUS
<1>1. CASE CommonNext
  BY <1>1, ReceiveInv, DevicesInv, UpdateKeyInv, RespondInv, KillCommon DEF CommonNext
<1>2. CASE UNCHANGED commonVars
  BY <1>2 DEF commonVars, CommonInv, TypeOK, StageInv, DeviceInv, ProfileInv, Whole, Part,
              DescriptorInv, ContentInv, SettledInv, Settled, Agrees, Busy
<1> QED BY <1>1, <1>2

\* Every reachable state of the daemon is typed: it never runs beyond the keys
\* of a profile nor the descriptors it may open.
THEOREM CommonTypeCorrect == CommonSpec => []TypeOK
<1>1. CommonInv => TypeOK BY DEF CommonInv
<1> QED BY InitCommon, StepCommon, <1>1, PTL DEF CommonSpec

\* What a client concludes from an answer is true of profile and devices,
\* whatever commands, failures and kills came before.
THEOREM AnswersHold == CommonSpec => AnswersAreTrue
<1>1. CommonInv => AnswerTellsTheProfile /\ DeviceFollowsProfile /\ AnnouncedSensorsAreDescribed
  <2> SUFFICES ASSUME CommonInv
               PROVE  AnswerTellsTheProfile /\ DeviceFollowsProfile /\ AnnouncedSensorsAreDescribed
    OBVIOUS
  <2>1. AnswerTellsTheProfile
    BY DEF CommonInv, ProfileInv, Whole, Part, AnswerTellsTheProfile
  <2>2. ASSUME NEW k \in Kinds, outcome[k] \in {"none", "yes"}, pc = "idle", "sub" \notin cut,
               FileOf(k) = "sub"
        PROVE  Agrees(k)
    BY <2>2 DEF CommonInv, SettledInv, Settled, Busy
  <2>3. /\ {"conf_gateway_passwd", "uart_interface_conf"} \cup Usb \subseteq Kinds
        /\ \A k \in {"conf_gateway_passwd", "uart_interface_conf"} \cup Usb : FileOf(k) = "sub"
    BY DEF Kinds, Usb, FileOf
  <2>4. DeviceFollowsProfile
    BY <2>2, <2>3 DEF DeviceFollowsProfile, Agrees
  <2>5. AnnouncedSensorsAreDescribed
    BY <2>2, <2>3 DEF AnnouncedSensorsAreDescribed, Agrees
  <2> QED BY <2>1, <2>4, <2>5
<1> DEFINE Exhausted == leaked = MaxFd /\ kills' = kills => prof' = prof /\ answer' # "yes"
<1>2. CommonInv /\ [CommonNext]_commonVars => [Exhausted]_commonVars
  <2> SUFFICES ASSUME CommonInv, CommonNext, leaked = MaxFd, kills' = kills
               PROVE  prof' = prof /\ answer' # "yes"
    OBVIOUS
  <2>1. pc \notin {"serial", "accept"} /\ answer # "yes" /\ MaxFd \in Nat /\ kills \in Nat
    BY NumbersAssumption DEF CommonInv, DescriptorInv, TypeOK
  <2>2. CASE \E c \in Commands, parity \in BOOLEAN : Receive(c, parity)
    BY <2>2 DEF Receive
  <2>3. CASE SetPasswd \/ OpenLine \/ SetSerial
    BY <2>1, <2>3 DEF SetPasswd, OpenLine, SetSerial
  <2>4. CASE UpdateKey
    BY <2>1, <2>4 DEF UpdateKey
  <2>5. CASE Respond
    BY <2>1, <2>5 DEF Respond
  <2>6. CASE Kill
    BY <2>1, <2>6 DEF Kill
  <2> QED BY <2>2, <2>3, <2>4, <2>5, <2>6 DEF CommonNext
<1> QED BY InitCommon, StepCommon, <1>1, <1>2, PTL DEF CommonSpec, AnswersAreTrue, OutOfDescriptors

-----------------------------------------------------------------------------
(* The publisher.  It changes nothing the daemon keeps, so everything above    *)
(* holds next to it.                                                           *)

\* The publisher runs beside the daemon and leaves it alone.
THEOREM ReportingImplementsCommon == Spec => CommonSpec
<1>1. Init => CommonInit BY DEF Init
<1>2. [Next]_vars => [CommonNext]_commonVars
  BY DEF Next, vars, DaemonStep, Run, ReadKey, Collect, Publish
<1> QED BY <1>1, <1>2, PTL DEF Spec, CommonSpec

\* A run that no command disturbed has read what is still in the profile; one
\* that began after the info file was emptied reads nothing.
ReadInv ==
    /\ got # <<>> => got[1] # Absent
    /\ stage = "read" => Len(got) < Len(ReportKeys)
    /\ stage \in {"collect", "send"} => Len(got) = Len(ReportKeys)
    /\ stage # "off" /\ alone =>
           pc = "idle" /\ \A i \in DOMAIN got : got[i] = prof[ReportKeys[i]]
    /\ late => stage \in {"off", "read"} /\ got = <<>> /\ "info" \in cut

ReportInv == CommonInv /\ ReportTypeOK /\ ReadInv

\* Where the platform's keys and payload_info stand in the list.
LEMMA KeysToRead ==
    /\ Len(ReportKeys) = 8 /\ ReportKeys[1] = <<"report", 1>>
    /\ ReportKeys[5] = <<"conf_platform", 1>> /\ ReportKeys[6] = <<"conf_platform", 2>>
    /\ ReportKeys[7] = <<"conf_platform", 3>> /\ ReportKeys[8] = <<"conf_platform", 4>>
BY DEF ReportKeys

\* None of them is a port's.
LEMMA KeysAreTexts ==
    \A n \in 1 .. 8 : ReportKeys[n] \in Key /\ ReportKeys[n][1] \notin Usb
<1>1. ASSUME NEW n \in 1 .. 8
      PROVE  \E k \in {"report", "conf_gateway_info", "conf_platform"}, i \in 1 .. 4 :
                 ReportKeys[n] = <<k, i>> /\ i <= Size(k)
  BY Sizes DEF ReportKeys
<1>2. ASSUME NEW k \in {"report", "conf_gateway_info", "conf_platform"}, NEW i \in 1 .. 4, i <= Size(k)
      PROVE  <<k, i>> \in Key /\ k \notin Usb
  BY <1>2, KeyIn, SizeNat DEF Kinds, Usb
<1>3. ASSUME NEW n \in 1 .. 8
      PROVE  ReportKeys[n] \in Key /\ ReportKeys[n][1] \notin Usb
  <2>1. PICK k \in {"report", "conf_gateway_info", "conf_platform"}, i \in 1 .. 4 :
            ReportKeys[n] = <<k, i>> /\ i <= Size(k)
    BY <1>1
  <2>2. ReportKeys[n][1] = k
    BY <2>1
  <2> QED BY <1>2, <2>1, <2>2
<1> QED BY <1>3

\* Nothing is read at first.
LEMMA InitReport == Init => ReportInv
<1> SUFFICES ASSUME Init PROVE ReportInv OBVIOUS
<1>1. CommonInv BY InitCommon DEF Init
<1>2. ReportTypeOK
  <2>1. got \in Seq(Values) /\ sent \in Seq(Values) /\ Len(got) <= Len(ReportKeys)
    BY KeysToRead DEF Init, ReportInit
  <2>2. runs \in 0 .. MaxRuns BY MaxRunsAssumption DEF Init, ReportInit
  <2> QED BY <2>1, <2>2 DEF Init, ReportInit, ReportTypeOK
<1>3. ReadInv BY DEF Init, ReportInit, ReadInv
<1> QED BY <1>1, <1>2, <1>3 DEF ReportInv

\* While the daemon stays idle the profile stays as it was read.
LEMMA DaemonReport ==
    ASSUME ReportInv, DaemonStep
    PROVE  ReportInv'
<1>1. CommonInv'
  BY StepCommon DEF ReportInv, DaemonStep
<1>2. UNCHANGED <<stage, got, sent, runs, late>>
  BY DEF DaemonStep
<1>3. alone' <=> (alone /\ pc' = "idle")
  BY DEF DaemonStep
<1>4. ReportTypeOK'
  <2>1. alone' \in BOOLEAN BY DEF DaemonStep
  <2> QED BY <1>2, <2>1 DEF ReportInv, ReportTypeOK
<1>5. "info" \in cut => "info" \in cut'
  BY DEF DaemonStep, CommonNext, Receive, SetPasswd, OpenLine, SetSerial, UpdateKey, Respond, Kill
<1>6. ASSUME pc = "idle", pc' = "idle" PROVE prof' = prof
  <2>1. CASE \E c \in Commands, parity \in BOOLEAN : Receive(c, parity)
    BY <2>1 DEF Receive
  <2>2. CASE Kill
    BY <1>6, <2>2 DEF Kill
  <2>3. ~(SetPasswd \/ OpenLine \/ SetSerial \/ UpdateKey \/ Respond)
    BY <1>6 DEF SetPasswd, OpenLine, SetSerial, UpdateKey, Respond
  <2> QED BY <2>1, <2>2, <2>3 DEF DaemonStep, CommonNext
<1>7. ReadInv'
  BY <1>2, <1>3, <1>5, <1>6 DEF ReportInv, ReadInv
<1> QED BY <1>1, <1>4, <1>7 DEF ReportInv

\* A key that is read is there; without payload_info the first read fails.
LEMMA ReadReport ==
    ASSUME ReportInv, ReadKey
    PROVE  ReportInv'
<1>1. UNCHANGED <<commonVars, sent, runs, alone, late>> /\ stage = "read"
  BY DEF ReadKey
<1>2. UNCHANGED <<pc, prof, outcome, cut>>
  BY <1>1 DEF commonVars
<1>3. CommonInv'
  BY <1>1, StepCommon DEF ReportInv
<1>4. got \in Seq(Values) /\ Len(got) \in 0 .. 7 /\ Len(got) + 1 \in 1 .. 8
  <2>1. got \in Seq(Values)
    BY DEF ReportInv, ReportTypeOK
  <2>2. Len(got) < Len(ReportKeys)
    BY <1>1 DEF ReportInv, ReadInv
  <2>3. Len(got) \in Nat
    BY <2>1
  <2>4. Len(ReportKeys) = 8
    BY KeysToRead
  <2>5. Len(got) < 8
    BY <2>2, <2>4
  <2>6. \A k \in Nat : k < 8 => k \in 0 .. 7 /\ k + 1 \in 1 .. 8
    OBVIOUS
  <2>7. Len(got) \in 0 .. 7 /\ Len(got) + 1 \in 1 .. 8
    BY <2>3, <2>5, <2>6
  <2> QED BY <2>1, <2>7
<1> DEFINE n == Len(got)
           v == prof[ReportKeys[n + 1]]
<1>5. CASE /\ v # Absent /\ got' = Append(got, v)
           /\ stage' = IF n + 1 = Len(ReportKeys) THEN "collect" ELSE "read"
  <2>1. v \in Values
    <3>1. ReportKeys[n + 1] \in Key /\ ReportKeys[n + 1][1] \notin Usb
      BY <1>4, KeysAreTexts
    <3> QED BY <1>5, <3>1 DEF ReportInv, CommonInv, ContentInv
  <2>2. n = 0 => ~late
    <3>1. ASSUME n = 0, late PROVE FALSE
      <4>1. v = prof[<<"report", 1>>] BY <3>1, KeysToRead
      <4>2. "info" \in cut BY <3>1 DEF ReportInv, ReadInv
      <4> QED BY <1>5, <4>1, <4>2 DEF ReportInv, CommonInv, ContentInv
    <3> QED BY <3>1
  <2>3. ~late
    BY <1>4, <2>2 DEF ReportInv, ReadInv
  <2> HIDE DEF v
  <2>4. /\ got' \in Seq(Values) /\ Len(got') = n + 1
        /\ \A i \in DOMAIN got' : (i \in DOMAIN got /\ got'[i] = got[i]) \/ (i = n + 1 /\ got'[i] = v)
    BY <1>4, <1>5, <2>1
  <2>5. ReportTypeOK'
    BY <1>1, <1>4, <1>5, <2>4, KeysToRead DEF ReportInv, ReportTypeOK
  <2>6. got'[1] # Absent
    <3>1. 1 \in DOMAIN got' BY <1>4, <2>4
    <3>2. CASE 1 \in DOMAIN got /\ got'[1] = got[1]
      BY <3>2 DEF ReportInv, ReadInv
    <3> QED BY <1>5, <2>4, <3>1, <3>2
  <2>7. alone => \A i \in DOMAIN got' : got'[i] = prof[ReportKeys[i]]
    BY <1>1, <2>4 DEF ReportInv, ReadInv, v
  <2>8. ReadInv'
    <3>1. /\ stage' = "read" => Len(got') < Len(ReportKeys)
          /\ stage' \in {"collect", "send"} => Len(got') = Len(ReportKeys)
      BY <1>4, <1>5, <2>4, KeysToRead
    <3> QED BY <1>1, <1>2, <2>3, <2>6, <2>7, <3>1 DEF ReportInv, ReadInv
  <2> QED BY <1>3, <2>5, <2>8 DEF ReportInv
<1>6. CASE stage' = "off" /\ UNCHANGED got
  <2>1. ReportTypeOK'
    BY <1>1, <1>6 DEF ReportInv, ReportTypeOK
  <2>2. ReadInv'
    BY <1>1, <1>2, <1>6 DEF ReportInv, ReadInv
  <2> QED BY <1>3, <2>1, <2>2 DEF ReportInv
<1> QED BY <1>5, <1>6 DEF ReadKey

\* Starting, collecting and publishing read nothing.
LEMMA RunReport ==
    ASSUME ReportInv, Run \/ Collect \/ Publish
    PROVE  ReportInv'
<1>1. UNCHANGED commonVars
  BY DEF Run, Collect, Publish
<1>2. CommonInv'
  BY <1>1, StepCommon DEF ReportInv
<1>3. UNCHANGED <<pc, prof, outcome, cut>>
  BY <1>1 DEF commonVars
<1>4. CASE Run
  <2>1. /\ stage' = "read" /\ got' = <<>> /\ runs' = runs + 1 /\ sent' = sent
        /\ alone' = (pc = "idle") /\ late' = ("info" \in cut) /\ runs < MaxRuns
    BY <1>4 DEF Run
  <2>2. runs' \in 0 .. MaxRuns
    BY <2>1, MaxRunsAssumption DEF ReportInv, ReportTypeOK
  <2>3. got' \in Seq(Values) /\ Len(got') = 0
    BY <2>1
  <2>4. alone' \in BOOLEAN /\ late' \in BOOLEAN
    BY <2>1
  <2>5. ReportTypeOK'
    BY <2>1, <2>2, <2>3, <2>4, KeysToRead DEF ReportInv, ReportTypeOK
  <2>6. ReadInv'
    <3>1. got' = <<>> /\ DOMAIN got' = {}
      BY <2>1
    <3>2. Len(got') < Len(ReportKeys)
      BY <2>3, KeysToRead
    <3>3. got' # <<>> => got'[1] # Absent
      BY <3>1
    <3>4. alone' => pc' = "idle"
      BY <1>3, <2>1
    <3>5. \A i \in DOMAIN got' : got'[i] = prof'[ReportKeys[i]]
      BY <3>1
    <3>6. late' => "info" \in cut'
      BY <1>3, <2>1
    <3>7. stage' = "read"
      BY <2>1
    <3> QED BY <3>1, <3>2, <3>3, <3>4, <3>5, <3>6, <3>7 DEF ReadInv
  <2> QED BY <1>2, <2>5, <2>6 DEF ReportInv
<1>5. CASE Collect \/ Publish
  <2>1. stage \in {"collect", "send"} /\ stage' \in {"send", "off"}
        /\ UNCHANGED <<got, runs, alone, late>> /\ sent' \in {got, sent}
    BY <1>5 DEF Collect, Publish
  <2>2. ReportTypeOK'
    BY <2>1 DEF ReportInv, ReportTypeOK
  <2>3. ReadInv'
    BY <1>3, <2>1 DEF ReportInv, ReadInv
  <2> QED BY <1>2, <2>2, <2>3 DEF ReportInv
<1> QED BY <1>4, <1>5

\* The invariant is inductive.
LEMMA StepReport == ReportInv /\ [Next]_vars => ReportInv'
<1> SUFFICES ASSUME ReportInv, [Next]_vars PROVE ReportInv' OBVIOUS
<1>1. CASE Next
  BY <1>1, DaemonReport, ReadReport, RunReport DEF Next
<1>2. CASE UNCHANGED vars
  <2>1. CommonInv' BY <1>2, StepCommon DEF vars, ReportInv
  <2>2. ReportTypeOK' /\ ReadInv'
    BY <1>2 DEF vars, commonVars, reportVars, ReportInv, ReportTypeOK, ReadInv
  <2> QED BY <2>1, <2>2 DEF ReportInv
<1> QED BY <1>1, <1>2

\* A report never holds more than the keys of its list, nor anything but texts.
THEOREM ReportTypeCorrect == Spec => []ReportTypeOK
<1>1. ReportInv => ReportTypeOK BY DEF ReportInv
<1> QED BY InitReport, StepReport, <1>1, PTL DEF Spec

\* A report goes to a platform that one command named, though the publisher
\* reads its four keys one by one from a file the daemon rewrites; and none
\* goes out after a kill emptied that file.
THEOREM ReportsReachOnePlatform == Spec => []ReportsGoToOnePlatform
<1>1. ReportInv => ReportsGoToOnePlatform
  <2> SUFFICES ASSUME ReportInv PROVE ReportsGoToOnePlatform OBVIOUS
  <2>1. NoReportAfterCut
    BY DEF ReportInv, ReadInv, NoReportAfterCut
  <2>2. ASSUME stage = "send", alone, outcome["conf_platform"] \in {"none", "yes"}
        PROVE  \A i, j \in Platform : got[i] = got[j]
    <3>1. pc = "idle" /\ Len(got) = 8 /\ \A i \in DOMAIN got : got[i] = prof[ReportKeys[i]]
      BY <2>2, KeysToRead DEF ReportInv, ReadInv
    <3>2. DOMAIN got = 1 .. 8
      BY <3>1 DEF ReportInv, ReportTypeOK
    <3>3. got[1] # Absent /\ got[1] = prof[<<"report", 1>>]
      <4>1. got # <<>> BY <3>1
      <4> QED BY <3>1, <3>2, <4>1, KeysToRead DEF ReportInv, ReadInv
    <3>4. "info" \notin cut
      BY <3>3 DEF ReportInv, CommonInv, ContentInv
    <3>5. Agrees("conf_platform")
      BY <2>2, <3>1, <3>4
      DEF ReportInv, CommonInv, SettledInv, Settled, Busy, Kinds, FileOf
    <3>6. \A i \in 1 .. 4 : prof[<<"conf_platform", i>>] = prof[<<"conf_platform", 1>>]
      BY <3>5 DEF Agrees
    <3>7. \A i \in Platform : got[i] = prof[<<"conf_platform", 1>>]
      BY <3>1, <3>2, <3>6, KeysToRead DEF Platform
    <3> QED BY <3>7
  <2>3. OnePlatform
    BY <2>2 DEF OnePlatform
  <2> QED BY <2>1, <2>3 DEF ReportsGoToOnePlatform
<1> QED BY InitReport, StepReport, <1>1, PTL DEF Spec
=============================================================================
