--------------------------- MODULE PidFileProofs ----------------------------
(***************************************************************************)
(* pidfileCreate() for every number of processes, starts and inodes: what  *)
(* link(), the link count and the removal of the temporary file guarantee  *)
(* when starts, exits, crashes and failures interleave at every system     *)
(* call.                                                                   *)
(***************************************************************************)
EXTENDS PidFile, FiniteSetTheorems, TLAPS

USE PidFileAssumption DEF Name

\* There are finitely many names.
LEMMA NameFinite ==
  /\ IsFiniteSet(Name)
  /\ \A p \in Pid : IsFiniteSet(Name \ {p}) /\ Cardinality(Name \ {p}) = Cardinality(Pid)
<1>1. IsFiniteSet(Pid \cup {"pidfile"}) /\ Cardinality(Pid \cup {"pidfile"}) = Cardinality(Pid) + 1
  BY FS_AddElement
<1>2. Name = Pid \cup {"pidfile"}
  OBVIOUS
<1>3. Cardinality(Pid) \in Nat
  BY FS_CardinalityType
<1>4. ASSUME NEW p \in Pid
      PROVE  IsFiniteSet(Name \ {p}) /\ Cardinality(Name \ {p}) = Cardinality(Pid)
  <2>1. p \in Name /\ IsFiniteSet(Name) /\ Cardinality(Name) = Cardinality(Pid) + 1
    BY <1>1, <1>2
  <2> HIDE DEF Name
  <2>2. IsFiniteSet(Name \ {p}) /\ Cardinality(Name \ {p}) = Cardinality(Name) - 1
    BY <2>1, FS_RemoveElement, Zenon
  <2> QED
    BY <1>3, <2>1, <2>2
<1> QED
  BY <1>1, <1>2, <1>4

LEMMA CardinalityPair ==
  ASSUME NEW m, NEW n, m # n
  PROVE  Cardinality({m} \cup {n}) = 2
<1>1. IsFiniteSet({m}) /\ Cardinality({m}) = 1
  BY FS_Singleton
<1>2. n \notin {m}
  OBVIOUS
<1>3. Cardinality({m} \cup {n}) = Cardinality({m}) + 1
  BY <1>1, <1>2, FS_AddElement, Zenon
<1> QED
  BY <1>1, <1>3

\* An inode with two names that are known has no third one.
LEMMA NlinkTwo ==
  ASSUME NEW i, NEW m \in Name, NEW n \in Name, m # n, dir[m] = i, dir[n] = i, Nlink(i) = 2
  PROVE  \A k \in Name : dir[k] = i => k \in {m, n}
<1> DEFINE S == {k \in Name : dir[k] = i}
<1>1. IsFiniteSet(S) /\ Cardinality(S) = 2
  BY NameFinite, FS_Subset DEF Nlink
<1>2. {m, n} \subseteq S
  OBVIOUS
<1>3. Cardinality({m, n}) = 2
  <2>1. {m} \cup {n} = {m, n}
    OBVIOUS
  <2> QED
    BY <2>1, CardinalityPair
<1>4. S = {m, n}
  <2> HIDE DEF S
  <2> QED
    BY <1>1, <1>2, <1>3, FS_Subset
<1> QED
  BY <1>4

\* An inode that has exactly two names has the link count two.
LEMMA TwoNlink ==
  ASSUME NEW i, NEW m \in Name, NEW n \in Name, m # n, dir[m] = i, dir[n] = i,
         \A k \in Name : dir[k] = i => k \in {m, n}
  PROVE  Nlink(i) = 2
<1>1. {k \in Name : dir[k] = i} = {m} \cup {n}
  OBVIOUS
<1> QED
  BY <1>1, CardinalityPair DEF Nlink

\* There is always an inode left for the temporary file of a process that has none.
LEMMA FreshInodeExists ==
  ASSUME TypeOK, NEW p \in Pid, dir[p] = Null
  PROVE  FreshInode \in Inode /\ \A n \in Name : dir[n] # FreshInode
<1>1. \E i \in Inode : \A n \in Name : dir[n] # i
  <2> SUFFICES ASSUME \A i \in Inode : \E n \in Name : dir[n] = i
               PROVE  FALSE
    OBVIOUS
  <2> DEFINE f == [i \in Inode |-> CHOOSE n \in Name : dir[n] = i]
  <2>1. \A i \in Inode : f[i] \in Name /\ dir[f[i]] = i
    OBVIOUS
  <2>2. f \in [Inode -> Name \ {p}]
    BY <2>1
  <2> HIDE DEF f
  <2>3. PICK x, y \in Inode : x # y /\ f[x] = f[y]
    <3>1. IsFiniteSet(Name \ {p}) /\ Cardinality(Name \ {p}) < Cardinality(Inode)
      BY NameFinite
    <3> QED
      BY <2>2, <3>1, FS_PigeonHole
  <2> QED
    BY <2>1, <2>3
<1>2. \A i : Nlink(i) = 0 <=> \A n \in Name : dir[n] # i
  <2> TAKE i
  <2>1. IsFiniteSet({n \in Name : dir[n] = i})
    BY NameFinite, FS_Subset
  <2>2. Nlink(i) = 0 <=> {n \in Name : dir[n] = i} = {}
    BY <2>1, FS_EmptySet DEF Nlink
  <2> QED
    BY <2>2
<1>3. \E i \in Inode : Nlink(i) = 0
  BY <1>1, <1>2
<1>4. FreshInode \in Inode /\ Nlink(FreshInode) = 0
  BY <1>3 DEF FreshInode
<1> QED
  BY <1>2, <1>4

-----------------------------------------------------------------------------
\* One step of a process.
ProcessStep(p) == Start(p) \/ Step(p) \/ Exit(p) \/ Gone(p) \/ Throw(p) \/ Crash(p)

LEMMA TypeInv ==
  ASSUME IndInv, NEW p \in Pid, ProcessStep(p)
  PROVE  TypeOK'
<1>1. CASE Start(p)
  BY <1>1 DEF IndInv, Start, Go, TypeOK, Creating, TempFiles
<1>2. CASE Open(p)
  BY <1>2, FreshInodeExists DEF IndInv, Open, Go, KeepsHistory, TypeOK, Creating, TempFiles
<1>3. CASE Write(p)
  BY <1>3 DEF IndInv, Write, Go, KeepsHistory, TypeOK, Creating, TempFiles
<1>4. CASE Link(p)
  BY <1>4 DEF IndInv, Link, Go, KeepsHistory, TypeOK, Creating, TempFiles
<1>5. CASE Stat(p)
  BY <1>5 DEF IndInv, Stat, Go, KeepsFiles, KeepsHistory, TypeOK, Creating, TempFiles
<1>6. CASE Return(p)
  BY <1>6 DEF IndInv, Return, Go, KeepsHistory, Unlink, TypeOK, Creating, TempFiles
<1>7. CASE Read(p)
  BY <1>7 DEF IndInv, Read, Go, KeepsFiles, KeepsHistory, TypeOK, Creating, TempFiles
<1>8. CASE Kill(p)
  BY <1>8 DEF IndInv, Kill, Go, KeepsFiles, TypeOK, Creating, TempFiles
<1>9. CASE UnlinkStale(p)
  BY <1>9 DEF IndInv, UnlinkStale, Go, KeepsHistory, Unlink, TypeOK, Creating, TempFiles
<1>10. CASE Relink(p)
  BY <1>10 DEF IndInv, Relink, Go, KeepsHistory, TypeOK, Creating, TempFiles
<1>11. CASE Restat(p)
  BY <1>11 DEF IndInv, Restat, Go, KeepsFiles, KeepsHistory, TypeOK, Creating, TempFiles
<1>12. CASE Truncate(p)
  BY <1>12 DEF IndInv, Truncate, Go, KeepsHistory, TypeOK, Creating, TempFiles
<1>13. CASE Rewrite(p)
  <2>1. unwritten' \in BOOLEAN
    BY <1>13 DEF IndInv, Rewrite, TypeOK
  <2> QED
    BY <1>13, <2>1 DEF IndInv, Rewrite, Go, TypeOK, Creating, TempFiles
<1>14. CASE Exit(p)
  BY <1>14 DEF IndInv, Exit, Go, KeepsHistory, Unlink, TypeOK, Creating, TempFiles
<1>15. CASE Gone(p)
  BY <1>15 DEF IndInv, Gone, Go, KeepsFiles, KeepsHistory, TypeOK, Creating, TempFiles
<1>16. CASE Crash(p)
  BY <1>16 DEF IndInv, Crash, Go, KeepsFiles, TypeOK, Creating, TempFiles
<1>17. CASE Throw(p)
  BY <1>17 DEF IndInv, Throw, Checked, Go, KeepsFiles, TypeOK, Creating, TempFiles
<1> QED
  BY <1>1, <1>2, <1>3, <1>4, <1>5, <1>6, <1>7, <1>8, <1>9, <1>10, <1>11, <1>12, <1>13, <1>14, <1>15, <1>16, <1>17 DEF ProcessStep, Step

LEMMA NoLitterInv ==
  ASSUME IndInv, NEW p \in Pid, ProcessStep(p)
  PROVE  NoLitter'
<1>1. CASE Start(p)
  BY <1>1 DEF IndInv, Start, Go, NoLitter, TypeOK, Creating, TempFiles
<1>2. CASE Open(p)
  BY <1>2, FreshInodeExists DEF IndInv, Open, Go, KeepsHistory, NoLitter, TypeOK, Creating, TempFiles
<1>3. CASE Write(p)
  BY <1>3 DEF IndInv, Write, Go, KeepsHistory, NoLitter, TypeOK, Creating, TempFiles
<1>4. CASE Link(p)
  BY <1>4 DEF IndInv, Link, Go, KeepsHistory, NoLitter, TypeOK, Creating, TempFiles
<1>5. CASE Stat(p)
  BY <1>5 DEF IndInv, Stat, Go, KeepsFiles, KeepsHistory, NoLitter, TypeOK, Creating, TempFiles
<1>6. CASE Return(p)
  BY <1>6 DEF IndInv, Return, Go, KeepsHistory, Unlink, NoLitter, TypeOK, Creating, TempFiles
<1>7. CASE Read(p)
  BY <1>7 DEF IndInv, Read, Go, KeepsFiles, KeepsHistory, NoLitter, TypeOK, Creating, TempFiles
<1>8. CASE Kill(p)
  BY <1>8 DEF IndInv, Kill, Go, KeepsFiles, NoLitter, TypeOK, Creating, TempFiles
<1>9. CASE UnlinkStale(p)
  BY <1>9 DEF IndInv, UnlinkStale, Go, KeepsHistory, Unlink, NoLitter, TypeOK, Creating, TempFiles
<1>10. CASE Relink(p)
  BY <1>10 DEF IndInv, Relink, Go, KeepsHistory, NoLitter, TypeOK, Creating, TempFiles
<1>11. CASE Restat(p)
  BY <1>11 DEF IndInv, Restat, Go, KeepsFiles, KeepsHistory, NoLitter, TypeOK, Creating, TempFiles
<1>12. CASE Truncate(p)
  BY <1>12 DEF IndInv, Truncate, Go, KeepsHistory, NoLitter, TypeOK, Creating, TempFiles
<1>13. CASE Rewrite(p)
  BY <1>13 DEF IndInv, Rewrite, Go, KeepsHistory, NoLitter, TypeOK, Creating, TempFiles
<1>14. CASE Exit(p)
  BY <1>14 DEF IndInv, Exit, Go, KeepsHistory, Unlink, NoLitter, TypeOK, Creating, TempFiles
<1>15. CASE Gone(p)
  BY <1>15 DEF IndInv, Gone, Go, KeepsFiles, KeepsHistory, NoLitter, TypeOK, Creating, TempFiles
<1>16. CASE Crash(p)
  BY <1>16 DEF IndInv, Crash, Go, KeepsFiles, NoLitter, TypeOK, Creating, TempFiles
<1>17. CASE Throw(p)
  BY <1>17 DEF IndInv, Throw, Checked, Go, KeepsFiles, NoLitter, TypeOK, Creating, TempFiles
<1> QED
  BY <1>1, <1>2, <1>3, <1>4, <1>5, <1>6, <1>7, <1>8, <1>9, <1>10, <1>11, <1>12, <1>13, <1>14, <1>15, <1>16, <1>17 DEF ProcessStep, Step

LEMMA TempFilesInv ==
  ASSUME IndInv, NEW p \in Pid, ProcessStep(p)
  PROVE  TempFiles'
<1>1. CASE Start(p)
  BY <1>1 DEF IndInv, Start, Go, TempFiles, TypeOK, Creating, NoLitter, Alive
<1>2. CASE Open(p)
  BY <1>2, FreshInodeExists DEF IndInv, Open, Go, KeepsHistory, TempFiles, TypeOK, Creating, NoLitter, Alive
<1>3. CASE Write(p)
  BY <1>3 DEF IndInv, Write, Go, KeepsHistory, TempFiles, TypeOK, Creating, NoLitter, Alive
<1>4. CASE Link(p)
  BY <1>4 DEF IndInv, Link, Go, KeepsHistory, TempFiles, TypeOK, Creating, NoLitter, Alive
<1>5. CASE Stat(p)
  BY <1>5 DEF IndInv, Stat, Go, KeepsFiles, KeepsHistory, TempFiles, TypeOK, Creating, NoLitter, Alive
<1>6. CASE Return(p)
  BY <1>6 DEF IndInv, Return, Go, KeepsHistory, Unlink, TempFiles, TypeOK, Creating, NoLitter, Alive
<1>7. CASE Read(p)
  BY <1>7 DEF IndInv, Read, Go, KeepsFiles, KeepsHistory, TempFiles, TypeOK, Creating, NoLitter, Alive
<1>8. CASE Kill(p)
  BY <1>8 DEF IndInv, Kill, Go, KeepsFiles, TempFiles, TypeOK, Creating, NoLitter, Alive
<1>9. CASE UnlinkStale(p)
  BY <1>9 DEF IndInv, UnlinkStale, Go, KeepsHistory, Unlink, TempFiles, TypeOK, Creating, NoLitter, Alive
<1>10. CASE Relink(p)
  BY <1>10 DEF IndInv, Relink, Go, KeepsHistory, TempFiles, TypeOK, Creating, NoLitter, Alive
<1>11. CASE Restat(p)
  BY <1>11 DEF IndInv, Restat, Go, KeepsFiles, KeepsHistory, TempFiles, TypeOK, Creating, NoLitter, Alive
<1>12. CASE Truncate(p)
  BY <1>12 DEF IndInv, Truncate, Go, KeepsHistory, TempFiles, TypeOK, Creating, NoLitter, Alive
<1>13. CASE Rewrite(p)
  BY <1>13 DEF IndInv, Rewrite, Go, KeepsHistory, TempFiles, TypeOK, Creating, NoLitter, Alive
<1>14. CASE Exit(p)
  BY <1>14 DEF IndInv, Exit, Go, KeepsHistory, Unlink, TempFiles, TypeOK, Creating, NoLitter, Alive
<1>15. CASE Gone(p)
  BY <1>15 DEF IndInv, Gone, Go, KeepsFiles, KeepsHistory, TempFiles, TypeOK, Creating, NoLitter, Alive
<1>16. CASE Crash(p)
  BY <1>16 DEF IndInv, Crash, Go, KeepsFiles, TempFiles, TypeOK, Creating, NoLitter, Alive
<1>17. CASE Throw(p)
  BY <1>17 DEF IndInv, Throw, Checked, Go, KeepsFiles, TempFiles, TypeOK, Creating, NoLitter, Alive
<1> QED
  BY <1>1, <1>2, <1>3, <1>4, <1>5, <1>6, <1>7, <1>8, <1>9, <1>10, <1>11, <1>12, <1>13, <1>14, <1>15, <1>16, <1>17 DEF ProcessStep, Step

LEMMA EmptyFilesInv ==
  ASSUME IndInv, NEW p \in Pid, ProcessStep(p)
  PROVE  EmptyFiles'
<1>1. CASE Start(p)
  BY <1>1 DEF IndInv, Start, Go, TypeOK, Creating, TempFiles, EmptyFiles, NoLitter
<1>2. CASE Open(p)
  BY <1>2, FreshInodeExists DEF IndInv, Open, Go, KeepsHistory, TypeOK, Creating, TempFiles, EmptyFiles, NoLitter
<1>3. CASE Write(p)
  BY <1>3 DEF IndInv, Write, Go, KeepsHistory, TypeOK, Creating, TempFiles, EmptyFiles, NoLitter
<1>4. CASE Link(p)
  <2>1. CASE dir["pidfile"] = Null
    <3>1. /\ dir' = [dir EXCEPT !["pidfile"] = dir[p]] /\ content' = content /\ crashed' = crashed
          /\ pc' = [pc EXCEPT ![p] = "stat"] /\ pc[p] = "link" /\ unwritten' = unwritten
      BY <1>4, <2>1 DEF Link, Go, KeepsHistory
    <3> SUFFICES ASSUME ~unwritten', NEW n \in Name, dir'[n] # Null, content'[dir'[n]] = Null
                 PROVE  \E q \in Pid : /\ dir'[q] = dir'[n]
                                       /\ pc'[q] \in {"open", "write", "rewrite"} \/ q \in crashed'
      BY DEF EmptyFiles
    <3>2. PICK m \in Name : dir'[n] = dir[m]
      BY <3>1 DEF IndInv, TypeOK
    <3>3. PICK q \in Pid : dir[q] = dir[m] /\ (pc[q] \in {"open", "write", "rewrite"} \/ q \in crashed)
      BY <3>1, <3>2 DEF IndInv, EmptyFiles
    <3>4. dir'[q] = dir[q] /\ q # p
      BY <3>1, <3>3 DEF IndInv, TypeOK, TempFiles
    <3> QED
      BY <3>1, <3>2, <3>3, <3>4 DEF IndInv, TypeOK
  <2>2. CASE dir["pidfile"] # Null
    BY <1>4, <2>2 DEF IndInv, Link, Go, KeepsHistory, TypeOK, Creating, TempFiles, EmptyFiles
  <2> QED
    BY <2>1, <2>2
<1>5. CASE Stat(p)
  BY <1>5 DEF IndInv, Stat, Go, KeepsFiles, KeepsHistory, TypeOK, Creating, TempFiles, EmptyFiles, NoLitter
<1>6. CASE Return(p)
  BY <1>6 DEF IndInv, Return, Go, KeepsHistory, Unlink, TypeOK, Creating, TempFiles, EmptyFiles, NoLitter
<1>7. CASE Read(p)
  BY <1>7 DEF IndInv, Read, Go, KeepsFiles, KeepsHistory, TypeOK, Creating, TempFiles, EmptyFiles, NoLitter
<1>8. CASE Kill(p)
  BY <1>8 DEF IndInv, Kill, Go, KeepsFiles, TypeOK, Creating, TempFiles, EmptyFiles, NoLitter
<1>9. CASE UnlinkStale(p)
  BY <1>9 DEF IndInv, UnlinkStale, Go, KeepsHistory, Unlink, TypeOK, Creating, TempFiles, EmptyFiles, NoLitter
<1>10. CASE Relink(p)
  BY <1>10 DEF IndInv, Relink, Go, KeepsHistory, TypeOK, Creating, TempFiles, EmptyFiles, NoLitter
<1>11. CASE Restat(p)
  BY <1>11 DEF IndInv, Restat, Go, KeepsFiles, KeepsHistory, TypeOK, Creating, TempFiles, EmptyFiles, NoLitter
<1>12. CASE Truncate(p)
  BY <1>12 DEF IndInv, Truncate, Go, KeepsHistory, TypeOK, Creating, TempFiles, EmptyFiles, NoLitter
<1>13. CASE Rewrite(p)
  BY <1>13 DEF IndInv, Rewrite, Go, KeepsHistory, TypeOK, Creating, TempFiles, EmptyFiles, NoLitter
<1>14. CASE Exit(p)
  BY <1>14 DEF IndInv, Exit, Go, KeepsHistory, Unlink, TypeOK, Creating, TempFiles, EmptyFiles, NoLitter
<1>15. CASE Gone(p)
  BY <1>15 DEF IndInv, Gone, Go, KeepsFiles, KeepsHistory, TypeOK, Creating, TempFiles, EmptyFiles, NoLitter
<1>16. CASE Crash(p)
  BY <1>16 DEF IndInv, Crash, Go, KeepsFiles, TypeOK, Creating, TempFiles, EmptyFiles, NoLitter
<1>17. CASE Throw(p)
  BY <1>17 DEF IndInv, Throw, Checked, Go, KeepsFiles, TypeOK, Creating, TempFiles, EmptyFiles, NoLitter
<1> QED
  BY <1>1, <1>2, <1>3, <1>4, <1>5, <1>6, <1>7, <1>8, <1>9, <1>10, <1>11, <1>12, <1>13, <1>14, <1>15, <1>16, <1>17 DEF ProcessStep, Step

LEMMA OverwriteInv ==
  ASSUME IndInv, NEW p \in Pid, ProcessStep(p)
  PROVE  OverwriteExclusive'
<1>1. CASE Start(p)
  BY <1>1 DEF IndInv, Start, Go, TypeOK, Creating, TempFiles, OverwriteExclusive, Overwriting
<1>2. CASE Open(p)
  <2> DEFINE i == IF dir[p] = Null THEN FreshInode ELSE dir[p]
  <2>1. /\ dir' = [dir EXCEPT ![p] = i] /\ p \in Name /\ dir \in [Name -> Inode \cup {Null}]
        /\ dir[p] = Null => \A n \in Name : dir[n] # i
    BY <1>2, FreshInodeExists DEF IndInv, Open, TypeOK, Name
  <2>2. pc'[p] = "write" /\ \A k \in Pid : k # p => pc'[k] = pc[k]
    BY <1>2 DEF IndInv, Open, Go, TypeOK
  <2>3. dir[p] # Null => dir' = dir
    BY <2>1
  <2> HIDE DEF i
  <2>4. /\ ~Overwriting(p)'
        /\ \A k \in Pid : k # p => (Overwriting(k)' <=> Overwriting(k)) /\ dir'[k] = dir[k]
    BY <2>1, <2>2 DEF Overwriting, Name
  <2> QED
    BY <2>1, <2>3, <2>4 DEF IndInv, OverwriteExclusive
<1>3. CASE Write(p)
  BY <1>3 DEF IndInv, Write, Go, KeepsHistory, TypeOK, Creating, TempFiles, OverwriteExclusive, Overwriting
<1>4. CASE Link(p)
  <2> SUFFICES ASSUME NEW r \in Pid, NEW q \in Pid, Overwriting(r)', Overwriting(q)', r # q,
                      dir'[r] = dir'[q], NEW n \in Name, dir'[n] = dir'[r]
               PROVE  n \in {r, q}
    BY DEF OverwriteExclusive
  <2>1. r # p /\ q # p /\ Overwriting(r) /\ Overwriting(q) /\ dir'[r] = dir[r] /\ dir'[q] = dir[q]
    <3>1. pc'[p] \in {"stat", "read"} /\ \A k \in Pid : k # p => pc'[k] = pc[k]
      BY <1>4 DEF IndInv, Link, Go, TypeOK
    <3>2. r # p /\ q # p /\ Overwriting(r) /\ Overwriting(q)
      BY <3>1 DEF Overwriting
    <3>3. \A k \in Pid : dir'[k] = dir[k]
      BY <1>4, PidFileAssumption DEF IndInv, Link, TypeOK, Name
    <3> QED
      BY <3>2, <3>3
  <2>2. \A k \in Name : dir[k] = dir[r] => k \in {r, q}
    BY <2>1 DEF IndInv, OverwriteExclusive
  <2>3. dir'[n] = dir[n] \/ dir'[n] = dir[p]
    BY <1>4 DEF IndInv, Link, TypeOK
  <2> QED
    BY <2>1, <2>2, <2>3
<1>5. CASE Stat(p)
  BY <1>5 DEF IndInv, Stat, Go, KeepsFiles, KeepsHistory, TypeOK, Creating, TempFiles, OverwriteExclusive, Overwriting
<1>6. CASE Return(p)
  BY <1>6 DEF IndInv, Return, Go, KeepsHistory, Unlink, TypeOK, Creating, TempFiles, OverwriteExclusive, Overwriting
<1>7. CASE Read(p)
  BY <1>7 DEF IndInv, Read, Go, KeepsFiles, KeepsHistory, TypeOK, Creating, TempFiles, OverwriteExclusive, Overwriting
<1>8. CASE Kill(p)
  BY <1>8 DEF IndInv, Kill, Go, KeepsFiles, TypeOK, Creating, TempFiles, OverwriteExclusive, Overwriting
<1>9. CASE UnlinkStale(p)
  BY <1>9 DEF IndInv, UnlinkStale, Go, KeepsHistory, Unlink, TypeOK, Creating, TempFiles, OverwriteExclusive, Overwriting
<1>10. CASE Relink(p)
  BY <1>10 DEF IndInv, Relink, Go, KeepsHistory, TypeOK, Creating, TempFiles, OverwriteExclusive, Overwriting
<1>11. CASE Restat(p)
  <2> SUFFICES ASSUME NEW r \in Pid, NEW q \in Pid, Overwriting(r)', Overwriting(q)', r # q,
                      dir'[r] = dir'[q]
               PROVE  \A n \in Name : dir'[n] = dir'[r] => n \in {r, q}
    BY DEF OverwriteExclusive
  <2>1. dir' = dir
    BY <1>11 DEF Restat, KeepsFiles
  <2>2. CASE p \notin {r, q}
    BY <1>11, <2>1, <2>2 DEF IndInv, OverwriteExclusive, Restat, Go, TypeOK, Overwriting
  <2>3. CASE p \in {r, q}
    <3>1. pc'[p] = "truncate"
      BY <1>11, <2>3 DEF IndInv, Restat, Go, TypeOK, Overwriting
    <3>2. Nlink(dir[p]) = 2
      BY <1>11, <3>1 DEF IndInv, Restat, Go, TypeOK
    <3> QED
      BY <2>1, <2>3, <3>2, NlinkTwo
  <2> QED
    BY <2>2, <2>3
<1>12. CASE Truncate(p)
  BY <1>12 DEF IndInv, Truncate, Go, KeepsHistory, TypeOK, Creating, TempFiles, OverwriteExclusive, Overwriting
<1>13. CASE Rewrite(p)
  BY <1>13 DEF IndInv, Rewrite, Go, KeepsHistory, TypeOK, Creating, TempFiles, OverwriteExclusive, Overwriting
<1>14. CASE Exit(p)
  BY <1>14 DEF IndInv, Exit, Go, KeepsHistory, Unlink, TypeOK, Creating, TempFiles, OverwriteExclusive, Overwriting
<1>15. CASE Gone(p)
  BY <1>15 DEF IndInv, Gone, Go, KeepsFiles, KeepsHistory, TypeOK, Creating, TempFiles, OverwriteExclusive, Overwriting
<1>16. CASE Crash(p)
  BY <1>16 DEF IndInv, Crash, Go, KeepsFiles, TypeOK, Creating, TempFiles, OverwriteExclusive, Overwriting
<1>17. CASE Throw(p)
  BY <1>17 DEF IndInv, Throw, Checked, Go, KeepsFiles, TypeOK, Creating, TempFiles, OverwriteExclusive, Overwriting
<1> QED
  BY <1>1, <1>2, <1>3, <1>4, <1>5, <1>6, <1>7, <1>8, <1>9, <1>10, <1>11, <1>12, <1>13, <1>14, <1>15, <1>16, <1>17 DEF ProcessStep, Step

LEMMA OwnerInv ==
  ASSUME IndInv, NEW p \in Pid, ProcessStep(p)
  PROVE  OwnerExclusive'
<1>1. CASE Start(p)
  BY <1>1 DEF IndInv, Start, Go, TypeOK, Creating, TempFiles, OwnerExclusive, Owner, Overwriting
<1>2. CASE Open(p)
  BY <1>2, FreshInodeExists DEF IndInv, Open, Go, KeepsHistory, TypeOK, Creating, TempFiles, OwnerExclusive, Owner, Overwriting
<1>3. CASE Write(p)
  BY <1>3 DEF IndInv, Write, Go, KeepsHistory, TypeOK, Creating, TempFiles, OwnerExclusive, Owner, Overwriting
<1>4. CASE Link(p)
  BY <1>4 DEF IndInv, Link, Go, KeepsHistory, TypeOK, Creating, TempFiles, OwnerExclusive, Owner, Overwriting
<1>5. CASE Stat(p)
  BY <1>5 DEF IndInv, Stat, Go, KeepsFiles, KeepsHistory, TypeOK, Creating, TempFiles, OwnerExclusive, Owner, Overwriting
<1>6. CASE Return(p)
  BY <1>6 DEF IndInv, Return, Go, KeepsHistory, Unlink, TypeOK, Creating, TempFiles, OwnerExclusive, Owner, Overwriting
<1>7. CASE Read(p)
  BY <1>7 DEF IndInv, Read, Go, KeepsFiles, KeepsHistory, TypeOK, Creating, TempFiles, OwnerExclusive, Owner, Overwriting
<1>8. CASE Kill(p)
  BY <1>8 DEF IndInv, Kill, Go, KeepsFiles, TypeOK, Creating, TempFiles, OwnerExclusive, Owner, Overwriting
<1>9. CASE UnlinkStale(p)
  BY <1>9 DEF IndInv, UnlinkStale, Go, KeepsHistory, Unlink, TypeOK, Creating, TempFiles, OwnerExclusive, Owner, Overwriting
<1>10. CASE Relink(p)
  BY <1>10 DEF IndInv, Relink, Go, KeepsHistory, TypeOK, Creating, TempFiles, OwnerExclusive, Owner, Overwriting
<1>11. CASE Restat(p)
  BY <1>11 DEF IndInv, Restat, Go, KeepsFiles, KeepsHistory, TypeOK, Creating, TempFiles, OwnerExclusive, Owner, Overwriting
<1>12. CASE Truncate(p)
  BY <1>12 DEF IndInv, Truncate, Go, KeepsHistory, TypeOK, Creating, TempFiles, OwnerExclusive, Owner, Overwriting
<1>13. CASE Rewrite(p)
  BY <1>13 DEF IndInv, Rewrite, Go, KeepsHistory, TypeOK, Creating, TempFiles, OwnerExclusive, Owner, Overwriting
<1>14. CASE Exit(p)
  BY <1>14 DEF IndInv, Exit, Go, KeepsHistory, Unlink, TypeOK, Creating, TempFiles, OwnerExclusive, Owner, Overwriting
<1>15. CASE Gone(p)
  BY <1>15 DEF IndInv, Gone, Go, KeepsFiles, KeepsHistory, TypeOK, Creating, TempFiles, OwnerExclusive, Owner, Overwriting
<1>16. CASE Crash(p)
  BY <1>16 DEF IndInv, Crash, Go, KeepsFiles, TypeOK, Creating, TempFiles, OwnerExclusive, Owner, Overwriting
<1>17. CASE Throw(p)
  BY <1>17 DEF IndInv, Throw, Checked, Go, KeepsFiles, TypeOK, Creating, TempFiles, OwnerExclusive, Owner, Overwriting
<1> QED
  BY <1>1, <1>2, <1>3, <1>4, <1>5, <1>6, <1>7, <1>8, <1>9, <1>10, <1>11, <1>12, <1>13, <1>14, <1>15, <1>16, <1>17 DEF ProcessStep, Step

LEMMA InitInv == Init => IndInv
<1> SUFFICES ASSUME Init PROVE IndInv
  OBVIOUS
<1>1. TypeOK
  <2>1. starts \in 0..MaxStarts
    BY DEF Init
  <2>2. stale \in BOOLEAN /\ unwritten \in BOOLEAN
    BY DEF Init
  <2> QED
    BY <2>1, <2>2 DEF Init, TypeOK
<1>2. NoLitter /\ TempFiles /\ EmptyFiles
  BY DEF Init, NoLitter, TempFiles, EmptyFiles, Creating
<1>3. OverwriteExclusive /\ OwnerExclusive
  BY DEF Init, OverwriteExclusive, Overwriting, OwnerExclusive, Owner
<1> QED
  BY <1>1, <1>2, <1>3 DEF IndInv

LEMMA NextInv == IndInv /\ [Next]_vars => IndInv'
<1> SUFFICES ASSUME IndInv, [Next]_vars PROVE IndInv'
  OBVIOUS
<1>1. CASE Next
  <2>1. PICK p \in Pid : ProcessStep(p)
    BY <1>1 DEF Next, ProcessStep
  <2> QED
    BY <2>1, TypeInv, NoLitterInv, TempFilesInv, EmptyFilesInv, OverwriteInv, OwnerInv DEF IndInv
<1>2. CASE UNCHANGED vars
  BY <1>2 DEF vars, IndInv, TypeOK, NoLitter, TempFiles, EmptyFiles, OverwriteExclusive,
              Overwriting, OwnerExclusive, Owner
<1> QED
  BY <1>1, <1>2

-----------------------------------------------------------------------------
\* The invariant holds for every number of processes, starts and inodes.
THEOREM Invariance == Spec => []IndInv
BY InitInv, NextInv, PTL DEF Spec

\* pidfileCreate() leaves no temporary file behind when it returns; only a process that
\* dies in it, or that it leaves with an exception, may leave one.
THEOREM LeavesNoLitter == Spec => []NoLitter
<1>1. IndInv => NoLitter
  BY DEF IndInv
<1> QED
  BY <1>1, Invariance, PTL

\* link() alone keeps daemons apart as long as nobody takes the pid file for stale.
THEOREM LinkExcludes == Spec => []ExclusiveWithoutTakeover
<1>1. IndInv => ExclusiveWithoutTakeover
  BY DEF IndInv, OwnerExclusive, Owner, ExclusiveWithoutTakeover, AtMostOne
<1> QED
  BY <1>1, Invariance, PTL

\* The link count lets at most one process overwrite the pid file at a time.
THEOREM LinkCountExcludes == Spec => []TakeoverExclusive
<1>1. IndInv => TakeoverExclusive
  <2> SUFFICES ASSUME IndInv, NEW p \in Pid, NEW q \in Pid, Taking(p), Taking(q), p # q
               PROVE  FALSE
    BY DEF TakeoverExclusive
  <2>1. "pidfile" \in {p, q}
    BY DEF IndInv, OverwriteExclusive, Taking
  <2> QED
    BY <2>1
<1> QED
  BY <1>1, Invariance, PTL

\* If no other process is alive or died in pidfileCreate(), only the process itself
\* and the pid file can refer to the inode of its temporary file.
LEMMA AloneNlink ==
  ASSUME IndInv, NEW p \in Pid, pc[p] \in {"stat", "restat"}, dir[p] = dir["pidfile"],
         \A q \in Pid \ {p} : ~Alive(q) /\ q \notin crashed
  PROVE  Nlink(dir[p]) = 2
<1>1. dir[p] # Null
  BY DEF IndInv, TempFiles, Creating
<1>2. \A q \in Pid \ {p} : dir[q] = Null
  BY DEF IndInv, NoLitter, Alive, Creating
<1>3. \A k \in Name : dir[k] = dir[p] => k \in {p, "pidfile"}
  BY <1>1, <1>2
<1>4. p \in Name /\ "pidfile" \in Name /\ p # "pidfile"
  OBVIOUS
<1> QED
  BY <1>3, <1>4, TwoNlink

\* A start is refused only for a reason (the returns of FALSE in pidfileCreate()).
THEOREM RefusalJustified == Spec => RefusedForAReason
<1> DEFINE Refused(p) == pc[p] # "unlinkRefused" /\ pc'[p] = "unlinkRefused"
           Reason(p) == \/ \E q \in Pid \ {p} : Alive(q) \/ q \in crashed
                        \/ dir["pidfile"] = Null
                        \/ pc[p] \in {"stat", "restat"} /\ dir[p] # dir["pidfile"]
                        \/ oldPid[p] = p \/ unwritten
<1>1. ASSUME IndInv, Next, NEW p \in Pid, Refused(p)
      PROVE  Reason(p)
  <2>1. Stat(p) \/ Restat(p) \/ Read(p) \/ Kill(p)
    <3>1. PICK q \in Pid : Start(q) \/ Step(q) \/ Exit(q) \/ Gone(q) \/ Throw(q) \/ Crash(q)
      BY <1>1 DEF Next
    <3>2. \E to : pc' = [pc EXCEPT ![q] = to]
      BY <3>1 DEF Step, Start, Open, Write, Link, Stat, Return, Read, Kill, UnlinkStale, Relink,
                  Restat, Truncate, Rewrite, Exit, Gone, Throw, Crash, Go
    <3>3. q = p
      BY <1>1, <3>2 DEF IndInv, TypeOK
    <3> QED
      BY <1>1, <3>1, <3>3 DEF IndInv, TypeOK, Step, Start, Open, Write, Link, Return, UnlinkStale,
                  Relink, Truncate, Rewrite, Exit, Gone, Throw, Crash, Go
  <2>2. CASE Stat(p) \/ Restat(p)
    <3>1. pc[p] \in {"stat", "restat"} /\ Nlink(dir[p]) # 2
      BY <1>1, <2>2 DEF IndInv, TypeOK, Stat, Restat, Go
    <3> QED
      BY <1>1, <3>1, AloneNlink
  <2>3. CASE Read(p)
    <3>1. dir["pidfile"] = Null \/ content[dir["pidfile"]] = Null
      BY <1>1, <2>3 DEF IndInv, TypeOK, Read, Go
    <3>2. CASE dir["pidfile"] # Null /\ ~unwritten
      <4>1. PICK q \in Pid : pc[q] \in {"open", "write", "rewrite"} \/ q \in crashed
        BY <1>1, <3>1, <3>2 DEF IndInv, EmptyFiles
      <4>2. q # p /\ (Alive(q) \/ q \in crashed)
        BY <1>1, <2>3, <4>1 DEF IndInv, TempFiles, Read, Alive
      <4> QED
        BY <4>2
    <3> QED
      BY <3>2
  <2>4. CASE Kill(p)
    <3>1. oldPid[p] \in Pid /\ Alive(oldPid[p])
      BY <1>1, <2>4 DEF IndInv, TypeOK, TempFiles, Kill, Go
    <3> QED
      BY <3>1
  <2> QED
    BY <2>1, <2>2, <2>3, <2>4
<1>2. IndInv /\ [Next]_vars => [\A p \in Pid : Refused(p) => Reason(p)]_vars
  BY <1>1
<1> QED
  BY <1>2, Invariance, PTL DEF Spec, RefusedForAReason

=============================================================================
