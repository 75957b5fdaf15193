---------------------------- MODULE RebuildProofs ----------------------------
(***************************************************************************)
(* Proofs about module Rebuild, for any files, contents, manifest, edits   *)
(* and faults.                                                             *)
(*                                                                         *)
(* The signature of a build is the one taken before its files were listed. *)
(* As long as the directory still has that signature, what was read so far *)
(* is what the files hold, or was kept from being read by a failure, and   *)
(* the others are as they were listed (FreshRead); any edit makes the      *)
(* signature of the work old for good.                                     *)
(* QuietMeansCurrent follows.                                              *)
(*                                                                         *)
(* A build is Sound when it has exactly one pipeline for each entry of the *)
(* contents it remembers, and no two that clash.  Every turn of Assembled  *)
(* keeps a growing build sound and settles its file, so both passes do.    *)
(* Held carries that to the commit, next to what is open and what was      *)
(* built anew, and the other properties follow.                            *)
(***************************************************************************)
EXTENDS Rebuild, FiniteSetTheorems, WellFoundedInduction, TLAPS

\* A rebuild under way is a record, whatever it builds and runs.
WorkIsRecord ==
  work = [step |-> work.step, sign |-> work.sign, got |-> work.got, k |-> work.k,
          build |-> work.build, run |-> work.run]

Light ==
  /\ edits \in Nat /\ signature \in Int /\ files \in [FileSet -> Ours] /\ faults \in Nat
  /\ WorkIsRecord /\ work.sign \in Int /\ work.k \in Nat
  /\ work.step \in {"idle", "list", "read", "assemble", "commit"}
  /\ work.got \in [FileSet -> Readings]

\* The k-th file has been read, or is as it was listed.
AsListed(k) ==
  \/ work.got[Files[k]] = IF files[Files[k]] = Absent THEN Absent ELSE Unread
  \/ work.got[Files[k]] = Unlisted /\ faults > 0
AsRead(k) == TrueReading(Files[k], work.got[Files[k]])

FreshRead ==
  work.sign = edits =>
    /\ work.step = "read" =>
         \A k \in 1 .. Len(Files) : IF k < work.k THEN AsRead(k) ELSE AsListed(k)
    /\ work.step \in {"assemble", "commit"} =>
         \A f \in FileSet : TrueReading(f, work.got[f])

IInv ==
  /\ Light
  /\ work.step \in {"idle", "list"} => work.k = 1
  /\ work.step = "read" => work.k \in 1 .. Len(Files)
  /\ signature <= edits /\ (work.step # "idle" => work.sign <= edits)
  /\ QuietMeansCurrent /\ FreshRead
-----------------------------------------------------------------------------
\* What a rebuild that is over or dropped leaves behind.
LEMMA NoWorkFields ==
  /\ NoWork = [step |-> "idle", sign |-> -1, got |-> [f \in FileSet |-> Absent], k |-> 1,
               build |-> NoBuild, run |-> {}]
  /\ [f \in FileSet |-> Absent] \in [FileSet -> Readings]
BY DEF NoWork, NeverBuilt, Ours, Readings

\* No rebuild ran yet.
LEMMA InitInv == Init => IInv
BY NoWorkFields DEF Init, NeverBuilt, IInv, Light, WorkIsRecord, QuietMeansCurrent, FreshRead

\* The faults are only ever counted up.
LEMMA FaultsGrow ==
  ASSUME IInv, [Next]_vars
  PROVE  faults' \in Nat /\ (faults > 0 => faults' > 0)
<1>1. faults' = faults \/ faults' = faults + 1
  <2>1. CASE Begin \/ List \/ ReadFile
    BY <2>1 DEF Begin, List, ReadFile, Fault
  <2>2. CASE Assemble
    BY <2>2 DEF Assemble
  <2>3. CASE MakeFails \/ Commit \/ LateFailure
    BY <2>3 DEF MakeFails, Commit, LateFailure, Fault
  <2>4. CASE Exit
    BY <2>4 DEF Exit, Fault
  <2>5. CASE Edit \/ MigrateStore \/ UNCHANGED vars
    BY <2>5 DEF Edit, MigrateStore, vars
  <2> QED  BY <2>1, <2>2, <2>3, <2>4, <2>5 DEF Next
<1> QED  BY <1>1 DEF IInv, Light

\* A reading stays true while its file does not change.
LEMMA ReadingStays ==
  ASSUME IInv, [Next]_vars, files' = files, NEW f, NEW read, TrueReading(f, read)
  PROVE  TrueReading(f, read)'
BY FaultsGrow DEF TrueReading

\* Steps that end a rebuild, or start one.
LEMMA IdleStepInv ==
  ASSUME IInv, Begin \/ MakeFails \/ Commit \/ LateFailure \/ Exit
  PROVE  IInv'
<1>1. edits' = edits /\ files' = files /\ edits \in Nat
  BY DEF IInv, Light, Begin, MakeFails, Commit, LateFailure, Exit
<1>2. faults' \in Nat /\ \A f, read : TrueReading(f, read) => TrueReading(f, read)'
  BY <1>1, FaultsGrow, ReadingStays DEF Next
<1>3. CASE Begin
  <2>1. PICK sign \in {edits, ErrorSignature} : work' = [work EXCEPT !.step = "list", !.sign = sign]
    BY <1>3 DEF Begin, Sign
  <2>2. work' = [step |-> "list", sign |-> sign, got |-> work.got, k |-> work.k,
                 build |-> work.build, run |-> work.run]
    BY <2>1 DEF IInv, Light, WorkIsRecord
  <2>3. work.step = "idle" /\ UNCHANGED <<signature, seen>> /\ sign \in Int /\ sign <= edits
    BY <1>1, <1>3 DEF Begin, ErrorSignature
  <2>4. Light' /\ FreshRead'
    BY <1>1, <1>2, <2>2, <2>3 DEF IInv, Light, WorkIsRecord, FreshRead
  <2>5. QuietMeansCurrent'
    BY <1>1, <1>2, <2>3 DEF IInv, QuietMeansCurrent
  <2> QED  BY <1>1, <2>2, <2>3, <2>4, <2>5 DEF IInv
<1>4. CASE MakeFails
  <2>1. work' = NoWork /\ UNCHANGED <<signature, seen>>
    BY <1>4 DEF MakeFails
  <2>2. Light' /\ FreshRead'
    BY <1>1, <1>2, <2>1, NoWorkFields DEF IInv, Light, WorkIsRecord, FreshRead
  <2>3. QuietMeansCurrent'
    BY <1>1, <1>2, <2>1 DEF IInv, QuietMeansCurrent
  <2> QED  BY <1>1, <2>1, <2>2, <2>3, NoWorkFields DEF IInv
<1>5. CASE Commit \/ LateFailure
  <2>1. signature' = work.sign /\ seen' = work.got /\ work' = NoWork /\ work.step = "commit"
    BY <1>5 DEF Commit, LateFailure, Signature
  <2>2. work.sign = edits => \A f \in FileSet : TrueReading(f, work.got[f])
    BY <2>1 DEF IInv, FreshRead
  <2>3. Light' /\ FreshRead'
    BY <1>1, <1>2, <2>1, NoWorkFields DEF IInv, Light, WorkIsRecord, FreshRead
  <2>4. QuietMeansCurrent'
    BY <1>1, <1>2, <2>1, <2>2 DEF QuietMeansCurrent, TrueReading
  <2> QED  BY <1>1, <2>1, <2>3, <2>4, NoWorkFields DEF IInv
<1>6. CASE Exit
  <2>1. work' = NoWork /\ signature' = -1
    BY <1>6 DEF Exit, NeverBuilt
  <2>2. Light' /\ FreshRead'
    BY <1>1, <1>2, <2>1, NoWorkFields DEF IInv, Light, WorkIsRecord, FreshRead
  <2>3. QuietMeansCurrent'
    BY <1>1, <2>1 DEF QuietMeansCurrent
  <2> QED  BY <1>1, <2>1, <2>2, <2>3, NoWorkFields DEF IInv
<1> QED  BY <1>3, <1>4, <1>5, <1>6

\* The listing, made or failed: every file is as it was listed.
LEMMA ListInv ==
  ASSUME IInv, List
  PROVE  IInv'
<1>1. PICK got :
      /\ \/ got = [f \in FileSet |-> IF files[f] = Absent THEN Absent ELSE Unread]
         \/ got = [f \in FileSet |-> Unlisted] /\ faults' = faults + 1
      /\ work' = [work EXCEPT !.step = "read", !.got = got]
      /\ work.step = "list" /\ UNCHANGED <<files, edits, signature, seen>>
  BY DEF List, Listed, NotListed, Fault
<1>2. work' = [step |-> "read", sign |-> work.sign, got |-> got, k |-> 1,
               build |-> work.build, run |-> work.run]
  BY <1>1 DEF IInv, Light, WorkIsRecord
<1>3. got \in [FileSet -> Readings]
  BY <1>1 DEF Readings, Ours
<1>4. Len(Files) \in Nat \ {0} /\ \A k \in 1 .. Len(Files) : Files[k] \in FileSet
  BY RebuildAssumption DEF FileSet
<1>5. faults \in Nat /\ faults' \in Nat /\ \A f, read : TrueReading(f, read) => TrueReading(f, read)'
  BY <1>1, FaultsGrow, ReadingStays DEF Next, IInv, Light
<1>6. FreshRead'
  <2>1. /\ work'.step = "read" /\ work'.k = 1 /\ work'.got = got
    BY <1>2
  <2>2. ASSUME NEW k \in 1 .. Len(Files)
        PROVE  AsListed(k)' /\ ~(k < work'.k)
    <3>1. CASE got = [f \in FileSet |-> IF files[f] = Absent THEN Absent ELSE Unread]
      BY <1>1, <1>4, <2>1, <3>1 DEF AsListed
    <3>2. CASE got = [f \in FileSet |-> Unlisted] /\ faults' = faults + 1
      BY <1>4, <1>5, <2>1, <3>2 DEF AsListed
    <3> QED  BY <1>1, <3>1, <3>2
  <2> QED  BY <2>1, <2>2 DEF FreshRead
<1>7. Light'
  BY <1>1, <1>2, <1>3, <1>5 DEF IInv, Light, WorkIsRecord
<1>8. QuietMeansCurrent' /\ signature' <= edits' /\ work'.sign <= edits'
      /\ work'.step = "read" /\ work'.k = 1
  BY <1>1, <1>2, <1>5 DEF IInv, QuietMeansCurrent
<1>9. (work.step = "read" => work.k \in 1 .. Len(Files))'
  BY <1>4, <1>8
<1> QED  BY <1>6, <1>7, <1>8, <1>9 DEF IInv

\* What a step of the reading puts in the listing: the file's contents, or
\* that it could not be read, or what was there.
LEMMA ReadFileFields ==
  ASSUME IInv, ReadFile
  PROVE  \E f, content, read, next :
           /\ f = Files[work.k] /\ f \in FileSet
           /\ IF work.got[f] = Unread /\ files[f] # Absent
              THEN content = files[f] \/ (content = Unread /\ faults' = faults + 1)
              ELSE content = work.got[f]
           /\ read = [work.got EXCEPT ![f] = content]
           /\ next = IF work.k = Len(Files) THEN "assemble" ELSE "read"
           /\ work' = [step |-> next, sign |-> work.sign, got |-> read, k |-> work.k + 1,
                       build |-> work.build, run |-> work.run]
<1> DEFINE f == Files[work.k]
           there == work.got[f] = Unread /\ files[f] # Absent
           next == IF work.k = Len(Files) THEN "assemble" ELSE "read"
<1>1. f \in FileSet
  BY DEF ReadFile, IInv, FileSet
<1>2. PICK content :
        /\ IF there THEN content = files[f] \/ (content = Unread /\ faults' = faults + 1)
           ELSE content = work.got[f]
        /\ Read(f, content)
  BY DEF ReadFile, Fault
<1>3. work' = [work EXCEPT !.got = [work.got EXCEPT ![f] = content], !.k = work.k + 1, !.step = next]
  BY <1>2 DEF Read, IInv, Light, WorkIsRecord
<1>4. work' = [step |-> next, sign |-> work.sign, got |-> [work.got EXCEPT ![f] = content],
               k |-> work.k + 1, build |-> work.build, run |-> work.run]
  BY <1>3 DEF IInv, Light, WorkIsRecord
<1> HIDE DEF f, next
<1> QED  BY <1>1, <1>2, <1>4 DEF f, next

\* One file is read: the ones before it stay read, the others as listed.
LEMMA ReadFileInv ==
  ASSUME IInv, ReadFile
  PROVE  IInv'
<1>1. PICK f, content, read, next :
      /\ f = Files[work.k] /\ f \in FileSet
      /\ IF work.got[f] = Unread /\ files[f] # Absent
         THEN content = files[f] \/ (content = Unread /\ faults' = faults + 1)
         ELSE content = work.got[f]
      /\ read = [work.got EXCEPT ![f] = content]
      /\ next = IF work.k = Len(Files) THEN "assemble" ELSE "read"
      /\ work' = [step |-> next, sign |-> work.sign, got |-> read, k |-> work.k + 1,
                  build |-> work.build, run |-> work.run]
  BY ReadFileFields
<1>2. work.step = "read" /\ UNCHANGED <<files, edits, signature, seen>>
  BY DEF ReadFile
<1>3. /\ work.k \in 1 .. Len(Files) /\ Len(Files) \in Nat
      /\ \A k \in 1 .. Len(Files) : Files[k] \in FileSet /\ (Files[k] = f => k = work.k)
  <2>1. \A j, k \in 1 .. Len(Files) : Files[j] = Files[k] => j = k
    BY RebuildAssumption DEF IsInjective
  <2> QED  BY <1>1, <1>2, <2>1, RebuildAssumption DEF IInv, FileSet
<1>4. read \in [FileSet -> Readings]
  BY <1>1 DEF IInv, Light, Readings
<1>5. faults \in Nat /\ faults' \in Nat /\ (faults > 0 => faults' > 0)
      /\ \A g, r : TrueReading(g, r) => TrueReading(g, r)'
  BY <1>2, FaultsGrow, ReadingStays DEF Next, IInv, Light
<1>6. ASSUME work.sign = edits, NEW k \in 1 .. Len(Files)
      PROVE  IF k < work.k + 1 THEN TrueReading(Files[k], read[Files[k]])'
             ELSE \/ read[Files[k]] = IF files[Files[k]] = Absent THEN Absent ELSE Unread
                  \/ read[Files[k]] = Unlisted /\ faults' > 0
  <2>1. IF k < work.k THEN AsRead(k) ELSE AsListed(k)
    BY <1>2, <1>6 DEF IInv, FreshRead
  <2>2. CASE k = work.k
    <3>1. read[f] = content
      BY <1>1 DEF IInv, Light
    <3>2. TrueReading(f, content)'
      BY <1>1, <1>2, <1>3, <1>5, <2>1, <2>2 DEF AsListed, TrueReading
    <3>3. k < work.k + 1 /\ Files[k] = f /\ read' = read
      BY <1>1, <1>3, <2>2
    <3> QED  BY <3>1, <3>2, <3>3
  <2>3. CASE k # work.k
    <3>1. read[Files[k]] = work.got[Files[k]]
      BY <1>1, <1>3, <2>3 DEF IInv, Light
    <3>2. k \in Int /\ work.k \in Int
      BY <1>3
    <3>3. CASE k < work.k
      BY <1>5, <2>1, <3>1, <3>2, <3>3 DEF AsRead
    <3>4. CASE ~(k < work.k)
      BY <1>5, <2>1, <2>3, <3>1, <3>2, <3>4 DEF AsListed
    <3> QED  BY <3>3, <3>4
  <2> QED  BY <2>2, <2>3
<1>7. FreshRead'
  <2>1. CASE next = "read"
    BY <1>1, <1>2, <1>6, <2>1 DEF FreshRead, AsRead, AsListed
  <2>2. CASE next # "read"
    <3>1. work.k = Len(Files) /\ next = "assemble"
      BY <1>1, <2>2
    <3>2. ASSUME work.sign = edits, NEW g \in FileSet
          PROVE  TrueReading(g, read[g])'
      <4>1. PICK k \in 1 .. Len(Files) : g = Files[k]
        BY DEF FileSet
      <4> QED  BY <1>3, <1>6, <3>1, <3>2, <4>1
    <3> QED  BY <1>1, <1>2, <3>1, <3>2 DEF FreshRead
  <2> QED  BY <2>1, <2>2
<1>8. Light'
  <2>1. next \in {"read", "assemble"} /\ work.k + 1 \in Nat
    BY <1>1, <1>3
  <2> QED  BY <1>1, <1>2, <1>4, <1>5, <2>1 DEF IInv, Light, WorkIsRecord
<1>9. /\ (work.step \in {"idle", "list"} => work.k = 1)'
      /\ (work.step = "read" => work.k \in 1 .. Len(Files))'
  BY <1>1, <1>2, <1>3
<1>10. QuietMeansCurrent' /\ signature' <= edits' /\ work'.sign <= edits'
  BY <1>1, <1>2, <1>5 DEF IInv, QuietMeansCurrent
<1> QED  BY <1>7, <1>8, <1>9, <1>10 DEF IInv

\* The build is made of what was read, whatever it is.
LEMMA AssembleInv ==
  ASSUME IInv, Assemble
  PROVE  IInv'
<1>1. PICK new, run :
      /\ work' = [work EXCEPT !.step = "commit", !.build = new, !.run = run]
      /\ work.step = "assemble" /\ UNCHANGED <<files, edits, signature, seen, faults>>
  BY DEF Assemble
<1>2. work' = [step |-> "commit", sign |-> work.sign, got |-> work.got, k |-> work.k,
               build |-> new, run |-> run]
  BY <1>1 DEF IInv, Light, WorkIsRecord
<1> QED  BY <1>1, <1>2
         DEF IInv, Light, WorkIsRecord, QuietMeansCurrent, FreshRead, TrueReading

\* An edit: no signature taken before it is the directory's any more.
LEMMA EditInv ==
  ASSUME IInv, Edit
  PROVE  IInv'
<1>1. edits' = edits + 1 /\ files' \in [FileSet -> Ours]
      /\ UNCHANGED <<signature, work, seen, faults>>
  BY DEF Edit, IInv, Light
<1> QED  BY <1>1 DEF IInv, Light, WorkIsRecord, QuietMeansCurrent, FreshRead

\* Every step keeps what is known of the reading.
LEMMA ReadingInv == IInv /\ [Next]_vars => IInv'
<1> SUFFICES ASSUME IInv, [Next]_vars
             PROVE  IInv'
  OBVIOUS
<1>1. CASE Begin \/ MakeFails \/ Commit \/ LateFailure \/ Exit
  BY <1>1, IdleStepInv
<1>2. CASE List \/ ReadFile \/ Assemble \/ Edit
  BY <1>2, ListInv, ReadFileInv, AssembleInv, EditInv
<1>3. CASE MigrateStore
  BY <1>3 DEF MigrateStore, IInv, Light, WorkIsRecord, QuietMeansCurrent, FreshRead,
              AsRead, AsListed, TrueReading
<1>4. CASE UNCHANGED vars
  BY <1>4 DEF vars, IInv, Light, WorkIsRecord, QuietMeansCurrent, FreshRead, AsRead, AsListed,
              TrueReading
<1> QED  BY <1>1, <1>2, <1>3, <1>4 DEF Next
-----------------------------------------------------------------------------
(* What a pipeline is built as *)

Origins == FileSet \cup {Legacy}

\* A pipeline per entry and origin: an unchanged entry keeps its own, and a new
\* one is none that is open.
LEMMA PipeFacts ==
  ASSUME NEW e \in Entries, NEW f \in Origins, build.pipes \subseteq open,
         open \subseteq Pipelines, IsFiniteSet(open)
  PROVE  /\ Pipe(e, f) \in Pipelines /\ Pipe(e, f).entry = e /\ Pipe(e, f).origin = f
         /\ Pooled(e, f) # {} => Pipe(e, f) \in build.pipes
         /\ Pooled(e, f) = {} => Pipe(e, f) \notin open
<1>1. CASE Pooled(e, f) # {}
  <2>1. Pipe(e, f) \in Pooled(e, f)
    BY <1>1 DEF Pipe
  <2> QED  BY <1>1, <2>1 DEF Pooled
<1>2. CASE Pooled(e, f) = {}
  <2> DEFINE P(o) == [entry |-> e, origin |-> f, object |-> o]
             n == Cardinality(open)
  <2>1. n \in Nat
    BY FS_CardinalityType
  <2>2. \E o \in 0 .. n : P(o) \notin open
    <3>1. SUFFICES ASSUME \A o \in 0 .. n : P(o) \in open
                   PROVE  FALSE
      OBVIOUS
    <3> DEFINE F == [o \in 0 .. n |-> P(o)]
    <3>2. F \in Injection(0 .. n, open)
      <4>1. F \in [0 .. n -> open]
        BY <3>1
      <4>2. \A a, b \in 0 .. n : F[a] = F[b] => a = b
        OBVIOUS
      <4> HIDE DEF F
      <4>3. DOMAIN F = 0 .. n
        BY <4>1
      <4> QED  BY <4>1, <4>2, <4>3 DEF Injection, IsInjective
    <3>3. Cardinality(0 .. n) = n + 1
      BY <2>1, FS_Interval
    <3>4. Cardinality(0 .. n) <= n
      <4> HIDE DEF F
      <4> QED  BY <3>2, FS_Injection
    <3> QED  BY <2>1, <3>3, <3>4
  <2>3. NewObject(e, f) \in 0 .. n /\ P(NewObject(e, f)) \notin open
    BY <2>2 DEF NewObject
  <2>4. Pipe(e, f) = P(NewObject(e, f))
    BY <1>2 DEF Pipe
  <2>5. NewObject(e, f) \in Nat
    BY <2>1, <2>3
  <2>6. Pipe(e, f) \in Pipelines
    BY <2>4, <2>5 DEF Pipelines, Origins
  <2> QED  BY <1>2, <2>3, <2>4, <2>6
<1> QED  BY <1>1, <1>2
-----------------------------------------------------------------------------
(* What a build is made of *)

\* Two pipelines with one name or one send record both come from the manifest.
NoClash(S) ==
  \A p, q \in S : p # q /\ Collides(p.entry, q.entry) => p.origin = Legacy /\ q.origin = Legacy

\* A build holds a pipeline for each entry of the contents it remembers, and no
\* other of a file.
Sound(b) ==
  /\ \A p \in b.pipes : p.origin # Legacy =>
       b.good[p.origin] # None /\ p.entry \in b.good[p.origin]
  /\ \A f \in FileSet : b.good[f] # None =>
       \A e \in b.good[f] : \E p \in b.pipes : p.entry = e /\ p.origin = f
  /\ \A p, q \in b.pipes : p.entry = q.entry /\ p.origin = q.origin => p = q
  /\ NoClash(b.pipes)

\* What a rebuild starts from.
Ready ==
  /\ build \in Builds /\ Sound(build)
  /\ build.pipes \subseteq open /\ open \subseteq Pipelines /\ IsFiniteSet(open)

\* The same of the build that grows, whose pipelines are those of Pipe.
Growing(acc) ==
  /\ acc \in Builds
  /\ \A p \in acc.pipes : /\ p = Pipe(p.entry, p.origin)
                          /\ p.origin # Legacy =>
                               acc.good[p.origin] # None /\ p.entry \in acc.good[p.origin]
  /\ \A f \in FileSet : acc.good[f] # None => \A e \in acc.good[f] : Pipe(e, f) \in acc.pipes
  /\ NoClash(acc.pipes)

\* Entries, origins and what they are made of.
LEMMA EntryFacts ==
  /\ \A c \in Contents : c \subseteq Entries /\ c # None
  /\ \A f \in FileSet : f \in Origins /\ f # Legacy
  /\ Legacy \in Origins
  /\ \A p \in Pipelines : p.entry \in Entries /\ p.origin \in Origins
<1>1. \A c \in Contents : c \subseteq Entries /\ c # None
  BY RebuildAssumption DEF Entries
<1>2. \A f \in FileSet : f \in Origins /\ f # Legacy
  BY RebuildAssumption DEF Origins
<1>3. Legacy \in Origins /\ \A p \in Pipelines : p.entry \in Entries /\ p.origin \in Origins
  BY DEF Origins, Pipelines
<1> QED  BY <1>1, <1>2, <1>3

\* PipeFacts for every entry and origin at once.
LEMMA PipesAreNamed ==
  ASSUME Ready
  PROVE  \A e \in Entries, f \in Origins :
           /\ Pipe(e, f) \in Pipelines /\ Pipe(e, f).entry = e /\ Pipe(e, f).origin = f
           /\ Pooled(e, f) # {} => Pipe(e, f) \in build.pipes
           /\ Pooled(e, f) = {} => Pipe(e, f) \notin open
BY PipeFacts DEF Ready

\* The fields of what a file's turn makes of a build.
LEMMA JoinedFields ==
  ASSUME NEW acc \in Builds, NEW f \in FileSet, NEW entries, NEW good
  PROVE  Joined(acc, f, entries, good) =
           [pipes |-> acc.pipes \cup {Pipe(e, f) : e \in entries},
            good |-> [acc.good EXCEPT ![f] = good], dead |-> acc.dead, refused |-> acc.refused]
<1>1. acc = [pipes |-> acc.pipes, good |-> acc.good, dead |-> acc.dead, refused |-> acc.refused]
  BY DEF Builds
<1>2. PICK pipes, goods : /\ pipes = acc.pipes \cup {Pipe(e, f) : e \in entries}
                         /\ goods = [acc.good EXCEPT ![f] = good]
  OBVIOUS
<1>3. Joined(acc, f, entries, good) = [acc EXCEPT !.pipes = pipes, !.good = goods]
  BY <1>2, Zenon DEF Joined
<1>4. Joined(acc, f, entries, good) =
        [pipes |-> pipes, good |-> goods, dead |-> acc.dead, refused |-> acc.refused]
  BY <1>1, <1>3
<1> QED  BY <1>2, <1>4

\* Contents that fit join a build without disturbing what it holds.
LEMMA JoinedGrows ==
  ASSUME Ready, NEW acc, Growing(acc), NEW f \in FileSet, acc.good[f] = None,
         NEW entries \in Contents, NEW fails, Fits(entries, f, acc.pipes, fails)
  PROVE  Growing(Joined(acc, f, entries, entries))
<1> DEFINE new == {Pipe(e, f) : e \in entries}
           b == Joined(acc, f, entries, entries)
<1>1. acc \in Builds /\ acc.pipes \subseteq Pipelines
      /\ acc.good \in [FileSet -> Contents \cup {None}]
      /\ acc.dead \subseteq Entries /\ acc.refused \subseteq FileSet
  BY DEF Growing, Builds
<1>2. /\ b = [pipes |-> acc.pipes \cup new, good |-> [acc.good EXCEPT ![f] = entries],
              dead |-> acc.dead, refused |-> acc.refused]
  BY <1>1, JoinedFields
<1>3. /\ entries \subseteq Entries /\ entries # None /\ f \in Origins /\ f # Legacy
  BY EntryFacts
<1>4. \A e \in entries : Pipe(e, f) \in Pipelines /\ Pipe(e, f).entry = e /\ Pipe(e, f).origin = f
  BY <1>3, PipesAreNamed
<1>5. /\ new \subseteq Pipelines
      /\ \A p \in new : p.origin = f /\ p.entry \in entries /\ p = Pipe(p.entry, f)
  BY <1>4
<1>6. \A e \in entries : Pipe(e, f) \in new
  OBVIOUS
<1> HIDE DEF new, b
<1>7. b.pipes = acc.pipes \cup new /\ b.good = [acc.good EXCEPT ![f] = entries]
  BY <1>2
<1>8. b \in Builds
  <2>1. [acc.good EXCEPT ![f] = entries] \in [FileSet -> Contents \cup {None}]
    BY <1>1
  <2> QED  BY <1>1, <1>2, <1>5, <2>1 DEF Builds
<1>9. \A g \in FileSet : b.good[g] = IF g = f THEN entries ELSE acc.good[g]
  BY <1>1, <1>7
<1>10. \A p \in acc.pipes : p.origin # f
  BY <1>3 DEF Growing
<1>11. \A p \in b.pipes : /\ p = Pipe(p.entry, p.origin)
                          /\ p.origin # Legacy =>
                               b.good[p.origin] # None /\ p.entry \in b.good[p.origin]
  <2>1. ASSUME NEW p \in acc.pipes, p.origin # Legacy
        PROVE  b.good[p.origin] = acc.good[p.origin]
    <3>1. p.origin \in FileSet
      BY <1>1, <2>1 DEF Pipelines
    <3> QED  BY <1>9, <1>10, <3>1
  <2>2. \A p \in acc.pipes : /\ p = Pipe(p.entry, p.origin)
                             /\ p.origin # Legacy =>
                                  acc.good[p.origin] # None /\ p.entry \in acc.good[p.origin]
    BY DEF Growing
  <2>3. \A p \in new : b.good[p.origin] # None /\ p.entry \in b.good[p.origin]
    BY <1>3, <1>5, <1>9
  <2> QED  BY <1>5, <1>7, <2>1, <2>2, <2>3
<1>12. ASSUME NEW g \in FileSet, b.good[g] # None, NEW e \in b.good[g]
       PROVE  Pipe(e, g) \in b.pipes
  BY <1>6, <1>7, <1>9, <1>12 DEF Growing
<1>13. NoClash(b.pipes)
  <2>1. ASSUME NEW p \in acc.pipes, NEW q \in new
        PROVE  ~Collides(p.entry, q.entry) /\ ~Collides(q.entry, p.entry)
    BY <1>5 DEF Fits, Collides
  <2>2. ASSUME NEW p \in new, NEW q \in new, p # q
        PROVE  ~Collides(p.entry, q.entry)
    <3>1. p.entry # q.entry
      BY <1>5, <2>2
    <3> QED  BY <1>5, <3>1 DEF Fits, Collides
  <2>3. \A p, q \in acc.pipes : p # q /\ Collides(p.entry, q.entry) =>
                               p.origin = Legacy /\ q.origin = Legacy
    BY DEF Growing, NoClash
  <2> QED  BY <1>7, <2>1, <2>2, <2>3 DEF NoClash
<1> QED  BY <1>8, <1>11, <1>12, <1>13 DEF Growing, b
-----------------------------------------------------------------------------
(* One file's turn *)

\* What became of a file that had contents: they were accepted, or what it
\* last built is kept, or something else holds a name or a key it needs --
\* which, if the file did not change, is an entry of the manifest.
Settled(acc, f, got) ==
  f \in Present(got) /\ build.good[f] # None =>
    \/ got[f] \in Contents /\ f \notin acc.refused /\ acc.good[f] = got[f]
    \/ acc.good[f] = build.good[f]
    \/ \E q \in acc.pipes, e \in build.good[f] :
         q.origin # f /\ Collides(q.entry, e) /\ (got[f] = build.good[f] => q.origin = Legacy)

\* The contents a file last built: they have their pipelines, and do not clash.
LEMMA LastBuilt ==
  ASSUME Ready, NEW f \in FileSet, build.good[f] # None
  PROVE  /\ build.good[f] \in Contents
         /\ \A e \in build.good[f] : Pooled(e, f) # {} /\ Pipe(e, f) \in build.pipes
         /\ \A d, e \in build.good[f] : d # e => ~Collides(d, e)
<1>1. build.good[f] \in Contents
  BY DEF Ready, Builds
<1>2. ASSUME NEW e \in build.good[f]
      PROVE  Pooled(e, f) # {} /\ Pipe(e, f) \in build.pipes /\ Pipe(e, f).entry = e
             /\ Pipe(e, f).origin = f
  <2>1. Pooled(e, f) # {}
    BY DEF Ready, Sound, Pooled
  <2>2. e \in Entries /\ f \in Origins
    BY <1>1, EntryFacts
  <2> QED  BY <2>1, <2>2, PipesAreNamed
<1>3. ASSUME NEW d \in build.good[f], NEW e \in build.good[f], d # e, Collides(d, e)
      PROVE  FALSE
  <2>1. Pipe(d, f) # Pipe(e, f)
    BY <1>2, <1>3
  <2> QED  BY <1>2, <1>3, <2>1, EntryFacts DEF Ready, Sound, NoClash
<1> QED  BY <1>1, <1>2, <1>3

\* A refusal is recorded, and nothing else.
LEMMA RefusedGrows ==
  ASSUME NEW acc, Growing(acc), NEW f \in FileSet
  PROVE  LET b == [acc EXCEPT !.refused = @ \cup {f}]
         IN  /\ Growing(b) /\ b.pipes = acc.pipes /\ b.good = acc.good
             /\ b.refused = acc.refused \cup {f}
<1> DEFINE b == [acc EXCEPT !.refused = @ \cup {f}]
<1>1. acc = [pipes |-> acc.pipes, good |-> acc.good, dead |-> acc.dead, refused |-> acc.refused]
      /\ acc \in Builds /\ acc.refused \subseteq FileSet
  BY DEF Growing, Builds
<1>2. b = [pipes |-> acc.pipes, good |-> acc.good, dead |-> acc.dead,
           refused |-> acc.refused \cup {f}]
  BY <1>1
<1> HIDE DEF b
<1>3. b \in Builds /\ b.pipes = acc.pipes /\ b.good = acc.good
      /\ b.refused = acc.refused \cup {f}
  BY <1>1, <1>2 DEF Builds
<1>4. Growing(b)
  BY <1>3 DEF Growing
<1> QED  BY <1>3, <1>4 DEF b

\* What Joined adds to a build.
LEMMA JoinedAdds ==
  ASSUME NEW acc \in Builds, NEW f \in FileSet, NEW entries
  PROVE  LET b == Joined(acc, f, entries, entries)
         IN  /\ b.pipes = acc.pipes \cup {Pipe(e, f) : e \in entries}
             /\ b.refused = acc.refused /\ b.good[f] = entries
             /\ \A g \in FileSet \ {f} : b.good[g] = acc.good[g]
<1> DEFINE new == {Pipe(e, f) : e \in entries}
<1>1. Joined(acc, f, entries, entries) =
        [pipes |-> acc.pipes \cup new, good |-> [acc.good EXCEPT ![f] = entries],
         dead |-> acc.dead, refused |-> acc.refused]
  BY JoinedFields
<1>2. acc.good \in [FileSet -> Contents \cup {None}]
  BY DEF Builds
<1> HIDE DEF new
<1>3. LET b == Joined(acc, f, entries, entries)
      IN  /\ b.pipes = acc.pipes \cup new
          /\ b.refused = acc.refused /\ b.good[f] = entries
          /\ \A g \in FileSet \ {f} : b.good[g] = acc.good[g]
  BY <1>1, <1>2
<1> QED  BY <1>3 DEF new

\* What a file's turn changes: the pipelines it adds, and what is known of it.
TurnOf(acc, b, f, got) ==
  /\ Growing(b) /\ acc.pipes \subseteq b.pipes
  /\ \A g \in FileSet \ {f} : b.good[g] = acc.good[g] /\ (g \in b.refused <=> g \in acc.refused)
  /\ Unchanged(f, got) => \A p \in b.pipes \ acc.pipes : p \in build.pipes
  /\ (Unchanged(f, got) => \A p \in acc.pipes : p.origin # Legacy => p \in build.pipes)
       => Settled(b, f, got)

\* The turn of a file that had none: every way _admit may end.
LEMMA AdmitTurn ==
  ASSUME Ready, NEW acc, Growing(acc), NEW f \in FileSet, acc.good[f] = None,
         f \notin acc.refused, NEW got \in [FileSet -> Readings], NEW fails
  PROVE  TurnOf(acc, Admit(acc, f, got, fails), f, got)
<1> DEFINE b == Admit(acc, f, got, fails)
           last == build.good[f]
<1> SUFFICES TurnOf(acc, b, f, got)
  OBVIOUS
<1>1. CASE f \notin Present(got)
  <2>1. b = acc
    <3>1. ~(f \in Present(got)) /\ got[f] \notin Contents
      BY <1>1, RebuildAssumption DEF Present
    <3> QED  BY <1>1, <3>1 DEF Admit
  <2> HIDE DEF b
  <2> QED  BY <1>1, <2>1 DEF TurnOf, Settled
<1>2. CASE f \in Present(got) /\ got[f] \in Contents /\ Fits(got[f], f, acc.pipes, fails)
  <2> DEFINE now == got[f]
  <2>1. b = Joined(acc, f, now, now)
    BY <1>2 DEF Admit
  <2>2. Growing(Joined(acc, f, now, now)) /\ acc \in Builds
    BY <1>2, JoinedGrows DEF Growing
  <2>3. /\ b.pipes = acc.pipes \cup {Pipe(e, f) : e \in now}
        /\ b.refused = acc.refused /\ b.good[f] = now
        /\ \A g \in FileSet \ {f} : b.good[g] = acc.good[g]
    BY <2>1, <2>2, JoinedAdds
  <2>4. ASSUME Unchanged(f, got), NEW p \in b.pipes \ acc.pipes
        PROVE  p \in build.pipes
    <3>1. now = last /\ last # None
      BY <1>2, <2>4, EntryFacts DEF Unchanged
    <3>2. \A e \in last : Pipe(e, f) \in build.pipes
      BY <3>1, LastBuilt
    <3> HIDE DEF b, now, last
    <3> QED  BY <2>3, <2>4, <3>1, <3>2
  <2>5. Growing(b)
    BY <2>1, <2>2
  <2> HIDE DEF b
  <2> QED  BY <1>2, <2>3, <2>4, <2>5 DEF TurnOf, Settled
<1>3. CASE /\ f \in Present(got) /\ ~(got[f] \in Contents /\ Fits(got[f], f, acc.pipes, fails))
           /\ last # None /\ Fits(last, f, acc.pipes, fails)
  <2> DEFINE c == Joined(acc, f, last, last)
  <2>1. b = [c EXCEPT !.refused = @ \cup {f}]
    BY <1>3 DEF Admit, Remembered
  <2>2. Growing(c) /\ acc \in Builds
    BY <1>3, LastBuilt, JoinedGrows DEF Growing
  <2>3. /\ c.pipes = acc.pipes \cup {Pipe(e, f) : e \in last}
        /\ c.refused = acc.refused /\ c.good[f] = last
        /\ \A g \in FileSet \ {f} : c.good[g] = acc.good[g]
    BY <2>2, JoinedAdds
  <2> HIDE DEF c
  <2>4. Growing(b) /\ b.pipes = c.pipes /\ b.good = c.good /\ b.refused = c.refused \cup {f}
    BY <2>1, <2>2, RefusedGrows
  <2>5. \A e \in last : Pipe(e, f) \in build.pipes
    BY <1>3, LastBuilt
  <2> HIDE DEF b
  <2> QED  BY <2>3, <2>4, <2>5 DEF TurnOf, Settled
<1>4. CASE /\ f \in Present(got) /\ ~(got[f] \in Contents /\ Fits(got[f], f, acc.pipes, fails))
           /\ ~(last # None /\ Fits(last, f, acc.pipes, fails))
  <2>1. b = [acc EXCEPT !.refused = @ \cup {f}]
    BY <1>4 DEF Admit
  <2>2. Growing(b) /\ b.pipes = acc.pipes /\ b.good = acc.good /\ b.refused = acc.refused \cup {f}
    BY <2>1, RefusedGrows
  <2>3. ASSUME last # None,
               Unchanged(f, got) => \A p \in acc.pipes : p.origin # Legacy => p \in build.pipes
        PROVE  \E q \in acc.pipes, e \in last :
                 q.origin # f /\ Collides(q.entry, e) /\ (got[f] = last => q.origin = Legacy)
    <3>1. /\ last \in Contents
          /\ \A e \in last : Pooled(e, f) # {} /\ Pipe(e, f) \in build.pipes
          /\ \A d, e \in last : d # e => ~Collides(d, e)
      BY <2>3, LastBuilt
    <3>2. PICK e \in last, q \in acc.pipes : Collides(q.entry, e)
      BY <1>4, <2>3, <3>1 DEF Fits
    <3>3. q.origin # f
      BY EntryFacts DEF Growing
    <3>4. ASSUME got[f] = last, q.origin # Legacy
          PROVE  FALSE
      <4>1. q \in build.pipes
        BY <2>3, <3>1, <3>4 DEF Unchanged
      <4>2. Pipe(e, f) \in build.pipes /\ Pipe(e, f).entry = e /\ Pipe(e, f).origin = f
        BY <3>1, EntryFacts, PipesAreNamed
      <4>3. q # Pipe(e, f)
        BY <3>3, <4>2
      <4> QED  BY <3>2, <3>4, <4>1, <4>2, <4>3 DEF Ready, Sound, NoClash
    <3> QED  BY <3>2, <3>3, <3>4
  <2> HIDE DEF b
  <2> QED  BY <2>2, <2>3 DEF TurnOf, Settled
<1> QED  BY <1>1, <1>2, <1>3, <1>4
-----------------------------------------------------------------------------
(* The turns of all the files: _assemble *)

\* A set of naturals has a least member.
LEMMA LeastExists ==
  ASSUME NEW S \in SUBSET Nat, S # {}
  PROVE  \E x \in S : \A y \in S : x <= y
<1> DEFINE R == OpToRel(<, Nat)
<1>1. IsWellFoundedOn(R, Nat)
  BY NatLessThanWellFounded
<1>2. \E x \in S : \A y \in S : ~(<<y, x>> \in R)
  <2> HIDE DEF R
  <2> QED  BY <1>1, WFMin, Zenon
<1>3. PICK x \in S : \A y \in S : ~(<<y, x>> \in R)
  BY <1>2
<1>4. ASSUME NEW y \in S
      PROVE  x <= y
  <2>1. ~(<<y, x>> \in {ss \in Nat \X Nat : ss[1] < ss[2]})
    BY <1>3 DEF OpToRel
  <2>2. ~(y < x)
    BY <2>1
  <2> QED  BY <2>2
<1> QED  BY <1>4

\* The recursion of Assembled, and its solutions up to n.
TurnBody(got, fails, g, k) ==
  IF k = 0
  THEN ManifestBuild(got, fails)
  ELSE IF InTurn(FileOf(k), k <= Len(Files), got)
  THEN Admit(g[k - 1], FileOf(k), got, fails)
  ELSE g[k - 1]
AreTurns(got, fails, g, n) == g = [k \in 0 .. n |-> TurnBody(got, fails, g, k)]

\* There is a solution: the least n without one would follow one that has it.
LEMMA TurnsExist ==
  ASSUME NEW got, NEW fails, NEW n \in Nat
  PROVE  \E g : AreTurns(got, fails, g, n)
<1> DEFINE Bad == {m \in Nat : ~\E g : AreTurns(got, fails, g, m)}
<1>1. SUFFICES ASSUME Bad # {}
               PROVE  FALSE
  OBVIOUS
<1>2. PICK m \in Bad : \A l \in Bad : m <= l
  <2>1. Bad \in SUBSET Nat
    OBVIOUS
  <2> HIDE DEF Bad
  <2> QED  BY <1>1, <2>1, LeastExists
<1>3. CASE m = 0
  <2> DEFINE base == ManifestBuild(got, fails)
             g == [k \in 0 .. 0 |-> base]
  <2>1. \A k \in 0 .. 0 : TurnBody(got, fails, g, k) = base
    BY DEF TurnBody
  <2>2. AreTurns(got, fails, g, 0)
    <3> HIDE DEF base
    <3> QED  BY <2>1 DEF AreTurns
  <2> QED  BY <1>3, <2>2
<1>4. CASE m # 0
  <2>1. m - 1 \in Nat /\ m - 1 \notin Bad
    BY <1>2, <1>4
  <2>2. PICK g : AreTurns(got, fails, g, m - 1)
    BY <2>1
  <2> DEFINE h == [k \in 0 .. m |-> IF k < m THEN g[k] ELSE TurnBody(got, fails, g, m)]
  <2>3. ASSUME NEW k \in 0 .. m
        PROVE  h[k] = TurnBody(got, fails, h, k)
    <3>1. k # 0 => k - 1 \in 0 .. m /\ k - 1 < m /\ h[k - 1] = g[k - 1]
      OBVIOUS
    <3>2. TurnBody(got, fails, h, k) = TurnBody(got, fails, g, k)
      <4> HIDE DEF h
      <4> QED  BY <3>1 DEF TurnBody
    <3>3. k < m => g[k] = TurnBody(got, fails, g, k)
      <4>1. k < m => k \in 0 .. m - 1
        OBVIOUS
      <4> QED  BY <2>2, <4>1 DEF AreTurns
    <3>4. h[k] = IF k < m THEN g[k] ELSE TurnBody(got, fails, g, m)
      OBVIOUS
    <3>5. k < m \/ k = m
      OBVIOUS
    <3> HIDE DEF h
    <3> QED  BY <3>2, <3>3, <3>4, <3>5
  <2>4. AreTurns(got, fails, h, m)
    <3>1. h = [k \in 0 .. m |-> h[k]]
      OBVIOUS
    <3> HIDE DEF h
    <3> QED  BY <2>3, <3>1 DEF AreTurns
  <2> QED  BY <1>2, <2>4
<1> QED  BY <1>3, <1>4

\* Assembled is the last turn of a solution.
LEMMA AssembledIsLast ==
  ASSUME NEW got, NEW fails
  PROVE  \E g : AreTurns(got, fails, g, 2 * Len(Files))
                /\ Assembled(got, fails) = g[2 * Len(Files)]
<1> DEFINE n == 2 * Len(Files)
           turn == CHOOSE g : AreTurns(got, fails, g, n)
<1>1. n \in Nat
  BY RebuildAssumption
<1>2. AreTurns(got, fails, turn, n)
  <2> HIDE DEF n
  <2> QED  BY <1>1, TurnsExist
<1>3. Assembled(got, fails) = turn[n]
  BY DEF Assembled, AreTurns, TurnBody
<1> QED  BY <1>2, <1>3

\* A file had its turn by the k-th.
HadTurn(f, k, got) ==
  \E i \in 1 .. k : FileOf(i) = f /\ InTurn(f, i <= Len(Files), got)

\* The turns are files, and a file's turn is its only one.
LEMMA OneTurnEach ==
  ASSUME NEW got, NEW k \in 1 .. 2 * Len(Files)
  PROVE  /\ FileOf(k) \in FileSet
         /\ InTurn(FileOf(k), k <= Len(Files), got) => ~HadTurn(FileOf(k), k - 1, got)
<1>1. Len(Files) \in Nat /\ \A i, j \in 1 .. Len(Files) : Files[i] = Files[j] => i = j
  BY RebuildAssumption DEF IsInjective
<1> DEFINE at(i) == IF i <= Len(Files) THEN i ELSE i - Len(Files)
<1>2. \A i \in 1 .. 2 * Len(Files) : at(i) \in 1 .. Len(Files) /\ FileOf(i) = Files[at(i)]
  BY <1>1 DEF FileOf
<1>3. ASSUME InTurn(FileOf(k), k <= Len(Files), got), NEW i \in 1 .. k - 1,
             FileOf(i) = FileOf(k), InTurn(FileOf(k), i <= Len(Files), got)
      PROVE  FALSE
  <2>1. i \in 1 .. 2 * Len(Files) /\ i # k
    BY <1>1
  <2>2. (i <= Len(Files)) = (k <= Len(Files))
    BY <1>3 DEF InTurn, Unchanged
  <2>3. at(i) = at(k)
    BY <1>1, <1>2, <1>3, <2>1
  <2> QED  BY <1>1, <2>1, <2>2, <2>3
<1> QED  BY <1>2, <1>3 DEF FileSet, HadTurn

\* After both passes every file had its turn.
LEMMA EveryTurn ==
  ASSUME NEW got, NEW f \in FileSet
  PROVE  HadTurn(f, 2 * Len(Files), got)
<1>1. PICK k \in 1 .. Len(Files) : Files[k] = f
  BY DEF FileSet
<1>2. Len(Files) \in Nat
  BY RebuildAssumption
<1>3. CASE Unchanged(f, got)
  <2>1. k \in 1 .. 2 * Len(Files) /\ k <= Len(Files) /\ FileOf(k) = f
    BY <1>1, <1>2 DEF FileOf
  <2> QED  BY <1>3, <2>1 DEF HadTurn, InTurn
<1>4. CASE ~Unchanged(f, got)
  <2> DEFINE l == k + Len(Files)
  <2>1. l \in 1 .. 2 * Len(Files) /\ ~(l <= Len(Files)) /\ FileOf(l) = f
    BY <1>1, <1>2 DEF FileOf
  <2>2. InTurn(f, l <= Len(Files), got)
    BY <1>4, <2>1 DEF InTurn, Unchanged
  <2> HIDE DEF l
  <2> QED  BY <2>1, <2>2 DEF HadTurn
<1> QED  BY <1>3, <1>4

\* The build after k turns: only unchanged files came first, a file's contents
\* and refusal wait for its turn, and what its turn settled stays so.
GoodAfter(acc, k, got) ==
  /\ Growing(acc)
  /\ k <= Len(Files) => \A p \in acc.pipes : p.origin # Legacy => p \in build.pipes
  /\ \A f \in FileSet : ~HadTurn(f, k, got) => acc.good[f] = None /\ f \notin acc.refused
  /\ \A f \in FileSet : HadTurn(f, k, got) => Settled(acc, f, got)

\* Before the first turn it holds the manifest's pipelines.
LEMMA FirstGood ==
  ASSUME Ready, NEW got, NEW fails
  PROVE  GoodAfter(ManifestBuild(got, fails),
                   0, got)
<1> DEFINE P == LegacyPipes(got, fails)
           D == Dead(got, fails)
           acc == ManifestBuild(got, fails)
<1>1. Voiced(got) \subseteq Entries
  BY DEF Voiced, Entries
<1>2. D \subseteq Entries
  BY <1>1 DEF Dead
<1>3. P \subseteq Pipelines /\ \A p \in P : p.origin = Legacy /\ p = Pipe(p.entry, p.origin)
  <2>1. ASSUME NEW e \in Voiced(got) \ D
        PROVE  Pipe(e, Legacy) \in Pipelines /\ Pipe(e, Legacy).entry = e
               /\ Pipe(e, Legacy).origin = Legacy
    BY <1>1, EntryFacts, PipesAreNamed
  <2> QED  BY <2>1 DEF LegacyPipes
<1> SUFFICES GoodAfter(acc, 0, got)
  OBVIOUS
<1> HIDE DEF P, D
<1>4. PICK goods : goods = [f \in FileSet |-> None]
  OBVIOUS
<1>5. acc = [pipes |-> P, good |-> goods, dead |-> D, refused |-> {}]
  BY <1>4 DEF ManifestBuild, NoBuild, P, D
<1> HIDE DEF acc
<1>6. acc \in Builds
  <2>1. goods \in [FileSet -> Contents \cup {None}]
    BY <1>4
  <2> QED  BY <1>2, <1>3, <1>5, <2>1 DEF Builds
<1>7. acc.pipes = P /\ acc.refused = {} /\ \A f \in FileSet : acc.good[f] = None
  BY <1>4, <1>5
<1>8. Growing(acc)
  BY <1>3, <1>6, <1>7 DEF Growing, NoClash
<1>9. \A f \in FileSet : ~HadTurn(f, 0, got)
  BY DEF HadTurn
<1> QED  BY <1>3, <1>7, <1>8, <1>9 DEF GoodAfter

\* A turn keeps what is good.
LEMMA TurnGood ==
  ASSUME Ready, NEW got \in [FileSet -> Readings], NEW fails, NEW k \in 1 .. 2 * Len(Files),
         NEW acc, GoodAfter(acc, k - 1, got),
         NEW b, b = IF InTurn(FileOf(k), k <= Len(Files), got)
                    THEN Admit(acc, FileOf(k), got, fails) ELSE acc
  PROVE  GoodAfter(b, k, got)
<1> DEFINE f == FileOf(k)
<1>1. Len(Files) \in Nat /\ k \in Int /\ f \in FileSet
  BY RebuildAssumption, OneTurnEach
<1>2. \A g \in FileSet : HadTurn(g, k, got) <=>
        HadTurn(g, k - 1, got) \/ (g = f /\ InTurn(f, k <= Len(Files), got))
  <2>1. 1 .. k = 1 .. k - 1 \cup {k}
    BY <1>1
  <2> QED  BY <2>1 DEF HadTurn
<1>3. CASE ~InTurn(f, k <= Len(Files), got)
  <2>1. b = acc
    BY <1>3
  <2>2. k <= Len(Files) => k - 1 <= Len(Files)
    BY <1>1
  <2> HIDE DEF f
  <2> QED  BY <1>2, <1>3, <2>1, <2>2 DEF GoodAfter
<1>4. CASE InTurn(f, k <= Len(Files), got)
  <2>1. b = Admit(acc, f, got, fails)
    BY <1>4
  <2>2. ~HadTurn(f, k - 1, got)
    BY <1>4, OneTurnEach
  <2> HIDE DEF f
  <2>3. Growing(acc) /\ acc.good[f] = None /\ f \notin acc.refused
    BY <1>1, <2>2 DEF GoodAfter
  <2>4. TurnOf(acc, b, f, got)
    BY <1>1, <2>1, <2>3, AdmitTurn
  <2>5. (k <= Len(Files)) = Unchanged(f, got)
    BY <1>4 DEF InTurn, Unchanged
  <2>6. k <= Len(Files) => \A p \in acc.pipes : p.origin # Legacy => p \in build.pipes
    BY <1>1 DEF GoodAfter
  <2>7. Growing(b) /\ (k <= Len(Files) => \A p \in b.pipes : p.origin # Legacy => p \in build.pipes)
    BY <2>4, <2>5, <2>6 DEF TurnOf
  <2>8. ASSUME NEW g \in FileSet, ~HadTurn(g, k, got)
        PROVE  b.good[g] = None /\ g \notin b.refused
    <3>1. g # f /\ ~HadTurn(g, k - 1, got)
      BY <1>2, <1>4, <2>8
    <3> QED  BY <2>4, <3>1 DEF TurnOf, GoodAfter
  <2>9. ASSUME NEW g \in FileSet, HadTurn(g, k, got)
        PROVE  Settled(b, g, got)
    <3>1. CASE g = f
      BY <2>4, <2>5, <2>6, <3>1 DEF TurnOf
    <3>2. CASE g # f
      <4>1. Settled(acc, g, got)
        BY <1>2, <2>9, <3>2 DEF GoodAfter
      <4>2. b.good[g] = acc.good[g] /\ (g \in b.refused <=> g \in acc.refused)
            /\ acc.pipes \subseteq b.pipes
        BY <2>4, <3>2 DEF TurnOf
      <4> QED  BY <4>1, <4>2 DEF Settled
    <3> QED  BY <3>1, <3>2
  <2> QED  BY <2>7, <2>8, <2>9 DEF GoodAfter
<1> QED  BY <1>3, <1>4

\* What _assemble returns: a sound build, whose pipelines are those of Pipe and
\* in which every file is settled.
LEMMA AssembledGood ==
  ASSUME Ready, NEW got \in [FileSet -> Readings], NEW fails
  PROVE  /\ Growing(Assembled(got, fails))
         /\ \A f \in FileSet : Settled(Assembled(got, fails), f, got)
<1> DEFINE n == 2 * Len(Files)
<1>1. PICK g : AreTurns(got, fails, g, n) /\ Assembled(got, fails) = g[n]
  BY AssembledIsLast
<1>2. n \in Nat
  BY RebuildAssumption
<1> DEFINE Bad == {k \in 0 .. n : ~GoodAfter(g[k], k, got)}
<1>3. Bad = {}
  <2>1. SUFFICES ASSUME Bad # {}
                 PROVE  FALSE
    OBVIOUS
  <2>2. PICK m \in Bad : \A l \in Bad : m <= l
    <3>1. Bad \in SUBSET Nat
      BY <1>2
    <3> HIDE DEF Bad
    <3> QED  BY <2>1, <3>1, LeastExists
  <2>3. m \in 0 .. n /\ ~GoodAfter(g[m], m, got)
    BY <2>2
  <2>4. g[m] = TurnBody(got, fails, g, m)
    <3> HIDE DEF n, Bad
    <3> QED  BY <1>1, <2>3 DEF AreTurns
  <2>5. CASE m = 0
    <3>1. g[m] = ManifestBuild(got, fails)
      BY <2>4, <2>5 DEF TurnBody
    <3> QED  BY <2>3, <2>5, <3>1, FirstGood
  <2>6. CASE m # 0
    <3>1. m \in 1 .. n /\ m - 1 \in 0 .. n /\ ~(m <= m - 1)
      BY <1>2, <2>3, <2>6
    <3>2. m - 1 \notin Bad
      <4> HIDE DEF Bad
      <4> QED  BY <2>2, <3>1
    <3>3. GoodAfter(g[m - 1], m - 1, got)
      BY <3>1, <3>2
    <3>4. g[m] = IF InTurn(FileOf(m), m <= Len(Files), got)
                 THEN Admit(g[m - 1], FileOf(m), got, fails) ELSE g[m - 1]
      BY <2>4, <2>6 DEF TurnBody
    <3>5. GoodAfter(g[m], m, got)
      BY <3>1, <3>3, <3>4, TurnGood
    <3> QED  BY <2>3, <3>5
  <2> QED  BY <2>5, <2>6
<1>4. GoodAfter(g[n], n, got)
  <2>1. n \in 0 .. n
    BY <1>2
  <2> HIDE DEF n
  <2> QED  BY <1>3, <2>1
<1>5. \A f \in FileSet : HadTurn(f, n, got)
  BY EveryTurn
<1> HIDE DEF n, Bad
<1> QED  BY <1>1, <1>4, <1>5 DEF GoodAfter
-----------------------------------------------------------------------------
(* The daemon's invariant *)

\* The rebuild that waits for its commit: its pipelines are open, the new ones
\* are not running, what runs and stays is to run, and every pipeline of a file
\* that stays is kept, or dropped or displaced for a reason.
DroppedBy(new, p) ==
  /\ work.got[p.origin] \in Contents /\ p.origin \notin new.refused
  /\ p.entry \notin work.got[p.origin]
DisplacedBy(new, f) ==
  \E q \in new.pipes, e \in build.good[f] :
    /\ q.origin # f /\ Collides(q.entry, e)
    /\ work.got[f] = build.good[f] => q.origin = Legacy
Spared(new) ==
  \A p \in build.pipes : p.origin \in Present(work.got) =>
    p \in new.pipes \/ DroppedBy(new, p) \/ DisplacedBy(new, p.origin)

Built ==
  /\ Sound(work.build) /\ work.build.pipes \subseteq open
  /\ work.run \subseteq work.build.pipes /\ running \cap work.build.pipes \subseteq work.run
  /\ \A p \in work.run : p.entry.producer => version = 2
  /\ (work.build.pipes \ build.pipes) \cap running = {}
  /\ ~late => open = running \cup build.pipes \cup work.build.pipes
  /\ Spared(work.build)

Held ==
  /\ Ready /\ running \subseteq open /\ NoClash(running)
  /\ \A p \in running : p.entry.producer => version = 2
  /\ ~late => running \subseteq build.pipes
  /\ work.step # "commit" /\ ~late => open = running \cup build.pipes
  /\ work.step = "commit" => Built

RebuildInv == IInv /\ TypeOK /\ Held

\* A build of _assemble is sound, and finite: one pipeline per entry and origin.
LEMMA GrowingIsSound ==
  ASSUME Ready, NEW acc, Growing(acc)
  PROVE  Sound(acc) /\ acc \in Builds /\ IsFiniteSet(acc.pipes)
<1>1. acc \in Builds /\ acc.pipes \subseteq Pipelines
      /\ acc.good \in [FileSet -> Contents \cup {None}]
  BY DEF Growing, Builds
<1>2. \A p, q \in acc.pipes : p.entry = q.entry /\ p.origin = q.origin => p = q
  BY DEF Growing
<1>3. ASSUME NEW f \in FileSet, acc.good[f] # None, NEW e \in acc.good[f]
      PROVE  \E p \in acc.pipes : p.entry = e /\ p.origin = f
  <2>1. e \in Entries /\ f \in Origins
    BY <1>1, <1>3, EntryFacts
  <2>2. Pipe(e, f) \in acc.pipes /\ Pipe(e, f).entry = e /\ Pipe(e, f).origin = f
    BY <1>3, <2>1, PipesAreNamed DEF Growing
  <2> QED  BY <2>2
<1>4. Sound(acc)
  BY <1>2, <1>3 DEF Growing, Sound
<1>5. IsFiniteSet(acc.pipes)
  <2> DEFINE places == Entries \X Origins
             F == [x \in places |-> Pipe(x[1], x[2])]
             T == {F[x] : x \in places}
  <2>1. IsFiniteSet(FileSet)
    <3> DEFINE G == [k \in 1 .. Len(Files) |-> Files[k]]
    <3>1. Len(Files) \in Nat
      BY RebuildAssumption
    <3>2. IsFiniteSet(1 .. Len(Files))
      BY <3>1, FS_Interval
    <3>3. G \in Surjection(1 .. Len(Files), FileSet)
      BY DEF FileSet, Surjection
    <3> HIDE DEF G
    <3> QED  BY <3>2, <3>3, FS_Surjection
  <2>2. IsFiniteSet(Origins)
    BY <2>1, FS_AddElement DEF Origins
  <2>3. IsFiniteSet(places)
    BY <2>2, RebuildAssumption, FS_Product
  <2>4. F \in Surjection(places, T)
    <3>1. F \in [places -> T]
      OBVIOUS
    <3>2. \A t \in T : \E x \in places : F[x] = t
      OBVIOUS
    <3> HIDE DEF F, T, places
    <3> QED  BY <3>1, <3>2 DEF Surjection
  <2>5. IsFiniteSet(T)
    <3> HIDE DEF F, T, places
    <3> QED  BY <2>3, <2>4, FS_Surjection
  <2>6. acc.pipes \subseteq T
    <3>1. ASSUME NEW p \in acc.pipes
          PROVE  p \in T
      <4>1. <<p.entry, p.origin>> \in places /\ p = Pipe(p.entry, p.origin)
        BY <1>1, EntryFacts DEF Growing
      <4>2. F[<<p.entry, p.origin>>] = p
        BY <4>1
      <4> HIDE DEF F, places
      <4> QED  BY <4>1, <4>2
    <3> QED  BY <3>1
  <2> HIDE DEF T
  <2> QED  BY <2>5, <2>6, FS_Subset
<1> QED  BY <1>1, <1>4, <1>5

\* A settled build spares every pipeline it has no reason to end.
LEMMA SettledSpares ==
  ASSUME Ready, NEW new, Growing(new), \A f \in FileSet : Settled(new, f, work.got)
  PROVE  Spared(new)
<1> SUFFICES ASSUME NEW p \in build.pipes, p.origin \in Present(work.got)
             PROVE  p \in new.pipes \/ DroppedBy(new, p) \/ DisplacedBy(new, p.origin)
  BY DEF Spared
<1> DEFINE f == p.origin
           e == p.entry
<1>1. build.good[f] # None /\ e \in build.good[f] /\ e \in Entries /\ f \in Origins /\ f \in FileSet
      /\ f # Legacy
  BY EntryFacts DEF Ready, Sound, Builds, Present
<1>2. Pipe(e, f) = p
  <2>1. Pooled(e, f) # {}
    BY DEF Pooled
  <2>2. Pipe(e, f) \in build.pipes /\ Pipe(e, f).entry = e /\ Pipe(e, f).origin = f
    BY <1>1, <2>1, PipesAreNamed
  <2> QED  BY <2>2 DEF Ready, Sound
<1>3. \A c : new.good[f] = c /\ c # None /\ e \in c => p \in new.pipes
  BY <1>1, <1>2 DEF Growing
<1>4. CASE work.got[f] \in Contents /\ f \notin new.refused /\ new.good[f] = work.got[f]
  BY <1>3, <1>4, EntryFacts DEF DroppedBy
<1>5. CASE new.good[f] = build.good[f]
  BY <1>1, <1>3, <1>5
<1>6. CASE \E q \in new.pipes, d \in build.good[f] :
             q.origin # f /\ Collides(q.entry, d)
             /\ (work.got[f] = build.good[f] => q.origin = Legacy)
  BY <1>6 DEF DisplacedBy
<1> QED  BY <1>1, <1>4, <1>5, <1>6 DEF Settled
-----------------------------------------------------------------------------
(* Every step keeps it *)

\* The constants' bounds, and the builds that hold nothing.
LEMMA EmptyBuild ==
  /\ MaxEdits \in Nat /\ MaxFaults \in Nat /\ Len(Files) \in Nat \ {0}
  /\ NoBuild \in Builds /\ NoBuild.pipes = {} /\ Sound(NoBuild)
  /\ [f \in FileSet |-> Absent] \in [FileSet -> Readings]
<1>1. PICK goods : goods = [f \in FileSet |-> None]
  OBVIOUS
<1>2. NoBuild = [pipes |-> {}, good |-> goods, dead |-> {}, refused |-> {}]
  BY <1>1 DEF NoBuild
<1>3. goods \in [FileSet -> Contents \cup {None}] /\ \A f \in FileSet : goods[f] = None
  BY <1>1
<1>4. NoBuild \in Builds
  BY <1>2, <1>3 DEF Builds
<1>5. Sound(NoBuild)
  BY <1>2, <1>3 DEF Sound, NoClash
<1> QED  BY <1>2, <1>4, <1>5, NoWorkFields, RebuildAssumption

\* What is left of a rebuild that ended or was dropped.
LEMMA NoWorkTypes ==
  /\ NoWork.step = "idle" /\ NoWork.sign \in -2 .. MaxEdits /\ NoWork.got \in [FileSet -> Readings]
  /\ NoWork.k \in 1 .. Len(Files) + 1 /\ NoWork.build \in Builds
  /\ NoWork.run \subseteq Pipelines
<1>1. PICK got : got = [f \in FileSet |-> Absent]
  OBVIOUS
<1>2. NoWork = [step |-> "idle", sign |-> -1, got |-> got, k |-> 1, build |-> NoBuild, run |-> {}]
  BY <1>1, NoWorkFields
<1> QED  BY <1>1, <1>2, EmptyBuild

\* Before the first start nothing is open.
LEMMA InitHeld == Init => TypeOK /\ Held
<1> SUFFICES ASSUME Init
             PROVE  TypeOK /\ Held
  OBVIOUS
<1>1. work = NoWork /\ build = NoBuild /\ running = {} /\ open = {} /\ late = FALSE
  BY DEF Init
<1>2. TypeOK
  <2>1. /\ edits \in 0 .. MaxEdits /\ signature \in -2 .. MaxEdits /\ faults \in 0 .. MaxFaults
        /\ seen \in [FileSet -> Readings] /\ files \in [FileSet -> Ours] /\ version \in {1, 2}
        /\ up \in BOOLEAN
    <3>1. edits = 0 /\ signature = -1 /\ faults = 0 /\ seen = [f \in FileSet |-> Absent]
          /\ files \in [FileSet -> Ours] /\ version \in {1, 2} /\ up = FALSE
      BY DEF Init, NeverBuilt
    <3>2. seen \in [FileSet -> Readings]
      BY <3>1, EmptyBuild
    <3>3. edits \in 0 .. MaxEdits /\ signature \in -2 .. MaxEdits /\ faults \in 0 .. MaxFaults
      <4>1. MaxEdits \in Nat /\ MaxFaults \in Nat
        BY EmptyBuild
      <4> QED  BY <3>1, <4>1
    <3>4. up \in BOOLEAN
      BY <3>1
    <3> QED  BY <3>1, <3>2, <3>3, <3>4
  <2> QED  BY <1>1, <2>1, EmptyBuild, NoWorkTypes DEF TypeOK
<1>3. IsFiniteSet(open) /\ NoClash(running)
  BY <1>1, FS_EmptySet DEF NoClash
<1>4. Held
  BY <1>1, <1>3, EmptyBuild, NoWorkTypes DEF Held, Ready
<1> QED  BY <1>2, <1>4

\* Reading the directory touches no pipeline.
LEMMA ReadStep ==
  ASSUME RebuildInv, Begin \/ List \/ ReadFile
  PROVE  TypeOK' /\ Held'
<1>1. UNCHANGED <<files, edits, version, up, build, signature, running, open, seen, late>>
      /\ faults' \in 0 .. MaxFaults
  BY EmptyBuild DEF Begin, List, ReadFile, Fault, RebuildInv, TypeOK
<1>2. /\ work = [step |-> work.step, sign |-> work.sign, got |-> work.got, k |-> work.k,
                 build |-> work.build, run |-> work.run]
      /\ work.sign \in -2 .. MaxEdits /\ work.got \in [FileSet -> Readings]
      /\ work.k \in 1 .. Len(Files) + 1 /\ work.build \in Builds /\ work.run \subseteq Pipelines
      /\ files \in [FileSet -> Ours] /\ edits \in 0 .. MaxEdits
      /\ MaxEdits \in Nat /\ Len(Files) \in Nat \ {0}
  BY EmptyBuild DEF RebuildInv, IInv, Light, WorkIsRecord, TypeOK
<1>3. \E step \in {"list", "read", "assemble"}, sign \in -2 .. MaxEdits,
         got \in [FileSet -> Readings], k \in 1 .. Len(Files) + 1 :
        work' = [step |-> step, sign |-> sign, got |-> got, k |-> k,
                 build |-> work.build, run |-> work.run]
  <2>1. CASE Begin
    <3>1. PICK sign \in {edits, ErrorSignature} : work' = [work EXCEPT !.step = "list", !.sign = sign]
      BY <2>1 DEF Begin, Sign
    <3>2. work' = [step |-> "list", sign |-> sign, got |-> work.got, k |-> work.k,
                   build |-> work.build, run |-> work.run]
      BY <1>2, <3>1
    <3>3. sign \in -2 .. MaxEdits
      BY <1>2 DEF ErrorSignature
    <3> QED  BY <1>2, <3>2, <3>3
  <2>2. CASE List
    <3>1. PICK listed : /\ \/ listed = [f \in FileSet |-> IF files[f] = Absent THEN Absent ELSE Unread]
                           \/ listed = [f \in FileSet |-> Unlisted]
                        /\ work' = [work EXCEPT !.step = "read", !.got = listed]
      BY <2>2 DEF List, Listed, NotListed
    <3>2. listed \in [FileSet -> Readings]
      BY <3>1 DEF Ours, Readings
    <3>3. work' = [step |-> "read", sign |-> work.sign, got |-> listed, k |-> work.k,
                   build |-> work.build, run |-> work.run]
      BY <1>2, <3>1
    <3> QED  BY <1>2, <3>2, <3>3
  <2>3. CASE ReadFile
    <3>1. PICK f, content, read, next :
            /\ f = Files[work.k] /\ f \in FileSet
            /\ IF work.got[f] = Unread /\ files[f] # Absent
               THEN content = files[f] \/ (content = Unread /\ faults' = faults + 1)
               ELSE content = work.got[f]
            /\ read = [work.got EXCEPT ![f] = content]
            /\ next = IF work.k = Len(Files) THEN "assemble" ELSE "read"
            /\ work' = [step |-> next, sign |-> work.sign, got |-> read, k |-> work.k + 1,
                        build |-> work.build, run |-> work.run]
      <4>1. IInv
        BY DEF RebuildInv
      <4> QED  BY <2>3, <4>1, ReadFileFields
    <3>2. work.k \in 1 .. Len(Files)
      BY <2>3 DEF ReadFile, RebuildInv, IInv
    <3>3. read \in [FileSet -> Readings]
      BY <1>2, <3>1 DEF Readings
    <3>4. next \in {"read", "assemble"} /\ work.k + 1 \in 1 .. Len(Files) + 1
      BY <1>2, <3>1, <3>2
    <3> QED  BY <1>2, <3>1, <3>3, <3>4
  <2> QED  BY <2>1, <2>2, <2>3
<1>4. work.step # "commit"
  BY DEF Begin, List, ReadFile
<1>5. PICK step \in {"list", "read", "assemble"}, sign \in -2 .. MaxEdits,
           got \in [FileSet -> Readings], k \in 1 .. Len(Files) + 1 :
        work' = [step |-> step, sign |-> sign, got |-> got, k |-> k,
                 build |-> work.build, run |-> work.run]
  BY <1>3
<1>6. TypeOK'
  BY <1>1, <1>2, <1>5 DEF RebuildInv, TypeOK
<1>7. work'.step # "commit"
  BY <1>5
<1>8. Ready'
  BY <1>1 DEF RebuildInv, Held, Ready
<1>9. Held'
  BY <1>1, <1>4, <1>7, <1>8 DEF RebuildInv, Held
<1> QED  BY <1>6, <1>9

\* Edits of the files and a migration of the store touch none either.
LEMMA OperatorStep ==
  ASSUME RebuildInv, Edit \/ MigrateStore
  PROVE  TypeOK' /\ Held'
<1>1. UNCHANGED <<up, build, signature, running, open, work, seen, late, faults>>
      /\ (version = 2 => version' = 2) /\ version' \in {1, 2}
  BY DEF Edit, MigrateStore, RebuildInv, TypeOK
<1>2. files' \in [FileSet -> Ours] /\ edits' \in 0 .. MaxEdits
  BY EmptyBuild DEF Edit, MigrateStore, RebuildInv, TypeOK
<1>3. TypeOK'
  BY <1>1, <1>2 DEF RebuildInv, TypeOK
<1>4. Ready'
  BY <1>1 DEF RebuildInv, Held, Ready
<1>5. Spared(work.build) => Spared(work.build)'
  BY <1>1 DEF Spared, DroppedBy, DisplacedBy
<1>6. Built => Built'
  BY <1>1, <1>5 DEF Built
<1>7. Held'
  BY <1>1, <1>4, <1>6 DEF RebuildInv, Held
<1> QED  BY <1>3, <1>7

\* So does a step that changes nothing.
LEMMA StutterStep ==
  ASSUME RebuildInv, UNCHANGED vars
  PROVE  TypeOK' /\ Held'
<1>1. UNCHANGED <<files, edits, version, up, build, signature, running, open, work, seen, late,
                  faults>>
  BY DEF vars
<1>2. TypeOK'
  BY <1>1 DEF RebuildInv, TypeOK
<1>3. Ready'
  BY <1>1 DEF RebuildInv, Held, Ready
<1>4. Spared(work.build) => Spared(work.build)'
  BY <1>1 DEF Spared, DroppedBy, DisplacedBy
<1>5. Built => Built'
  BY <1>1, <1>4 DEF Built
<1> QED  BY <1>1, <1>2, <1>3, <1>5 DEF RebuildInv, Held

\* A rebuild ends, whatever is open after it.
LEMMA EndedTypes ==
  ASSUME RebuildInv, work' = NoWork, build' \in Builds, signature' \in -2 .. MaxEdits,
         running' \subseteq Pipelines, open' \subseteq Pipelines, seen' \in [FileSet -> Readings],
         up' \in BOOLEAN, late' \in BOOLEAN, faults' \in 0 .. MaxFaults,
         UNCHANGED <<files, edits, version>>
  PROVE  TypeOK'
BY NoWorkTypes DEF RebuildInv, TypeOK

\* A fault keeps the count within its bound.
LEMMA FaultCounted ==
  ASSUME RebuildInv, Fault
  PROVE  faults' \in 0 .. MaxFaults
BY EmptyBuild DEF RebuildInv, TypeOK, Fault

\* The build of _assemble is opened next to what runs.
LEMMA AssembleStep ==
  ASSUME RebuildInv, Assemble
  PROVE  TypeOK' /\ Held'
<1>1. PICK fails : \E new : /\ new = Assembled(work.got, fails)
                            /\ work' = [work EXCEPT !.step = "commit", !.build = new,
                                                    !.run = Runnable(new.pipes)]
                            /\ open' = open \cup new.pipes
  BY DEF Assemble
<1>2. PICK new : /\ new = Assembled(work.got, fails)
                 /\ work' = [work EXCEPT !.step = "commit", !.build = new,
                                         !.run = Runnable(new.pipes)]
                 /\ open' = open \cup new.pipes
  BY <1>1
<1>3. /\ work.step = "assemble"
      /\ UNCHANGED <<files, edits, version, up, build, signature, running, seen, late, faults>>
  BY DEF Assemble
<1>4. Ready /\ work.got \in [FileSet -> Readings]
  BY DEF RebuildInv, Held, TypeOK
<1>5. Growing(new) /\ \A f \in FileSet : Settled(new, f, work.got)
  BY <1>2, <1>4, AssembledGood
<1>6. Sound(new) /\ new \in Builds /\ IsFiniteSet(new.pipes)
  BY <1>4, <1>5, GrowingIsSound
<1>7. Spared(new)
  BY <1>4, <1>5, SettledSpares
<1>8. /\ work'.step = "commit" /\ work'.build = new /\ work'.run = Runnable(new.pipes)
      /\ work'.got = work.got /\ work'.k = work.k /\ work'.sign = work.sign
  <2>1. PICK run : run = Runnable(new.pipes)
    OBVIOUS
  <2>2. work = [step |-> work.step, sign |-> work.sign, got |-> work.got, k |-> work.k,
                build |-> work.build, run |-> work.run]
    BY DEF RebuildInv, IInv, Light, WorkIsRecord
  <2>3. work' = [step |-> "commit", sign |-> work.sign, got |-> work.got, k |-> work.k,
                 build |-> new, run |-> run]
    BY <1>2, <2>1, <2>2
  <2> QED  BY <2>1, <2>3
<1>9. /\ Runnable(new.pipes) \subseteq new.pipes /\ new.pipes \subseteq Pipelines
      /\ \A p \in Runnable(new.pipes) : p.entry.producer => version = 2
      /\ \A p \in new.pipes : (p.entry.producer => version = 2) => p \in Runnable(new.pipes)
  BY <1>6 DEF Runnable, Builds
<1>10. TypeOK'
  BY <1>2, <1>3, <1>6, <1>8, <1>9 DEF RebuildInv, TypeOK
<1>11. Ready'
  <2>1. IsFiniteSet(open')
    BY <1>2, <1>4, <1>6, FS_Union DEF Ready
  <2> QED  BY <1>2, <1>3, <1>4, <1>9, <2>1 DEF Ready
<1>12. (new.pipes \ build.pipes) \cap running = {}
  <2>1. ASSUME NEW p \in new.pipes, p \notin build.pipes, p \in running
        PROVE  FALSE
    <3>1. p = Pipe(p.entry, p.origin) /\ p.entry \in Entries /\ p.origin \in Origins
      BY <1>5, <1>9, <2>1, EntryFacts DEF Growing
    <3>2. Pooled(p.entry, p.origin) = {}
      BY <1>4, <2>1, <3>1, PipesAreNamed
    <3>3. p \notin open
      BY <1>4, <3>1, <3>2, PipesAreNamed
    <3> QED  BY <2>1, <3>3 DEF RebuildInv, Held
  <2> QED  BY <2>1
<1>13. Spared(new)'
  BY <1>3, <1>7, <1>8 DEF Spared, DroppedBy, DisplacedBy
<1>14. /\ ~late => open = running \cup build.pipes
       /\ \A p \in running : p.entry.producer => version = 2
  BY <1>3 DEF RebuildInv, Held
<1>15. Built'
  <2>1. Sound(work'.build) /\ work'.build.pipes \subseteq open'
    BY <1>2, <1>6, <1>8
  <2>2. work'.run \subseteq work'.build.pipes /\ running \cap work'.build.pipes \subseteq work'.run
    BY <1>8, <1>9, <1>14
  <2>3. ~late => open' = running \cup build.pipes \cup work'.build.pipes
    BY <1>2, <1>8, <1>14
  <2> QED  BY <1>3, <1>8, <1>9, <1>12, <1>13, <2>1, <2>2, <2>3 DEF Built
<1>16. Held'
  BY <1>2, <1>3, <1>8, <1>11, <1>15 DEF RebuildInv, Held
<1> QED  BY <1>10, <1>16

\* The commit: what ran and goes on is not closed, and the rest is.
LEMMA CommitStep ==
  ASSUME RebuildInv, Commit
  PROVE  TypeOK' /\ Held'
<1>1. /\ work.step = "commit" /\ up' = TRUE /\ build' = work.build /\ signature' = work.sign
      /\ seen' = work.got /\ running' = work.run
      /\ open' = (open \ (build.pipes \ (work.build.pipes \cup running))) \ (running \ work.run)
      /\ work' = NoWork /\ UNCHANGED <<files, edits, version, late, faults>>
  BY DEF Commit, Signature, Unpumped, Replaced
<1>2. Built /\ Ready /\ running \subseteq open /\ (~late => running \subseteq build.pipes)
  BY <1>1 DEF RebuildInv, Held
<1>3. work.build \in Builds /\ work.run \subseteq Pipelines /\ open' \subseteq Pipelines
  BY <1>1 DEF RebuildInv, TypeOK
<1>4. TypeOK'
  BY <1>1, <1>3, EndedTypes DEF RebuildInv, TypeOK
<1>5. work.build.pipes \subseteq open' /\ work.run \subseteq work.build.pipes
  BY <1>1, <1>2 DEF Built
<1>6. ~late => open' = work.run \cup work.build.pipes
  BY <1>1, <1>2 DEF Built
<1>7. Ready'
  <2>1. IsFiniteSet(open')
    BY <1>1, <1>2, FS_Subset DEF Ready
  <2> QED  BY <1>1, <1>2, <1>3, <1>5, <2>1 DEF Ready, Built
<1>8. NoClash(running')
  BY <1>1, <1>2, <1>5 DEF Built, Sound, NoClash
<1>9. \A p \in running' : p.entry.producer => version' = 2
  BY <1>1, <1>2 DEF Built
<1>10. Held'
  BY <1>1, <1>5, <1>6, <1>7, <1>8, <1>9, NoWorkTypes DEF Held
<1> QED  BY <1>4, <1>10

\* An exception after the commit leaves the old set running.
LEMMA LateStep ==
  ASSUME RebuildInv, LateFailure
  PROVE  TypeOK' /\ Held'
<1>1. /\ work.step = "commit" /\ build' = work.build /\ signature' = work.sign
      /\ seen' = work.got /\ late' = TRUE /\ work' = NoWork /\ Fault
      /\ UNCHANGED <<files, edits, version, up, running, open>>
  BY DEF LateFailure, Signature
<1>2. Built /\ Ready /\ work.build \in Builds
  BY <1>1 DEF RebuildInv, Held, TypeOK
<1>3. TypeOK'
  BY <1>1, <1>2, FaultCounted, EndedTypes DEF RebuildInv, TypeOK
<1>4. Ready'
  BY <1>1, <1>2 DEF Ready, Built
<1>5. Held'
  BY <1>1, <1>4, NoWorkTypes DEF RebuildInv, Held
<1> QED  BY <1>3, <1>5

\* A rebuild the store stops closes what it had built anew, and nothing else.
LEMMA MakeFailsStep ==
  ASSUME RebuildInv, MakeFails
  PROVE  TypeOK' /\ Held'
<1>1. /\ work.step = "commit" /\ Fault /\ work' = NoWork
      /\ open' = open \ (work.build.pipes \ build.pipes)
      /\ UNCHANGED <<files, edits, version, up, build, signature, running, seen, late>>
  BY DEF MakeFails, Fresh
<1>2. Built /\ Ready /\ running \subseteq open
  BY <1>1 DEF RebuildInv, Held
<1>3. TypeOK'
  BY <1>1, FaultCounted, EndedTypes DEF RebuildInv, TypeOK
<1>4. Ready'
  <2>1. IsFiniteSet(open')
    BY <1>1, <1>2, FS_Subset DEF Ready
  <2> QED  BY <1>1, <1>2, <2>1 DEF Ready
<1>5. running \subseteq open' /\ (~late => open' = running \cup build.pipes)
  BY <1>1, <1>2 DEF Built, Ready
<1>6. Held'
  BY <1>1, <1>4, <1>5, NoWorkTypes DEF RebuildInv, Held
<1> QED  BY <1>3, <1>6

\* An exit closes everything.
LEMMA ExitStep ==
  ASSUME RebuildInv, Exit
  PROVE  TypeOK' /\ Held'
<1>1. /\ up' = FALSE /\ build' = NoBuild /\ signature' = -1 /\ running' = {} /\ open' = {}
      /\ work' = NoWork /\ seen' = [f \in FileSet |-> Absent] /\ late' = FALSE
      /\ UNCHANGED <<files, edits, version>>
  BY DEF Exit, NeverBuilt
<1>2. faults' \in 0 .. MaxFaults
  BY FaultCounted DEF Exit, RebuildInv, TypeOK
<1>3. TypeOK'
  <2>1. seen' \in [FileSet -> Readings] /\ signature' \in -2 .. MaxEdits /\ build' \in Builds
    BY <1>1, EmptyBuild
  <2> QED  BY <1>1, <1>2, <2>1, EndedTypes
<1>4. IsFiniteSet(open') /\ NoClash(running')
  BY <1>1, FS_EmptySet DEF NoClash
<1>5. Held'
  BY <1>1, <1>4, EmptyBuild, NoWorkTypes DEF Held, Ready
<1> QED  BY <1>3, <1>5

\* Every step keeps the whole of it.
LEMMA NextInv == RebuildInv /\ [Next]_vars => RebuildInv'
<1> SUFFICES ASSUME RebuildInv, [Next]_vars
             PROVE  RebuildInv'
  OBVIOUS
<1>1. IInv'
  BY ReadingInv DEF RebuildInv
<1>2. TypeOK' /\ Held'
  <2>1. CASE Begin \/ List \/ ReadFile
    BY <2>1, ReadStep
  <2>2. CASE Assemble
    BY <2>2, AssembleStep
  <2>3. CASE MakeFails \/ Commit \/ LateFailure \/ Exit
    BY <2>3, MakeFailsStep, CommitStep, LateStep, ExitStep
  <2>4. CASE Edit \/ MigrateStore
    BY <2>4, OperatorStep
  <2>5. CASE UNCHANGED vars
    BY <2>5, StutterStep
  <2> QED  BY <2>1, <2>2, <2>3, <2>4, <2>5 DEF Next
<1> QED  BY <1>1, <1>2 DEF RebuildInv

\* The invariant holds of every behaviour.
LEMMA Invariance == Spec => []RebuildInv
<1>1. Init => RebuildInv
  BY InitInv, InitHeld DEF RebuildInv
<1> QED  BY <1>1, NextInv, PTL DEF Spec
-----------------------------------------------------------------------------
(* The theorems *)

\* While the directory has the signature the running build was made under, the
\* build was made from what the directory holds: due() misses no edit, however
\* edits, rebuilds, failures and restarts interleave.  After a failure a file
\* may be known for unread, or the directory for not listed (load_layout).
THEOREM NoEditIsMissed == Spec => []QuietMeansCurrent
<1>1. IInv => QuietMeansCurrent
  BY DEF IInv
<1> QED  BY InitInv, ReadingInv, <1>1, PTL DEF Spec

\* The variables keep their types: whatever is read, built and refused, a build
\* holds pipelines of known entries and remembers contents that were legal.
THEOREM RebuildTypes == Spec => []TypeOK
<1>1. RebuildInv => TypeOK
  BY DEF RebuildInv
<1> QED  BY <1>1, Invariance, PTL

\* No pipeline runs or waits to be reused with its source closed, and between
\* rebuilds none is left open that no rebuild reaches (Rebuilder.rebuild,
\* replace_pipelines): not after a store failure, nor a version check that
\* held a pipeline back.
THEOREM NothingLeaksOrCloses == Spec => []OpenIsInUse
<1>1. RebuildInv => OpenIsInUse
  BY DEF RebuildInv, Held, Ready, OpenIsInUse
<1> QED  BY <1>1, Invariance, PTL

\* Two running pipelines share a name or a send record only when the manifest
\* has both (_admit), whatever the files hold and in whatever order they change.
THEOREM OneSender == Spec => []OneSenderPerKey
<1>1. RebuildInv => OneSenderPerKey
  BY DEF RebuildInv, Held, NoClash, OneSenderPerKey
<1> QED  BY <1>1, Invariance, PTL

\* A rebuild that lists the directory ends a running pipeline of a file that
\* stays only when the file's accepted contents drop it, or another origin holds
\* what the file needs -- for a file that did not change, an entry of the
\* manifest (_assemble).  One whose listing fails ends them all.
THEOREM EditsAreLocal == Spec => EditsDisturbNothingElse
<1> DEFINE Change ==
      up /\ up' /\ build' # build =>
        \A p \in running \cap build.pipes :
          p.origin \in Present(work.got) =>
            p \in running' \/ Dropped(p) \/ Displaced(p.origin)
<1>1. RebuildInv /\ [Next]_vars => [Change]_vars
  <2> SUFFICES ASSUME RebuildInv, Next, up, up', build' # build,
                      NEW p \in running \cap build.pipes,
                      p.origin \in Present(work.got)
               PROVE  p \in running' \/ Dropped(p) \/ Displaced(p.origin)
    OBVIOUS
  <2>1. work.step = "commit" /\ build' = work.build /\ running' \in {running, work.run}
    BY DEF Next, Begin, List, ReadFile, Assemble, MakeFails, Commit, LateFailure, Exit, Edit,
           MigrateStore
  <2>2. Spared(work.build) /\ running \cap work.build.pipes \subseteq work.run
    BY <2>1 DEF RebuildInv, Held, Built
  <2>3. p \in work.build.pipes \/ DroppedBy(work.build, p) \/ DisplacedBy(work.build, p.origin)
    BY <2>2 DEF Spared
  <2>4. DroppedBy(work.build, p) => Dropped(p)
    BY <2>1 DEF DroppedBy, Dropped
  <2>5. DisplacedBy(work.build, p.origin) => Displaced(p.origin)
    BY <2>1 DEF DisplacedBy, Displaced
  <2> QED  BY <2>1, <2>2, <2>3, <2>4, <2>5
<1>2. Spec => [][Change]_vars
  <2> HIDE DEF Change
  <2> QED  BY <1>1, Invariance, PTL DEF Spec
<1> QED  BY <1>2 DEF EditsDisturbNothingElse
=============================================================================
