------------------------------- MODULE Rebuild -------------------------------
(***************************************************************************)
(* The daemon's running set (daemon.py: Rebuilder, _assemble,              *)
(* split_refused; pipelines_d.py: load_layout; core.py: replace_pipelines) *)
(* while operators edit the files of pipelines.d/.                         *)
(*                                                                         *)
(* A rebuild takes the directory's signature, lists it, reads the files    *)
(* one by one, builds what changed, checks the store's version, records    *)
(* pipeline_state, and swaps the running set.  A file builds whole or is   *)
(* refused and keeps what it last built; entries that did not change keep  *)
(* their pipelines, connection and thread included.  A file that exists    *)
(* silences the legacy manifest's entries of its client.                   *)
(*                                                                         *)
(* The reading may fail: a signature that cannot be taken matches none, a  *)
(* file that cannot be read is refused, and a directory that cannot be     *)
(* listed is built from as one without files.                              *)
(*                                                                         *)
(* A file is the set of its entries, or broken (unparsable, an illegal     *)
(* name, a rule of _check_file).  An entry is its name, its send-record    *)
(* key and whether it has a producer; unnamed entries, builders and        *)
(* objects shared by pipelines are left out.  A pipeline is its entry, its *)
(* origin and which of the objects built from them it is.                  *)
(***************************************************************************)
EXTENDS Integers, Sequences, FiniteSets, Functions

CONSTANTS
  Files,      \* the clients that may have a file, in name order
  Contents,   \* what a readable file may hold: sets of entries
  Manifest,   \* the legacy manifest: its entries, each with its client
  Absent, Broken, None,   \* no file, one that breaks a rule, no good build
  Unread, Unlisted,       \* read as: not readable, in no listing at all
  Failing,    \* entries whose build may raise
  MaxEdits,   \* bound on edits of the files
  MaxFaults   \* bound on failures of the store and the system, late exceptions, deaths

FileSet == {Files[k] : k \in 1 .. Len(Files)}
Legacy == "legacy"
Entries == (UNION Contents) \cup {l.entry : l \in Manifest}

ASSUME RebuildAssumption ==
  /\ Len(Files) \in Nat \ {0} /\ IsInjective(Files)
  /\ Legacy \notin FileSet /\ Absent # Broken /\ {Absent, Broken, None} \cap Contents = {}
  /\ {Unread, Unlisted} \cap ({Absent, Broken, None} \cup Contents) = {} /\ Unread # Unlisted
  /\ IsFiniteSet(Entries)
  /\ \A e \in Entries : DOMAIN e = {"name", "key", "producer"} /\ e.producer \in BOOLEAN
  /\ \A l \in Manifest : l.client \in FileSet
  /\ MaxEdits \in Nat /\ MaxFaults \in Nat

VARIABLES
  files,      \* pipelines.d/
  edits,      \* stamps the directory: each edit changes the signature
  version,    \* the store's schema version
  up,         \* whether the daemon runs
  build,      \* Rebuilder.build
  signature,  \* Rebuilder.signature
  running,    \* the uploader's pipelines
  open,       \* pipelines whose source is open
  work,       \* the rebuild under way
  seen,       \* history: what the committed build read
  late,       \* history: a rebuild of this daemon raised after its commit
  faults      \* history: faults so far

vars == <<files, edits, version, up, build, signature, running, open, work, seen, late, faults>>

Ours == {Absent, Broken} \cup Contents
Readings == Ours \cup {Unread, Unlisted}
NeverBuilt == -1
ErrorSignature == -2   \* of a directory that cannot be read
Pipelines == [entry : Entries, origin : FileSet \cup {Legacy}, object : Nat]
Builds == [pipes : SUBSET Pipelines, good : [FileSet -> Contents \cup {None}],
           dead : SUBSET Entries, refused : SUBSET FileSet]
NoBuild == [pipes |-> {}, good |-> [f \in FileSet |-> None], dead |-> {}, refused |-> {}]
NoWork == [step |-> "idle", sign |-> NeverBuilt, got |-> [f \in FileSet |-> Absent], k |-> 1,
           build |-> NoBuild, run |-> {}]

TypeOK ==
  /\ files \in [FileSet -> Ours] /\ edits \in 0 .. MaxEdits /\ version \in {1, 2}
  /\ up \in BOOLEAN /\ build \in Builds /\ signature \in -2 .. MaxEdits
  /\ running \subseteq Pipelines /\ open \subseteq Pipelines
  /\ work.step \in {"idle", "list", "read", "assemble", "commit"}
  /\ work.sign \in -2 .. MaxEdits /\ work.got \in [FileSet -> Readings]
  /\ work.k \in 1 .. Len(Files) + 1 /\ work.build \in Builds /\ work.run \subseteq Pipelines
  /\ seen \in [FileSet -> Readings] /\ late \in BOOLEAN /\ faults \in 0 .. MaxFaults

Init ==
  /\ files \in [FileSet -> Ours] /\ edits = 0 /\ version \in {1, 2}
  /\ up = FALSE /\ build = NoBuild /\ signature = NeverBuilt /\ running = {} /\ open = {}
  /\ work = NoWork /\ seen = [f \in FileSet |-> Absent] /\ late = FALSE /\ faults = 0

Fault == faults < MaxFaults /\ faults' = faults + 1
-----------------------------------------------------------------------------
(* load_layout *)

\* The start, a SIGHUP (at any time), or due().
Sign(sign) == work' = [work EXCEPT !.step = "list", !.sign = sign]
Begin ==
  /\ work.step = "idle"
  /\ \/ Sign(edits) /\ UNCHANGED faults
     \/ Sign(ErrorSignature) /\ Fault
  /\ UNCHANGED <<files, edits, version, up, build, signature, running, open, seen, late>>

\* The directory is listed: a file that is there counts, whatever it holds.
\* A listing that fails names none, and the rebuild goes on.
Listed ==
  work' = [work EXCEPT !.step = "read",
             !.got = [f \in FileSet |-> IF files[f] = Absent THEN Absent ELSE Unread]]
NotListed == work' = [work EXCEPT !.step = "read", !.got = [f \in FileSet |-> Unlisted]]
List ==
  /\ work.step = "list"
  /\ \/ Listed /\ UNCHANGED faults
     \/ NotListed /\ Fault
  /\ UNCHANGED <<files, edits, version, up, build, signature, running, open, seen, late>>

\* The listed files are read in name order.  One gone by now cannot be read,
\* nor one whose permissions, which no signature holds, forbid it, nor any
\* while the system fails.
Read(f, content) ==
  work' = [work EXCEPT !.got[f] = content, !.k = @ + 1,
             !.step = IF work.k = Len(Files) THEN "assemble" ELSE "read"]
ReadFile ==
  /\ work.step = "read"
  /\ LET f == Files[work.k]
         there == work.got[f] = Unread /\ files[f] # Absent
     IN \/ Read(f, IF there THEN files[f] ELSE work.got[f]) /\ UNCHANGED faults
        \/ there /\ Read(f, Unread) /\ Fault
  /\ UNCHANGED <<files, edits, version, up, build, signature, running, open, seen, late>>
-----------------------------------------------------------------------------
(* _assemble: got is what was read, fails the entries whose build raises *)

\* The pool: an unchanged entry keeps its pipeline, another one is built.
Pooled(entry, origin) ==
  {p \in build.pipes : p.entry = entry /\ p.origin = origin}
NewObject(entry, origin) ==
  CHOOSE o \in 0 .. Cardinality(open) : [entry |-> entry, origin |-> origin, object |-> o] \notin open
Pipe(entry, origin) ==
  IF Pooled(entry, origin) # {} THEN CHOOSE p \in Pooled(entry, origin) : TRUE
  ELSE [entry |-> entry, origin |-> origin, object |-> NewObject(entry, origin)]

\* The clients with a file, as the listing has it.
Present(got) == {f \in FileSet : got[f] \notin {Absent, Unlisted}}

\* _build_legacy: the entries no file silences.  One that fails builds nothing
\* and its empty slot is reused as any other.
Voiced(got) == {l.entry : l \in {l \in Manifest : l.client \notin Present(got)}}
Dead(got, fails) ==
  {e \in Voiced(got) : Pooled(e, Legacy) = {} /\ (e \in build.dead \/ e \in fails)}
LegacyPipes(got, fails) == {Pipe(e, Legacy) : e \in Voiced(got) \ Dead(got, fails)}

ManifestBuild(got, fails) ==
  [pipes |-> LegacyPipes(got, fails), good |-> NoBuild.good, dead |-> Dead(got, fails),
   refused |-> {}]

Collides(d, e) == d.name = e.name \/ d.key = e.key

\* _build_file and _admit: a file fits whole or not at all.
FitsAlone(entries, file, admitted, fails) ==
  /\ \A e \in entries : Pooled(e, file) # {} \/ e \notin fails
  /\ \A e \in entries : \A d \in entries \ {e} : ~Collides(d, e)
Fits(entries, file, admitted, fails) ==
  /\ \A e \in entries : Pooled(e, file) # {} \/ e \notin fails
  /\ \A e \in entries : /\ \A p \in admitted : ~Collides(p.entry, e)
                        /\ \A d \in entries \ {e} : ~Collides(d, e)

\* One file: what it holds, else what it last built, else nothing.
RememberedRead(read, last) == read
Remembered(read, last) == last
Joined(acc, f, entries, good) ==
  [acc EXCEPT !.pipes = @ \cup {Pipe(e, f) : e \in entries},
              !.good = [@ EXCEPT ![f] = good]]
Admit(acc, f, got, fails) ==
  LET last == build.good[f]
  IN CASE f \notin Present(got) -> acc
       [] got[f] \in Contents /\ Fits(got[f], f, acc.pipes, fails) ->
            Joined(acc, f, got[f], got[f])
       [] OTHER ->
            [(IF last # None /\ Fits(last, f, acc.pipes, fails)
              THEN Joined(acc, f, last, Remembered(got[f], last)) ELSE acc)
               EXCEPT !.refused = @ \cup {f}]

\* The files that did not change since their last good build have the first
\* turns, in name order, and the others the second.
Unchanged(f, got) == got[f] \in Contents /\ got[f] = build.good[f]
InTurnByName(f, first, got) == first
InTurn(f, first, got) == Unchanged(f, got) = first
FileOf(k) == Files[IF k <= Len(Files) THEN k ELSE k - Len(Files)]

Assembled(got, fails) ==
  LET turn[k \in 0 .. 2 * Len(Files)] ==
        IF k = 0
        THEN ManifestBuild(got, fails)
        ELSE IF InTurn(FileOf(k), k <= Len(Files), got)
        THEN Admit(turn[k - 1], FileOf(k), got, fails)
        ELSE turn[k - 1]
  IN turn[2 * Len(Files)]

\* split_refused: a producer's pipeline needs store version 2.
Runnable(pipes) == {p \in pipes : p.entry.producer => version = 2}

\* _make; at the start a legacy entry that fails stops the daemon.
Assemble ==
  /\ work.step = "assemble"
  /\ \E fails \in SUBSET Failing :
       LET new == Assembled(work.got, fails)
       IN /\ up \/ new.dead = {}
          /\ work' = [work EXCEPT !.step = "commit", !.build = new,
                                  !.run = Runnable(new.pipes)]
          /\ open' = open \cup new.pipes
  /\ UNCHANGED <<files, edits, version, up, build, signature, running, seen, late, faults>>
-----------------------------------------------------------------------------
(* start and rebuild *)

\* The store cannot be read or written: what was built anew is closed.
Fresh == work.build.pipes \ build.pipes
MakeFails ==
  /\ work.step = "commit" /\ Fault
  /\ open' = open \ Fresh
  /\ work' = NoWork
  /\ UNCHANGED <<files, edits, version, up, build, signature, running, seen, late>>

\* The signature of the build: taken before anything was read.
SignatureAfter == edits
Signature == work.sign

\* Of the previous pipelines, those the store check held back never pumped
\* and are closed here; those that ran are closed by replace_pipelines.
UnpumpedKept == {}
Unpumped == build.pipes \ (work.build.pipes \cup running)

\* replace_pipelines: what ran and is in the new set no longer.
Replaced == running \ work.run

\* At the start a daemon with nothing to run, and no refused file, exits.
Commit ==
  /\ work.step = "commit"
  /\ up \/ work.run # {} \/ work.build.refused # {}
  /\ up' = TRUE
  /\ build' = work.build /\ signature' = Signature /\ seen' = work.got
  /\ running' = work.run
  /\ open' = (open \ Unpumped) \ Replaced
  /\ work' = NoWork
  /\ UNCHANGED <<files, edits, version, late, faults>>

\* The starting-record pass or the switch report raises after the build and
\* its signature are committed: the old set runs on.
LateFailure ==
  /\ work.step = "commit" /\ up /\ Fault
  /\ build' = work.build /\ signature' = Signature /\ seen' = work.got /\ late' = TRUE
  /\ work' = NoWork
  /\ UNCHANGED <<files, edits, version, up, running, open>>

\* The daemon exits, or dies; it is started again.
Exit ==
  /\ up \/ work.step # "idle"
  /\ up => Fault
  /\ ~up => UNCHANGED faults
  /\ up' = FALSE /\ build' = NoBuild /\ signature' = NeverBuilt /\ running' = {} /\ open' = {}
  /\ work' = NoWork /\ seen' = [f \in FileSet |-> Absent] /\ late' = FALSE
  /\ UNCHANGED <<files, edits, version>>
-----------------------------------------------------------------------------
(* Operators *)

\* An edit changes a file's time, size or inode.  A change of permissions
\* does not: ReadFile may fail at any reading.
Edit ==
  /\ edits < MaxEdits /\ edits' = edits + 1
  /\ \E f \in FileSet, content \in Ours :
       content # files[f] /\ files' = [files EXCEPT ![f] = content]
  /\ UNCHANGED <<version, up, build, signature, running, open, work, seen, late, faults>>

MigrateStore ==
  /\ version = 1 /\ version' = 2
  /\ UNCHANGED <<files, edits, up, build, signature, running, open, work, seen, late, faults>>

Next ==
  \/ Begin \/ List \/ ReadFile \/ Assemble \/ MakeFails \/ Commit \/ LateFailure \/ Exit
  \/ Edit \/ MigrateStore

Spec == Init /\ [][Next]_vars
-----------------------------------------------------------------------------
(* Properties *)

\* While due() says no, the build was made from what the directory holds: an
\* edit made while the files were being read is never missed.  Only a failure
\* leaves a file unread, or the directory not listed; due() goes on saying no
\* then, until the next edit or SIGHUP.
TrueReading(f, read) ==
  \/ read = files[f]
  \/ faults > 0 /\ (read = Unlisted \/ (read = Unread /\ files[f] # Absent))
QuietMeansCurrent == signature = edits => \A f \in FileSet : TrueReading(f, seen[f])

\* No pipeline runs, or waits to be reused, with its source closed; and
\* between rebuilds nothing stays open that no rebuild can reach any more (a
\* late exception does leave a pipeline that never pumped open).
OpenIsInUse ==
  /\ running \cup build.pipes \subseteq open
  /\ work.step = "idle" /\ ~late => open = running \cup build.pipes

\* Two running pipelines share a name or a send record only when the legacy
\* manifest has both.
OneSenderPerKey ==
  \A p, q \in running :
    p # q /\ Collides(p.entry, q.entry) => p.origin = Legacy /\ q.origin = Legacy

\* A rebuild that lists the directory takes a running pipeline from a file
\* that stays only when the file's accepted contents drop it, or when another
\* origin holds a name or a key the file needs -- which, for a file that did
\* not change, only an entry of the legacy manifest can.
Displaced(f) ==
  \E q \in build'.pipes, e \in build.good[f] :
    /\ q.origin # f /\ Collides(q.entry, e)
    /\ work.got[f] = build.good[f] => q.origin = Legacy
Dropped(p) ==
  /\ work.got[p.origin] \in Contents /\ p.origin \notin build'.refused
  /\ p.entry \notin work.got[p.origin]
EditsDisturbNothingElse ==
  [][up /\ up' /\ build' # build =>
       \A p \in running \cap build.pipes :
         p.origin \in Present(work.got) =>
           p \in running' \/ Dropped(p) \/ Displaced(p.origin)]_vars
=============================================================================
