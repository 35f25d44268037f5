--------------------------------- MODULE Wal ---------------------------------
(***************************************************************************)
(* Durability: the segmented write-ahead log (wal.rs), the commit path     *)
(* that appends to it (durable.rs), the checkpoint that moves the recovery *)
(* baseline (checkpoint.rs) and recovery (Wal::open, recover.rs), on a     *)
(* disk that fails and loses what was not synchronized.                    *)
(*                                                                         *)
(* A segment is named after the first sequence number it may hold and is   *)
(* the sequence of its frames.  A frame counts as one byte: the limits of  *)
(* WalConfig count frames, and a frame written in part is a Torn one, at   *)
(* which every reader stops.  The payload of a record is the identity of   *)
(* its commit.  The LSM store is its newest run: the sequence number up to *)
(* which it covers the log, and the commits it contains.                   *)
(*                                                                         *)
(* The WAL mutex and &mut World make one commit run at a time; what can    *)
(* come between its steps is a crash.  An error of append is fatal to      *)
(* Durable (it panics), and is a crash here.  An error of the checkpoint   *)
(* is reported and the process goes on.                                    *)
(***************************************************************************)
EXTENDS Naturals, SequencesExt

CONSTANTS
  SegmentFrames,    \* max_segment_bytes, in frames
  CheckpointEvery,  \* max_bytes_between_checkpoints, in frames
  FailedWrites,     \* what a failed write may leave: "nothing", "part", "all"
  MaxCommits, MaxViews, MaxFaults, MaxCrashes,  \* bounds
  None

ASSUME WalAssumption ==
  /\ {SegmentFrames, CheckpointEvery} \subseteq Nat \ {0}
  /\ {MaxCommits, MaxViews, MaxFaults, MaxCrashes} \subseteq Nat
  /\ FailedWrites \subseteq {"nothing", "part", "all"}
  /\ None \notin Nat

VARIABLES
  segs,     \* segs[start]: the frames of a segment file, as the process sees it
  synced,   \* synced[start]: how many of them fsync has made durable
  named,    \* the segments whose directory entry is durable
  removed,  \* [frames, synced] of unlinked files that may still come back
  wal,      \* the Wal handle
  pc,       \* where the commit under way is, see Steps
  world,    \* [content: commits applied, tick, dirty: some page is]
  run,      \* the newest LSM run: [seq_hi, content]
  acked,    \* history: commits whose append returned Ok
  commits, faults, crashes  \* counters for the bounds

diskVars == <<segs, synced, named, removed>>
countVars == <<commits, faults, crashes>>
vars == <<diskVars, wal, pc, world, run, acked, countVars>>

Schema(view) == [kind |-> "schema", seq |-> 0, id |-> 0, tick |-> 0, view |-> view]
Mutations(seq, id, tick, view) ==
  [kind |-> "mutations", seq |-> seq, id |-> id, tick |-> tick, view |-> view]
Flushed(seq, view) == [kind |-> "checkpoint", seq |-> seq, id |-> 0, tick |-> 0, view |-> view]
Torn == [kind |-> "torn", seq |-> 0, id |-> 0, tick |-> 0, view |-> 0]

IsMutations(f) == f.kind = "mutations"
IsFlushed(f) == f.kind = "checkpoint"
IsTorn(f) == f.kind = "torn"

(* idle: between commits.  written, synced: the record is in the file, is  *)
(* durable.  rolling: a new segment is being prepared.  logged: append has *)
(* returned.  checkpoint, flushed, acking: in the checkpoint handler.      *)
(* down, opened: between a crash, Wal::open and the end of recovery.       *)
(* failed: recovery returned an error.                                     *)
Steps == {"idle", "written", "synced", "rolling", "logged", "checkpoint",
          "flushed", "acking", "down", "opened", "failed"}
Running == pc \notin {"down", "opened", "failed"}

(* A place in the log is a segment and the index of a frame in it.  The    *)
(* log is read segment by segment in the order of their names              *)
(* (list_segments), and each from its start.                               *)
Places(files) == UNION {{s} \X DOMAIN files[s] : s \in DOMAIN files}
Before(p, q) == p[1] < q[1] \/ (p[1] = q[1] /\ p[2] < q[2])
FrameAt(files, p) == files[p[1]][p[2]]
MutationsIn(files) == {p \in Places(files) : IsMutations(FrameAt(files, p))}
FlushedIn(files) == {p \in Places(files) : IsFlushed(FrameAt(files, p))}
LastOf(places) == CHOOSE p \in places : \A q \in places : q = p \/ Before(q, p)

With(files, s, x) == [t \in DOMAIN files \cup {s} |-> IF t = s THEN x ELSE files[t]]
Without(files, gone) == [s \in DOMAIN files \ gone |-> files[s]]

(* The files that may come back, with those in gone unlinked as well.      *)
Unlinked(gone, others) ==
  [s \in gone \cup DOMAIN others |->
     IF s \in gone THEN [frames |-> segs[s], synced |-> synced[s]] ELSE others[s]]

-----------------------------------------------------------------------------
Init ==
  /\ segs = [s \in {0} |-> <<Schema(0)>>]
  /\ synced = [s \in {0} |-> 1]
  /\ named = {0}
  /\ removed = << >>
  /\ wal = [active |-> 0, active_bytes |-> 1, next_seq |-> 0,
            durable_seq |-> 0, durable_ends |-> [s \in {0} |-> 1],
            last_checkpoint |-> None, bytes |-> 0, pending |-> None, view |-> 0]
  /\ pc = "idle"
  /\ world = [content |-> {}, tick |-> 0, dirty |-> FALSE]
  /\ run = [seq_hi |-> 0, content |-> {}]
  /\ acked = {}
  /\ commits = 0 /\ faults = 0 /\ crashes = 0

Fault == faults < MaxFaults /\ faults' = faults + 1

(* Views::bump.                                                            *)
Bump ==
  /\ pc = "idle" /\ wal.view < MaxViews
  /\ wal' = [wal EXCEPT !.view = @ + 1]
  /\ UNCHANGED <<diskVars, pc, world, run, acked, countVars>>

(* Mutant: the old segment grows past a rollover that was given up.        *)
PendingIgnored == {}

(* cleanup_pending_roll, when it succeeds: the file and, durably, its name *)
(* are gone.                                                               *)
Pending == IF wal.pending = None THEN {} ELSE {wal.pending}

CleanUp(frames) ==
  /\ segs' = Without(frames, Pending)
  /\ synced' = Without(synced, Pending)
  /\ named' = named \ Pending
  /\ removed' = IF Pending = {} THEN removed ELSE << >>

(* It fails: the file could not be unlinked, or its directory not synced.  *)
CleanUpFails ==
  \/ UNCHANGED diskVars
  \/ /\ Pending \subseteq DOMAIN segs
     /\ segs' = Without(segs, Pending)
     /\ synced' = Without(synced, Pending)
     /\ removed' = Unlinked(Pending, removed)
     /\ UNCHANGED named

WithFrame(f) == [segs EXCEPT ![wal.active] = Append(@, f)]

(* Mutant: the published prefix moves when the record is written.          *)
WrittenPublished(w) ==
  [w EXCEPT !.active_bytes = @ + 1, !.durable_seq = w.next_seq + 1,
            !.durable_ends[w.active] = w.active_bytes + 1]

Written(w) == [w EXCEPT !.active_bytes = @ + 1]

(* publish_active_prefix.                                                  *)
Published(w) ==
  [w EXCEPT !.durable_seq = w.next_seq,
            !.durable_ends = With(@, w.active, w.active_bytes)]

(* append: the record reaches the file, and the counters move at once.     *)
AppendWrite ==
  /\ pc = "idle" /\ commits < MaxCommits
  /\ CleanUp(WithFrame(Mutations(wal.next_seq, commits + 1, world.tick, wal.view)))
  /\ wal' = [Written(wal) EXCEPT !.next_seq = @ + 1, !.bytes = @ + 1, !.pending = None]
  /\ pc' = "written"
  /\ commits' = commits + 1
  /\ UNCHANGED <<world, run, acked, faults, crashes>>

(* append: fsync, after which the commit must not be lost.                 *)
AppendSync ==
  /\ pc = "written"
  /\ synced' = [synced EXCEPT ![wal.active] = Len(segs[wal.active])]
  /\ wal' = Published(wal)
  /\ acked' = acked \cup {commits}
  /\ pc' = IF wal.active_bytes >= SegmentFrames THEN "synced" ELSE "logged"
  /\ UNCHANGED <<segs, named, removed, world, run, countVars>>

(* roll_segment: the new file gets its header before anything is synced.   *)
RollCreate ==
  /\ pc = "synced" /\ wal.next_seq \notin DOMAIN segs
  /\ segs' = With(segs, wal.next_seq, <<Schema(wal.view)>>)
  /\ synced' = With(synced, wal.next_seq, 0)
  /\ wal' = [wal EXCEPT !.pending = wal.next_seq]
  /\ pc' = "rolling"
  /\ UNCHANGED <<named, removed, world, run, acked, countVars>>

RollCreateFails ==
  /\ pc = "synced" /\ Fault
  /\ pc' = "logged"
  /\ UNCHANGED <<diskVars, wal, world, run, acked, commits, crashes>>

(* File and directory are synced: the new segment becomes the active one.  *)
RollPublish ==
  /\ pc = "rolling"
  /\ synced' = [synced EXCEPT ![wal.pending] = 1]
  /\ named' = named \cup {wal.pending}
  /\ removed' = << >>
  /\ wal' = Published([wal EXCEPT !.pending = None, !.active = wal.pending,
                                  !.active_bytes = 1])
  /\ pc' = "logged"
  /\ UNCHANGED <<segs, world, run, acked, countVars>>

(* Preparing it failed: the file is cleaned up, unless that fails too.     *)
RollAbandon ==
  /\ pc = "rolling" /\ Fault
  /\ \/ CleanUp(segs) /\ wal' = [wal EXCEPT !.pending = None]
     \/ CleanUpFails /\ UNCHANGED wal
  /\ pc' = "logged"
  /\ UNCHANGED <<world, run, acked, commits, crashes>>

(* The changeset is applied; it may leave no page to flush (a sparse-only  *)
(* removal, a despawn of the last row).                                    *)
Apply ==
  /\ pc = "logged"
  /\ \E dirties \in BOOLEAN :
       world' = [content |-> world.content \cup {commits}, tick |-> world.tick + 1,
                 dirty |-> world.dirty \/ dirties]
  /\ pc' = IF wal.bytes >= CheckpointEvery THEN "checkpoint" ELSE "idle"
  /\ UNCHANGED <<diskVars, wal, run, acked, countVars>>

(* flush_and_record and clear_all_dirty_pages: a new run, unless nothing   *)
(* is dirty.                                                               *)
Flush ==
  /\ pc = "checkpoint"
  /\ IF world.dirty
     THEN /\ run' = [seq_hi |-> wal.next_seq, content |-> world.content]
          /\ world' = [world EXCEPT !.dirty = FALSE]
     ELSE UNCHANGED <<run, world>>
  /\ pc' = "flushed"
  /\ UNCHANGED <<diskVars, wal, acked, countVars>>

(* The flush fails, or compaction does after it: nothing is acknowledged.  *)
CheckpointFails ==
  /\ pc \in {"checkpoint", "flushed"} /\ Fault
  /\ pc' = "idle"
  /\ UNCHANGED <<diskVars, wal, world, run, acked, commits, crashes>>

(* acknowledge_flush: the checkpoint frame, after the pending cleanup.     *)
AckWrite ==
  /\ pc = "flushed"
  /\ CleanUp(WithFrame(Flushed(wal.next_seq, wal.view)))
  /\ wal' = [wal EXCEPT !.active_bytes = @ + 1, !.last_checkpoint = wal.next_seq,
                        !.bytes = 0, !.pending = None]
  /\ pc' = "acking"
  /\ UNCHANGED <<world, run, acked, countVars>>

(* Writing it fails: the counters stay, the file keeps what got written.   *)
AckWriteFails ==
  /\ pc = "flushed" /\ Fault
  /\ \E left \in FailedWrites :
       CleanUp(CASE left = "nothing" -> segs
                 [] left = "part" -> WithFrame(Torn)
                 [] left = "all" -> WithFrame(Flushed(wal.next_seq, wal.view)))
  /\ wal' = [wal EXCEPT !.pending = None]
  /\ pc' = "idle"
  /\ UNCHANGED <<world, run, acked, commits, crashes>>

AckSync ==
  /\ pc = "acking"
  /\ synced' = [synced EXCEPT ![wal.active] = Len(segs[wal.active])]
  /\ wal' = Published(wal)
  /\ pc' = "idle"
  /\ UNCHANGED <<segs, named, removed, world, run, acked, countVars>>

AckSyncFails ==
  /\ pc = "acking" /\ Fault
  /\ pc' = "idle"
  /\ UNCHANGED <<diskVars, wal, world, run, acked, commits, crashes>>

(* The cleanup that acknowledge_flush or delete_segments_before starts     *)
(* with fails, and is left to the next call.                               *)
CleanUpAgainFails ==
  /\ pc \in {"flushed", "idle"} /\ wal.pending # None /\ Fault
  /\ CleanUpFails
  /\ pc' = "idle"
  /\ UNCHANGED <<wal, world, run, acked, commits, crashes>>

(* Mutant: the floor is the checkpoint last acknowledged.                  *)
AcknowledgedFloors == 0 .. (IF wal.last_checkpoint = None THEN 0 ELSE wal.last_checkpoint)

(* The sequence numbers a caller may pass: recover_world's replay floor    *)
(* is that of the newest run, and records from it on must stay.            *)
Floors == 0 .. run.seq_hi

(* delete_segments_before: a segment goes when its successor starts at or  *)
(* before seq, never the last one.  No directory is synchronized.          *)
DeleteSegments ==
  /\ pc = "idle"
  /\ \E seq \in Floors :
       LET kept == Without(segs, Pending)
           gone == {s \in DOMAIN kept : \E t \in DOMAIN kept : s < t /\ t <= seq}
       IN /\ segs' = Without(kept, gone)
          /\ synced' = Without(synced, gone \cup Pending)
          /\ named' = named \ (gone \cup Pending)
          /\ removed' = Unlinked(gone, IF Pending = {} THEN removed ELSE << >>)
          /\ wal' = [wal EXCEPT !.pending = None,
                                !.durable_ends = Without(@, gone)]
  /\ UNCHANGED <<pc, world, run, acked, countVars>>

-----------------------------------------------------------------------------
(* Crashes and recovery.                                                   *)

Crash ==
  /\ pc # "failed" /\ crashes < MaxCrashes
  /\ crashes' = crashes + 1
  /\ pc' = "down"
  /\ UNCHANGED <<wal, world, run, acked, commits, faults>>

(* The process dies: the files are as it left them.                        *)
ProcessCrash ==
  /\ Crash /\ pc # "down"
  /\ UNCHANGED diskVars

(* A file keeps its synchronized frames and any more of them, the last one *)
(* perhaps in part.                                                        *)
Survivors(frames, durable) ==
  {SubSeq(frames, 1, k) : k \in durable .. Len(frames)}
    \cup {Append(SubSeq(frames, 1, k), Torn) : k \in durable .. Len(frames) - 1}

(* The machine loses power: names that were not synchronized may be gone,  *)
(* unlinked ones may be back.                                              *)
PowerLoss ==
  /\ Crash
  /\ \E lost \in SUBSET (DOMAIN segs \ named), back \in SUBSET (DOMAIN removed \ DOMAIN segs) :
       LET kept == DOMAIN segs \ lost
           frames(s) == IF s \in kept THEN segs[s] ELSE removed[s].frames
           durable(s) == IF s \in kept THEN synced[s] ELSE removed[s].synced
           files == kept \cup back
       IN /\ segs' \in {f \in [files -> UNION {Survivors(frames(s), durable(s)) : s \in files}] :
                          \A s \in files : f[s] \in Survivors(frames(s), durable(s))}
          /\ synced' = [s \in files |-> Len(segs'[s])]
          /\ named' = files
          /\ removed' = << >>

(* What a reader sees of a file: it stops at a frame written in part.      *)
Readable(frames) ==
  LET torn == SelectInSeq(frames, IsTorn)
  IN IF torn = 0 THEN frames ELSE SubSeq(frames, 1, torn - 1)

(* scan_max_view, Views::with_current.                                     *)
MaxView(files) ==
  Max({0} \cup UNION {{files[s][k].view : k \in DOMAIN files[s]} : s \in DOMAIN files})

(* Mutant: a reopened log starts again at view 0.                          *)
ViewFromZero(files) == 0

ResumedView(files) == MaxView(files)

(* observe_view: the frame carries a view older than one before it.        *)
IsStale(frames, k, seed) ==
  frames[k].view < seed \/ \E j \in 1 .. k - 1 : frames[k].view < frames[j].view
IsStaleAt(files, p) ==
  \E q \in Places(files) : Before(q, p) /\ FrameAt(files, p).view < FrameAt(files, q).view

(* scan_active_segment: the tail is cut at a torn or a stale frame.        *)
Scanned(frames, seed) ==
  LET whole == Readable(frames)
      fenced == {k \in DOMAIN whole : IsStale(whole, k, seed)}
  IN IF fenced = {} THEN whole ELSE SubSeq(whole, 1, Min(fenced) - 1)

(* Past the newest record of the log, or from where there is none.         *)
SeqAfter(files, from) ==
  LET records == MutationsIn(files)
  IN IF records = {} THEN from ELSE FrameAt(files, LastOf(records)).seq + 1

(* Mutant: the name of the active segment is not taken into account.       *)
NextFromRecords(files, active) == SeqAfter(files, 0)

(* Mutant: a number is skipped when the log is reopened.                   *)
NextAfterGap(files, active) ==
  IF MutationsIn(files) = {} THEN active ELSE SeqAfter(files, 0) + 1

(* next_seq: past the newest record; when the active segment has none, not *)
(* below the start the segment is named after.                             *)
NextSeq(files, active) ==
  LET after == SeqAfter(files, 0)
      inActive == \E p \in MutationsIn(files) : p[1] = active
  IN IF inActive \/ after >= active THEN after ELSE active

LastCheckpoint(files) ==
  LET controls == FlushedIn(files)
  IN IF controls = {} THEN None ELSE FrameAt(files, LastOf(controls)).seq

(* Records behind the last checkpoint.                                     *)
Uncovered(files) == {p \in MutationsIn(files) : \A q \in FlushedIn(files) : Before(q, p)}

(* Mutant: only the records of the active segment are counted.             *)
BytesOfActive(files) == Cardinality({p \in Uncovered(files) : p[1] = Max(DOMAIN files)})

(* bytes_since_checkpoint, recovered across segments.                      *)
BytesSinceCheckpoint(files) == Cardinality(Uncovered(files))

SealedTorn == \E s \in DOMAIN segs \ {Max(DOMAIN segs)} : SelectInSeq(segs[s], IsTorn) # 0

(* Wal::open: the last segment is repaired and becomes the active one, the *)
(* counters are rebuilt from the files, and everything is synchronized.    *)
Open ==
  /\ pc = "down"
  /\ LET active == Max(DOMAIN segs)
         sealed == [s \in DOMAIN segs \ {active} |-> Readable(segs[s])]
         kept == Scanned(segs[active], MaxView(sealed))
         view == ResumedView(With(sealed, active, kept))
         body == IF kept = << >> THEN <<Schema(view)>> ELSE kept
         files == With(sealed, active, body)
         next == NextSeq(files, active)
     IN /\ segs' = [segs EXCEPT ![active] = body]
        /\ synced' = [s \in DOMAIN segs |-> Len(segs'[s])]
        /\ wal' = [active |-> active, active_bytes |-> Len(body), next_seq |-> next,
                   durable_seq |-> next, durable_ends |-> synced',
                   last_checkpoint |-> LastCheckpoint(files),
                   bytes |-> BytesSinceCheckpoint(files), pending |-> None, view |-> view]
  /\ named' = DOMAIN segs
  /\ removed' = << >>
  /\ pc' = "opened"
  /\ UNCHANGED <<world, run, acked, countVars>>

(* ValidatedRange::read: the records at or after the newest run.           *)
ReadableFiles == [s \in DOMAIN segs |-> Readable(segs[s])]
ReplayTail ==
  {p \in MutationsIn(ReadableFiles) : /\ FrameAt(segs, p).seq >= run.seq_hi
                                     /\ ~IsStaleAt(ReadableFiles, p)}

(* validate_record_tick, over the whole tail before it is applied.         *)
TicksValid(tail) ==
  \A p, q \in tail : Before(p, q) => FrameAt(segs, p).tick < FrameAt(segs, q).tick

(* recover_world: the newest run, which restores no tick, and the tail. A  *)
(* torn frame with others behind it is a checksum error or, if it claims   *)
(* to be longer than they are, the end of its file.                        *)
Recover ==
  /\ pc = "opened"
  /\ LET tail == ReplayTail
     IN /\ pc' \in IF ~TicksValid(tail) THEN {"failed"}
                   ELSE IF SealedTorn THEN {"failed", "idle"} ELSE {"idle"}
        /\ \E dirty \in BOOLEAN :
             /\ dirty => tail # {}
             /\ world' = [content |-> run.content \cup {FrameAt(segs, p).id : p \in tail},
                          tick |-> IF tail = {} THEN 0 ELSE FrameAt(segs, LastOf(tail)).tick + 1,
                          dirty |-> dirty]
  /\ UNCHANGED <<diskVars, wal, run, acked, countVars>>

Next ==
  \/ Bump \/ AppendWrite \/ AppendSync
  \/ RollCreate \/ RollCreateFails \/ RollPublish \/ RollAbandon
  \/ Apply \/ Flush \/ CheckpointFails
  \/ AckWrite \/ AckWriteFails \/ AckSync \/ AckSyncFails \/ CleanUpAgainFails
  \/ DeleteSegments
  \/ ProcessCrash \/ PowerLoss \/ Open \/ Recover

Spec == Init /\ [][Next]_vars

-----------------------------------------------------------------------------

IsFrame(f) ==
  /\ f.kind \in {"schema", "mutations", "checkpoint", "torn"}
  /\ f.seq \in 0 .. MaxCommits /\ f.id \in 0 .. MaxCommits
  /\ f.tick \in 0 .. MaxCommits /\ f.view \in 0 .. MaxViews

(* The variables have the types declared.                                  *)
TypeOK ==
  /\ DOMAIN segs \subseteq 0 .. MaxCommits /\ DOMAIN segs # {}
  /\ \A s \in DOMAIN segs : \A k \in DOMAIN segs[s] : IsFrame(segs[s][k])
  /\ DOMAIN synced = DOMAIN segs /\ \A s \in DOMAIN segs : synced[s] \in 0 .. Len(segs[s])
  /\ named \subseteq DOMAIN segs
  /\ DOMAIN removed \subseteq 0 .. MaxCommits
  /\ wal.pending \in (0 .. MaxCommits) \cup {None}
  /\ pc \in Steps
  /\ world.content \subseteq 1 .. MaxCommits /\ world.tick \in 0 .. MaxCommits
  /\ world.dirty \in BOOLEAN
  /\ run.seq_hi \in 0 .. MaxCommits /\ run.content \subseteq 1 .. MaxCommits
  /\ acked \subseteq 1 .. MaxCommits

(* What Durable promises: recovery never fails, and a commit whose append  *)
(* returned is in the world between commits, whatever crashed since.       *)
AcknowledgedCommitsSurvive ==
  /\ pc # "failed"
  /\ pc = "idle" => acked \subseteq world.content

DurableFrames(s) == Readable(SubSeq(segs[s], 1, synced[s]))

(* At every moment the newest run and the synchronized part of the named   *)
(* segments hold every acknowledged commit, and what the run lacks is at   *)
(* or after its sequence number: neither rollover nor delete_segments_     *)
(* before has taken a record away that a replay would still need.          *)
AckedIsRecoverable ==
  acked \subseteq run.content \cup
    UNION {{DurableFrames(s)[k].id : k \in {j \in DOMAIN DurableFrames(s) :
              IsMutations(DurableFrames(s)[j]) /\ DurableFrames(s)[j].seq >= run.seq_hi}}
           : s \in named}

(* The name of a segment bounds what is in it and in the ones before it,   *)
(* which is what delete_segments_before and the range readers rely on: no  *)
(* segment grew past the start of a later one, an abandoned one included.  *)
SegmentsPartition ==
  \A s \in DOMAIN segs : \A k \in DOMAIN segs[s] :
    IsMutations(segs[s][k]) =>
      /\ s <= segs[s][k].seq
      /\ \A t \in DOMAIN segs : s < t => segs[s][k].seq < t

(* No sequence number is used twice: the log is in the order of them, the  *)
(* next one is past all of them and past what the newest run covers, also  *)
(* when the segments that held the last ones are deleted.                  *)
SequenceNumbersAreFresh ==
  LET records == MutationsIn(segs)
  IN /\ \A p, q \in records : Before(p, q) => FrameAt(segs, p).seq < FrameAt(segs, q).seq
     /\ pc # "down" => /\ \A p \in records : FrameAt(segs, p).seq < wal.next_seq
                       /\ run.seq_hi <= wal.next_seq

(* What a reader may be handed is durable: the ends published for each     *)
(* segment are within what fsync has covered, and with them every record   *)
(* below durable_next_seq and none at or after it.                         *)
PublishedPrefixIsDurable ==
  pc \notin {"down", "failed"} =>
    /\ DOMAIN wal.durable_ends \subseteq named
    /\ \A s \in DOMAIN wal.durable_ends :
         /\ wal.durable_ends[s] <= synced[s]
         /\ \A k \in DOMAIN segs[s] : IsMutations(segs[s][k]) =>
              (k <= wal.durable_ends[s] <=> segs[s][k].seq < wal.durable_seq)

(* INV-2: the frames of the log never go back to an older view, and the    *)
(* handle writes none older than what the log has.                         *)
ViewsNeverRegress ==
  \A p \in Places(ReadableFiles) :
    /\ ~IsStaleAt(ReadableFiles, p)
    /\ pc # "down" => FrameAt(segs, p).view <= wal.view

(* A record that no checkpoint covers is counted towards the next one, a   *)
(* restart included, and no checkpoint is ahead of the log (AutoCheckpoint *)
(* could not name a range then).                                           *)
UncheckpointedIsCounted ==
  pc \notin {"down", "failed"} =>
    LET last == IF wal.last_checkpoint = None THEN 0 ELSE wal.last_checkpoint
    IN /\ last <= wal.next_seq
       /\ Cardinality({p \in MutationsIn(segs) : FrameAt(segs, p).seq >= last}) <= wal.bytes
==============================================================================
