----------------------------- MODULE Replication -----------------------------
(***************************************************************************)
(* Pull replication: the source of a Replicated log with its members and   *)
(* sessions (replicated.rs), the range it reads for a follower             *)
(* (wal/range.rs), the pump that carries it (transport.rs) and the         *)
(* follower that validates, journals, synchronizes and applies it          *)
(* (wal/ingest.rs, wal/plan.rs, replication.rs).                           *)
(*                                                                         *)
(* The log is what Wal guarantees of it: the published frames, which no    *)
(* restart of the source takes back, in segments that begin with a schema  *)
(* frame.  A record is its sequence number, tick and view, and whether its *)
(* changes apply to a world that has the records before it: a log may hold *)
(* one that does not, the second of two despawns of an entity.  A frame    *)
(* counts as one byte.                                                     *)
(*                                                                         *)
(* A fetch is three steps, because the source holds neither the membership *)
(* lock nor the WAL lock between them, and the link may lose the answer,   *)
(* repeat an older one or hand over one of another source.  A follower's   *)
(* process may crash, lose power or meet an I/O error between any two of   *)
(* its steps.                                                              *)
(***************************************************************************)
EXTENDS Naturals, SequencesExt

CONSTANTS
  Followers,    \* journals, each with the process that opens it
  Members,      \* the names the source may configure
  SegmentFrames,                     \* max_segment_bytes, in frames
  MaxRecords, MaxBytes, MaxControls, \* WalRangeLimits of the followers
  MaxCommits, MaxViews, MaxAdmin, MaxFaults,  \* bounds
  None

ASSUME ReplicationAssumption ==
  /\ {SegmentFrames, MaxRecords, MaxBytes, MaxControls} \subseteq Nat \ {0}
  /\ {MaxCommits, MaxViews, MaxAdmin, MaxFaults} \subseteq Nat
  /\ \A f \in Followers, id \in 0 .. MaxAdmin : [holder |-> f, id |-> id] # None

VARIABLES
  log,       \* the published frames of all segments
  source,    \* [view: the live Views counter, tick: the world's tick]
  members,   \* members[m] = [session, consumed_seq], for the configured m
  journal,   \* journal[f] = [entries, synced, torn]: the file ingest.log
  follower,  \* follower[f]: the JournaledFollower, see Down and Empty
  pump,      \* pump[f]: its ReplicationPump and the fetch under way
  sent,      \* sent[f]: the answers the link may still deliver
  copy,      \* history: copy[f], the records follower f has made durable
  admin, faults   \* counters for the bounds

sourceVars == <<log, source>>
countVars == <<admin, faults>>
vars == <<sourceVars, members, journal, follower, pump, sent, copy, countVars>>

Control(kind, start, view) ==
  [kind |-> kind, seq |-> start, tick |-> 0, view |-> view, applies |-> TRUE]
Schema(start, view) == Control("schema", start, view)
Flushed(view) == Control("checkpoint", 0, view)
Mutations(seq, tick, view, applies) ==
  [kind |-> "mutations", seq |-> seq, tick |-> tick, view |-> view, applies |-> applies]

IsSchema(f) == f.kind = "schema"
IsMutations(f) == f.kind = "mutations"
Record(f) == [seq |-> f.seq, tick |-> f.tick, view |-> f.view, applies |-> f.applies]

(* The records among the first n frames with a sequence number from from   *)
(* on, in order.                                                           *)
RecordsIn(frames, from) ==
  LET upTo[n \in 0 .. Len(frames)] ==
        IF n = 0 THEN << >>
        ELSE IF IsMutations(frames[n]) /\ frames[n].seq >= from
             THEN Append(upTo[n - 1], Record(frames[n])) ELSE upTo[n - 1]
  IN upTo
RecordsSince(frames, from) == RecordsIn(frames, from)[Len(frames)]
Records(frames) == RecordsSince(frames, 0)

MaxView(frames, n, seed) == Max({frames[i].view : i \in 1..n} \cup {seed})

(* durable_seq: every record of the log is published.                      *)
DurableSeq == Len(Records(log))

(* Where the segment begins that holds frame i.                            *)
SchemaOf(i) == Max({k \in 1..i : IsSchema(log[k])})

Down == [up |-> FALSE, content |-> << >>, view |-> 0, tick |-> 0, poisoned |-> FALSE]
(* JournaledFollower::empty over Follower::new: nothing applied.           *)
Empty == [Down EXCEPT !.up = TRUE]
(* applied_seq: the high-water mark counts the applied records.            *)
Applied(st) == Len(st.content)

NoPump == [at |-> "none", member |-> None, session |-> None, answer |-> None]

Init ==
  /\ log = <<Schema(0, 0)>>
  /\ source = [view |-> 0, tick |-> 0]
  /\ members = [m \in Members |-> [session |-> None, consumed_seq |-> 0]]
  /\ journal = [f \in Followers |-> [entries |-> << >>, synced |-> 0, torn |-> FALSE]]
  /\ follower = [f \in Followers |-> Empty]
  /\ pump = [f \in Followers |-> NoPump]
  /\ sent = [f \in Followers |-> {}]
  /\ copy = [f \in Followers |-> << >>]
  /\ admin = 0 /\ faults = 0

(* A crash, an error or a mishap of the link.                              *)
Fault == faults < MaxFaults /\ faults' = faults + 1 /\ UNCHANGED admin
Administer == admin < MaxAdmin /\ admin' = admin + 1 /\ UNCHANGED faults

-----------------------------------------------------------------------------
(* The source.  Durable::try_commit has logged, synchronized and published *)
(* a record when it gives up the WAL lock; a full segment is then rolled.  *)
(* Nothing it does before asks whether the changes apply.                  *)
Rolled(frames) ==
  IF Len(frames) - Max({k \in DOMAIN frames : IsSchema(frames[k])}) + 1 >= SegmentFrames
  THEN Append(frames, Schema(Len(Records(frames)), source.view))
  ELSE frames

Commit ==
  /\ DurableSeq < MaxCommits
  /\ \E applies \in BOOLEAN :
       log' = Rolled(Append(log, Mutations(DurableSeq, source.tick, source.view, applies)))
  /\ source' = [source EXCEPT !.tick = @ + 1]
  /\ UNCHANGED <<members, journal, follower, pump, sent, copy, countVars>>

(* acknowledge_flush publishes a control frame with the current view.      *)
Checkpoint ==
  /\ MaxView(log, Len(log), 0) < source.view
  /\ log' = Append(log, Flushed(source.view))
  /\ UNCHANGED <<source, members, journal, follower, pump, sent, copy, countVars>>

Bump ==
  /\ source.view < MaxViews
  /\ source' = [source EXCEPT !.view = @ + 1]
  /\ UNCHANGED <<log, members, journal, follower, pump, sent, copy, countVars>>

(* Replicated::new after a restart: the view resumes at the newest in the  *)
(* log; the tick after the last record, or at zero when recovery found a   *)
(* run that covers the whole log and no record to replay.  The membership  *)
(* is supplied again, and every member starts at zero without a session.   *)
SourceRestart ==
  /\ Fault
  /\ \E tick \in {source.tick, 0} :
       source' = [view |-> MaxView(log, Len(log), 0), tick |-> tick]
  /\ members' = [m \in DOMAIN members |-> [session |-> None, consumed_seq |-> 0]]
  /\ UNCHANGED <<log, journal, follower, pump, sent, copy>>

AddMember(m) ==
  /\ m \notin DOMAIN members /\ Administer
  /\ members' = [n \in DOMAIN members \cup {m} |->
                  IF n = m THEN [session |-> None, consumed_seq |-> 0] ELSE members[n]]
  /\ UNCHANGED <<sourceVars, journal, follower, pump, sent, copy>>

RemoveMember(m) ==
  /\ m \in DOMAIN members /\ Administer
  /\ members' = [n \in DOMAIN members \ {m} |-> members[n]]
  /\ UNCHANGED <<sourceVars, journal, follower, pump, sent, copy>>

(* retention_plan: the cutoff it proposes for a replay floor.              *)
CandidateCutoff(leader_replay_floor) ==
  Min({leader_replay_floor, DurableSeq} \cup {members[m].consumed_seq : m \in DOMAIN members})

(* session_member: the entry still carries this very session.              *)
IsCurrent(m, session) == m \in DOMAIN members /\ members[m].session = session

(* Replicated::join.  A refused handle is dropped; its journal remains.    *)
Joinable(f) == ~follower[f].poisoned /\ Applied(follower[f]) <= DurableSeq

Join(f, m) ==
  /\ follower[f].up /\ pump[f].at = "none" /\ Administer
  /\ IF Joinable(f) /\ m \in DOMAIN members
     THEN LET session == [holder |-> f, id |-> admin] IN
          /\ members' = [members EXCEPT
               ![m] = [session |-> session, consumed_seq |-> Applied(follower[f])]]
          /\ pump' = [pump EXCEPT ![f] = [NoPump EXCEPT !.at = "idle", !.member = m,
                                                        !.session = session]]
          /\ UNCHANGED follower
     ELSE follower' = [follower EXCEPT ![f] = Down] /\ UNCHANGED <<members, pump>>
  /\ UNCHANGED <<sourceVars, journal, sent, copy>>

-----------------------------------------------------------------------------
(* Wal::records_from: the mutations from from_seq on, as many as the       *)
(* limits allow, each segment's part behind its schema frame.  A run that  *)
(* ends early (a limit) keeps the control frames before the next mutation. *)
Position(seq) == CHOOSE i \in DOMAIN log : IsMutations(log[i]) /\ log[i].seq = seq

(* The frames returned when the scan stops behind frame last.              *)
Copied(first, last) ==
  IF IsSchema(log[first - 1]) THEN SubSeq(log, first - 1, last)
  ELSE <<log[SchemaOf(first)]>> \o SubSeq(log, first, last)

Controls(frames) == Len(SelectSeq(frames, LAMBDA f : ~IsMutations(f)))
Fits(frames) == Len(frames) <= MaxBytes /\ Controls(frames) <= MaxControls

(* A schema frame is charged together with the first frame behind it.      *)
StopsAt(first, end) ==
  {last \in first..end : ~IsSchema(log[last]) /\ Fits(Copied(first, last))}

Resolved(end) ==
  \A i \in 1..end :
    (IsMutations(log[i]) \/ i >= SchemaOf(Len(log))) => log[i].view >= MaxView(log, i - 1, 0)

EmptyRange(from) ==
  [from_seq |-> from, next_seq |-> from, seed_view |-> MaxView(log, Len(log), 0), frames |-> << >>]

RangeFrom(from) ==
  LET first == Position(from)
      slots == Min({DurableSeq - from, MaxRecords})
      last  == Max(StopsAt(first, Position(from + slots - 1)))
      frames == Copied(first, last)
  IN [from_seq |-> from, next_seq |-> from + Len(Records(frames)),
      seed_view |-> MaxView(log, first - 1, 0), frames |-> frames]

(* The answer, or None for the errors RangeAhead, UnresolvedHistory and    *)
(* RangeLimitTooSmall.  pin_replication_prefix keeps all segments, so that *)
(* CursorBehind and MissingFenceContext do not arise.                      *)
RecordsFrom(from) ==
  IF from > DurableSeq \/ ~Resolved(Len(log)) THEN None
  ELSE IF from = DurableSeq THEN EmptyRange(from)
  ELSE IF Fits(Copied(Position(from), Position(from))) THEN RangeFrom(from)
  ELSE None

-----------------------------------------------------------------------------
(* ReplicationPump::pump_once.  fetch_session_with checks the session,     *)
(* reads the log without the membership lock, and checks again before it   *)
(* records the position the request reported.                              *)
Stopped(f) == [pump EXCEPT ![f] = [NoPump EXCEPT !.at = "stopped"]]

FetchCheck(f) ==
  /\ pump[f].at = "idle" /\ ~follower[f].poisoned
  /\ pump' = IF IsCurrent(pump[f].member, pump[f].session)
             THEN [pump EXCEPT ![f].at = "checked"]
             ELSE Stopped(f)
  /\ UNCHANGED <<sourceVars, members, journal, follower, sent, copy, countVars>>

FetchRead(f) ==
  /\ pump[f].at = "checked"
  /\ LET range == RecordsFrom(Applied(follower[f])) IN
     pump' = IF range = None THEN Stopped(f)
             ELSE [pump EXCEPT ![f].at = "read", ![f].answer = range]
  /\ UNCHANGED <<sourceVars, members, journal, follower, sent, copy, countVars>>

(* Mutant: the capability is not checked again after the read.             *)
FetchConfirmUnchecked(f) ==
  /\ pump[f].at = "read"
  /\ IF pump[f].member \in DOMAIN members
     THEN /\ members' = [members EXCEPT ![pump[f].member].consumed_seq = Max({@, pump[f].answer.from_seq})]
          /\ sent' = [sent EXCEPT ![f] = @ \cup {pump[f].answer}]
          /\ pump' = [pump EXCEPT ![f].at = "answered"]
     ELSE pump' = Stopped(f) /\ UNCHANGED <<members, sent>>
  /\ UNCHANGED <<sourceVars, journal, follower, copy, countVars>>

FetchConfirm(f) ==
  /\ pump[f].at = "read"
  /\ IF IsCurrent(pump[f].member, pump[f].session)
     THEN /\ members' = [members EXCEPT ![pump[f].member].consumed_seq = Max({@, pump[f].answer.from_seq})]
          /\ sent' = [sent EXCEPT ![f] = @ \cup {pump[f].answer}]
          /\ pump' = [pump EXCEPT ![f].at = "answered"]
     ELSE pump' = Stopped(f) /\ UNCHANGED <<members, sent>>
  /\ UNCHANGED <<sourceVars, journal, follower, copy, countVars>>

(* TransportError::Lost or Down: the caller retries the same position.     *)
Lost(f) ==
  /\ pump[f].at \in {"checked", "read", "answered"} /\ Fault
  /\ pump' = [pump EXCEPT ![f].at = "idle", ![f].answer = None]
  /\ UNCHANGED <<sourceVars, members, journal, follower, sent, copy>>

(* The link delivers an answer to an earlier request.                     *)
DeliverLate(f) ==
  /\ pump[f].at = "answered" /\ Fault
  /\ \E answer \in sent[f] \ {pump[f].answer} :
       pump' = [pump EXCEPT ![f].answer = answer]
  /\ UNCHANGED <<sourceVars, members, journal, follower, sent, copy>>

-----------------------------------------------------------------------------
(* ValidatedRange::from_frames_after.  What it checks of a range before    *)
(* anything is written, for a follower in state st.                        *)
Bounded(range) ==
  /\ range.from_seq <= range.next_seq
  /\ range.next_seq - range.from_seq <= MaxRecords
  /\ Fits(range.frames)

(* A first segment at or below the range, the others where they must be.   *)
Segmented(range) ==
  \A i \in DOMAIN range.frames : IsSchema(range.frames[i]) =>
    IF i = 1 THEN range.frames[i].seq <= range.from_seq
    ELSE range.frames[i].seq =
           range.from_seq + Len(Records(SubSeq(range.frames, 1, i - 1)))

Contiguous(range) ==
  LET records == Records(range.frames) IN
  /\ Len(records) = range.next_seq - range.from_seq
  /\ \A i \in DOMAIN records : records[i].seq = range.from_seq + i - 1

(* The range is fenced by its own seed, and what is not applied yet by the *)
(* view the follower has reached.                                          *)
Fenced(range, st) ==
  \A i \in DOMAIN range.frames : IsMutations(range.frames[i]) =>
    /\ range.frames[i].view >= MaxView(range.frames, i - 1, range.seed_view)
    /\ range.frames[i].seq >= Applied(st) => range.frames[i].view >= st.view

(* The records at or behind the high-water mark, which apply_next will     *)
(* apply; the ones before it are skipped.                                  *)
Fresh(range, st) == RecordsSince(range.frames, Applied(st))

(* validate_record_tick: a record carries at least the tick that the ones  *)
(* before it leave behind.                                                 *)
TickAfter(records, st) == IF records = << >> THEN st.tick ELSE Last(records).tick + 1
Ticking(range, st) ==
  LET fresh == Fresh(range, st) IN
  \A i \in DOMAIN fresh : fresh[i].tick >= TickAfter(SubSeq(fresh, 1, i - 1), st)

Valid(range, st) ==
  /\ range.from_seq <= Applied(st)
  /\ Bounded(range) /\ Segmented(range) /\ Contiguous(range) /\ Fenced(range, st)
  /\ Ticking(range, st)

PlanView(range, st) == MaxView(range.frames, Len(range.frames), Max({range.seed_view, st.view}))

(* Mutant: a range without new records is dropped, with its view.          *)
IsNoOpWithoutView(range, st) == range.next_seq <= Applied(st)

IsNoOp(range, st) == range.next_seq <= Applied(st) /\ PlanView(range, st) = st.view

(* Mutant: every record of the range is applied, duplicates again.         *)
ExecutedAll(range, st) ==
  [st EXCEPT !.content = @ \o Records(range.frames), !.view = PlanView(range, st),
             !.tick = TickAfter(Records(range.frames), st)]

(* execute_following: apply_next for every record, then the new view.  The *)
(* first that does not apply poisons the follower, which keeps the records *)
(* before it and its old view.                                             *)
Failures(records) == {i \in DOMAIN records : ~records[i].applies}

Executed(range, st) ==
  LET fresh == Fresh(range, st)
      applied == SubSeq(fresh, 1, Min(Failures(fresh)) - 1)
  IN IF Failures(fresh) = {}
     THEN [st EXCEPT !.content = @ \o fresh, !.view = PlanView(range, st),
                     !.tick = TickAfter(fresh, st)]
     ELSE [st EXCEPT !.content = @ \o applied, !.poisoned = TRUE]

Poisoned(f) == [follower EXCEPT ![f].poisoned = TRUE]
Answer(f) == pump[f].answer

(* apply_range refuses, or there is nothing to do.                         *)
IngestRefused(f) ==
  /\ pump[f].at = "answered" /\ ~Valid(Answer(f), follower[f])
  /\ follower' = Poisoned(f)
  /\ pump' = Stopped(f)
  /\ UNCHANGED <<sourceVars, members, journal, sent, copy, countVars>>

(* The answer belongs to another history.                                  *)
HistoryMismatch(f) ==
  /\ pump[f].at = "answered" /\ Fault
  /\ follower' = Poisoned(f)
  /\ pump' = Stopped(f)
  /\ UNCHANGED <<sourceVars, members, journal, sent, copy>>

IngestNothing(f) ==
  /\ pump[f].at = "answered" /\ Valid(Answer(f), follower[f]) /\ IsNoOp(Answer(f), follower[f])
  /\ pump' = [pump EXCEPT ![f].at = "idle", ![f].answer = None]
  /\ UNCHANGED <<sourceVars, members, journal, follower, sent, copy, countVars>>

Journals(f) ==
  /\ pump[f].at = "answered" /\ Valid(Answer(f), follower[f]) /\ ~IsNoOp(Answer(f), follower[f])

(* Mutant: a range of control frames is applied but not journaled.         *)
IngestWriteRecordsOnly(f) ==
  /\ Journals(f)
  /\ journal' = IF Fresh(Answer(f), follower[f]) = << >> THEN journal
                ELSE [journal EXCEPT ![f].entries = Append(@, Answer(f))]
  /\ pump' = [pump EXCEPT ![f].at = "journaled"]
  /\ UNCHANGED <<sourceVars, members, follower, sent, copy, countVars>>

IngestWrite(f) ==
  /\ Journals(f)
  /\ journal' = [journal EXCEPT ![f].entries = Append(@, Answer(f))]
  /\ pump' = [pump EXCEPT ![f].at = "journaled"]
  /\ UNCHANGED <<sourceVars, members, follower, sent, copy, countVars>>

IngestWriteFails(f) ==
  /\ Journals(f) /\ Fault
  /\ \E torn \in BOOLEAN : journal' = [journal EXCEPT ![f].torn = torn]
  /\ follower' = Poisoned(f)
  /\ pump' = Stopped(f)
  /\ UNCHANGED <<sourceVars, members, sent, copy>>

(* The entry is durable before any record of it is applied, and it stays   *)
(* in the journal when one of them does not apply.                         *)
IngestSync(f) ==
  /\ pump[f].at = "journaled"
  /\ journal' = [journal EXCEPT ![f].synced = Len(journal[f].entries)]
  /\ LET st == Executed(Answer(f), follower[f]) IN
     /\ follower' = [follower EXCEPT ![f] = st]
     /\ copy' = [copy EXCEPT ![f] = st.content]
     /\ pump' = IF st.poisoned THEN Stopped(f)
                ELSE [pump EXCEPT ![f].at = "idle", ![f].answer = None]
  /\ UNCHANGED <<sourceVars, members, sent, countVars>>

IngestSyncFails(f) ==
  /\ pump[f].at = "journaled" /\ Fault
  /\ follower' = Poisoned(f)
  /\ pump' = Stopped(f)
  /\ UNCHANGED <<sourceVars, members, journal, sent, copy>>

(* A pump ends, and its link with it.                                      *)
Unlinked(f) ==
  /\ pump' = [pump EXCEPT ![f] = NoPump]
  /\ sent' = [sent EXCEPT ![f] = {}]

(* read_at: the requested prefix must be applied, by a healthy follower.   *)
CanReadAt(f, seq) == follower[f].up /\ ~follower[f].poisoned /\ seq < Applied(follower[f])

(* ReplicationPump::into_parts.                                            *)
IntoParts(f) ==
  /\ pump[f].at \in {"idle", "stopped"}
  /\ Unlinked(f)
  /\ UNCHANGED <<sourceVars, members, journal, follower, copy, countVars>>

-----------------------------------------------------------------------------
(* JournaledFollower::open interprets the entries as ingestion did.        *)
Interpreted(st, entry) ==
  IF st.poisoned \/ ~Valid(entry, st) THEN [st EXCEPT !.poisoned = TRUE]
  ELSE Executed(entry, st)

Replays(entries) ==
  LET state[n \in 0..Len(entries)] ==
        IF n = 0 THEN Empty ELSE LET st == state[n - 1] IN Interpreted(st, entries[n])
  IN state
Replayed(entries) == Replays(entries)[Len(entries)]

(* A process ends, or is ended: the file keeps what was written to it.     *)
FollowerCrash(f) ==
  /\ follower[f].up /\ Fault
  /\ follower' = [follower EXCEPT ![f] = Down]
  /\ Unlinked(f)
  /\ UNCHANGED <<sourceVars, members, journal, copy>>

(* Its machine ends: what was not synchronized may be gone or cut.         *)
PowerLoss(f) ==
  /\ Fault
  /\ \E kept \in journal[f].synced..Len(journal[f].entries), torn \in BOOLEAN :
       /\ torn => kept < Len(journal[f].entries) \/ journal[f].torn
       /\ journal' = [journal EXCEPT ![f].entries = SubSeq(@, 1, kept), ![f].torn = torn]
  /\ follower' = [follower EXCEPT ![f] = Down]
  /\ Unlinked(f)
  /\ UNCHANGED <<sourceVars, members, copy>>

(* Dropping the handle of a poisoned follower, before it is opened again.  *)
DropPoisoned(f) ==
  /\ follower[f].up /\ follower[f].poisoned /\ pump[f].at \in {"none", "stopped"}
  /\ follower' = [follower EXCEPT ![f] = Down]
  /\ Unlinked(f)
  /\ UNCHANGED <<sourceVars, members, journal, copy, countVars>>

(* open: synchronize what is there, replay all and cut an incomplete entry *)
(* behind it.                                                              *)
Open(f) ==
  /\ ~follower[f].up
  /\ ~Replayed(journal[f].entries).poisoned
  /\ journal' = [journal EXCEPT ![f].synced = Len(journal[f].entries), ![f].torn = FALSE]
  /\ follower' = [follower EXCEPT ![f] = Replayed(journal[f].entries)]
  /\ copy' = [copy EXCEPT ![f] = Replayed(journal[f].entries).content]
  /\ UNCHANGED <<sourceVars, members, pump, sent, countVars>>

(* Nothing escapes when an entry does not replay: open has synchronized    *)
(* the file and returns the error, the next time again.                    *)
OpenRefused(f) ==
  /\ ~follower[f].up
  /\ Replayed(journal[f].entries).poisoned
  /\ journal' = [journal EXCEPT ![f].synced = Len(journal[f].entries)]
  /\ copy' = [copy EXCEPT ![f] = Replayed(journal[f].entries).content]
  /\ UNCHANGED <<sourceVars, members, follower, pump, sent, countVars>>

-----------------------------------------------------------------------------
Pumping(f) ==
  \/ FetchCheck(f) \/ FetchRead(f) \/ FetchConfirm(f)
  \/ IngestRefused(f) \/ IngestNothing(f) \/ IngestWrite(f) \/ IngestSync(f)

Failing(f) ==
  \/ Lost(f) \/ DeliverLate(f) \/ HistoryMismatch(f)
  \/ IngestWriteFails(f) \/ IngestSyncFails(f)
  \/ FollowerCrash(f) \/ PowerLoss(f)

Next ==
  \/ Commit \/ Checkpoint \/ Bump \/ SourceRestart
  \/ \E m \in Members : AddMember(m) \/ RemoveMember(m)
  \/ \E f \in Followers :
       \/ \E m \in Members : Join(f, m)
       \/ Pumping(f) \/ Failing(f)
       \/ IntoParts(f) \/ DropPoisoned(f) \/ Open(f) \/ OpenRefused(f)

(* The caller keeps calling pump_once and every call of it ends.           *)
Spec == Init /\ [][Next]_vars /\ \A f \in Followers : WF_vars(Pumping(f))

-----------------------------------------------------------------------------
(* What follower f has after any crash: the entries that are durable.      *)
Durably(f) == Replayed(SubSeq(journal[f].entries, 1, journal[f].synced))

(* The refinement of LogShipping: the copy of a follower is what it keeps  *)
(* through a power loss, the records its durable entries replay.  It is a  *)
(* prefix of the published log, in order, with nothing skipped, repeated   *)
(* or taken from elsewhere, and no crash, late answer or rejoin makes it   *)
(* shorter (wal/ingest.rs:178).                                            *)
Shipping == INSTANCE LogShipping WITH published <- Records(log)
ImplementsLogShipping == Shipping!Spec

(* A member's progress, which retention_plan takes for what its follower   *)
(* no longer needs, is never more than the records that follower has       *)
(* durably: not after a lost answer, not through an old session of a       *)
(* removed, re-added or rejoined member (replicated.rs:178).  A journal    *)
(* with an entry that does not apply has these records and refuses to      *)
(* open all the same, see JournalRebuildsFollower.                         *)
ConsumedIsDurable ==
  \A m \in DOMAIN members :
    /\ members[m].session = None => members[m].consumed_seq = 0
    /\ members[m].session # None =>
         /\ members[m].consumed_seq <= Len(copy[members[m].session.holder])
         /\ CandidateCutoff(DurableSeq) <= Len(copy[members[m].session.holder])

(* The only entry a reopened journal refuses, at any moment, holds a       *)
(* record of the source's log that does not apply, and what is before that *)
(* record is replayed (the failure capture of wal/ingest.rs:555-593): no   *)
(* crash, lost tail or late answer makes a journal unreadable.  What       *)
(* read_at shows is durable, and between two ingestions the replay gives   *)
(* exactly the state of a healthy follower, its view included, so that the *)
(* journal of a healthy follower opens (wal/ingest.rs:66-70).              *)
JournalRebuildsFollower ==
  \A f \in Followers :
    LET replayed == Replayed(journal[f].entries) IN
    /\ replayed.poisoned =>
         Applied(replayed) < DurableSeq /\ ~Records(log)[Applied(replayed) + 1].applies
    /\ Durably(f).content = copy[f]
    /\ \A seq \in 0..MaxCommits : CanReadAt(f, seq) =>
         /\ seq < Len(copy[f])
         /\ follower[f].content[seq + 1] = copy[f][seq + 1]
    /\ follower[f].up =>
         \/ follower[f].poisoned
         \/ pump[f].at = "journaled"
         \/ replayed = follower[f]

(* A pump that is neither stopped nor replaced brings its follower to all  *)
(* records and to the view of the source, also when the last thing that    *)
(* was published is a control frame (transport.rs:159-164).                *)
Attached(f) ==
  pump[f].at \notin {"none", "stopped"} /\ IsCurrent(pump[f].member, pump[f].session)
CaughtUp(f) ==
  Applied(follower[f]) = DurableSeq /\ follower[f].view = MaxView(log, Len(log), 0)
CatchesUp ==
  \A f \in Followers : <>[]Attached(f) => []<>CaughtUp(f)
=============================================================================
