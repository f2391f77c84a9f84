------------------------- MODULE ArtifactDownloads -------------------------
(***************************************************************************)
(* The native client's downloads: a manager that keeps a record of each    *)
(* one in memory and in a journal file, workers that fetch an artifact in  *)
(* chunks from a session of the server, write them to a staged file and to *)
(* the destination the user chose, and verify the staged content.  The     *)
(* connection breaks, the client crashes, the server forgets sessions, the *)
(* artifact changes, files cannot be written.                              *)
(*                                                                         *)
(* A file is the sequence of its chunks, a chunk the content it is of.     *)
(* One artifact of one server is downloaded; a session that nobody holds   *)
(* the token of is left out (the server removes it after a while), so a    *)
(* download has at most one.                                               *)
(***************************************************************************)
EXTENDS Integers, Sequences, FiniteSets

CONSTANTS Ids,        \* bound: the identifiers that uuid.NewString returns
          Workers,    \* bound: the goroutines
          Contents,   \* what the artifact may contain, by content id
          None,
          Size,       \* bound: the chunks of a file
          Temporary,  \* BOOLEAN: sessions serve a copy (archives, logs)
          Events,     \* bound: which of the things below happen
          MaxEvents   \* bound: how many of them

ASSUME SetsAssumption == None \notin Contents \cup Ids /\ Temporary \in BOOLEAN
ASSUME BoundsAssumption == Size \in Nat \ {0} /\ MaxEvents \in Nat /\ IsFiniteSet(Workers)

VARIABLES source,   \* the artifact's content
          session,  \* artifactDownloadService.sessions
          link,     \* the client of the manager, and whether it works
          rec,      \* records
          journal,  \* native-downloads.json
          active,   \* the downloads with an entry in active
          resume,   \* those that AttachClient is about to resume
          worker,
          stage,    \* the staged files
          dest,     \* the destination files
          events,
          unsaved,  \* history: the journal could not be written once
          doubled   \* history: a download was resumed while a goroutine was at work on it

disk == <<journal, stage, dest>>
vars == <<source, session, link, rec, disk, active, resume, worker, events, unsaved, doubled>>
-----------------------------------------------------------------------------
Tokens == 0 .. 4 + Cardinality(Workers)   \* 0: none; a new session has a token that nobody holds
States == {"absent", "preparing", "downloading", "paused", "ready-to-save", "saving",
           "completed", "failed", "source-changed"}

Record == [state  : States,
           staged : BOOLEAN,      \* StagePath is set, and so is ContentID
           named  : BOOLEAN,      \* DestinationPath is set
           cid    : Contents \cup {None},
           token  : Tokens,
           offset : 0 .. Size,
           byUser : BOOLEAN,      \* PausedByUser
           error  : {"none", "connection", "source", "storage"}]

NoRecord == [state |-> "absent", staged |-> FALSE, named |-> FALSE, cid |-> None, token |-> 0,
             offset |-> 0, byUser |-> FALSE, error |-> "none"]

Session == [token : Tokens, cid : Contents \cup {None}]
NoSession == [token |-> 0, cid |-> None]

File == [there : BOOLEAN, data : Seq(Contents \cup {None}), synced : 0 .. Size]
NoFile == [there |-> FALSE, data |-> <<>>, synced |-> 0]

Worker == [pc : {"none", "prepare", "dialog", "open", "loop", "received", "sync", "checkpoint",
                 "verify", "end", "again", "export", "copy"},
           id : Ids \cup {None}, cancelled : BOOLEAN, progress : 0 .. Size,
           cid : Contents \cup {None}, token : Tokens,   \* of its copy of the record
           chunk : Contents \cup {None},   \* the last chunk, if not yet written
           open  : BOOLEAN]                \* destination # nil

NoWorker == [pc |-> "none", id |-> None, cancelled |-> FALSE, progress |-> 0, cid |-> None,
             token |-> 0, chunk |-> None, open |-> FALSE]

Init ==
  /\ source \in Contents
  /\ session = [i \in Ids |-> NoSession]
  /\ link = "none"
  /\ rec = [i \in Ids |-> NoRecord]
  /\ journal = [i \in Ids |-> NoRecord]
  /\ active = {}
  /\ resume = {}
  /\ worker = [w \in Workers |-> NoWorker]
  /\ stage = [i \in Ids |-> NoFile]
  /\ dest = [i \in Ids |-> NoFile]
  /\ events = 0
  /\ unsaved = FALSE
  /\ doubled = FALSE

Kinds == {"break", "source", "expire", "crash", "journal", "stage", "destination", "edit", "other"}

Event(e) ==
  /\ e \in Events \cap Kinds
  /\ events < MaxEvents
  /\ events' = events + 1
  /\ unsaved' = (unsaved \/ e = "journal")

Calm == UNCHANGED <<events, unsaved>>
-----------------------------------------------------------------------------
(* saveLocked replaces the journal by the records that have a staged file, *)
(* or fails and leaves it.                                                 *)
Journaled(rs) == [i \in Ids |-> IF rs[i].state = "preparing" THEN NoRecord ELSE rs[i]]

Saved(rs) == rec' = rs /\ journal' = Journaled(rs) /\ Calm

Unsaved(rs) == rec' = rs /\ UNCHANGED journal /\ Event("journal")

(* An error of the save is ignored. *)
SavedIfPossible(rs) == Saved(rs) \/ Unsaved(rs)

With(i, r) == [rec EXCEPT ![i] = r]

(* cancel() of the download's entry in active. *)
Told(i) == [w \in Workers |-> IF i \in active /\ worker[w].id = i
                              THEN [worker[w] EXCEPT !.cancelled = TRUE] ELSE worker[w]]

Free(ws, w) == ws[w].pc = "none"

Begin(ws, w, pc, i) ==
  [ws EXCEPT ![w] = [NoWorker EXCEPT !.pc = pc, !.id = i]]

Done(w) == [worker EXCEPT ![w] = NoWorker]

Failed(i, state, error) == [rec[i] EXCEPT !.state = state, !.error = error]

FailedRecords(i, state, error) ==
  IF rec[i].state = "absent" THEN rec ELSE With(i, Failed(i, state, error))

FinishFailure(w, state, error) ==
  LET i == worker[w].id IN
  /\ SavedIfPossible(FailedRecords(i, state, error))
  /\ active' = active \ {i}
  /\ worker' = Done(w)
-----------------------------------------------------------------------------
(* The controller's goroutine: the user's commands, as the downloads       *)
(* screen offers them, and clients that are attached when a session was    *)
(* set up and detached when it ended, or when the app goes to the back.    *)
Idle == resume = {}

Connected == link \in {"up", "broken"}  \* to the server of the downloads, as far as the manager knows

(* One download of an artifact at a time: a second Start is told of it.    *)
(* Bound: the one before is not only complete, the user removed it.        *)
StartOf(ws, rs, i, w) ==
  /\ Connected
  /\ Free(ws, w)
  /\ rs[i].state = "absent"
  /\ i \notin {ws[v].id : v \in Workers}
  /\ \A j \in Ids : rs[j].state = "absent"

Start(i, w) ==
  /\ Idle
  /\ StartOf(worker, rec, i, w)
  /\ rec' = With(i, [NoRecord EXCEPT !.state = "preparing"])
  /\ active' = active \cup {i}
  /\ worker' = Begin(worker, w, "prepare", i)
  /\ UNCHANGED <<source, session, link, disk, resume, doubled>> /\ Calm

(* Remove and Cancel; the journal that cannot be written keeps the record, *)
(* but the worker was told to stop and its entry is gone.  The destination *)
(* is the user's now, and nobody's here.                                   *)
Forgotten(i) ==
  /\ active' = active \ {i}
  /\ \/ /\ Saved(With(i, NoRecord))
        /\ stage' = [stage EXCEPT ![i] = NoFile] /\ dest' = [dest EXCEPT ![i] = NoFile]
     \/ /\ Unsaved(rec)
        /\ UNCHANGED <<stage, dest>>

Remove(i) ==
  /\ Idle
  /\ rec[i].state = "completed"
  /\ Forgotten(i) /\ worker' = Told(i)
  /\ UNCHANGED <<source, session, link, resume, doubled>>

Cancel(i) ==
  /\ Idle
  /\ rec[i].state \notin {"absent", "completed"}
  /\ Forgotten(i) /\ worker' = Told(i)
  /\ session' \in {session, [session EXCEPT ![i] = NoSession]}
  /\ session' # session => link = "up" /\ rec'[i].state = "absent" /\ rec[i].token = session[i].token
  /\ UNCHANGED <<source, link, resume, doubled>>

(* Remove and then Start, under a new identifier, by Restart and by Resume *)
(* of a download without a staged file.  Either may fail: Start has to be  *)
(* connected, and finds another download of the same artifact.             *)
Again(ws, i, j, w) ==
  LET gone == With(i, NoRecord) IN
  /\ StartOf(ws, gone, j, w)
  /\ Saved([gone EXCEPT ![j] = [NoRecord EXCEPT !.state = "preparing"]])
  /\ stage' = [stage EXCEPT ![i] = NoFile] /\ dest' = [dest EXCEPT ![i] = NoFile]
  /\ active' = (active \ {i}) \cup {j}
  /\ worker' = Begin(ws, w, "prepare", j)

Redo(ws, i, w) ==
  \/ \E j \in Ids : Again(ws, i, j, w)
  \/ /\ Forgotten(i) /\ worker' = ws
     /\ rec'[i].state = "absent" => ~Connected \/ \E j \in Ids \ {i} : rec[j].state # "absent"

Restart(i, w) ==
  /\ Idle
  /\ rec[i].state = "source-changed"
  /\ Redo(Told(i), i, w)
  /\ UNCHANGED <<source, session, link, resume, doubled>>

Resumable(i) ==
  rec[i].staged /\ rec[i].state \notin {"ready-to-save", "completed", "source-changed"}

AtWork(ws, i) == \E v \in Workers : ws[v].id = i /\ ws[v].pc # "again"

(* Resume of a download with a staged file. *)
Resumed(ws, i, w) ==
  LET begun == [rec[i] EXCEPT !.state = "downloading", !.error = "none", !.byUser = FALSE] IN
  /\ Free(ws, w)
  /\ doubled' = (doubled \/ AtWork(ws, i))
  /\ \/ /\ Saved(With(i, begun))
        /\ active' = active \cup {i}
        /\ worker' = Begin(ws, w, "open", i)
     \/ /\ Unsaved(With(i, [begun EXCEPT !.state = "paused"]))
        /\ UNCHANGED active
        /\ worker' = ws

(* Resume, by the user or by the manager, with the workers as ws. *)
Resumes(ws, i, w) ==
  /\ i \notin active
  /\ \/ /\ Connected /\ Resumable(i)
        /\ Resumed(ws, i, w)
        /\ UNCHANGED <<stage, dest>>
     \/ /\ rec[i].state # "absent" /\ ~rec[i].staged
        /\ Redo(ws, i, w)
        /\ UNCHANGED doubled

Refuses(i) ==
  i \in active \/ rec[i].state = "absent" \/ (rec[i].staged /\ ~(Connected /\ Resumable(i)))

(* One that the manager asks for may be refused. *)
TriesToResume(ws, i, w) ==
  \/ Resumes(ws, i, w)
  \/ /\ Refuses(i)
     /\ worker' = ws
     /\ UNCHANGED <<rec, disk, active, doubled>> /\ Calm

Resume(i, w) ==
  /\ Idle
  /\ rec[i].state \in {"paused", "failed"}
  /\ Resumes(worker, i, w)
  /\ UNCHANGED <<source, session, link, resume>>

Pause(i) ==
  LET paused == With(i, [rec[i] EXCEPT !.byUser = TRUE]) IN
  /\ Idle
  /\ \/ /\ rec[i].state = "paused"
        /\ SavedIfPossible(paused)
        /\ UNCHANGED worker
     \/ /\ rec[i].state = "downloading" /\ i \in active
        /\ \/ Saved(paused) /\ worker' = Told(i)
           \/ Unsaved(rec) /\ UNCHANGED worker
  /\ UNCHANGED <<source, session, link, stage, dest, active, resume, doubled>>

Save(i, w) ==
  /\ Idle
  /\ rec[i].state = "ready-to-save" /\ i \notin active
  /\ Free(worker, w)
  /\ rec' = With(i, [rec[i] EXCEPT !.state = "saving", !.error = "none"])
  /\ active' = active \cup {i}
  /\ worker' = Begin(worker, w, "export", i)
  /\ UNCHANGED <<source, session, link, disk, resume, doubled>> /\ Calm

AttachClient(l) ==
  /\ Idle
  /\ link = "none"
  /\ \/ l = "up" /\ Calm
     \/ l = "other" /\ Event("other")
  /\ link' = l
  /\ resume' = IF l = "up" THEN {i \in Ids : rec[i].state = "paused" /\ ~rec[i].byUser} ELSE {}
  /\ UNCHANGED <<source, session, rec, disk, active, worker, doubled>>

ResumeNext(i, w) ==
  /\ i \in resume
  /\ resume' = resume \ {i}
  /\ TriesToResume(worker, i, w)
  /\ UNCHANGED <<source, session, link>>

DetachClient ==
  /\ Idle
  /\ link # "none"
  /\ link' = "none"
  /\ worker' = [w \in Workers |-> IF worker[w].id \in active
                                  THEN [worker[w] EXCEPT !.cancelled = TRUE] ELSE worker[w]]
  /\ UNCHANGED <<source, session, rec, disk, active, resume, doubled>> /\ Calm
-----------------------------------------------------------------------------
(* The server.  A request without a token makes a session of what the      *)
(* artifact is now; the last chunk ends a session.  An answer is the       *)
(* content of the chunk and what is announced with it.                     *)
FreshToken(i) ==
  CHOOSE t \in Tokens \ {0} :
    t \notin {rec[i].token, journal[i].token, session[i].token} \cup {worker[w].token : w \in Workers}

Known(i, token) == token # 0 /\ session[i].token = token

(* The session that serves a request for a chunk at an offset. *)
Serving(i, token) ==
  IF Known(i, token) THEN session[i] ELSE [token |-> FreshToken(i), cid |-> source]

Served(i, s, offset) ==
  session' = [session EXCEPT ![i] = IF offset + 1 >= Size THEN NoSession ELSE s]

Bytes(s) == IF Temporary THEN s.cid ELSE source
-----------------------------------------------------------------------------
(* The workers. *)
Works(w, pc) == worker[w].pc = pc

To(w, pc) == worker' = [worker EXCEPT ![w].pc = pc]

(* prepare: the first chunk is requested before the user is asked where to *)
(* save it.                                                                *)
Prepare(w) ==
  LET i == worker[w].id
      s == Serving(i, 0)
  IN
  /\ Works(w, "prepare")
  /\ \/ /\ ~worker[w].cancelled /\ link = "up"
        /\ Served(i, s, 0)
        /\ worker' = [worker EXCEPT ![w] = [@ EXCEPT !.pc = "dialog", !.cid = s.cid, !.token = s.token,
                                                    !.chunk = s.cid]]
        /\ UNCHANGED <<rec, journal, active>> /\ Calm
     \/ /\ worker[w].cancelled \/ link # "up"
        /\ FinishFailure(w, "failed", "connection")
        /\ UNCHANGED session
  /\ UNCHANGED <<source, link, resume, stage, dest, doubled>>

(* cancelArtifactDownload: nothing is sent for a worker told to stop. *)
Dropped(w) ==
  IF link = "up" /\ ~worker[w].cancelled THEN [session EXCEPT ![worker[w].id] = NoSession] ELSE session

Decline(w) ==
  LET i == worker[w].id IN
  /\ Works(w, "dialog")
  /\ rec' = With(i, NoRecord)
  /\ active' = active \ {i}
  /\ session' = Dropped(w)
  /\ worker' = Done(w)
  /\ UNCHANGED <<source, link, disk, resume, doubled>> /\ Calm

Choose(w) ==
  LET i == worker[w].id
      r == [rec[i] EXCEPT !.state = "downloading", !.staged = TRUE, !.named = TRUE, !.cid = worker[w].cid,
                          !.token = worker[w].token]
  IN
  /\ Works(w, "dialog")
  /\ dest' = [dest EXCEPT ![i] = [there |-> TRUE, data |-> <<>>, synced |-> 0]]
  /\ \/ /\ worker[w].cancelled \/ rec[i].state = "absent"
        /\ worker' = Done(w)
        /\ session' = Dropped(w)
        /\ UNCHANGED <<rec, journal, active>> /\ Calm
     \/ /\ ~worker[w].cancelled /\ rec[i].state # "absent"
        /\ \/ /\ Saved(With(i, r))
              /\ worker' = [worker EXCEPT ![w] = [@ EXCEPT !.pc = "open", !.open = TRUE]]
              /\ UNCHANGED <<session, active>>
           \/ /\ Unsaved(With(i, [r EXCEPT !.state = "failed", !.error = "storage"]))
              /\ worker' = Done(w)
              /\ active' = active \ {i}
              /\ session' = Dropped(w)
  /\ UNCHANGED <<source, link, resume, stage, doubled>>

(* run begins with the staged file cut to what the record says was synced, *)
(* and with the destination of an earlier worker if it has as much.        *)
Cut(f, n) ==
  [there |-> TRUE, data |-> [k \in 1 .. n |-> IF k <= Len(f.data) THEN f.data[k] ELSE None],
   synced |-> IF f.synced < n THEN f.synced ELSE n]

SamePrefix(f, g, n) == Len(f.data) >= n /\ Len(g.data) >= n /\ SubSeq(f.data, 1, n) = SubSeq(g.data, 1, n)

SlipReconciles(i) == rec[i].named /\ rec[i].offset > 0 /\ dest[i].there  \* whatever it has

Reconciles(i) ==
  /\ rec[i].named /\ rec[i].offset > 0 /\ dest[i].there
  /\ SamePrefix(Cut(stage[i], rec[i].offset), dest[i], rec[i].offset)

Open(w) ==
  LET i == worker[w].id
      r == rec[i]
      f == Cut(stage[i], r.offset)
      reattached == ~worker[w].open /\ Reconciles(i)
  IN
  /\ Works(w, "open")
  /\ \/ /\ r.state = "absent"
        /\ active' = active \ {i}
        /\ worker' = Done(w)
        /\ UNCHANGED <<rec, journal, stage, dest>> /\ Calm
     \/ /\ r.state # "absent" /\ ~r.staged   \* complete() was faster
        /\ FinishFailure(w, "failed", "storage")
        /\ UNCHANGED <<stage, dest>>
     \/ /\ r.state # "absent" /\ r.staged
        /\ stage' = [stage EXCEPT ![i] = f]
        /\ dest' = IF reattached THEN [dest EXCEPT ![i] = Cut(dest[i], r.offset)] ELSE dest
        /\ worker' = [worker EXCEPT ![w] =
                         [@ EXCEPT !.pc = IF worker[w].chunk = None THEN "loop" ELSE "received",
                                   !.progress = r.offset, !.cid = r.cid, !.token = r.token,
                                   !.open = worker[w].open \/ reattached]]
        /\ UNCHANGED <<rec, journal, active>> /\ Calm
  /\ UNCHANGED <<source, session, link, resume, doubled>>

(* The next chunk; a session that is not known any more is made anew, and  *)
(* the artifact must still be what was begun.                              *)
Unchanged(w, s) == s.cid = worker[w].cid

Fetch(w) ==
  LET i == worker[w].id
      s == Serving(i, worker[w].token)
      p == worker[w].progress
  IN
  /\ Works(w, "loop") /\ ~worker[w].cancelled
  /\ \/ /\ link = "up" /\ Unchanged(w, s)
        /\ Served(i, s, p)
        /\ worker' = [worker EXCEPT ![w] = [@ EXCEPT !.pc = "received", !.token = s.token,
                                                    !.chunk = IF p < Size THEN Bytes(s) ELSE None]]
        /\ UNCHANGED <<rec, journal, active>> /\ Calm
     \/ /\ link = "up" /\ ~Unchanged(w, s)
        /\ FinishFailure(w, "source-changed", "source")
        /\ UNCHANGED session
     \/ /\ link # "up"
        /\ FinishFailure(w, "failed", "connection")
        /\ session' \in {session, [session EXCEPT ![i] = NoSession]}
  /\ UNCHANGED <<source, link, resume, stage, dest, doubled>>

Written(f, p, c) ==
  IF c = None \/ ~f.there THEN f
  ELSE [f EXCEPT !.data = [k \in 1 .. IF Len(@) > p THEN Len(@) ELSE p + 1 |->
                             IF k = p + 1 THEN c ELSE IF k <= Len(@) THEN @[k] ELSE None],
                 !.synced = IF @ < p THEN @ ELSE p]

Receive(w) ==
  LET i == worker[w].id
      p == worker[w].progress
      next == IF worker[w].chunk = None THEN p ELSE p + 1
      r == IF rec[i].state = "absent" THEN rec[i]
           ELSE [rec[i] EXCEPT !.state = "downloading", !.token = worker[w].token]
  IN
  /\ Works(w, "received")
  /\ \/ /\ stage' = [stage EXCEPT ![i] = Written(@, p, worker[w].chunk)]
        /\ \E pc \in {"sync"} \cup IF next < Size THEN {"loop"} ELSE {}, open \in {worker[w].open, FALSE} :
             /\ worker' = [worker EXCEPT ![w] = [@ EXCEPT !.pc = pc, !.progress = next, !.chunk = None,
                                                         !.open = open]]
             /\ IF open = worker[w].open
                THEN /\ dest' = IF open THEN [dest EXCEPT ![i] = Written(@, p, worker[w].chunk)] ELSE dest
                     /\ rec' = With(i, r)
                     /\ Calm
                ELSE rec' = With(i, [r EXCEPT !.named = FALSE]) /\ Event("destination") /\ UNCHANGED dest
        /\ UNCHANGED <<journal, active>>
     \/ /\ Event("stage")
        /\ rec' = FailedRecords(i, "failed", "storage")
        /\ journal' = Journaled(rec')
        /\ active' = active \ {i}
        /\ worker' = Done(w)
        /\ UNCHANGED <<stage, dest>>
  /\ UNCHANGED <<source, session, link, resume, doubled>>

Synced(i) == [stage EXCEPT ![i].synced = Len(stage[i].data)]

SlipSync(w) ==  \* the record is saved without a sync
  /\ Works(w, "sync")
  /\ To(w, "checkpoint")
  /\ UNCHANGED <<source, session, link, rec, disk, active, resume, doubled>> /\ Calm

Sync(w) ==
  /\ Works(w, "sync")
  /\ stage' = Synced(worker[w].id)
  /\ To(w, "checkpoint")
  /\ UNCHANGED <<source, session, link, rec, journal, dest, active, resume, doubled>> /\ Calm

Reached(w, token) == [rec[worker[w].id] EXCEPT !.offset = worker[w].progress, !.token = token]

Checkpoint(w) ==
  LET i == worker[w].id IN
  /\ Works(w, "checkpoint")
  /\ \/ /\ rec[i].state = "absent"
        /\ FinishFailure(w, "failed", "storage")
     \/ /\ rec[i].state # "absent"
        /\ Saved(With(i, Reached(w, worker[w].token)))
        /\ To(w, IF worker[w].progress = Size THEN "verify" ELSE "loop")
        /\ UNCHANGED active
     \/ /\ rec[i].state # "absent"
        /\ Unsaved(With(i, [Failed(i, "failed", "storage") EXCEPT !.offset = worker[w].progress]))
        /\ active' = active \ {i}
        /\ worker' = Done(w)
  /\ UNCHANGED <<source, session, link, resume, stage, dest, doubled>>

(* A worker that was told to stop; it goes on if a new client came by now. *)
(* A server that answers UNAVAILABLE has no store; that is left out.       *)
SlipGoesOn(w) == FALSE

GoesOn(w) == Connected /\ ~rec[worker[w].id].byUser

PauseRun(w) ==
  LET i == worker[w].id
      r == [Reached(w, rec[i].token) EXCEPT !.state = "paused", !.error = "none"]
      again == [NoWorker EXCEPT !.pc = "again", !.id = i]
  IN
  /\ Works(w, "loop")
  /\ worker[w].cancelled
  /\ \/ /\ rec[i].state = "absent"
        /\ worker' = Done(w)
        /\ UNCHANGED <<rec, disk, active>> /\ Calm
     \/ /\ rec[i].state # "absent"
        /\ Saved(With(i, r))
        /\ active' = active \ {i}
        /\ worker' = [worker EXCEPT ![w] = IF GoesOn(w) THEN again ELSE NoWorker]
        /\ stage' = Synced(i)
        /\ UNCHANGED dest
     \/ /\ rec[i].state # "absent"
        /\ Unsaved(With(i, [Failed(i, "failed", "storage") EXCEPT !.offset = worker[w].progress]))
        /\ active' = active \ {i}
        /\ worker' = Done(w)
        /\ stage' = Synced(i)
        /\ UNCHANGED dest
  /\ UNCHANGED <<source, session, link, resume, doubled>>

(* Its last act is a Resume, and by then the controller may have acted: on *)
(* the record as it left it, on a download that another worker has begun   *)
(* since, or even completed (then it is removed, and started again).       *)
ResumeAgain(w) ==
  /\ Works(w, "again")
  /\ TriesToResume(Done(w), worker[w].id, w)
  /\ UNCHANGED <<source, session, link, resume>>

Whole(f, cid) == f.data = [k \in 1 .. Size |-> cid]

Verified(i, cid) == Whole(stage[i], cid)

Verify(w) ==
  LET i == worker[w].id IN
  /\ Works(w, "verify")
  /\ \/ /\ Verified(i, worker[w].cid)
        /\ active' = active \ {i}
        /\ To(w, "end")
        /\ UNCHANGED <<rec, journal>> /\ Calm
     \/ /\ ~Verified(i, worker[w].cid)
        /\ FinishFailure(w, "source-changed", "source")
  /\ UNCHANGED <<source, session, link, resume, stage, dest, doubled>>

(* complete and readyToSave. *)
End(w) ==
  LET i == worker[w].id
      whole == [rec[i] EXCEPT !.state = "completed", !.staged = FALSE, !.token = 0, !.error = "none",
                              !.byUser = FALSE, !.offset = Size]
      ready == [rec[i] EXCEPT !.state = "ready-to-save", !.error = "none"]
  IN
  /\ Works(w, "end")
  /\ worker' = Done(w)
  /\ \/ /\ rec[i].state = "absent"
        /\ UNCHANGED <<rec, journal, stage>> /\ Calm
     \/ /\ rec[i].state # "absent" /\ ~worker[w].open
        /\ SavedIfPossible(With(i, ready))
        /\ UNCHANGED stage
     \/ /\ rec[i].state # "absent" /\ worker[w].open
        /\ \/ Saved(With(i, whole)) /\ stage' = [stage EXCEPT ![i] = NoFile]
           \/ /\ Unsaved(With(i, [whole EXCEPT !.state = "failed", !.staged = rec[i].staged, !.error = "storage"]))
              /\ UNCHANGED stage
  /\ UNCHANGED <<source, session, link, dest, active, resume, doubled>>

(* export: the user is asked for a destination again. *)
ExportDialog(w) ==
  LET i == worker[w].id IN
  /\ Works(w, "export")
  /\ \/ /\ active' = active \ {i}
        /\ SavedIfPossible(With(i, [rec[i] EXCEPT !.state = IF @ = "absent" THEN @ ELSE "ready-to-save"]))
        /\ worker' = Done(w)
        /\ UNCHANGED dest
     \/ /\ dest' = [dest EXCEPT ![i] = [there |-> TRUE, data |-> <<>>, synced |-> 0]]
        /\ \/ /\ rec[i].state = "absent"
              /\ FinishFailure(w, "failed", "storage")
           \/ /\ rec[i].state # "absent"
              /\ Saved(With(i, [rec[i] EXCEPT !.named = TRUE]))
              /\ To(w, "copy")
              /\ UNCHANGED active
           \/ /\ rec[i].state # "absent"
              /\ Unsaved(With(i, [Failed(i, "failed", "storage") EXCEPT !.named = TRUE]))
              /\ active' = active \ {i}
              /\ worker' = Done(w)
  /\ UNCHANGED <<source, session, link, resume, stage, doubled>>

Copy(w) ==
  LET i == worker[w].id IN
  /\ Works(w, "copy")
  /\ \/ /\ ~worker[w].cancelled /\ Verified(i, rec[i].cid)
        /\ dest' = [dest EXCEPT ![i].data = stage[i].data]
        /\ worker' = [worker EXCEPT ![w] = [@ EXCEPT !.pc = "end", !.open = TRUE]]
        /\ active' = active \ {i}
        /\ UNCHANGED <<rec, journal>> /\ Calm
     \/ /\ worker[w].cancelled \/ ~Verified(i, rec[i].cid)
        /\ FinishFailure(w, "failed", IF worker[w].cancelled THEN "connection" ELSE "storage")
        /\ UNCHANGED dest
  /\ UNCHANGED <<source, session, link, resume, stage, doubled>>
-----------------------------------------------------------------------------
(* The process ends, and what was not synced may be gone; the next one     *)
(* restores the records from the journal and the staged files.             *)
Restored(i, f) ==
  LET r == journal[i] IN
  CASE r.state = "absent" \/ (r.state # "completed" /\ ~r.staged) -> NoRecord
    [] r.state = "completed" -> r
    [] r.state # "completed" /\ r.staged /\ ~f.there ->
         [r EXCEPT !.state = "failed", !.offset = 0, !.error = "storage"]
    [] OTHER -> [r EXCEPT !.state = "paused", !.offset = IF @ < Len(f.data) THEN @ ELSE Len(f.data)]

Crash ==
  /\ Event("crash")
  /\ link' = "none"
  /\ active' = {}
  /\ resume' = {}
  /\ worker' = [w \in Workers |-> NoWorker]
  /\ \E kept \in [Ids -> 0 .. Size] :
       LET left(i) == IF stage[i].there THEN Cut(stage[i], kept[i]) ELSE NoFile IN
       /\ \A i \in Ids : kept[i] \in stage[i].synced .. Len(stage[i].data)
       /\ rec' = [i \in Ids |-> Restored(i, left(i))]
       /\ journal' = Journaled(rec')
       /\ stage' = [i \in Ids |-> IF rec'[i].staged /\ left(i).there
                                  THEN Cut(left(i), rec'[i].offset) ELSE NoFile]
  /\ UNCHANGED <<source, session, dest, doubled>>

Break ==
  /\ Event("break")
  /\ link = "up"
  /\ link' = "broken"
  /\ UNCHANGED <<source, session, rec, disk, active, resume, worker, doubled>>

(* The artifact is uploaded again, or the log has grown. *)
ChangeSource(c) ==
  /\ Event("source")
  /\ source' = c
  /\ UNCHANGED <<session, link, rec, disk, active, resume, worker, doubled>>

(* A session was not used for a while, or the server restarted. *)
Expire(i) ==
  /\ Event("expire")
  /\ session' = [session EXCEPT ![i] = NoSession]
  /\ UNCHANGED <<source, link, rec, disk, active, resume, worker, doubled>>

(* Somebody changes or removes a file that no worker has open. *)
Edit(i) ==
  /\ Event("edit")
  /\ dest[i].there
  /\ \A w \in Workers : worker[w].id = i => ~worker[w].open /\ ~Works(w, "copy")
  /\ \/ dest' = [dest EXCEPT ![i] = NoFile]
     \/ dest' = [dest EXCEPT ![i].data = [k \in DOMAIN @ |-> None]]
  /\ UNCHANGED <<source, session, link, rec, journal, stage, active, resume, worker, doubled>>
-----------------------------------------------------------------------------
Run(w) ==
  \/ Open(w) \/ Fetch(w) \/ Receive(w) \/ Sync(w) \/ Checkpoint(w) \/ PauseRun(w) \/ ResumeAgain(w)
  \/ Verify(w) \/ End(w)

Dialogs(w) == Choose(w) \/ Decline(w) \/ ExportDialog(w)

User ==
  \/ \E i \in Ids, w \in Workers : Start(i, w) \/ Resume(i, w) \/ Restart(i, w) \/ Save(i, w)
  \/ \E i \in Ids : Pause(i) \/ Cancel(i) \/ Remove(i)

Environment ==
  \/ Crash \/ Break
  \/ \E c \in Contents : ChangeSource(c)
  \/ \E i \in Ids : Expire(i) \/ Edit(i)

Client ==
  \/ AttachClient("up") \/ AttachClient("other") \/ DetachClient
  \/ \E i \in Ids, w \in Workers : ResumeNext(i, w)

Next == \/ \E w \in Workers : Run(w) \/ Prepare(w) \/ Copy(w) \/ Dialogs(w)
        \/ User \/ Environment \/ Client

Spec == Init /\ [][Next]_vars

(* Goroutines run; nothing is said of users, connections and dialogs. *)
Fairness ==
  /\ \A w \in Workers : WF_vars(Run(w))
  /\ \A i \in Ids : WF_vars(\E w \in Workers : ResumeNext(i, w))

FairSpec == Spec /\ Fairness
-----------------------------------------------------------------------------
TypeOK ==
  /\ source \in Contents
  /\ session \in [Ids -> Session]
  /\ link \in {"none", "up", "broken", "other"}
  /\ rec \in [Ids -> Record]
  /\ journal \in [Ids -> Record]
  /\ active \subseteq Ids /\ resume \subseteq Ids
  /\ worker \in [Workers -> Worker]
  /\ stage \in [Ids -> File] /\ dest \in [Ids -> File]
  /\ events \in 0 .. MaxEvents /\ unsaved \in BOOLEAN

(* The journal never says more of a staged file than what survives a       *)
(* crash: checkpoint syncs the file before it saves the record.  That is   *)
(* so until a download is resumed while a goroutine still works on it.     *)
JournalIsDurable ==
  ~doubled =>
  \A i \in Ids : journal[i].staged /\ stage[i].there => journal[i].offset <= stage[i].synced

(* A download is complete only with a destination that has exactly the     *)
(* content that was announced when it began: whatever was lost, cut,       *)
(* changed or fetched from another session in between.  Again that is      *)
(* said of one goroutine at a time.                                        *)
CompletedIsWhole ==
  [][\A i \in Ids : (~doubled' /\ rec[i].state # "completed" /\ rec'[i].state = "completed")
        => dest'[i].there /\ Whole(dest'[i], rec'[i].cid)]_vars

(* While the client of its server stays attached and works, a download     *)
(* comes to an end, unless its user pauses it: also one that was told to   *)
(* stop because of a client that is gone.  A record that cannot be saved   *)
(* may stay paused.                                                        *)
InTransfer(i) == rec[i].state \in {"downloading", "paused"} /\ ~rec[i].byUser

AttachedDownloadsEnd ==
  \A i \in Ids : (link = "up" /\ InTransfer(i)) ~> (link # "up" \/ ~InTransfer(i) \/ unsaved \/ doubled)

(* docs/native-client.md says that transfers are resumed after a client    *)
(* reconnects; only paused ones are, so a transfer must not have failed    *)
(* because its connection was lost.                                        *)
LostConnectionsAreNoFailures ==
  \A i \in Ids : rec[i].staged /\ rec[i].state = "failed" => rec[i].error # "connection"
=============================================================================
