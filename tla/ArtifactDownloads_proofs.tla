----------------------- MODULE ArtifactDownloads_proofs -----------------------
(***************************************************************************)
(* What the manager of the downloads promises, for any number of downloads *)
(* and goroutines, files of any size, and any number of crashes, failed    *)
(* writes, broken connections, forgotten sessions and changed sources.     *)
(*                                                                         *)
(* It rests on there being one goroutine at work on a download.  Nothing   *)
(* in the code makes sure of that: a goroutine that was told to stop       *)
(* resumes the download as its last act, whatever the controller did       *)
(* before.  What is proved holds until that happens (~doubled), and the    *)
(* proof shows that there is no other way to lose it.                      *)
(*                                                                         *)
(* The lemmas are in this order: files; types; what is known of a record,  *)
(* of its files and of its goroutine, and that a step which moves one      *)
(* download leaves the rest alone; the steps; the theorems.                *)
(***************************************************************************)
EXTENDS ArtifactDownloads, FiniteSetTheorems, SequenceTheorems, TLAPS

Chunks == Contents \cup {None}
Transfers == {"loop", "received", "sync", "checkpoint", "verify"}
Absent(i) == rec[i].state = "absent"

(* A record and its staged file: what the record says was synced was. *)
RecordFits(r, f) ==
  /\ r.state \in {"absent", "preparing"} => ~r.staged /\ r.offset = 0
  /\ r.state \in {"ready-to-save", "saving"} => r.staged /\ r.offset = Size
  /\ r.staged => r.offset <= f.synced

(* The journal is behind the record, and completes nothing before it. *)
JournalFits(j, r) ==
  /\ j.staged => r.staged /\ j.offset <= r.offset /\ j.state # "absent"
  /\ j.state = "completed" => r.state = "completed"

FileFits(f) ==
  /\ ~f.there => f.synced = 0 /\ Len(f.data) = 0
  /\ f.synced <= Len(f.data) /\ Len(f.data) <= Size

(* The states that a record may be in while a goroutine is at pc. *)
StatesAt(pc) ==
  IF pc \in {"prepare", "dialog"} THEN {"absent", "preparing"}
  ELSE IF pc \in {"open"} \cup Transfers THEN {"absent", "downloading"}
  ELSE IF pc \in {"export", "copy"} THEN {"absent", "saving"}
  ELSE {"absent", "downloading", "saving"}

(* A goroutine, its record r, the staged file f and the destination g: as  *)
(* long as the record is there, the staged file has what was fetched, and  *)
(* a destination that is open has the same.  Of the record of one that is  *)
(* about to resume nothing is known.                                       *)
WorkerFits(m, r, f, g) ==
  /\ m.pc # "again" => r.state \in StatesAt(m.pc)
  /\ m.pc = "received" /\ m.chunk # None => m.progress < Size
  /\ r.state # "absent" =>
       /\ m.pc = "open" => /\ m.open \/ m.chunk # None => r.offset = 0
                           /\ m.open => g.there /\ g.data = <<>>
       /\ m.pc \in Transfers => /\ r.staged /\ r.cid = m.cid /\ r.offset <= m.progress
                                /\ f.there /\ Len(f.data) = m.progress
                                /\ m.open => g.there /\ g.data = f.data
       /\ m.pc = "checkpoint" => m.progress <= f.synced
       /\ m.pc = "verify" => r.offset = Size
       /\ m.pc = "copy" => g.there
       /\ m.pc = "end" => /\ r.staged /\ r.offset = Size
                          /\ m.open => g.there /\ Whole(g, r.cid)

IdFits(i) == RecordFits(rec[i], stage[i]) /\ JournalFits(journal[i], rec[i]) /\ FileFits(stage[i])

Fits(w) == WorkerFits(worker[w], rec[worker[w].id], stage[worker[w].id], dest[worker[w].id])

Working(m) == m.pc \notin {"none", "again"}

(* A goroutine has a download, and no two work on the same.                *)
Apart ==
  /\ \A w \in Workers : IF worker[w].pc = "none" THEN worker[w] = NoWorker ELSE worker[w].id \in Ids
  /\ \A v, w \in Workers : v # w /\ Working(worker[v]) /\ Working(worker[w]) => worker[v].id # worker[w].id

IInv ==
  /\ TypeOK
  /\ Apart
  /\ \A i \in Ids : IdFits(i)
  /\ \A w \in Workers : worker[w].pc # "none" => Fits(w)
-----------------------------------------------------------------------------
(* Files. *)

LEMMA SizeNat == Size \in Nat /\ Size > 0 /\ 0 \in 0 .. Size /\ Size \in 0 .. Size
BY BoundsAssumption

(* The first n chunks of a file, where there are as many. *)
LEMMA CutFacts ==
  ASSUME NEW f \in File, NEW n \in 0 .. Size
  PROVE  /\ Cut(f, n) \in File /\ Cut(f, n).there
         /\ Len(Cut(f, n).data) = n
         /\ Cut(f, n).synced = (IF f.synced < n THEN f.synced ELSE n)
         /\ \A k \in 1 .. n : Cut(f, n).data[k] = IF k <= Len(f.data) THEN f.data[k] ELSE None
<1> DEFINE d == [k \in 1 .. n |-> IF k <= Len(f.data) THEN f.data[k] ELSE None]
           s == IF f.synced < n THEN f.synced ELSE n
<1>1. n \in Nat /\ n <= Size /\ s \in 0 .. Size
  BY SizeNat DEF File
<1>2. f.data \in Seq(Chunks)
  BY DEF File, Chunks
<1>3. \A k \in 1 .. n : d[k] \in Chunks
  <2> SUFFICES ASSUME NEW k \in 1 .. n, k <= Len(f.data) PROVE f.data[k] \in Chunks
    BY DEF Chunks
  <2>1. k \in 1 .. Len(f.data)
    BY <1>2, LenProperties
  <2> QED BY <1>2, <2>1, ElementOfSeq
<1>4. d \in [1 .. n -> Chunks]
  BY <1>3
<1>5. d \in Seq(Chunks) /\ Len(d) = n
  <2>1. d \in Seq(Chunks)
    <3> HIDE DEF d
    <3> QED BY <1>1, <1>4, SeqDef
  <2>2. DOMAIN d = 1 .. n
    OBVIOUS
  <2> HIDE DEF d
  <2>3. Len(d) \in Nat /\ DOMAIN d = 1 .. Len(d)
    BY <2>1, LenProperties
  <2> QED BY <1>1, <2>1, <2>2, <2>3
<1>6. Cut(f, n) = [there |-> TRUE, data |-> d, synced |-> s]
  BY DEF Cut
<1> HIDE DEF d, s
<1>7. Cut(f, n) \in File
  BY <1>1, <1>5, <1>6 DEF File, Chunks
<1> QED BY <1>5, <1>6, <1>7 DEF d, s

(* A chunk at the place where a file ends makes it longer by that chunk. *)
LEMMA WrittenFacts ==
  ASSUME NEW f \in File, NEW p \in 0 .. Size, NEW c \in Chunks
  PROVE  /\ Written(f, p, c) \in File
         /\ Written(f, p, c).there = f.there
         /\ c = None \/ ~f.there => Written(f, p, c) = f
         /\ c # None /\ f.there =>
              /\ Written(f, p, c).synced = (IF f.synced < p THEN f.synced ELSE p)
              /\ Len(Written(f, p, c).data) = IF Len(f.data) > p THEN Len(f.data) ELSE p + 1
<1>1. CASE c = None \/ ~f.there
  BY <1>1 DEF Written
<1>2. CASE c # None /\ f.there
  <2> DEFINE n == IF Len(f.data) > p THEN Len(f.data) ELSE p + 1
             d == [k \in 1 .. n |-> IF k = p + 1 THEN c ELSE IF k <= Len(f.data) THEN f.data[k] ELSE None]
             s == IF f.synced < p THEN f.synced ELSE p
  <2>1. f.data \in Seq(Chunks) /\ Len(f.data) \in Nat
    <3>1. f.data \in Seq(Chunks)
      BY DEF File, Chunks
    <3> QED BY <3>1, LenProperties
  <2>2. n \in Nat /\ s \in 0 .. Size
    BY <1>2, <2>1, SizeNat DEF File
  <2>3. \A k \in 1 .. n : d[k] \in Chunks
    <3> SUFFICES ASSUME NEW k \in 1 .. n, k <= Len(f.data) PROVE f.data[k] \in Chunks
      BY DEF Chunks
    <3>1. k \in 1 .. Len(f.data)
      BY <2>1, <2>2
    <3> QED BY <2>1, <3>1, ElementOfSeq
  <2>4. d \in [1 .. n -> Chunks]
    BY <2>3
  <2>5. d \in Seq(Chunks) /\ Len(d) = n
    <3>1. d \in Seq(Chunks)
      <4> HIDE DEF d, n
      <4> QED BY <2>2, <2>4, SeqDef
    <3>2. DOMAIN d = 1 .. n
      OBVIOUS
    <3> HIDE DEF d, n
    <3>3. Len(d) \in Nat /\ DOMAIN d = 1 .. Len(d)
      BY <3>1, LenProperties
    <3> QED BY <2>2, <3>1, <3>2, <3>3
  <2>6. Written(f, p, c) = [[f EXCEPT !.data = d] EXCEPT !.synced = s]
    BY <1>2 DEF Written
  <2> HIDE DEF d, s, n
  <2>7. Written(f, p, c) = [there |-> f.there, data |-> d, synced |-> s]
    BY <2>6 DEF File
  <2>8. Written(f, p, c) \in File
    BY <2>2, <2>5, <2>7 DEF File, Chunks
  <2> QED BY <1>2, <2>5, <2>7, <2>8 DEF d, s, n
<1> QED BY <1>1, <1>2

LEMMA WrittenAlike ==
  ASSUME NEW f \in File, NEW g \in File, f.there, g.there, f.data = g.data, NEW p, NEW c
  PROVE  Written(f, p, c).data = Written(g, p, c).data
BY DEF Written, File

LEMMA EmptyFile ==
  /\ NoFile \in File /\ ~NoFile.there /\ NoFile.synced = 0 /\ Len(NoFile.data) = 0
  /\ [there |-> TRUE, data |-> <<>>, synced |-> 0] \in File
BY SizeNat, EmptySeq DEF NoFile, File
-----------------------------------------------------------------------------
(* Types. *)

LEMMA AddOne ==
  ASSUME NEW S, IsFiniteSet(S), NEW x
  PROVE  /\ IsFiniteSet(S \cup {x}) /\ Cardinality(S) \in Nat
         /\ Cardinality(S \cup {x}) \in Nat /\ Cardinality(S \cup {x}) <= Cardinality(S) + 1
<1>1. IsFiniteSet(S \cup {x})
  BY FS_AddElement
<1>2. Cardinality(S) \in Nat /\ Cardinality(S \cup {x}) \in Nat
  BY <1>1, FS_CardinalityType
<1>3. Cardinality(S \cup {x}) = IF x \in S THEN Cardinality(S) ELSE Cardinality(S) + 1
  BY FS_AddElement
<1> QED BY <1>1, <1>2, <1>3

(* More tokens than anybody holds. *)
LEMMA FreshTokenType ==
  ASSUME NEW i \in Ids
  PROVE  FreshToken(i) \in Tokens
<1> DEFINE held == {worker[w].token : w \in Workers}
           a == rec[i].token
           b == journal[i].token
           c == session[i].token
           used == {a, b, c} \cup held
           n == Cardinality(Workers)
<1>1. IsFiniteSet(held) /\ Cardinality(held) <= n
  <2> DEFINE F == [w \in Workers |-> worker[w].token]
  <2>1. F \in Surjection(Workers, held)
    BY DEF Surjection
  <2> HIDE DEF F, held
  <2> QED BY <2>1, FS_Surjection, BoundsAssumption
<1>2. n \in Nat
  BY FS_CardinalityType, BoundsAssumption
<1>3. IsFiniteSet(used) /\ Cardinality(used) <= n + 3
  <2> HIDE DEF held, a, b, c, n
  <2> DEFINE A == held \cup {a}
             B == A \cup {b}
             C == B \cup {c}
  <2>1. IsFiniteSet(A) /\ Cardinality(A) \in Nat /\ Cardinality(A) <= Cardinality(held) + 1
    BY <1>1, AddOne
  <2>2. IsFiniteSet(B) /\ Cardinality(B) \in Nat /\ Cardinality(B) <= Cardinality(A) + 1
    <3> HIDE DEF A
    <3> QED BY <2>1, AddOne
  <2>3. IsFiniteSet(C) /\ Cardinality(C) \in Nat /\ Cardinality(C) <= Cardinality(B) + 1
    <3> HIDE DEF B
    <3> QED BY <2>2, AddOne
  <2>4. Cardinality(held) \in Nat
    BY <1>1, AddOne
  <2>5. used = C
    OBVIOUS
  <2> HIDE DEF used, A, B, C
  <2> QED BY <1>1, <1>2, <2>1, <2>2, <2>3, <2>4, <2>5
<1>4. \E t \in Tokens \ {0} : t \notin used
  <2> SUFFICES ASSUME \A t \in Tokens \ {0} : t \in used PROVE FALSE
    OBVIOUS
  <2> HIDE DEF used, n
  <2>1. 1 .. 4 + n \subseteq used
    BY <1>2 DEF Tokens, n
  <2>2. Cardinality(1 .. 4 + n) = 4 + n
    <3> DEFINE m == 4 + n
    <3>1. 1 \in Int /\ m \in Int /\ m >= 1
      BY <1>2
    <3> HIDE DEF m
    <3>2. Cardinality(1 .. m) = IF 1 > m THEN 0 ELSE m - 1 + 1
      BY <3>1, FS_Interval
    <3>3. Cardinality(1 .. m) = m
      BY <3>1, <3>2
    <3> QED BY <3>3 DEF m
  <2>3. Cardinality(1 .. 4 + n) <= Cardinality(used) /\ Cardinality(used) \in Nat
    BY <1>3, <2>1, FS_Subset, FS_CardinalityType
  <2> QED BY <1>2, <1>3, <2>2, <2>3
<1>5. FreshToken(i) \in Tokens \ {0}
  <2>1. FreshToken(i) = CHOOSE t \in Tokens \ {0} : t \notin used
    BY DEF FreshToken
  <2> HIDE DEF used
  <2> QED BY <1>4, <2>1
<1> QED BY <1>5

LEMMA TokenZero == 0 \in Tokens
<1>1. Cardinality(Workers) \in Nat
  BY FS_CardinalityType, BoundsAssumption
<1> QED BY <1>1 DEF Tokens

LEMMA Blank ==
  /\ NoRecord \in Record /\ NoRecord.state = "absent" /\ ~NoRecord.staged /\ NoRecord.offset = 0
  /\ NoWorker \in Worker /\ NoWorker.pc = "none" /\ NoWorker.id = None /\ ~NoWorker.open
  /\ NoWorker.chunk = None
  /\ NoSession \in Session
  /\ None \notin Ids /\ None \notin Contents
BY TokenZero, SizeNat, SetsAssumption DEF NoRecord, Record, States, NoWorker, Worker, NoSession, Session

(* A session that serves a request has a content, and a token. *)
LEMMA ServingType ==
  ASSUME TypeOK, NEW i \in Ids, NEW t
  PROVE  Serving(i, t) \in Session
<1>1. FreshToken(i) \in Tokens
  BY FreshTokenType
<1> QED BY <1>1 DEF Serving, Session, TypeOK

LEMMA ServedType ==
  ASSUME TypeOK, NEW i \in Ids, NEW s \in Session, NEW p, Served(i, s, p)
  PROVE  session' \in [Ids -> Session]
BY Blank DEF Served, TypeOK

LEMMA JournaledType ==
  ASSUME NEW rs \in [Ids -> Record]
  PROVE  Journaled(rs) \in [Ids -> Record]
BY Blank DEF Journaled

LEMMA EventType ==
  ASSUME TypeOK, Calm \/ \E e : Event(e)
  PROVE  events' \in 0 .. MaxEvents /\ unsaved' \in BOOLEAN
<1>1. CASE Calm
  BY <1>1 DEF Calm, TypeOK
<1>2. CASE \E e : Event(e)
  <2>1. PICK e : Event(e)
    BY <1>2
  <2>2. events' = events + 1 /\ events < MaxEvents /\ unsaved' = (unsaved \/ e = "journal")
    BY <2>1 DEF Event
  <2>3. events' \in 0 .. MaxEvents
    BY <2>2, BoundsAssumption DEF TypeOK
  <2>4. unsaved' \in BOOLEAN
    BY <2>2
  <2> QED BY <2>3, <2>4
<1> QED BY <1>1, <1>2
-----------------------------------------------------------------------------
(* What a step leaves alone. *)

(* A worker but for being told to stop. *)
Same(m, n) == n = m \/ n = [m EXCEPT !.cancelled = TRUE]

LEMMA SameFacts ==
  ASSUME NEW m \in Worker, NEW n, Same(m, n)
  PROVE  /\ n \in Worker /\ n.pc = m.pc /\ n.id = m.id /\ n.open = m.open /\ n.chunk = m.chunk
         /\ n.progress = m.progress /\ n.cid = m.cid
         /\ m.pc = "none" => n.pc = "none"
<1>1. CASE n = m
  BY <1>1
<1>2. CASE n = [m EXCEPT !.cancelled = TRUE]
  BY <1>2 DEF Worker
<1> QED BY <1>1, <1>2 DEF Same

LEMMA SameFits ==
  ASSUME NEW m \in Worker, NEW n, Same(m, n), NEW r, NEW f, NEW g, WorkerFits(m, r, f, g)
  PROVE  WorkerFits(n, r, f, g)
<1>1. /\ n.pc = m.pc /\ n.open = m.open /\ n.chunk = m.chunk /\ n.progress = m.progress
      /\ n.cid = m.cid
  BY SameFacts
<1> HIDE DEF Same
<1> QED BY <1>1 DEF WorkerFits

(* What the journal says of a record that a save may have brought along. *)
LEMMA JournalStays ==
  ASSUME NEW j, NEW r, JournalFits(j, r), r.state \in {"absent", "preparing"} => ~r.staged,
         r.offset \in Nat, NEW s, s = j \/ s = (IF r.state = "preparing" THEN NoRecord ELSE r)
  PROVE  JournalFits(s, r)
BY Blank DEF JournalFits

(* CompletedIsWhole, of one step. *)
WholeStep ==
  \A i \in Ids : rec[i].state # "completed" /\ rec'[i].state = "completed"
                   => dest'[i].there /\ Whole(dest'[i], rec'[i].cid)

Kept == IInv' /\ WholeStep

(* Of the goroutines ws, one works on the download at most. *)
OneAtMost(ws, i) ==
  \A u, v \in Workers : ws[u].id = i /\ ws[v].id = i /\ Working(ws[u]) /\ Working(ws[v]) => u = v

(* A step that moves one download and its goroutine: what has to be shown  *)
(* of these two, everything else being as it was.                          *)
LEMMA Moves ==
  ASSUME IInv, NEW i \in Ids, NEW r \in Record, NEW f \in File, NEW g \in File,
         rec' = With(i, r), stage' = [stage EXCEPT ![i] = f], dest' = [dest EXCEPT ![i] = g],
         journal' = Journaled(rec') \/ (journal' = journal /\ JournalFits(journal[i], r)),
         resume' \subseteq resume,
         active' \subseteq Ids, session' \in [Ids -> Session],
         source' = source, link' \in {"none", "up", "broken", "other"}, Calm \/ \E e : Event(e),
         RecordFits(r, f), FileFits(f),
         r.state = "completed" => rec[i].state = "completed" \/ (g.there /\ Whole(g, r.cid)),
         worker' \in [Workers -> Worker],
         \A v \in Workers : worker'[v].pc = "none" => worker'[v] = NoWorker,
         \A v \in Workers : worker'[v].pc # "none" =>
            \/ worker'[v].id = i /\ WorkerFits(worker'[v], r, f, g)
            \/ worker'[v].id \in Ids \ {i} /\ worker[v].pc # "none" /\ Same(worker[v], worker'[v]),
         OneAtMost(worker', i)
  PROVE  Kept
<1>1. /\ rec' \in [Ids -> Record] /\ rec'[i] = r
      /\ stage' \in [Ids -> File] /\ stage'[i] = f
      /\ dest' \in [Ids -> File] /\ dest'[i] = g
      /\ \A k \in Ids \ {i} : rec'[k] = rec[k] /\ stage'[k] = stage[k] /\ dest'[k] = dest[k]
  BY DEF IInv, TypeOK, With
<1>2. journal' \in [Ids -> Record]
  BY <1>1, JournaledType DEF IInv, TypeOK
<1>3. TypeOK'
  BY <1>1, <1>2, EventType DEF IInv, TypeOK
<1>4. ASSUME NEW k \in Ids PROVE IdFits(k)'
  <2>1. journal'[k] = journal[k] \/ journal'[k] = IF rec'[k].state = "preparing" THEN NoRecord ELSE rec'[k]
    BY DEF Journaled
  <2>2. rec'[k].offset \in Nat
    BY <1>1, SizeNat DEF Record
  <2>3. CASE k = i
    <3>1. RecordFits(rec'[k], stage'[k]) /\ FileFits(stage'[k])
      BY <1>1, <2>3
    <3>2. JournalFits(journal'[k], rec'[k])
      <4>1. CASE journal' = journal /\ JournalFits(journal[i], r)
        BY <4>1, <1>1, <2>3
      <4>2. CASE journal' = Journaled(rec')
        <5>1. journal'[k] = IF rec'[k].state = "preparing" THEN NoRecord ELSE rec'[k]
          BY <4>2 DEF Journaled
        <5> QED BY <5>1, <2>2, <3>1, Blank DEF JournalFits, RecordFits
      <4> QED BY <4>1, <4>2
    <3> QED BY <3>1, <3>2 DEF IdFits
  <2>4. CASE k # i
    <3>1. IdFits(k) /\ rec'[k] = rec[k] /\ stage'[k] = stage[k]
      BY <1>1, <2>4 DEF IInv
    <3>2. JournalFits(journal'[k], rec'[k])
      BY <3>1, <2>1, <2>2, JournalStays DEF IdFits, RecordFits
    <3> QED BY <3>1, <3>2 DEF IdFits
  <2> QED BY <2>3, <2>4
<1>5. ASSUME NEW v \in Workers, worker'[v].pc # "none" PROVE Fits(v)'
  <2>1. CASE worker'[v].id = i /\ WorkerFits(worker'[v], r, f, g)
    BY <2>1, <1>1 DEF Fits
  <2>2. CASE worker'[v].id \in Ids \ {i} /\ worker[v].pc # "none" /\ Same(worker[v], worker'[v])
    <3> DEFINE k == worker[v].id
    <3>1. Fits(v) /\ worker[v] \in Worker
      BY <2>2 DEF IInv, TypeOK
    <3>2. worker'[v].id = k /\ k \in Ids \ {i}
      BY <3>1, <2>2, SameFacts
    <3>3. WorkerFits(worker'[v], rec[k], stage[k], dest[k])
      BY <3>1, <2>2, SameFits DEF Fits
    <3> QED BY <3>2, <3>3, <1>1 DEF Fits
  <2> QED BY <1>5, <2>1, <2>2
<1>6. Apart'
  <2>1. \A v \in Workers : worker'[v].pc # "none" => worker'[v].id \in Ids
    OBVIOUS
  <2>2. ASSUME NEW v \in Workers, worker'[v].id \in Ids \ {i}
        PROVE  worker[v].id = worker'[v].id /\ worker[v].pc = worker'[v].pc
    <3>1. worker'[v].pc # "none"
      BY <2>2, Blank
    <3>2. worker[v] \in Worker /\ Same(worker[v], worker'[v])
      BY <2>2, <3>1 DEF IInv, TypeOK
    <3> QED BY <3>2, SameFacts
  <2>3. \A u, v \in Workers : u # v /\ Working(worker'[u]) /\ Working(worker'[v])
                              => worker'[u].id # worker'[v].id
    <3> SUFFICES ASSUME NEW u \in Workers, NEW v \in Workers, Working(worker'[u]), Working(worker'[v]),
                        worker'[u].id = worker'[v].id, u # v
                 PROVE  FALSE
      OBVIOUS
    <3>1. worker'[u].id \in Ids \ {i} /\ worker'[v].id \in Ids \ {i}
      BY <2>1 DEF OneAtMost, Working
    <3>2. Working(worker[u]) /\ Working(worker[v]) /\ worker[u].id = worker[v].id
      BY <3>1, <2>2 DEF Working
    <3> QED BY <3>2 DEF IInv, Apart
  <2> QED BY <2>1, <2>3 DEF Apart
<1>7. WholeStep
  BY <1>1 DEF WholeStep
<1> QED BY <1>3, <1>4, <1>5, <1>6, <1>7 DEF IInv, Kept

(* Two goroutines never work on the same download, also afterwards when    *)
(* those that then do did before, but perhaps for one, alone on its own.   *)
LEMMA OneWorks ==
  ASSUME IInv, NEW ws, NEW i,
         \A v \in Workers : Working(ws[v]) => Working(worker[v]) /\ worker[v].id = ws[v].id
  PROVE  OneAtMost(ws, i)
<1> SUFFICES ASSUME NEW u \in Workers, NEW v \in Workers, ws[u].id = i, ws[v].id = i,
                    Working(ws[u]), Working(ws[v])
             PROVE  u = v
  BY DEF OneAtMost, Working
<1>1. Working(worker[u]) /\ Working(worker[v]) /\ worker[u].id = worker[v].id
  OBVIOUS
<1> QED BY <1>1 DEF IInv, Apart, Working

LEMMA OneOfThemWorks ==
  ASSUME IInv, NEW ws, NEW i, NEW w \in Workers, \A v \in Workers \ {w} : ws[v] = worker[v],
         Working(ws[w]) => \A v \in Workers \ {w} : worker[v].id = i => ~Working(worker[v])
  PROVE  OneAtMost(ws, i)
BY DEF OneAtMost, IInv, Apart, Working

(* A goroutine, or one that begins, moves a download, and ends or goes on. *)
LEMMA GoroutineMoves ==
  ASSUME IInv, NEW w \in Workers, NEW i \in Ids,
         NEW r \in Record, NEW f \in File, NEW g \in File, NEW m \in Worker,
         rec' = With(i, r), stage' = [stage EXCEPT ![i] = f], dest' = [dest EXCEPT ![i] = g],
         worker' = [worker EXCEPT ![w] = m],
         journal' = Journaled(rec') \/ (journal' = journal /\ JournalFits(journal[i], r)),
         resume' \subseteq resume, active' \subseteq Ids, session' \in [Ids -> Session],
         source' = source, link' = link, Calm \/ \E e : Event(e),
         RecordFits(r, f), FileFits(f),
         r.state = "completed" => rec[i].state = "completed" \/ (g.there /\ Whole(g, r.cid)),
         m = NoWorker \/ (m.pc # "none" /\ m.id = i /\ WorkerFits(m, r, f, g)),
         \A v \in Workers \ {w} : worker[v].pc # "none" /\ worker[v].id = i => WorkerFits(worker[v], r, f, g),
         Working(m) => \A v \in Workers \ {w} : worker[v].id = i => ~Working(worker[v])
  PROVE  Kept
<1>2. worker' \in [Workers -> Worker] /\ worker'[w] = m
  BY DEF IInv, TypeOK
<1>3. \A v \in Workers \ {w} : worker'[v] = worker[v]
  BY DEF IInv, TypeOK
<1>5. \A v \in Workers : worker'[v].pc = "none" => worker'[v] = NoWorker
  BY <1>2, <1>3, Blank DEF IInv, Apart
<1>6. ASSUME NEW v \in Workers, worker'[v].pc # "none"
      PROVE  \/ worker'[v].id = i /\ WorkerFits(worker'[v], r, f, g)
             \/ worker'[v].id \in Ids \ {i} /\ worker[v].pc # "none" /\ Same(worker[v], worker'[v])
  <2>1. CASE v = w
    BY <2>1, <1>2, <1>6, Blank
  <2>2. CASE v # w
    <3>1. worker'[v] = worker[v] /\ worker[v].id \in Ids
      BY <2>2, <1>3, <1>6 DEF IInv, Apart
    <3> QED BY <1>6, <2>2, <3>1 DEF Same
  <2> QED BY <2>1, <2>2
<1>7. OneAtMost(worker', i)
  <2>1. Working(worker'[w]) => \A v \in Workers \ {w} : worker[v].id = i => ~Working(worker[v])
    BY <1>2
  <2> DEFINE ws == worker'
  <2> HIDE DEF ws
  <2>2. /\ \A v \in Workers \ {w} : ws[v] = worker[v]
        /\ Working(ws[w]) => \A v \in Workers \ {w} : worker[v].id = i => ~Working(worker[v])
    BY <1>3, <2>1 DEF ws
  <2>3. OneAtMost(ws, i)
    BY <2>2, OneOfThemWorks
  <2> QED BY <2>3 DEF ws
<1>8. link' \in {"none", "up", "broken", "other"}
  BY DEF IInv, TypeOK
<1> QED BY <1>2, <1>5, <1>6, <1>7, <1>8, Moves

LEMMA AgainFits ==
  ASSUME NEW m, m.pc = "again", NEW r, NEW f, NEW g
  PROVE  WorkerFits(m, r, f, g)
BY DEF WorkerFits, Transfers

(* While a goroutine works on a download, the others have left it. *)
LEMMA OthersFit ==
  ASSUME IInv, NEW w \in Workers, NEW i, \A v \in Workers \ {w} : worker[v].id = i => ~Working(worker[v]),
         NEW r, NEW f, NEW g
  PROVE  \A v \in Workers \ {w} : worker[v].pc # "none" /\ worker[v].id = i => WorkerFits(worker[v], r, f, g)
BY AgainFits DEF Working

LEMMA WorkerMoves ==
  ASSUME IInv, NEW w \in Workers, worker[w].pc \notin {"none", "again"}, NEW i, i = worker[w].id,
         NEW r \in Record, NEW f \in File, NEW g \in File, NEW m \in Worker,
         rec' = With(i, r), stage' = [stage EXCEPT ![i] = f], dest' = [dest EXCEPT ![i] = g],
         worker' = [worker EXCEPT ![w] = m],
         journal' = Journaled(rec') \/ (journal' = journal /\ JournalFits(journal[i], r)),
         resume' = resume, active' \subseteq Ids, session' \in [Ids -> Session],
         source' = source, link' = link, Calm \/ \E e : Event(e),
         RecordFits(r, f), FileFits(f),
         r.state = "completed" => g.there /\ Whole(g, r.cid),
         m = NoWorker \/ (m.pc # "none" /\ m.id = i /\ WorkerFits(m, r, f, g))
  PROVE  Kept
<1>1. i \in Ids
  BY DEF IInv, Apart
<1>2. \A v \in Workers \ {w} : worker[v].id = i => ~Working(worker[v])
  BY DEF IInv, Apart, Working
<1>3. \A v \in Workers \ {w} : worker[v].pc # "none" /\ worker[v].id = i => WorkerFits(worker[v], r, f, g)
  BY <1>2, OthersFit
<1> QED BY <1>1, <1>2, <1>3, GoroutineMoves

(* A download that nobody works on gets a goroutine. *)
LEMMA BeginMoves ==
  ASSUME IInv, NEW w \in Workers, NEW i \in Ids,
         \A v \in Workers \ {w} : worker[v].id = i => ~Working(worker[v]),
         NEW r \in Record, NEW m \in Worker,
         rec' = With(i, r), UNCHANGED <<stage, dest, source, session, link>>,
         worker' = [worker EXCEPT ![w] = m],
         journal' = Journaled(rec') \/ (journal' = journal /\ JournalFits(journal[i], r)),
         resume' \subseteq resume, active' \subseteq Ids, Calm \/ \E e : Event(e),
         RecordFits(r, stage[i]), r.state # "completed",
         m = NoWorker \/ (m.pc # "none" /\ m.id = i /\ WorkerFits(m, r, stage[i], dest[i]))
  PROVE  Kept
<1> DEFINE f == stage[i]
           g == dest[i]
<1>1. /\ f \in File /\ g \in File /\ stage' = [stage EXCEPT ![i] = f] /\ dest' = [dest EXCEPT ![i] = g]
      /\ FileFits(f) /\ session' \in [Ids -> Session]
  BY DEF IInv, TypeOK, IdFits
<1> HIDE DEF f, g
<1>2. \A v \in Workers \ {w} : worker[v].pc # "none" /\ worker[v].id = i => WorkerFits(worker[v], r, f, g)
  BY OthersFit
<1>3. RecordFits(r, f) /\ (m = NoWorker \/ (m.pc # "none" /\ m.id = i /\ WorkerFits(m, r, f, g)))
  BY DEF f, g
<1> QED BY <1>1, <1>2, <1>3, GoroutineMoves

(* The controller moves a download whose goroutine, if it has one, goes on *)
(* but for being told to stop.                                             *)
LEMMA UserMoves ==
  ASSUME IInv, NEW i \in Ids, NEW r \in Record, NEW f \in File, NEW g \in File,
         rec' = With(i, r), stage' = [stage EXCEPT ![i] = f], dest' = [dest EXCEPT ![i] = g],
         worker' \in {worker, Told(i)},
         journal' = Journaled(rec') \/ (journal' = journal /\ JournalFits(journal[i], r)),
         resume' \subseteq resume, active' \subseteq Ids, session' \in [Ids -> Session],
         source' = source, link' = link, Calm \/ \E e : Event(e),
         RecordFits(r, f), FileFits(f),
         r.state = "completed" => rec[i].state = "completed",
         \A v \in Workers : worker[v].pc # "none" /\ worker[v].id = i => WorkerFits(worker[v], r, f, g)
  PROVE  Kept
<1>1. \A v \in Workers : Same(worker[v], worker'[v]) /\ worker[v] \in Worker
  BY DEF Told, Same, IInv, TypeOK
<1>2. \A v \in Workers : worker'[v].pc = worker[v].pc /\ worker'[v].id = worker[v].id /\ worker'[v] \in Worker
  BY <1>1, SameFacts
<1>3. worker' \in [Workers -> Worker]
  <2>1. Told(i) = [v \in Workers |-> Told(i)[v]]
    BY DEF Told
  <2>2. worker' = [v \in Workers |-> worker'[v]]
    BY <2>1 DEF IInv, TypeOK
  <2> QED BY <2>2, <1>2
<1>4. \A v \in Workers : worker'[v].pc = "none" => worker'[v] = NoWorker
  <2> SUFFICES ASSUME NEW v \in Workers, worker'[v].pc = "none" PROVE worker'[v] = NoWorker
    OBVIOUS
  <2>1. worker[v] = NoWorker
    BY <1>2 DEF IInv, Apart
  <2>2. worker[v].id # i
    BY <2>1, Blank
  <2> QED BY <2>1, <2>2 DEF Told
<1>5. ASSUME NEW v \in Workers, worker'[v].pc # "none"
      PROVE  \/ worker'[v].id = i /\ WorkerFits(worker'[v], r, f, g)
             \/ worker'[v].id \in Ids \ {i} /\ worker[v].pc # "none" /\ Same(worker[v], worker'[v])
  <2>1. worker[v].pc # "none" /\ worker[v].id \in Ids
    BY <1>2, <1>5 DEF IInv, Apart
  <2>2. CASE worker[v].id = i
    <3>1. WorkerFits(worker[v], r, f, g)
      BY <2>1, <2>2
    <3>2. WorkerFits(worker'[v], r, f, g)
      BY <3>1, <1>1, SameFits
    <3> QED BY <3>2, <2>2, <1>2
  <2>3. CASE worker[v].id # i
    BY <2>1, <2>3, <1>1, <1>2
  <2> QED BY <2>2, <2>3
<1>6. OneAtMost(worker', i)
  <2>1. \A v \in Workers : Working(worker'[v]) => Working(worker[v]) /\ worker[v].id = worker'[v].id
    BY <1>2 DEF Working
  <2> QED BY <2>1, OneWorks
<1>7. link' \in {"none", "up", "broken", "other"}
  BY DEF IInv, TypeOK
<1> QED BY <1>3, <1>4, <1>5, <1>6, <1>7, Moves

(* No download moves. *)
LEMMA NothingMoves ==
  ASSUME IInv, UNCHANGED <<rec, journal, stage, dest>>, TypeOK',
         \A v \in Workers : Same(worker[v], worker'[v]),
         \A v \in Workers : worker[v].pc = "none" => worker'[v] = worker[v]
  PROVE  Kept
<1>1. \A v \in Workers : worker'[v].pc = worker[v].pc /\ worker'[v].id = worker[v].id /\ worker[v] \in Worker
  BY SameFacts DEF IInv, TypeOK
<1>2. Apart'
  BY <1>1 DEF IInv, Apart, Working
<1>3. \A i \in Ids : IdFits(i)'
  BY DEF IInv, IdFits
<1>4. ASSUME NEW v \in Workers, worker'[v].pc # "none" PROVE Fits(v)'
  <2>1. WorkerFits(worker[v], rec[worker[v].id], stage[worker[v].id], dest[worker[v].id])
    BY <1>1, <1>4 DEF IInv, Fits
  <2>2. WorkerFits(worker'[v], rec[worker[v].id], stage[worker[v].id], dest[worker[v].id])
    BY <1>1, <2>1, SameFits
  <2> QED BY <2>2, <1>1 DEF Fits
<1>5. WholeStep
  BY DEF WholeStep
<1> QED BY <1>2, <1>3, <1>4, <1>5 DEF Kept, IInv
-----------------------------------------------------------------------------
(* The steps of the workers. *)

LEMMA WorkerFacts ==
  ASSUME IInv, NEW w \in Workers, worker[w].pc \notin {"none", "again"}, NEW i, i = worker[w].id
  PROVE  /\ i \in Ids /\ worker[w] \in Worker /\ rec[i] \in Record /\ journal[i] \in Record
         /\ stage[i] \in File /\ dest[i] \in File
         /\ WorkerFits(worker[w], rec[i], stage[i], dest[i])
         /\ RecordFits(rec[i], stage[i]) /\ JournalFits(journal[i], rec[i]) /\ FileFits(stage[i])
         /\ rec[i].state # "completed" /\ rec[i].offset \in 0 .. Size
         /\ rec' = rec => rec' = With(i, rec[i])
         /\ stage' = stage => stage' = [stage EXCEPT ![i] = stage[i]]
         /\ dest' = dest => dest' = [dest EXCEPT ![i] = dest[i]]
<1>1. i \in Ids
  BY DEF IInv, Apart
<1>2. worker[w] \in Worker /\ rec[i] \in Record /\ journal[i] \in Record /\ stage[i] \in File
        /\ dest[i] \in File
  BY <1>1 DEF IInv, TypeOK
<1>3. WorkerFits(worker[w], rec[i], stage[i], dest[i])
  BY DEF IInv, Fits
<1>4. RecordFits(rec[i], stage[i]) /\ JournalFits(journal[i], rec[i]) /\ FileFits(stage[i])
  BY <1>1 DEF IInv, IdFits
<1>5. rec[i].state # "completed"
  BY <1>3 DEF WorkerFits, StatesAt
<1>6. rec[i].offset \in 0 .. Size
  BY <1>2 DEF Record
<1> QED BY <1>1, <1>2, <1>3, <1>4, <1>5, <1>6 DEF IInv, TypeOK, With

LEMMA SaveFacts ==
  ASSUME NEW rs
  PROVE  /\ Saved(rs) => rec' = rs /\ journal' = Journaled(rec') /\ (Calm \/ \E e : Event(e))
         /\ Unsaved(rs) => rec' = rs /\ journal' = journal /\ (Calm \/ \E e : Event(e))
BY DEF Saved, Unsaved

(* A record that fails keeps what it says of its staged file. *)
LEMMA FailedFacts ==
  ASSUME NEW i, rec[i] \in Record, NEW state \in {"failed", "source-changed"},
         NEW error \in {"connection", "source", "storage"}
  PROVE  LET r == Failed(i, state, error) IN
         /\ r \in Record /\ r.state = state /\ r.staged = rec[i].staged /\ r.offset = rec[i].offset
         /\ r.cid = rec[i].cid
BY DEF Failed, Record, States

LEMMA FailedRecordsMove ==
  ASSUME IInv, NEW w \in Workers, worker[w].pc \notin {"none", "again"}, NEW i, i = worker[w].id,
         NEW state \in {"failed", "source-changed"}, NEW error \in {"connection", "source", "storage"}
  PROVE  \E r \in Record : /\ FailedRecords(i, state, error) = With(i, r)
                           /\ RecordFits(r, stage[i]) /\ JournalFits(journal[i], r)
                           /\ r.state # "completed"
<1>1. /\ i \in Ids /\ rec[i] \in Record /\ RecordFits(rec[i], stage[i]) /\ JournalFits(journal[i], rec[i])
      /\ rec[i].state # "completed" /\ rec = With(i, rec[i])
  BY WorkerFacts DEF With, IInv, TypeOK
<1>2. CASE rec[i].state = "absent"
  BY <1>1, <1>2 DEF FailedRecords
<1>3. CASE rec[i].state # "absent"
  <2> DEFINE r == Failed(i, state, error)
  <2>1. /\ r \in Record /\ r.state = state /\ r.staged = rec[i].staged /\ r.offset = rec[i].offset
    BY <1>1, FailedFacts
  <2>2. FailedRecords(i, state, error) = With(i, r)
    BY <1>3 DEF FailedRecords
  <2> HIDE DEF r
  <2>3. RecordFits(r, stage[i]) /\ JournalFits(journal[i], r) /\ r.state # "completed"
    BY <1>1, <2>1 DEF RecordFits, JournalFits
  <2> QED BY <2>1, <2>2, <2>3
<1> QED BY <1>2, <1>3

LEMMA FinishFailureStep ==
  ASSUME IInv, NEW w \in Workers, worker[w].pc \notin {"none", "again"},
         NEW state \in {"failed", "source-changed"}, NEW error \in {"connection", "source", "storage"},
         FinishFailure(w, state, error), UNCHANGED <<source, link, resume, stage>>,
         NEW g \in File, dest' = [dest EXCEPT ![worker[w].id] = g],
         session' \in [Ids -> Session]
  PROVE  Kept
<1> DEFINE i == worker[w].id
<1>1. PICK r \in Record : /\ FailedRecords(i, state, error) = With(i, r)
                          /\ RecordFits(r, stage[i]) /\ JournalFits(journal[i], r)
                          /\ r.state # "completed"
  BY FailedRecordsMove
<1>2. /\ i \in Ids /\ stage[i] \in File /\ FileFits(stage[i])
      /\ stage' = [stage EXCEPT ![i] = stage[i]]
  BY WorkerFacts
<1>3. /\ SavedIfPossible(With(i, r)) /\ active' = active \ {i}
      /\ worker' = [worker EXCEPT ![w] = NoWorker]
  BY <1>1 DEF FinishFailure, Done
<1>4. rec' = With(i, r) /\ (journal' = Journaled(rec') \/ journal' = journal) /\ (Calm \/ \E e : Event(e))
  BY <1>3, SaveFacts DEF SavedIfPossible
<1>5. active' \subseteq Ids
  BY <1>3 DEF IInv, TypeOK
<1> HIDE DEF i
<1> QED BY <1>1, <1>2, <1>3, <1>4, <1>5, WorkerMoves, Blank DEF i

LEMMA PrepareStep ==
  ASSUME IInv, NEW w \in Workers, Prepare(w)
  PROVE  Kept
<1> DEFINE i == worker[w].id
           s == Serving(i, 0)
           m == [worker[w] EXCEPT !.pc = "dialog", !.cid = s.cid, !.token = s.token, !.chunk = s.cid]
<1>1. worker[w].pc = "prepare" /\ UNCHANGED <<source, link, resume, stage, dest>>
  BY DEF Prepare, Works
<1>2. /\ i \in Ids /\ worker[w] \in Worker /\ rec[i] \in Record /\ stage[i] \in File /\ dest[i] \in File
      /\ WorkerFits(worker[w], rec[i], stage[i], dest[i])
      /\ RecordFits(rec[i], stage[i]) /\ JournalFits(journal[i], rec[i]) /\ FileFits(stage[i])
      /\ rec[i].state # "completed"
      /\ (rec' = rec => rec' = With(i, rec[i])) /\ stage' = [stage EXCEPT ![i] = stage[i]]
      /\ dest' = [dest EXCEPT ![i] = dest[i]]
  BY <1>1, WorkerFacts
<1>3. TypeOK
  BY DEF IInv
<1>4. CASE Served(i, s, 0) /\ worker' = [worker EXCEPT ![w] = m] /\ UNCHANGED <<rec, journal, active>>
        /\ Calm
  <2>1. s \in Session /\ session' \in [Ids -> Session]
    BY <1>2, <1>3, <1>4, ServingType, ServedType
  <2> HIDE DEF s
  <2>2. m \in Worker /\ m.pc = "dialog" /\ m.id = i
    BY <1>2, <2>1 DEF Worker, Session
  <2> HIDE DEF m
  <2>3. WorkerFits(m, rec[i], stage[i], dest[i])
    BY <1>1, <1>2, <2>2 DEF WorkerFits, StatesAt, Transfers
  <2>4. active' \subseteq Ids
    BY <1>3, <1>4 DEF TypeOK
  <2>5. /\ rec' = With(i, rec[i]) /\ journal' = journal /\ worker' = [worker EXCEPT ![w] = m]
        /\ (Calm \/ \E e : Event(e))
    BY <1>2, <1>4
  <2>6. source' = source /\ link' = link /\ resume' = resume /\ worker[w].pc \notin {"none", "again"}
    BY <1>1
  <2> DEFINE r == rec[i]
             f == stage[i]
             g == dest[i]
  <2>7. /\ r \in Record /\ f \in File /\ g \in File /\ RecordFits(r, f) /\ FileFits(f)
        /\ JournalFits(journal[i], r) /\ r.state # "completed" /\ WorkerFits(m, r, f, g)
        /\ rec' = With(i, r) /\ stage' = [stage EXCEPT ![i] = f] /\ dest' = [dest EXCEPT ![i] = g]
    BY <1>2, <2>3, <2>5
  <2> HIDE DEF r, f, g
  <2>8. i = worker[w].id
    OBVIOUS
  <2> HIDE DEF i
  <2> QED BY <2>1, <2>2, <2>4, <2>5, <2>6, <2>7, <2>8, WorkerMoves
<1>5. CASE FinishFailure(w, "failed", "connection") /\ UNCHANGED session
  <2>1. session' \in [Ids -> Session]
    BY <1>3, <1>5 DEF TypeOK
  <2> HIDE DEF i, s, m
  <2> QED BY <1>1, <1>2, <1>5, <2>1, FinishFailureStep DEF i
<1> QED BY <1>4, <1>5 DEF Prepare

LEMMA DroppedType ==
  ASSUME TypeOK, NEW w \in Workers, worker[w].id \in Ids
  PROVE  Dropped(w) \in [Ids -> Session]
BY Blank DEF Dropped, TypeOK

LEMMA DeclineStep ==
  ASSUME IInv, NEW w \in Workers, Decline(w)
  PROVE  Kept
<1> DEFINE i == worker[w].id
<1>1. /\ worker[w].pc = "dialog" /\ UNCHANGED <<source, link, resume, journal, stage, dest>>
      /\ rec' = With(i, NoRecord) /\ active' = active \ {i} /\ session' = Dropped(w)
      /\ worker' = [worker EXCEPT ![w] = NoWorker] /\ Calm
  BY DEF Decline, Works, disk, Done
<1>2. /\ i \in Ids /\ stage[i] \in File /\ dest[i] \in File
      /\ WorkerFits(worker[w], rec[i], stage[i], dest[i])
      /\ RecordFits(rec[i], stage[i]) /\ JournalFits(journal[i], rec[i]) /\ FileFits(stage[i])
      /\ stage' = [stage EXCEPT ![i] = stage[i]]
      /\ dest' = [dest EXCEPT ![i] = dest[i]]
  BY <1>1, WorkerFacts
<1>3. RecordFits(NoRecord, stage[i])
  BY Blank DEF RecordFits
<1>4. JournalFits(journal[i], NoRecord)
  <2>1. rec[i].state \in {"absent", "preparing"}
    BY <1>1, <1>2 DEF WorkerFits, StatesAt
  <2> QED BY <1>2, <2>1 DEF RecordFits, JournalFits
<1>5. active' \subseteq Ids /\ session' \in [Ids -> Session]
  BY <1>1, <1>2, DroppedType DEF IInv, TypeOK
<1> HIDE DEF i
<1> QED BY <1>1, <1>2, <1>3, <1>4, <1>5, WorkerMoves, Blank DEF i

LEMMA ChooseStep ==
  ASSUME IInv, NEW w \in Workers, Choose(w)
  PROVE  Kept
<1> DEFINE i == worker[w].id
           g == [there |-> TRUE, data |-> <<>>, synced |-> 0]
           r == [rec[i] EXCEPT !.state = "downloading", !.staged = TRUE, !.named = TRUE,
                               !.cid = worker[w].cid, !.token = worker[w].token]
           bad == [r EXCEPT !.state = "failed", !.error = "storage"]
           m == [worker[w] EXCEPT !.pc = "open", !.open = TRUE]
<1>1. worker[w].pc = "dialog" /\ UNCHANGED <<source, link, resume, stage>>
        /\ dest' = [dest EXCEPT ![i] = g]
  BY DEF Choose, Works
<1>2. /\ i \in Ids /\ worker[w] \in Worker /\ rec[i] \in Record /\ stage[i] \in File
      /\ WorkerFits(worker[w], rec[i], stage[i], dest[i]) /\ rec[i].offset \in 0 .. Size
      /\ RecordFits(rec[i], stage[i]) /\ JournalFits(journal[i], rec[i]) /\ FileFits(stage[i])
      /\ rec[i].state # "completed"
      /\ (rec' = rec => rec' = With(i, rec[i])) /\ stage' = [stage EXCEPT ![i] = stage[i]]
  BY <1>1, WorkerFacts
<1>3. g \in File
  BY EmptyFile
<1>4. rec[i].state \in {"absent", "preparing"} /\ ~rec[i].staged /\ rec[i].offset = 0
  BY <1>1, <1>2 DEF WorkerFits, StatesAt, RecordFits
<1>5. ~journal[i].staged /\ journal[i].state # "completed"
  BY <1>2, <1>4 DEF JournalFits
<1>6. Dropped(w) \in [Ids -> Session] /\ session \in [Ids -> Session] /\ active \subseteq Ids
  BY <1>2, DroppedType DEF IInv, TypeOK
<1>7. stage[i].synced \in 0 .. Size
  BY <1>2 DEF File
<1>8. CASE /\ worker' = Done(w) /\ session' = Dropped(w) /\ UNCHANGED <<rec, journal, active>> /\ Calm
  <2> HIDE DEF i, g
  <2> QED BY <1>1, <1>2, <1>3, <1>6, <1>8, WorkerMoves, Blank DEF i, Done
<1>9. CASE /\ Saved(With(i, r)) /\ worker' = [worker EXCEPT ![w] = m] /\ UNCHANGED <<session, active>>
  <2>1. r \in Record /\ r.state = "downloading" /\ r.staged /\ r.offset = 0
    BY <1>2, <1>4 DEF Record, States, Worker
  <2>2. m \in Worker /\ m.pc = "open" /\ m.id = i
    BY <1>2 DEF Worker
  <2>3. g.there /\ g.data = <<>>
    OBVIOUS
  <2> HIDE DEF r, m, g
  <2>4. RecordFits(r, stage[i])
    BY <1>7, <2>1 DEF RecordFits
  <2>5. WorkerFits(m, r, stage[i], g)
    BY <2>1, <2>2, <2>3 DEF WorkerFits, StatesAt, Transfers
  <2>6. rec' = With(i, r) /\ journal' = Journaled(rec') /\ (Calm \/ \E e : Event(e))
    BY <1>9, SaveFacts
  <2> HIDE DEF i
  <2> QED BY <1>1, <1>2, <1>3, <1>6, <1>9, <2>1, <2>2, <2>4, <2>5, <2>6, WorkerMoves DEF i
<1>10. CASE /\ Unsaved(With(i, bad)) /\ worker' = Done(w) /\ active' = active \ {i}
         /\ session' = Dropped(w)
  <2>1. r \in Record /\ r.staged /\ r.offset = 0
    BY <1>2, <1>4 DEF Record, States, Worker
  <2> HIDE DEF r, m, g
  <2>2. bad \in Record /\ bad.state = "failed" /\ bad.staged /\ bad.offset = 0
    BY <2>1 DEF Record, States
  <2> HIDE DEF bad
  <2>3. RecordFits(bad, stage[i]) /\ JournalFits(journal[i], bad)
    BY <1>5, <1>7, <2>2 DEF RecordFits, JournalFits
  <2>4. rec' = With(i, bad) /\ journal' = journal /\ (Calm \/ \E e : Event(e))
    BY <1>10, SaveFacts
  <2>5. active' \subseteq Ids
    BY <1>6, <1>10
  <2> HIDE DEF i
  <2> QED BY <1>1, <1>2, <1>3, <1>6, <1>10, <2>2, <2>3, <2>4, <2>5, WorkerMoves, Blank DEF i, Done
<1> HIDE DEF g, m
<1> QED BY <1>8, <1>9, <1>10 DEF Choose, g, m

LEMMA SameChunks ==
  ASSUME NEW f \in File, NEW g \in File, NEW n \in Nat, SamePrefix(f, g, n)
  PROVE  \A k \in 1 .. n : f.data[k] = g.data[k]
<1> SUFFICES ASSUME NEW k \in 1 .. n PROVE f.data[k] = g.data[k]
  OBVIOUS
<1>1. /\ f.data \in Seq(Chunks) /\ g.data \in Seq(Chunks) /\ Len(f.data) >= n /\ Len(g.data) >= n
      /\ Len(f.data) \in Nat /\ Len(g.data) \in Nat
      /\ SubSeq(f.data, 1, n) = SubSeq(g.data, 1, n)
  <2>1. f.data \in Seq(Chunks) /\ g.data \in Seq(Chunks)
    BY DEF File, Chunks
  <2> QED BY <2>1, LenProperties DEF SamePrefix
<1>2. SubSeq(f.data, 1, n)[k] = f.data[k]
  BY <1>1
<1>3. SubSeq(g.data, 1, n)[k] = g.data[k]
  BY <1>1
<1> QED BY <1>1, <1>2, <1>3

LEMMA OpenStep ==
  ASSUME IInv, NEW w \in Workers, Open(w)
  PROVE  Kept
<1> DEFINE i == worker[w].id
           r == rec[i]
           n == r.offset
           f == Cut(stage[i], n)
           reattached == ~worker[w].open /\ Reconciles(i)
           g == IF reattached THEN Cut(dest[i], n) ELSE dest[i]
           m == [worker[w] EXCEPT !.pc = IF worker[w].chunk = None THEN "loop" ELSE "received",
                                  !.progress = n, !.cid = r.cid, !.token = r.token,
                                  !.open = worker[w].open \/ reattached]
<1>1. worker[w].pc = "open" /\ UNCHANGED <<source, session, link, resume>>
  BY DEF Open, Works
<1>2. /\ i \in Ids /\ worker[w] \in Worker /\ r \in Record /\ stage[i] \in File /\ dest[i] \in File
      /\ WorkerFits(worker[w], r, stage[i], dest[i]) /\ n \in 0 .. Size
      /\ RecordFits(r, stage[i]) /\ JournalFits(journal[i], r) /\ FileFits(stage[i])
      /\ r.state # "completed"
      /\ (rec' = rec => rec' = With(i, r))
      /\ (stage' = stage => stage' = [stage EXCEPT ![i] = stage[i]])
      /\ (dest' = dest => dest' = [dest EXCEPT ![i] = dest[i]])
  BY <1>1, WorkerFacts
<1>3. session' \in [Ids -> Session] /\ active \subseteq Ids
  BY <1>1 DEF IInv, TypeOK
<1>4. CASE /\ r.state = "absent" /\ active' = active \ {i} /\ worker' = Done(w)
           /\ UNCHANGED <<rec, journal, stage, dest>> /\ Calm
  <2>1. active' \subseteq Ids /\ worker' = [worker EXCEPT ![w] = NoWorker]
    BY <1>3, <1>4 DEF Done
  <2> HIDE DEF f, g, m
  <2> DEFINE e == stage[i]
             h == dest[i]
  <2>2. /\ i = worker[w].id /\ worker[w].pc \notin {"none", "again"} /\ r \in Record /\ e \in File /\ h \in File
        /\ rec' = With(i, r) /\ stage' = [stage EXCEPT ![i] = e] /\ dest' = [dest EXCEPT ![i] = h]
        /\ RecordFits(r, e) /\ FileFits(e) /\ JournalFits(journal[i], r) /\ r.state # "completed"
        /\ journal' = journal /\ resume' = resume /\ source' = source /\ link' = link
        /\ (Calm \/ \E x : Event(x))
    BY <1>1, <1>2, <1>4
  <2> HIDE DEF i, r, n, e, h, reattached
  <2> QED BY <1>3, <2>1, <2>2, WorkerMoves, Blank
<1>5. CASE FinishFailure(w, "failed", "storage") /\ UNCHANGED <<stage, dest>>
  <2> HIDE DEF f, g, m, r, n
  <2> QED BY <1>1, <1>2, <1>3, <1>5, FinishFailureStep DEF i
<1>6. CASE /\ r.state # "absent" /\ r.staged
           /\ stage' = [stage EXCEPT ![i] = f]
           /\ dest' = IF reattached THEN [dest EXCEPT ![i] = Cut(dest[i], n)] ELSE dest
           /\ worker' = [worker EXCEPT ![w] = m]
           /\ UNCHANGED <<rec, journal, active>> /\ Calm
  <2>1. /\ stage[i].synced \in 0 .. Size /\ Len(stage[i].data) \in Nat /\ n <= stage[i].synced
        /\ n <= Len(stage[i].data) /\ Size \in Nat /\ Size > 0
    <3> DEFINE e == stage[i]
    <3>1. /\ e \in File /\ RecordFits(r, e) /\ FileFits(e) /\ r.staged /\ n = r.offset
      BY <1>2, <1>6
    <3> HIDE DEF e, r, n
    <3>2. e.data \in Seq(Chunks) /\ e.synced \in 0 .. Size
      BY <3>1 DEF File, Chunks
    <3>3. Len(e.data) \in Nat
      BY <3>2, LenProperties
    <3>4. n <= e.synced /\ e.synced <= Len(e.data)
      BY <3>1 DEF RecordFits, FileFits
    <3>5. n <= Len(e.data)
      <4>1. n \in Nat /\ e.synced \in Nat
        BY <1>2, <3>2, SizeNat
      <4> QED BY <3>3, <3>4, <4>1
    <3> QED BY <3>2, <3>3, <3>4, <3>5, SizeNat DEF e
  <2>2. f \in File /\ f.there /\ Len(f.data) = n /\ f.synced = n /\ f.data \in Seq(Chunks)
    <3>1. f \in File /\ f.there /\ Len(f.data) = n /\ f.synced = n
      BY <1>2, <2>1, CutFacts
    <3> QED BY <3>1 DEF File, Chunks
  <2>3. RecordFits(r, f) /\ FileFits(f)
    BY <1>2, <2>1, <2>2 DEF RecordFits, FileFits
  <2>4. g \in File /\ dest' = [dest EXCEPT ![i] = g]
    <3>1. Cut(dest[i], n) \in File
      BY <1>2, CutFacts
    <3> QED BY <1>2, <1>6, <3>1
  <2>5. ASSUME worker[w].open \/ reattached PROVE g.there /\ g.data = f.data
    <3>1. CASE worker[w].open
      <4>1. n = 0 /\ dest[i].there /\ dest[i].data = <<>> /\ g = dest[i]
        BY <1>1, <1>2, <1>6, <3>1 DEF WorkerFits
      <4>2. f.data = <<>>
        BY <2>2, <4>1, EmptySeq
      <4> QED BY <4>1, <4>2
    <3>2. CASE reattached
      <4>1. SamePrefix(f, dest[i], n) /\ g = Cut(dest[i], n) /\ dest[i].there
        BY <3>2 DEF Reconciles
      <4>2. n \in Nat
        BY <1>2, SizeNat
      <4>3. /\ g \in File /\ g.there /\ Len(g.data) = n
            /\ Len(dest[i].data) >= n /\ g.data \in Seq(Chunks)
            /\ \A k \in 1 .. n : g.data[k] = IF k <= Len(dest[i].data) THEN dest[i].data[k] ELSE None
        <5>1. /\ g \in File /\ g.there /\ Len(g.data) = n
              /\ \A k \in 1 .. n : g.data[k] = IF k <= Len(dest[i].data) THEN dest[i].data[k] ELSE None
          <6> HIDE DEF g
          <6> QED BY <1>2, <4>1, CutFacts
        <5>2. Len(dest[i].data) >= n
          BY <4>1 DEF SamePrefix
        <5> QED BY <5>1, <5>2 DEF File, Chunks
      <4>4. Len(dest[i].data) \in Nat
        <5>1. dest[i].data \in Seq(Chunks)
          BY <1>2 DEF File, Chunks
        <5> QED BY <5>1, LenProperties
      <4>5. \A k \in 1 .. n : f.data[k] = dest[i].data[k]
        <5> HIDE DEF f
        <5> QED BY <1>2, <2>2, <4>1, <4>2, SameChunks
      <4> HIDE DEF f, g, n
      <4>6. \A k \in 1 .. n : g.data[k] = f.data[k]
        BY <4>2, <4>3, <4>4, <4>5
      <4>7. g.data = f.data
        BY <2>2, <4>3, <4>6, SeqEqual
      <4> QED BY <4>3, <4>7
    <3> QED BY <2>5, <3>1, <3>2
  <2>6. /\ m \in Worker /\ m.id = i /\ m.progress = n /\ m.cid = r.cid /\ m.chunk = worker[w].chunk
        /\ m.pc \in {"loop", "received"}
        /\ m.open = (worker[w].open \/ reattached)
    <3> DEFINE open == worker[w].open \/ reattached
    <3>1. open \in BOOLEAN
      BY <1>2 DEF Worker, Reconciles
    <3> HIDE DEF open
    <3>2. r.cid \in Contents \cup {None} /\ r.token \in Tokens
      BY <1>2 DEF Record
    <3> HIDE DEF reattached, n, r, i
    <3>3. /\ m \in Worker /\ m.id = worker[w].id /\ m.progress = n /\ m.cid = r.cid
          /\ m.chunk = worker[w].chunk
          /\ m.pc \in {"loop", "received"} /\ m.open = (worker[w].open \/ reattached)
      BY <1>2, <3>1, <3>2 DEF Worker, open
    <3> QED BY <3>3 DEF i
  <2>7. m.chunk # None => n < Size
    BY <1>1, <1>2, <1>6, <2>1, <2>6 DEF WorkerFits
  <2>8. r.state \in {"absent", "downloading"}
    BY <1>1, <1>2 DEF WorkerFits, StatesAt
  <2>9. m.open => g.there /\ g.data = f.data
    BY <2>5, <2>6
  <2> HIDE DEF m, f, g, reattached
  <2>10. m.pc # "none" /\ WorkerFits(m, r, f, g)
    <3>1. /\ r.staged /\ r.cid = m.cid /\ r.offset = m.progress /\ r.offset \in Nat
          /\ f.there /\ Len(f.data) = m.progress /\ m.pc \in {"loop", "received"}
          /\ m.progress = n
      BY <1>6, <1>2, <2>2, <2>6, SizeNat
    <3> HIDE DEF r, n, i
    <3>2. r.state \in StatesAt(m.pc)
      BY <2>8, <3>1 DEF StatesAt, Transfers
    <3>3. m.pc = "received" /\ m.chunk # None => m.progress < Size
      BY <2>7, <3>1
    <3> QED BY <2>9, <3>1, <3>2, <3>3 DEF WorkerFits
  <2>11. /\ i = worker[w].id /\ worker[w].pc \notin {"none", "again"} /\ r \in Record /\ rec' = With(i, r)
         /\ stage' = [stage EXCEPT ![i] = f] /\ worker' = [worker EXCEPT ![w] = m]
         /\ JournalFits(journal[i], r) /\ r.state # "completed" /\ active' \subseteq Ids
         /\ journal' = journal /\ resume' = resume /\ source' = source /\ link' = link
         /\ (Calm \/ \E x : Event(x))
    BY <1>1, <1>2, <1>3, <1>6
  <2> HIDE DEF i, r, n
  <2> QED BY <1>3, <2>2, <2>3, <2>4, <2>6, <2>10, <2>11, WorkerMoves
<1> HIDE DEF m
<1>7. QED BY <1>4, <1>5, <1>6 DEF Open, m

LEMMA FetchStep ==
  ASSUME IInv, NEW w \in Workers, Fetch(w)
  PROVE  Kept
<1> DEFINE i == worker[w].id
           s == Serving(i, worker[w].token)
           p == worker[w].progress
           c == IF p < Size THEN Bytes(s) ELSE None
           m == [worker[w] EXCEPT !.pc = "received", !.token = s.token, !.chunk = c]
<1>1. worker[w].pc = "loop" /\ UNCHANGED <<source, link, resume, stage, dest>>
  BY DEF Fetch, Works
<1>2. /\ i \in Ids /\ worker[w] \in Worker /\ rec[i] \in Record /\ stage[i] \in File /\ dest[i] \in File
      /\ WorkerFits(worker[w], rec[i], stage[i], dest[i])
      /\ RecordFits(rec[i], stage[i]) /\ JournalFits(journal[i], rec[i]) /\ FileFits(stage[i])
      /\ rec[i].state # "completed"
      /\ (rec' = rec => rec' = With(i, rec[i])) /\ stage' = [stage EXCEPT ![i] = stage[i]]
      /\ dest' = [dest EXCEPT ![i] = dest[i]]
  BY <1>1, WorkerFacts
<1>3. TypeOK
  BY DEF IInv
<1>4. CASE Served(i, s, p) /\ worker' = [worker EXCEPT ![w] = m] /\ UNCHANGED <<rec, journal, active>>
        /\ Calm
  <2>1. s \in Session /\ session' \in [Ids -> Session]
    BY <1>2, <1>3, <1>4, ServingType, ServedType
  <2>2. c \in Contents \cup {None} /\ (c # None => p < Size)
    <3> HIDE DEF s
    <3> QED BY <1>3, <2>1 DEF Bytes, Session, TypeOK
  <2> HIDE DEF s, c
  <2>3. /\ m \in Worker /\ m.pc = "received" /\ m.id = i /\ m.progress = p /\ m.chunk = c
        /\ m.cid = worker[w].cid /\ m.open = worker[w].open
    BY <1>2, <2>1, <2>2 DEF Worker, Session
  <2> HIDE DEF m
  <2>4. WorkerFits(m, rec[i], stage[i], dest[i])
    BY <1>1, <1>2, <2>2, <2>3 DEF WorkerFits, StatesAt, Transfers
  <2>5. active' \subseteq Ids
    BY <1>3, <1>4 DEF TypeOK
  <2>6. /\ rec' = With(i, rec[i]) /\ journal' = journal /\ worker' = [worker EXCEPT ![w] = m]
        /\ (Calm \/ \E e : Event(e))
    BY <1>2, <1>4
  <2>7. source' = source /\ link' = link /\ resume' = resume /\ worker[w].pc \notin {"none", "again"}
    BY <1>1
  <2> DEFINE r == rec[i]
             f == stage[i]
             g == dest[i]
  <2>8. /\ r \in Record /\ f \in File /\ g \in File /\ RecordFits(r, f) /\ FileFits(f)
        /\ JournalFits(journal[i], r) /\ r.state # "completed" /\ WorkerFits(m, r, f, g)
        /\ rec' = With(i, r) /\ stage' = [stage EXCEPT ![i] = f] /\ dest' = [dest EXCEPT ![i] = g]
    BY <1>2, <2>4, <2>6
  <2> HIDE DEF r, f, g
  <2>9. i = worker[w].id
    OBVIOUS
  <2> HIDE DEF i
  <2> QED BY <2>1, <2>3, <2>5, <2>6, <2>7, <2>8, <2>9, WorkerMoves
<1>5. CASE \/ FinishFailure(w, "source-changed", "source") /\ UNCHANGED session
           \/ /\ FinishFailure(w, "failed", "connection")
              /\ session' \in {session, [session EXCEPT ![i] = NoSession]}
  <2>1. session' \in [Ids -> Session]
    BY <1>2, <1>3, <1>5, Blank DEF TypeOK
  <2> HIDE DEF i, s, m
  <2> QED BY <1>1, <1>2, <1>5, <2>1, FinishFailureStep DEF i
<1> HIDE DEF m
<1> QED BY <1>4, <1>5 DEF Fetch, m

(* A goroutine moves its download, with a save, or a record that stays. *)
LEMMA WorkerSaves ==
  ASSUME IInv, NEW w \in Workers, worker[w].pc \notin {"none", "again"}, NEW i, i = worker[w].id,
         NEW r \in Record, NEW f \in File, NEW g \in File, NEW m \in Worker,
         \/ Saved(With(i, r))
         \/ Unsaved(With(i, r)) /\ JournalFits(journal[i], r)
         \/ rec' = With(i, r) /\ UNCHANGED journal /\ JournalFits(journal[i], r) /\ (Calm \/ \E e : Event(e)),
         stage' = [stage EXCEPT ![i] = f], dest' = [dest EXCEPT ![i] = g],
         worker' = [worker EXCEPT ![w] = m],
         active' \in {active, active \ {i}, active \cup {i}},
         UNCHANGED <<source, session, link, resume>>,
         RecordFits(r, f), FileFits(f),
         r.state = "completed" => g.there /\ Whole(g, r.cid),
         m = NoWorker \/ (m.pc # "none" /\ m.id = i /\ WorkerFits(m, r, f, g))
  PROVE  Kept
<1>1. /\ rec' = With(i, r) /\ (Calm \/ \E e : Event(e))
      /\ journal' = Journaled(rec') \/ (journal' = journal /\ JournalFits(journal[i], r))
  BY SaveFacts
<1>2. active' \subseteq Ids /\ session' \in [Ids -> Session]
  BY DEF IInv, TypeOK, Apart
<1> QED BY <1>1, <1>2, WorkerMoves

LEMMA ReceiveStep ==
  ASSUME IInv, NEW w \in Workers, Receive(w)
  PROVE  Kept
<1> DEFINE i == worker[w].id
           p == worker[w].progress
           c == worker[w].chunk
           next == IF c = None THEN p ELSE p + 1
           r == IF rec[i].state = "absent" THEN rec[i]
                ELSE [rec[i] EXCEPT !.state = "downloading", !.token = worker[w].token]
           f == Written(stage[i], p, c)
           full == Written(dest[i], p, c)
<1>1. worker[w].pc = "received" /\ UNCHANGED <<source, session, link, resume>>
  BY DEF Receive, Works
<1>2. /\ i \in Ids /\ worker[w] \in Worker /\ rec[i] \in Record /\ stage[i] \in File /\ dest[i] \in File
      /\ WorkerFits(worker[w], rec[i], stage[i], dest[i]) /\ rec[i].offset \in 0 .. Size
      /\ RecordFits(rec[i], stage[i]) /\ JournalFits(journal[i], rec[i]) /\ FileFits(stage[i])
      /\ rec[i].state # "completed"
      /\ (stage' = stage => stage' = [stage EXCEPT ![i] = stage[i]])
      /\ (dest' = dest => dest' = [dest EXCEPT ![i] = dest[i]])
  BY <1>1, WorkerFacts
<1>3. p \in 0 .. Size /\ c \in Chunks /\ (c # None => p < Size)
  BY <1>1, <1>2 DEF Worker, Chunks, WorkerFits
<1>4. rec[i].state \in {"absent", "downloading"}
  BY <1>1, <1>2 DEF WorkerFits, StatesAt, Transfers
<1>5. next \in 0 .. Size
  BY <1>3, SizeNat
<1>6. stage[i].synced \in 0 .. Size /\ Len(stage[i].data) \in Nat /\ Size \in Nat
  <2>1. stage[i].data \in Seq(Chunks)
    BY <1>2 DEF File, Chunks
  <2> QED BY <1>2, <2>1, LenProperties, SizeNat DEF File
<1>7. /\ f \in File /\ f.there = stage[i].there
      /\ c = None \/ ~stage[i].there => f = stage[i]
      /\ c # None /\ stage[i].there =>
              /\ f.synced = (IF stage[i].synced < p THEN stage[i].synced ELSE p)
              /\ Len(f.data) = IF Len(stage[i].data) > p THEN Len(stage[i].data) ELSE p + 1
  <2> HIDE DEF i, p, c
  <2> QED BY <1>2, <1>3, WrittenFacts
<1>8. full \in File /\ full.there = dest[i].there
  <2> HIDE DEF i, p, c
  <2> QED BY <1>2, <1>3, WrittenFacts
<1>9. rec[i].state # "absent" =>
        /\ rec[i].staged /\ rec[i].cid = worker[w].cid /\ rec[i].offset <= p
        /\ stage[i].there /\ Len(stage[i].data) = p
        /\ worker[w].open => dest[i].there /\ dest[i].data = stage[i].data
  BY <1>1, <1>2 DEF WorkerFits, Transfers
<1>10. FileFits(f)
  BY <1>2, <1>3, <1>6, <1>7 DEF FileFits
<1>11. dest[i].there /\ stage[i].there /\ dest[i].data = stage[i].data => full.data = f.data
  <2> SUFFICES ASSUME dest[i].there, stage[i].there, dest[i].data = stage[i].data PROVE full.data = f.data
    OBVIOUS
  <2> HIDE DEF i, p, c
  <2> QED BY <1>2, WrittenAlike
<1>12. /\ r \in Record /\ r.state = rec[i].state /\ r.staged = rec[i].staged /\ r.cid = rec[i].cid
       /\ r.offset = rec[i].offset
  BY <1>2, <1>4 DEF Record, States, Worker
<1>13. ASSUME NEW b \in Record, b.state = rec[i].state, b.staged = rec[i].staged, b.cid = rec[i].cid,
              b.offset = rec[i].offset
       PROVE  RecordFits(b, f) /\ JournalFits(journal[i], b) /\ b.state # "completed"
  <2>1. RecordFits(b, f)
    BY <1>13, <1>2, <1>3, <1>4, <1>6, <1>7, <1>9 DEF RecordFits
  <2> QED BY <1>2, <1>13, <2>1 DEF JournalFits
<1>14. CASE /\ stage' = [stage EXCEPT ![i] = f]
            /\ \E pc \in {"sync"} \cup IF next < Size THEN {"loop"} ELSE {}, open \in {worker[w].open, FALSE} :
                 /\ worker' = [worker EXCEPT ![w] = [@ EXCEPT !.pc = pc, !.progress = next, !.chunk = None,
                                                             !.open = open]]
                 /\ IF open = worker[w].open
                    THEN /\ dest' = IF open THEN [dest EXCEPT ![i] = full] ELSE dest
                         /\ rec' = With(i, r)
                         /\ Calm
                    ELSE rec' = With(i, [r EXCEPT !.named = FALSE]) /\ Event("destination")
                      /\ UNCHANGED dest
            /\ UNCHANGED <<journal, active>>
  <2>1. PICK pc \in {"sync", "loop"}, open \in {worker[w].open, FALSE} :
                 /\ worker' = [worker EXCEPT ![w] = [@ EXCEPT !.pc = pc, !.progress = next, !.chunk = None,
                                                             !.open = open]]
                 /\ IF open = worker[w].open
                    THEN /\ dest' = IF open THEN [dest EXCEPT ![i] = full] ELSE dest
                         /\ rec' = With(i, r)
                         /\ Calm
                    ELSE rec' = With(i, [r EXCEPT !.named = FALSE]) /\ Event("destination")
                      /\ UNCHANGED dest
    <3> HIDE DEF f, full, r
    <3> QED BY <1>14
  <2> DEFINE b == IF open = worker[w].open THEN r ELSE [r EXCEPT !.named = FALSE]
             g == IF open THEN full ELSE dest[i]
             m == [worker[w] EXCEPT !.pc = pc, !.progress = next, !.chunk = None, !.open = open]
  <2>2. /\ b \in Record /\ b.state = rec[i].state /\ b.staged = rec[i].staged /\ b.cid = rec[i].cid
        /\ b.offset = rec[i].offset
    <3> HIDE DEF r
    <3> QED BY <1>12 DEF Record
  <2>3. RecordFits(b, f) /\ JournalFits(journal[i], b) /\ b.state # "completed"
    <3> HIDE DEF b, f
    <3> QED BY <1>13, <2>2
  <2>4. /\ m \in Worker /\ m.pc = pc /\ m.id = i /\ m.progress = next /\ m.chunk = None /\ m.open = open
        /\ m.cid = worker[w].cid
    <3> HIDE DEF next
    <3> QED BY <1>2, <1>5 DEF Worker
  <2>5. open \in BOOLEAN /\ (open => worker[w].open)
    BY <1>2 DEF Worker
  <2>6. /\ rec' = With(i, b) /\ dest' = [dest EXCEPT ![i] = g] /\ g \in File
        /\ (Calm \/ \E e : Event(e)) /\ worker' = [worker EXCEPT ![w] = m]
    <3> HIDE DEF r, full
    <3> QED BY <1>2, <1>8, <2>1, <2>5
  <2>7. rec[i].state # "absent" => f.there /\ Len(f.data) = next /\ (open => g.there /\ g.data = f.data)
    <3> HIDE DEF f, full
    <3> QED BY <1>2, <1>3, <1>6, <1>7, <1>8, <1>9, <1>11, <2>5
  <2>8. rec[i].offset <= p => rec[i].offset <= next
    <3> DEFINE o == rec[i].offset
    <3>1. o \in Nat /\ p \in Nat
      BY <1>2, <1>3, SizeNat
    <3> HIDE DEF o, p
    <3> QED BY <3>1 DEF o
  <2> HIDE DEF m, b, g, f, r, full, next
  <2>9. m.pc # "none" /\ WorkerFits(m, b, f, g)
    BY <1>4, <1>9, <2>2, <2>4, <2>7, <2>8 DEF WorkerFits, StatesAt, Transfers
  <2>10. i = worker[w].id /\ worker[w].pc \notin {"none", "again"}
    BY <1>1
  <2>11. stage' = [stage EXCEPT ![i] = f] /\ UNCHANGED <<journal, active>>
    BY <1>14
  <2> HIDE DEF i
  <2> QED BY <1>1, <1>7, <1>10, <2>2, <2>3, <2>4, <2>6, <2>9, <2>10, <2>11, WorkerSaves
<1>15. CASE /\ Event("stage")
            /\ rec' = FailedRecords(i, "failed", "storage")
            /\ journal' = Journaled(rec')
            /\ active' = active \ {i}
            /\ worker' = Done(w)
            /\ UNCHANGED <<stage, dest>>
  <2>1. PICK b \in Record : /\ FailedRecords(i, "failed", "storage") = With(i, b)
                            /\ RecordFits(b, stage[i]) /\ JournalFits(journal[i], b)
                            /\ b.state # "completed"
    BY <1>1, FailedRecordsMove
  <2>2. active' \subseteq Ids /\ session' \in [Ids -> Session]
    BY <1>1, <1>15 DEF IInv, TypeOK
  <2> DEFINE e == stage[i]
             g == dest[i]
  <2>3. /\ e \in File /\ g \in File /\ FileFits(e) /\ RecordFits(b, e)
        /\ stage' = [stage EXCEPT ![i] = e] /\ dest' = [dest EXCEPT ![i] = g]
        /\ i = worker[w].id /\ worker[w].pc \notin {"none", "again"} /\ worker' = [worker EXCEPT ![w] = NoWorker]
        /\ rec' = With(i, b) /\ journal' = Journaled(rec') /\ (Calm \/ \E x : Event(x))
        /\ resume' = resume /\ source' = source /\ link' = link
    BY <1>1, <1>2, <1>15, <2>1 DEF Done
  <2> HIDE DEF i, e, g
  <2> QED BY <2>1, <2>2, <2>3, WorkerMoves, Blank
<1> QED BY <1>14, <1>15 DEF Receive

(* The staged file of a goroutine, synced. *)
LEMMA SyncedFacts ==
  ASSUME IInv, NEW i \in Ids
  PROVE  \E f \in File : /\ Synced(i) = [stage EXCEPT ![i] = f]
                         /\ f.there = stage[i].there /\ f.data = stage[i].data /\ f.synced = Len(f.data)
                         /\ FileFits(f)
<1> DEFINE n == Len(stage[i].data)
           f == [stage[i] EXCEPT !.synced = n]
<1>1. stage[i] \in File /\ FileFits(stage[i])
  BY DEF IInv, IdFits, TypeOK
<1>2. n \in Nat
  <2>1. stage[i].data \in Seq(Chunks)
    BY <1>1 DEF File, Chunks
  <2> QED BY <2>1, LenProperties
<1>3. n \in 0 .. Size
  BY <1>1, <1>2, SizeNat DEF FileFits
<1>4. Synced(i) = [stage EXCEPT ![i] = f]
  BY <1>1 DEF Synced, IInv, TypeOK
<1> HIDE DEF n
<1>5. f \in File /\ f.there = stage[i].there /\ f.data = stage[i].data /\ f.synced = n
  BY <1>1, <1>3 DEF File
<1> HIDE DEF f
<1>6. FileFits(f)
  BY <1>1, <1>2, <1>5 DEF FileFits, n
<1> QED BY <1>4, <1>5, <1>6 DEF n

LEMMA SyncStep ==
  ASSUME IInv, NEW w \in Workers, Sync(w)
  PROVE  Kept
<1> DEFINE i == worker[w].id
           r == rec[i]
           g == dest[i]
           m == [worker[w] EXCEPT !.pc = "checkpoint"]
<1>1. worker[w].pc = "sync" /\ UNCHANGED <<source, session, link, rec, journal, dest, active, resume>>
        /\ Calm
  BY DEF Sync, Works
<1>2. /\ i \in Ids /\ worker[w] \in Worker /\ r \in Record /\ g \in File
      /\ WorkerFits(worker[w], r, stage[i], g) /\ r.offset \in 0 .. Size
      /\ RecordFits(r, stage[i]) /\ JournalFits(journal[i], r) /\ r.state # "completed"
      /\ rec' = With(i, r) /\ dest' = [dest EXCEPT ![i] = g]
  BY <1>1, WorkerFacts
<1>3. PICK f \in File : /\ Synced(i) = [stage EXCEPT ![i] = f]
                        /\ f.there = stage[i].there /\ f.data = stage[i].data /\ f.synced = Len(f.data)
                        /\ FileFits(f)
  BY <1>2, SyncedFacts
<1>4. stage' = [stage EXCEPT ![i] = f] /\ worker' = [worker EXCEPT ![w] = m]
  BY <1>3 DEF Sync, To
<1>5. /\ m \in Worker /\ m.pc = "checkpoint" /\ m.id = i /\ m.progress = worker[w].progress
      /\ m.open = worker[w].open /\ m.cid = worker[w].cid
  BY <1>2 DEF Worker
<1>6. /\ r.state # "absent" => r.staged /\ r.offset <= m.progress /\ f.synced = m.progress
      /\ r.state \in {"absent", "downloading"}
  BY <1>1, <1>2, <1>3, <1>5 DEF WorkerFits, StatesAt, Transfers
<1> HIDE DEF m, g
<1>7. RecordFits(r, f)
  BY <1>2, <1>6 DEF RecordFits
<1>8. m.progress \in Int
  BY <1>5, SizeNat DEF Worker
<1>9. WorkerFits(m, r, f, g)
  <2>1. r.state # "absent" => /\ r.cid = m.cid /\ f.there /\ Len(f.data) = m.progress
                              /\ m.open => g.there /\ g.data = f.data
    BY <1>1, <1>2, <1>3, <1>5 DEF WorkerFits, Transfers
  <2>2. r.state \in {"absent", "downloading"}
    BY <1>6
  <2> HIDE DEF r, i
  <2> QED BY <1>5, <1>6, <1>8, <2>1, <2>2 DEF WorkerFits, StatesAt, Transfers
<1>10. /\ i = worker[w].id /\ worker[w].pc \notin {"none", "again"} /\ r \in Record /\ g \in File /\ m \in Worker
       /\ rec' = With(i, r) /\ journal' = journal /\ JournalFits(journal[i], r) /\ Calm
       /\ dest' = [dest EXCEPT ![i] = g] /\ active' = active
       /\ UNCHANGED <<source, session, link, resume>>
       /\ FileFits(f) /\ r.state # "completed" /\ m.pc # "none" /\ m.id = i
  BY <1>1, <1>2, <1>3, <1>5
<1> HIDE DEF i, r
<1> QED BY <1>4, <1>7, <1>9, <1>10, WorkerSaves

(* A record that says how far its goroutine came. *)
LEMMA ReachedFacts ==
  ASSUME IInv, NEW w \in Workers, worker[w].pc \in Transfers, NEW i, i = worker[w].id,
         rec[i].state # "absent", NEW r \in Record, r.staged = rec[i].staged, r.cid = rec[i].cid,
         r.offset = worker[w].progress
  PROVE  /\ r.staged /\ r.cid = worker[w].cid /\ JournalFits(journal[i], r)
         /\ rec[i].state = "downloading"
<1> DEFINE n == worker[w].progress
           o == journal[i].offset
           q == rec[i].offset
<1>1. /\ i \in Ids /\ worker[w] \in Worker /\ rec[i] \in Record /\ journal[i] \in Record
      /\ WorkerFits(worker[w], rec[i], stage[i], dest[i]) /\ JournalFits(journal[i], rec[i])
      /\ rec[i].state # "completed" /\ rec[i].offset \in 0 .. Size
  BY WorkerFacts DEF Transfers
<1>2. /\ n \in Int /\ o \in Int /\ q \in Int
  BY <1>1, SizeNat DEF Worker, Record
<1>3. rec[i].staged /\ q <= n /\ rec[i].cid = worker[w].cid /\ rec[i].state = "downloading"
  BY <1>1 DEF WorkerFits, StatesAt, Transfers
<1>4. journal[i].staged => o <= q
  BY <1>1 DEF JournalFits
<1>5. journal[i].state # "completed"
  BY <1>1 DEF JournalFits
<1>6. journal[i].staged => o <= n
  <2> HIDE DEF n, o, q
  <2> QED BY <1>2, <1>3, <1>4
<1> QED BY <1>1, <1>3, <1>5, <1>6 DEF JournalFits

LEMMA CheckpointStep ==
  ASSUME IInv, NEW w \in Workers, Checkpoint(w)
  PROVE  Kept
<1> DEFINE i == worker[w].id
           n == worker[w].progress
           t == worker[w].token
           f == stage[i]
           g == dest[i]
           r == Reached(w, t)
           bad == [Failed(i, "failed", "storage") EXCEPT !.offset = n]
           m == [worker[w] EXCEPT !.pc = IF n = Size THEN "verify" ELSE "loop"]
<1>1. worker[w].pc = "checkpoint" /\ UNCHANGED <<source, session, link, resume, stage, dest>>
  BY DEF Checkpoint, Works
<1>2. /\ i \in Ids /\ worker[w] \in Worker /\ rec[i] \in Record /\ f \in File /\ g \in File
      /\ WorkerFits(worker[w], rec[i], f, g) /\ FileFits(f)
      /\ stage' = [stage EXCEPT ![i] = f] /\ dest' = [dest EXCEPT ![i] = g]
  BY <1>1, WorkerFacts
<1>3. n \in 0 .. Size /\ t \in Tokens /\ worker[w].pc \in Transfers /\ worker[w].pc \notin {"none", "again"}
  BY <1>1, <1>2 DEF Worker, Transfers
<1>4. CASE FinishFailure(w, "failed", "storage")
  <2>1. session' \in [Ids -> Session]
    BY <1>1 DEF IInv, TypeOK
  <2> HIDE DEF i, f, g
  <2> QED BY <1>1, <1>2, <1>3, <1>4, <2>1, FinishFailureStep DEF i
<1>5. CASE rec[i].state # "absent" /\ Saved(With(i, r)) /\ worker' = [worker EXCEPT ![w] = m]
        /\ UNCHANGED active
  <2>1. r \in Record /\ r.staged /\ r.offset = n /\ r.cid = rec[i].cid /\ r.state = "downloading"
    <3>1. r \in Record /\ r.staged = rec[i].staged /\ r.cid = rec[i].cid /\ r.offset = n
            /\ r.state = rec[i].state
      BY <1>2, <1>3 DEF Reached, Record
    <3>2. i = worker[w].id /\ n = worker[w].progress
      OBVIOUS
    <3> HIDE DEF i, n, r
    <3> QED BY <1>3, <1>5, <3>1, <3>2, ReachedFacts
  <2>2. n <= f.synced /\ f.there /\ Len(f.data) = n /\ rec[i].cid = worker[w].cid
        /\ (worker[w].open => g.there /\ g.data = f.data)
    BY <1>1, <1>2, <1>5 DEF WorkerFits, Transfers
  <2>3. /\ m \in Worker /\ m.pc = (IF n = Size THEN "verify" ELSE "loop") /\ m.id = i /\ m.progress = n
        /\ m.open = worker[w].open /\ m.cid = worker[w].cid
    BY <1>2 DEF Worker
  <2>4. i = worker[w].id
    OBVIOUS
  <2> HIDE DEF m, r, f, g, n
  <2>5. RecordFits(r, f)
    BY <2>1, <2>2 DEF RecordFits
  <2>6. m.pc # "none" /\ WorkerFits(m, r, f, g)
    BY <1>3, <2>1, <2>2, <2>3, SizeNat DEF WorkerFits, StatesAt, Transfers
  <2>7. /\ r \in Record /\ f \in File /\ g \in File /\ m \in Worker /\ Saved(With(i, r))
        /\ stage' = [stage EXCEPT ![i] = f] /\ dest' = [dest EXCEPT ![i] = g] /\ active' = active
        /\ worker' = [worker EXCEPT ![w] = m] /\ UNCHANGED <<source, session, link, resume>>
        /\ FileFits(f) /\ r.state # "completed" /\ m.id = i
    BY <1>1, <1>2, <1>5, <2>1, <2>3
  <2> HIDE DEF i
  <2> QED BY <1>3, <2>4, <2>5, <2>6, <2>7, WorkerSaves
<1>6. CASE rec[i].state # "absent" /\ Unsaved(With(i, bad)) /\ active' = active \ {i} /\ worker' = Done(w)
  <2>1. /\ bad \in Record /\ bad.staged /\ bad.offset = n /\ bad.state = "failed"
        /\ JournalFits(journal[i], bad)
    <3>1. bad \in Record /\ bad.staged = rec[i].staged /\ bad.cid = rec[i].cid /\ bad.offset = n
            /\ bad.state = "failed"
      BY <1>2, <1>3 DEF Failed, Record, States
    <3>2. i = worker[w].id /\ n = worker[w].progress
      OBVIOUS
    <3> HIDE DEF i, n, bad
    <3> QED BY <1>3, <1>6, <3>1, <3>2, ReachedFacts
  <2>2. n <= f.synced
    BY <1>1, <1>2, <1>6 DEF WorkerFits
  <2>3. i = worker[w].id /\ worker' = [worker EXCEPT ![w] = NoWorker]
    BY <1>6 DEF Done
  <2> HIDE DEF bad, f, g, n
  <2>4. RecordFits(bad, f)
    BY <2>1, <2>2 DEF RecordFits
  <2>5. /\ bad \in Record /\ f \in File /\ g \in File /\ Unsaved(With(i, bad))
        /\ stage' = [stage EXCEPT ![i] = f] /\ dest' = [dest EXCEPT ![i] = g] /\ active' = active \ {i}
        /\ UNCHANGED <<source, session, link, resume>>
        /\ FileFits(f) /\ bad.state # "completed" /\ JournalFits(journal[i], bad)
    BY <1>1, <1>2, <1>6, <2>1
  <2> HIDE DEF i
  <2> QED BY <1>3, <2>3, <2>4, <2>5, WorkerSaves, Blank
<1> HIDE DEF m
<1> QED BY <1>4, <1>5, <1>6 DEF Checkpoint, To, m

LEMMA PauseRunStep ==
  ASSUME IInv, NEW w \in Workers, PauseRun(w)
  PROVE  Kept
<1> DEFINE i == worker[w].id
           n == worker[w].progress
           g == dest[i]
           r == [Reached(w, rec[i].token) EXCEPT !.state = "paused", !.error = "none"]
           bad == [Failed(i, "failed", "storage") EXCEPT !.offset = n]
           again == [NoWorker EXCEPT !.pc = "again", !.id = i]
           m == IF GoesOn(w) THEN again ELSE NoWorker
<1>1. worker[w].pc = "loop" /\ UNCHANGED <<source, session, link, resume, dest>>
  BY DEF PauseRun, Works, disk
<1>2. /\ i \in Ids /\ worker[w] \in Worker /\ rec[i] \in Record /\ stage[i] \in File /\ g \in File
      /\ WorkerFits(worker[w], rec[i], stage[i], g) /\ RecordFits(rec[i], stage[i]) /\ FileFits(stage[i])
      /\ JournalFits(journal[i], rec[i]) /\ rec[i].state # "completed"
      /\ (rec' = rec => rec' = With(i, rec[i]))
      /\ (stage' = stage => stage' = [stage EXCEPT ![i] = stage[i]]) /\ dest' = [dest EXCEPT ![i] = g]
  BY <1>1, WorkerFacts
<1>3. n \in 0 .. Size /\ worker[w].pc \in Transfers /\ worker[w].pc \notin {"none", "again"}
  BY <1>1, <1>2 DEF Worker, Transfers
<1>4. CASE /\ rec[i].state = "absent"
           /\ worker' = Done(w) /\ UNCHANGED <<rec, journal, stage, active>> /\ Calm
  <2> DEFINE b == rec[i]
             f == stage[i]
  <2>1. /\ i = worker[w].id /\ b \in Record /\ f \in File /\ g \in File /\ rec' = With(i, b)
        /\ journal' = journal
        /\ JournalFits(journal[i], b) /\ Calm
        /\ stage' = [stage EXCEPT ![i] = f] /\ dest' = [dest EXCEPT ![i] = g] /\ active' = active
        /\ UNCHANGED <<source, session, link, resume>> /\ worker' = [worker EXCEPT ![w] = NoWorker]
        /\ RecordFits(b, f) /\ FileFits(f) /\ b.state # "completed"
    BY <1>1, <1>2, <1>4 DEF Done
  <2> HIDE DEF i, b, f, g
  <2> QED BY <1>3, <2>1, WorkerSaves, Blank
<1>5. PICK f \in File : /\ Synced(i) = [stage EXCEPT ![i] = f]
                        /\ f.there = stage[i].there /\ f.data = stage[i].data /\ f.synced = Len(f.data)
                        /\ FileFits(f)
  BY <1>2, SyncedFacts
<1>6. rec[i].state # "absent" => f.synced = n
  BY <1>1, <1>2, <1>5 DEF WorkerFits, Transfers
<1>7. CASE /\ rec[i].state # "absent"
           /\ Saved(With(i, r))
           /\ active' = active \ {i}
           /\ worker' = [worker EXCEPT ![w] = m]
           /\ stage' = Synced(i)
  <2>1. r \in Record /\ r.staged = rec[i].staged /\ r.offset = n /\ r.cid = rec[i].cid
          /\ r.state = "paused"
    <3>1. rec[i].token \in Tokens
      BY <1>2 DEF Record
    <3> QED BY <1>2, <1>3, <3>1 DEF Reached, Record, States
  <2>2. m \in Worker /\ (m = NoWorker \/ (m.pc = "again" /\ m.id = i))
    BY <1>2, Blank DEF Worker, NoWorker
  <2> HIDE DEF r, m
  <2>3. RecordFits(r, f)
    BY <1>6, <1>7, <1>3, <2>1, SizeNat DEF RecordFits
  <2>4. m = NoWorker \/ (m.pc # "none" /\ m.id = i /\ WorkerFits(m, r, f, g))
    BY <2>1, <2>2 DEF WorkerFits, StatesAt, Transfers
  <2>5. /\ i = worker[w].id /\ r \in Record /\ g \in File /\ Saved(With(i, r))
        /\ stage' = [stage EXCEPT ![i] = f] /\ dest' = [dest EXCEPT ![i] = g] /\ active' = active \ {i}
        /\ UNCHANGED <<source, session, link, resume>> /\ worker' = [worker EXCEPT ![w] = m]
        /\ FileFits(f) /\ r.state # "completed"
    BY <1>1, <1>2, <1>5, <1>7, <2>1
  <2> HIDE DEF i, g
  <2> QED BY <1>3, <2>2, <2>3, <2>4, <2>5, WorkerSaves
<1>8. CASE /\ rec[i].state # "absent"
           /\ Unsaved(With(i, bad))
           /\ active' = active \ {i}
           /\ worker' = Done(w)
           /\ stage' = Synced(i)
  <2>1. bad \in Record /\ bad.staged = rec[i].staged /\ bad.cid = rec[i].cid /\ bad.offset = n
          /\ bad.state = "failed"
    BY <1>2, <1>3 DEF Failed, Record, States
  <2>2. i = worker[w].id /\ n = worker[w].progress
    OBVIOUS
  <2>3. JournalFits(journal[i], bad)
    <3> HIDE DEF i, n, bad
    <3> QED BY <1>3, <1>8, <2>1, <2>2, ReachedFacts
  <2> HIDE DEF bad
  <2>4. RecordFits(bad, f)
    BY <1>6, <1>8, <1>3, <2>1, SizeNat DEF RecordFits
  <2>5. /\ g \in File /\ Unsaved(With(i, bad))
        /\ stage' = [stage EXCEPT ![i] = f] /\ dest' = [dest EXCEPT ![i] = g] /\ active' = active \ {i}
        /\ UNCHANGED <<source, session, link, resume>> /\ worker' = [worker EXCEPT ![w] = NoWorker]
        /\ FileFits(f) /\ bad.state # "completed"
    BY <1>1, <1>2, <1>5, <1>8, <2>1 DEF Done
  <2> HIDE DEF i, g
  <2> QED BY <1>3, <2>1, <2>2, <2>3, <2>4, <2>5, WorkerSaves, Blank
<1>9. QED BY <1>4, <1>7, <1>8 DEF PauseRun, disk

(* A record that is resumed, or that cannot be saved as such. *)
LEMMA ResumedFacts ==
  ASSUME IInv, NEW i \in Ids, rec[i].staged, rec[i].state # "completed",
         NEW state \in {"downloading", "paused"}, NEW r,
         r = [rec[i] EXCEPT !.state = state, !.error = "none", !.byUser = FALSE]
  PROVE  /\ r \in Record /\ r.state = state /\ r.staged /\ RecordFits(r, stage[i])
         /\ JournalFits(journal[i], r)
         /\ WorkerFits([NoWorker EXCEPT !.pc = "open", !.id = i], [r EXCEPT !.state = "downloading"],
                       stage[i], dest[i])
         /\ [NoWorker EXCEPT !.pc = "open", !.id = i] \in Worker
<1> DEFINE m == [NoWorker EXCEPT !.pc = "open", !.id = i]
           q == [r EXCEPT !.state = "downloading"]
<1>1. rec[i] \in Record /\ RecordFits(rec[i], stage[i]) /\ JournalFits(journal[i], rec[i])
  BY DEF IInv, IdFits, TypeOK
<1>2. r \in Record /\ r.state = state /\ r.staged /\ r.offset = rec[i].offset
  BY <1>1 DEF Record, States
<1>3. RecordFits(r, stage[i]) /\ JournalFits(journal[i], r)
  BY <1>1, <1>2 DEF RecordFits, JournalFits
<1>4. q.state = "downloading"
  BY <1>2 DEF Record
<1>5. m \in Worker /\ m.pc = "open" /\ m.id = i /\ ~m.open /\ m.chunk = None
  BY Blank DEF Worker, NoWorker
<1> HIDE DEF m, q
<1>6. WorkerFits(m, q, stage[i], dest[i])
  BY <1>4, <1>5 DEF WorkerFits, StatesAt, Transfers
<1> QED BY <1>2, <1>3, <1>5, <1>6 DEF m, q

LEMMA VerifyStep ==
  ASSUME IInv, NEW w \in Workers, Verify(w)
  PROVE  Kept
<1> DEFINE i == worker[w].id
           r == rec[i]
           f == stage[i]
           g == dest[i]
           m == [worker[w] EXCEPT !.pc = "end"]
<1>1. worker[w].pc = "verify" /\ UNCHANGED <<source, session, link, resume, stage, dest>>
  BY DEF Verify, Works
<1>2. /\ i \in Ids /\ worker[w] \in Worker /\ r \in Record /\ f \in File /\ g \in File
      /\ WorkerFits(worker[w], r, f, g) /\ RecordFits(r, f) /\ FileFits(f)
      /\ JournalFits(journal[i], r) /\ r.state # "completed"
      /\ (rec' = rec => rec' = With(i, r))
      /\ stage' = [stage EXCEPT ![i] = f] /\ dest' = [dest EXCEPT ![i] = g]
  BY <1>1, WorkerFacts
<1>3. i = worker[w].id /\ worker[w].pc \notin {"none", "again"}
  BY <1>1
<1>4. CASE /\ Verified(i, worker[w].cid) /\ active' = active \ {i} /\ To(w, "end")
           /\ UNCHANGED <<rec, journal>> /\ Calm
  <2>1. /\ m \in Worker /\ m.pc = "end" /\ m.id = i /\ m.open = worker[w].open /\ m.cid = worker[w].cid
        /\ worker' = [worker EXCEPT ![w] = m]
    BY <1>2, <1>4 DEF Worker, To
  <2>2. r.state # "absent" => /\ r.staged /\ r.offset = Size /\ r.cid = m.cid
                              /\ m.open => g.there /\ g.data = f.data
    BY <1>1, <1>2, <2>1 DEF WorkerFits, Transfers
  <2>3. Whole(f, m.cid)
    BY <1>4, <2>1 DEF Verified
  <2>4. r.state # "absent" /\ m.open => Whole(g, r.cid)
    BY <2>2, <2>3 DEF Whole
  <2>5. r.state \in {"absent", "downloading"}
    BY <1>1, <1>2 DEF WorkerFits, StatesAt, Transfers
  <2>6. /\ r \in Record /\ f \in File /\ g \in File /\ m \in Worker /\ rec' = With(i, r)
        /\ journal' = journal
        /\ JournalFits(journal[i], r) /\ Calm
        /\ stage' = [stage EXCEPT ![i] = f] /\ dest' = [dest EXCEPT ![i] = g] /\ active' = active \ {i}
        /\ UNCHANGED <<source, session, link, resume>> /\ worker' = [worker EXCEPT ![w] = m]
        /\ RecordFits(r, f) /\ FileFits(f) /\ r.state # "completed"
    BY <1>1, <1>2, <1>4, <2>1
  <2> HIDE DEF m, r, f, g
  <2>7. m.pc # "none" /\ m.id = i /\ WorkerFits(m, r, f, g)
    BY <2>1, <2>2, <2>4, <2>5 DEF WorkerFits, StatesAt, Transfers
  <2> HIDE DEF i
  <2> QED BY <1>3, <2>6, <2>7, WorkerSaves
<1>5. CASE FinishFailure(w, "source-changed", "source")
  <2>1. session' \in [Ids -> Session]
    BY <1>1 DEF IInv, TypeOK
  <2> HIDE DEF i, f, g, r
  <2> QED BY <1>1, <1>2, <1>3, <1>5, <2>1, FinishFailureStep DEF i
<1> QED BY <1>4, <1>5 DEF Verify

LEMMA EndStep ==
  ASSUME IInv, NEW w \in Workers, End(w)
  PROVE  Kept
<1> DEFINE i == worker[w].id
           r == rec[i]
           f == stage[i]
           g == dest[i]
           whole == [rec[i] EXCEPT !.state = "completed", !.staged = FALSE, !.token = 0, !.error = "none",
                                   !.byUser = FALSE, !.offset = Size]
           ready == [rec[i] EXCEPT !.state = "ready-to-save", !.error = "none"]
           bad == [whole EXCEPT !.state = "failed", !.staged = rec[i].staged, !.error = "storage"]
<1>1. /\ worker[w].pc = "end" /\ UNCHANGED <<source, session, link, dest, active, resume>>
      /\ worker' = [worker EXCEPT ![w] = NoWorker]
  BY DEF End, Works, Done
<1>2. /\ i \in Ids /\ worker[w] \in Worker /\ r \in Record /\ f \in File /\ g \in File
      /\ WorkerFits(worker[w], r, f, g) /\ RecordFits(r, f) /\ FileFits(f)
      /\ JournalFits(journal[i], r) /\ r.state # "completed"
      /\ (rec' = rec => rec' = With(i, r))
      /\ (stage' = stage => stage' = [stage EXCEPT ![i] = f]) /\ dest' = [dest EXCEPT ![i] = g]
  BY <1>1, WorkerFacts
<1>3. i = worker[w].id /\ worker[w].pc \notin {"none", "again"}
  BY <1>1
<1>4. r.state # "absent" => r.staged /\ r.offset = Size /\ (worker[w].open => g.there /\ Whole(g, r.cid))
  BY <1>1, <1>2 DEF WorkerFits
<1>5. CASE r.state = "absent" /\ UNCHANGED <<rec, journal, stage>> /\ Calm
  <2>1. /\ r \in Record /\ f \in File /\ g \in File /\ rec' = With(i, r) /\ journal' = journal
        /\ JournalFits(journal[i], r) /\ Calm
        /\ stage' = [stage EXCEPT ![i] = f] /\ dest' = [dest EXCEPT ![i] = g] /\ active' = active
        /\ UNCHANGED <<source, session, link, resume>> /\ worker' = [worker EXCEPT ![w] = NoWorker]
        /\ RecordFits(r, f) /\ FileFits(f) /\ r.state # "completed"
    BY <1>1, <1>2, <1>5
  <2> HIDE DEF i, r, f, g
  <2> QED BY <1>3, <2>1, WorkerSaves, Blank
<1>6. CASE r.state # "absent" /\ ~worker[w].open /\ SavedIfPossible(With(i, ready)) /\ UNCHANGED stage
  <2>1. ready \in Record /\ ready.state = "ready-to-save" /\ ready.staged /\ ready.offset = Size
    BY <1>2, <1>4, <1>6 DEF Record, States
  <2>2. RecordFits(ready, f) /\ JournalFits(journal[i], ready)
    <3> HIDE DEF ready
    <3> QED BY <1>2, <1>4, <1>6, <2>1 DEF RecordFits, JournalFits
  <2>3. /\ f \in File /\ g \in File /\ (Saved(With(i, ready)) \/ Unsaved(With(i, ready)))
        /\ stage' = [stage EXCEPT ![i] = f] /\ dest' = [dest EXCEPT ![i] = g] /\ active' = active
        /\ UNCHANGED <<source, session, link, resume>> /\ worker' = [worker EXCEPT ![w] = NoWorker]
        /\ FileFits(f) /\ ready.state # "completed"
    BY <1>1, <1>2, <1>6, <2>1 DEF SavedIfPossible
  <2> HIDE DEF i, f, g, ready
  <2> QED BY <1>3, <2>1, <2>2, <2>3, WorkerSaves, Blank
<1>7. CASE r.state # "absent" /\ worker[w].open /\ Saved(With(i, whole))
        /\ stage' = [stage EXCEPT ![i] = NoFile]
  <2>1. whole \in Record /\ whole.state = "completed" /\ ~whole.staged /\ whole.cid = r.cid
    BY <1>2, TokenZero, SizeNat DEF Record, States
  <2> HIDE DEF whole
  <2>2. RecordFits(whole, NoFile) /\ FileFits(NoFile)
    BY <2>1, EmptyFile, SizeNat DEF RecordFits, FileFits
  <2>3. /\ g \in File /\ dest' = [dest EXCEPT ![i] = g] /\ active' = active
        /\ UNCHANGED <<source, session, link, resume>> /\ g.there /\ Whole(g, whole.cid)
        /\ Saved(With(i, whole)) /\ stage' = [stage EXCEPT ![i] = NoFile] /\ NoFile \in File
        /\ worker' = [worker EXCEPT ![w] = NoWorker]
    BY <1>1, <1>2, <1>4, <1>7, <2>1, EmptyFile
  <2>4. NoWorker \in Worker
    BY Blank
  <2> HIDE DEF i, f, g, r
  <2> QED BY <1>3, <2>1, <2>2, <2>3, <2>4, WorkerSaves
<1>8. CASE r.state # "absent" /\ Unsaved(With(i, bad)) /\ UNCHANGED stage
  <2>1. bad \in Record /\ bad.state = "failed" /\ bad.staged /\ bad.offset = Size
    BY <1>2, <1>4, <1>8, TokenZero, SizeNat DEF Record, States
  <2> HIDE DEF bad
  <2>2. RecordFits(bad, f) /\ JournalFits(journal[i], bad)
    BY <1>2, <1>4, <1>8, <2>1 DEF RecordFits, JournalFits
  <2>3. /\ f \in File /\ g \in File
        /\ stage' = [stage EXCEPT ![i] = f] /\ dest' = [dest EXCEPT ![i] = g] /\ active' = active
        /\ UNCHANGED <<source, session, link, resume>> /\ FileFits(f) /\ bad.state # "completed"
        /\ Unsaved(With(i, bad)) /\ worker' = [worker EXCEPT ![w] = NoWorker]
    BY <1>1, <1>2, <1>8, <2>1
  <2>4. NoWorker \in Worker
    BY Blank
  <2> HIDE DEF i, f, g, r
  <2> QED BY <1>3, <2>1, <2>2, <2>3, <2>4, WorkerSaves
<1> QED BY <1>5, <1>6, <1>7, <1>8 DEF End

LEMMA ExportDialogStep ==
  ASSUME IInv, NEW w \in Workers, ExportDialog(w)
  PROVE  Kept
<1> DEFINE i == worker[w].id
           f == stage[i]
           g == [there |-> TRUE, data |-> <<>>, synced |-> 0]
           back == [rec[i] EXCEPT !.state = IF @ = "absent" THEN @ ELSE "ready-to-save"]
           ok == [rec[i] EXCEPT !.named = TRUE]
           bad == [Failed(i, "failed", "storage") EXCEPT !.named = TRUE]
           m == [worker[w] EXCEPT !.pc = "copy"]
<1>1. worker[w].pc = "export" /\ UNCHANGED <<source, session, link, resume, stage>>
  BY DEF ExportDialog, Works
<1>2. /\ i \in Ids /\ worker[w] \in Worker /\ rec[i] \in Record /\ f \in File /\ dest[i] \in File
      /\ WorkerFits(worker[w], rec[i], f, dest[i]) /\ RecordFits(rec[i], f) /\ FileFits(f)
      /\ JournalFits(journal[i], rec[i]) /\ rec[i].state # "completed"
      /\ stage' = [stage EXCEPT ![i] = f] /\ (dest' = dest => dest' = [dest EXCEPT ![i] = dest[i]])
  BY <1>1, WorkerFacts
<1>3. i = worker[w].id /\ worker[w].pc \notin {"none", "again"} /\ g \in File
  BY <1>1, EmptyFile
<1>4. rec[i].state \in {"absent", "saving"}
  BY <1>1, <1>2 DEF WorkerFits, StatesAt, Transfers
<1>5. CASE /\ active' = active \ {i} /\ SavedIfPossible(With(i, back)) /\ worker' = Done(w)
        /\ UNCHANGED dest
  <2>1. /\ back \in Record /\ back.staged = rec[i].staged /\ back.offset = rec[i].offset
        /\ back.state = IF rec[i].state = "absent" THEN "absent" ELSE "ready-to-save"
    BY <1>2 DEF Record, States
  <2> HIDE DEF back
  <2>2. RecordFits(back, f) /\ JournalFits(journal[i], back) /\ back.state # "completed"
    BY <1>2, <1>4, <2>1 DEF RecordFits, JournalFits
  <2> DEFINE h == dest[i]
  <2>3. /\ f \in File /\ h \in File /\ (Saved(With(i, back)) \/ Unsaved(With(i, back)))
        /\ stage' = [stage EXCEPT ![i] = f] /\ dest' = [dest EXCEPT ![i] = h] /\ active' = active \ {i}
        /\ UNCHANGED <<source, session, link, resume>> /\ worker' = [worker EXCEPT ![w] = NoWorker]
        /\ FileFits(f)
    BY <1>1, <1>2, <1>5 DEF SavedIfPossible, Done
  <2> HIDE DEF i, f, g, h
  <2> QED BY <1>3, <2>1, <2>2, <2>3, WorkerSaves, Blank
<1>6. CASE dest' = [dest EXCEPT ![i] = g] /\ FinishFailure(w, "failed", "storage")
  <2>1. session' \in [Ids -> Session]
    BY <1>1 DEF IInv, TypeOK
  <2> HIDE DEF i, f, g
  <2> QED BY <1>1, <1>2, <1>3, <1>6, <2>1, FinishFailureStep DEF i
<1>7. CASE /\ dest' = [dest EXCEPT ![i] = g] /\ rec[i].state # "absent"
           /\ Saved(With(i, ok)) /\ worker' = [worker EXCEPT ![w] = m] /\ UNCHANGED active
  <2>1. /\ ok \in Record /\ ok.staged = rec[i].staged /\ ok.offset = rec[i].offset
        /\ ok.state = rec[i].state
    BY <1>2 DEF Record
  <2> HIDE DEF ok
  <2>2. RecordFits(ok, f) /\ ok.state # "completed"
    BY <1>2, <1>4, <2>1 DEF RecordFits
  <2>3. m \in Worker /\ m.pc = "copy" /\ m.id = i /\ g.there
    BY <1>2 DEF Worker
  <2> HIDE DEF m, g
  <2>4. m.pc # "none" /\ WorkerFits(m, ok, f, g)
    BY <1>4, <2>1, <2>3 DEF WorkerFits, StatesAt, Transfers
  <2>5. /\ f \in File /\ stage' = [stage EXCEPT ![i] = f] /\ active' = active
        /\ UNCHANGED <<source, session, link, resume>> /\ FileFits(f)
    BY <1>1, <1>2, <1>7
  <2> HIDE DEF i, f
  <2> QED BY <1>3, <1>7, <2>1, <2>2, <2>3, <2>4, <2>5, WorkerSaves
<1>8. CASE /\ dest' = [dest EXCEPT ![i] = g] /\ rec[i].state # "absent"
           /\ Unsaved(With(i, bad)) /\ active' = active \ {i} /\ worker' = [worker EXCEPT ![w] = NoWorker]
  <2>1. bad \in Record /\ bad.staged = rec[i].staged /\ bad.offset = rec[i].offset /\ bad.state = "failed"
    BY <1>2 DEF Failed, Record, States
  <2> HIDE DEF bad
  <2>2. RecordFits(bad, f) /\ JournalFits(journal[i], bad) /\ bad.state # "completed"
    BY <1>2, <2>1 DEF RecordFits, JournalFits
  <2>3. /\ f \in File /\ stage' = [stage EXCEPT ![i] = f]
        /\ UNCHANGED <<source, session, link, resume>> /\ FileFits(f)
    BY <1>1, <1>2, <1>8
  <2> HIDE DEF i, f, g
  <2> QED BY <1>3, <1>8, <2>1, <2>2, <2>3, WorkerSaves, Blank
<1>9. /\ (To(w, "copy") => worker' = [worker EXCEPT ![w] = m])
      /\ (worker' = Done(w) => worker' = [worker EXCEPT ![w] = NoWorker])
  BY DEF To, Done
<1> HIDE DEF m, g, ok, bad, back
<1> QED BY <1>5, <1>6, <1>7, <1>8, <1>9 DEF ExportDialog, g, ok, bad, back

LEMMA CopyStep ==
  ASSUME IInv, NEW w \in Workers, Copy(w)
  PROVE  Kept
<1> DEFINE i == worker[w].id
           r == rec[i]
           f == stage[i]
           g == [dest[i] EXCEPT !.data = f.data]
           m == [worker[w] EXCEPT !.pc = "end", !.open = TRUE]
<1>1. worker[w].pc = "copy" /\ UNCHANGED <<source, session, link, resume, stage>>
  BY DEF Copy, Works
<1>2. /\ i \in Ids /\ worker[w] \in Worker /\ r \in Record /\ f \in File /\ dest[i] \in File
      /\ WorkerFits(worker[w], r, f, dest[i]) /\ RecordFits(r, f) /\ FileFits(f)
      /\ JournalFits(journal[i], r) /\ r.state # "completed"
      /\ (rec' = rec => rec' = With(i, r))
      /\ stage' = [stage EXCEPT ![i] = f] /\ (dest' = dest => dest' = [dest EXCEPT ![i] = dest[i]])
  BY <1>1, WorkerFacts
<1>3. i = worker[w].id /\ worker[w].pc \notin {"none", "again"}
  BY <1>1
<1>4. CASE /\ Verified(i, r.cid) /\ dest' = [dest EXCEPT ![i].data = f.data]
           /\ worker' = [worker EXCEPT ![w] = m] /\ active' = active \ {i} /\ UNCHANGED <<rec, journal>>
           /\ Calm
  <2>1. g \in File /\ g.data = f.data /\ g.there = dest[i].there
    BY <1>2 DEF File
  <2>2. dest' = [dest EXCEPT ![i] = g]
    BY <1>4
  <2>3. m \in Worker /\ m.pc = "end" /\ m.id = i
    BY <1>2 DEF Worker
  <2>4. r.state # "absent" => dest[i].there
    BY <1>1, <1>2 DEF WorkerFits
  <2>5. r.state \in {"absent", "saving"}
    BY <1>1, <1>2 DEF WorkerFits, StatesAt, Transfers
  <2>6. r.state # "absent" => r.staged /\ r.offset = Size
    BY <1>2, <2>5 DEF RecordFits
  <2>7. Whole(g, r.cid)
    BY <1>4, <2>1 DEF Verified, Whole
  <2>8. /\ rec' = With(i, r) /\ journal' = journal /\ Calm /\ active' = active \ {i}
        /\ UNCHANGED <<source, session, link, resume>> /\ worker' = [worker EXCEPT ![w] = m]
        /\ stage' = [stage EXCEPT ![i] = f] /\ JournalFits(journal[i], r) /\ RecordFits(r, f)
        /\ FileFits(f)
        /\ r \in Record /\ f \in File /\ r.state # "completed"
    BY <1>1, <1>2, <1>4
  <2> HIDE DEF m, r, f, g
  <2>9. m.pc # "none" /\ WorkerFits(m, r, f, g)
    BY <2>1, <2>3, <2>4, <2>5, <2>6, <2>7 DEF WorkerFits, StatesAt, Transfers
  <2> HIDE DEF i
  <2> QED BY <1>3, <2>1, <2>2, <2>3, <2>8, <2>9, WorkerSaves
<1>5. ASSUME NEW error \in {"connection", "storage"}, FinishFailure(w, "failed", error), UNCHANGED dest
      PROVE  Kept
  <2>1. session' \in [Ids -> Session]
    BY <1>1 DEF IInv, TypeOK
  <2> HIDE DEF i, f, g, r
  <2> QED BY <1>1, <1>2, <1>3, <1>5, <2>1, FinishFailureStep DEF i
<1> HIDE DEF m
<1> QED BY <1>4, <1>5 DEF Copy, m
-----------------------------------------------------------------------------
(* The steps of the controller. *)

(* In these states of its record nobody works on a download. *)
LEMMA NobodyWorks ==
  ASSUME IInv, NEW i \in Ids,
         rec[i].state \in {"paused", "failed", "source-changed", "ready-to-save", "completed"}
  PROVE  \A v \in Workers : worker[v].id = i => ~Working(worker[v])
<1> SUFFICES ASSUME NEW v \in Workers, worker[v].id = i, Working(worker[v]) PROVE FALSE
  OBVIOUS
<1>1. rec[i].state \in StatesAt(worker[v].pc)
  BY DEF IInv, Fits, WorkerFits, Working
<1> QED BY <1>1 DEF StatesAt

LEMMA StartStep ==
  ASSUME IInv, NEW i \in Ids, NEW w \in Workers, Start(i, w)
  PROVE  Kept
<1> DEFINE r == [NoRecord EXCEPT !.state = "preparing"]
           m == [NoWorker EXCEPT !.pc = "prepare", !.id = i]
<1>1. /\ resume = {} /\ worker[w].pc = "none" /\ rec[i].state = "absent" /\ \A v \in Workers : worker[v].id # i
      /\ rec' = With(i, r) /\ active' = active \cup {i} /\ journal' = journal
      /\ UNCHANGED <<stage, dest, source, session, link, resume>> /\ Calm
      /\ worker' = [worker EXCEPT ![w] = m]
  BY DEF Start, Idle, StartOf, Free, Begin, disk
<1>2. r \in Record /\ r.state = "preparing" /\ ~r.staged /\ r.offset = 0
  BY Blank DEF Record, States, NoRecord
<1>3. m \in Worker /\ m.pc = "prepare" /\ m.id = i
  BY Blank DEF Worker, NoWorker
<1>4. RecordFits(rec[i], stage[i]) /\ JournalFits(journal[i], rec[i])
  BY DEF IInv, IdFits
<1> HIDE DEF r, m
<1>5. RecordFits(r, stage[i]) /\ JournalFits(journal[i], r)
  BY <1>1, <1>2, <1>4 DEF RecordFits, JournalFits
<1>6. WorkerFits(m, r, stage[i], dest[i])
  BY <1>2, <1>3 DEF WorkerFits, StatesAt, Transfers
<1>7. /\ resume' \subseteq resume /\ active' \subseteq Ids /\ r.state # "completed" /\ m.pc # "none"
  BY <1>1, <1>2, <1>3 DEF IInv, TypeOK
<1> QED BY <1>1, <1>2, <1>3, <1>5, <1>6, <1>7, BeginMoves

(* A record that is not there fits every goroutine. *)
LEMMA AbsentFits ==
  ASSUME NEW m, NEW r, NEW f, NEW g, WorkerFits(m, r, f, g), m.pc # "none", m \in Worker,
         NEW q, q.state = "absent", NEW e, NEW h
  PROVE  WorkerFits(m, q, e, h)
BY DEF WorkerFits, StatesAt, Worker

(* The workers as Resume and Restart find them. *)
Left(ws, i) == ws \in {worker, Told(i)} \/ \E w \in Workers : ws = Done(w)

LEMMA LeftWorkers ==
  ASSUME IInv, NEW i \in Ids, NEW ws, Left(ws, i)
  PROVE  /\ ws \in [Workers -> Worker]
         /\ \A v \in Workers : ws[v].pc = "none" => ws[v] = NoWorker
         /\ \A v \in Workers : ws[v].pc # "none" =>
              worker[v].pc # "none" /\ Same(worker[v], ws[v]) /\ ws[v].id = worker[v].id
              /\ ws[v].pc = worker[v].pc /\ ws[v].id \in Ids /\ worker[v] \in Worker
<1>1. CASE ws \in {worker, Told(i)}
  <2>1. \A v \in Workers : Same(worker[v], ws[v]) /\ worker[v] \in Worker
    BY <1>1 DEF Told, Same, IInv, TypeOK
  <2>2. \A v \in Workers : ws[v].pc = worker[v].pc /\ ws[v].id = worker[v].id /\ ws[v] \in Worker
    BY <2>1, SameFacts
  <2>3. ws \in [Workers -> Worker]
    <3>1. ws = [v \in Workers |-> ws[v]]
      BY <1>1 DEF Told, IInv, TypeOK
    <3> QED BY <2>2, <3>1
  <2>4. ASSUME NEW v \in Workers, ws[v].pc = "none" PROVE ws[v] = NoWorker
    <3>1. worker[v] = NoWorker
      BY <2>2, <2>4 DEF IInv, Apart
    <3>2. worker[v].id # i
      BY <3>1, Blank
    <3> QED BY <1>1, <3>1, <3>2 DEF Told
  <2> QED BY <2>1, <2>2, <2>3, <2>4 DEF IInv, Apart
<1>2. ASSUME NEW w \in Workers, ws = Done(w)
      PROVE  /\ ws \in [Workers -> Worker]
             /\ \A v \in Workers : ws[v].pc = "none" => ws[v] = NoWorker
             /\ \A v \in Workers : ws[v].pc # "none" =>
                  worker[v].pc # "none" /\ Same(worker[v], ws[v]) /\ ws[v].id = worker[v].id
                  /\ ws[v].pc = worker[v].pc /\ ws[v].id \in Ids /\ worker[v] \in Worker
  <2>1. ws \in [Workers -> Worker] /\ ws[w] = NoWorker /\ \A v \in Workers \ {w} : ws[v] = worker[v]
    BY <1>2, Blank DEF Done, IInv, TypeOK
  <2> QED BY <2>1, Blank DEF Same, IInv, TypeOK, Apart
<1> QED BY <1>1, <1>2 DEF Left

LEMMA ForgottenStep ==
  ASSUME IInv, NEW i \in Ids, NEW ws, Left(ws, i),
         Forgotten(i), worker' = ws, UNCHANGED <<source, link>>, resume' \subseteq resume,
         session' \in [Ids -> Session]
  PROVE  Kept
<1> DEFINE r == rec[i]
           f == stage[i]
           g == dest[i]
<1>1. active' \subseteq Ids
  BY DEF Forgotten, IInv, TypeOK
<1>2. /\ worker' \in [Workers -> Worker]
      /\ \A v \in Workers : worker'[v].pc = "none" => worker'[v] = NoWorker
      /\ \A v \in Workers : worker'[v].pc # "none" =>
              worker[v].pc # "none" /\ Same(worker[v], worker'[v]) /\ worker'[v].id = worker[v].id
              /\ worker'[v].pc = worker[v].pc /\ worker'[v].id \in Ids /\ worker[v] \in Worker
  BY LeftWorkers
<1>3. /\ r \in Record /\ f \in File /\ g \in File /\ RecordFits(r, f) /\ FileFits(f)
      /\ JournalFits(journal[i], r)
      /\ With(i, r) = rec /\ stage = [stage EXCEPT ![i] = f] /\ dest = [dest EXCEPT ![i] = g]
  BY DEF IInv, TypeOK, IdFits, With
<1>4. ASSUME NEW v \in Workers, worker'[v].pc # "none", worker'[v].id = i
      PROVE  WorkerFits(worker'[v], r, f, g) /\ worker'[v] \in Worker
  <2>1. WorkerFits(worker[v], r, f, g)
    BY <1>2, <1>4 DEF IInv, Fits
  <2> HIDE DEF r, f, g
  <2> QED BY <1>2, <1>4, <2>1, SameFits
<1>5. OneAtMost(worker', i)
  <2>1. \A v \in Workers : Working(worker'[v]) => Working(worker[v]) /\ worker[v].id = worker'[v].id
    BY <1>2 DEF Working
  <2> QED BY <2>1, OneWorks
<1>6. link' \in {"none", "up", "broken", "other"} /\ source' = source
  BY DEF IInv, TypeOK
<1>7. CASE /\ Saved(With(i, NoRecord))
           /\ stage' = [stage EXCEPT ![i] = NoFile] /\ dest' = [dest EXCEPT ![i] = NoFile]
  <2> DEFINE q == NoRecord
             e == NoFile
  <2>1. /\ q \in Record /\ q.state = "absent" /\ ~q.staged /\ q.offset = 0 /\ e \in File
        /\ ~e.there /\ e.synced = 0 /\ Len(e.data) = 0
    BY Blank, EmptyFile
  <2>2. /\ rec' = With(i, q) /\ journal' = Journaled(rec') /\ (Calm \/ \E x : Event(x))
        /\ stage' = [stage EXCEPT ![i] = e] /\ dest' = [dest EXCEPT ![i] = e]
    BY <1>7, SaveFacts
  <2> HIDE DEF q, e, r, f, g
  <2>3. RecordFits(q, e) /\ FileFits(e)
    BY <2>1, SizeNat DEF RecordFits, FileFits
  <2>4. \A v \in Workers : worker'[v].pc # "none" =>
            \/ worker'[v].id = i /\ WorkerFits(worker'[v], q, e, e)
            \/ worker'[v].id \in Ids \ {i} /\ worker[v].pc # "none" /\ Same(worker[v], worker'[v])
    BY <1>2, <1>4, <2>1, AbsentFits
  <2>5. q.state # "completed"
    BY <2>1
  <2> QED BY <1>1, <1>2, <1>5, <1>6, <2>1, <2>2, <2>3, <2>4, <2>5, Moves
<1>8. CASE Unsaved(rec) /\ UNCHANGED <<stage, dest>>
  <2>1. /\ rec' = With(i, r) /\ journal' = journal /\ (Calm \/ \E x : Event(x))
        /\ stage' = [stage EXCEPT ![i] = f] /\ dest' = [dest EXCEPT ![i] = g]
    BY <1>3, <1>8, SaveFacts
  <2>2. r.state = "completed" => rec[i].state = "completed"
    OBVIOUS
  <2> HIDE DEF r, f, g
  <2>3. \A v \in Workers : worker'[v].pc # "none" =>
            \/ worker'[v].id = i /\ WorkerFits(worker'[v], r, f, g)
            \/ worker'[v].id \in Ids \ {i} /\ worker[v].pc # "none" /\ Same(worker[v], worker'[v])
    BY <1>2, <1>4
  <2> QED BY <1>1, <1>2, <1>3, <1>5, <1>6, <2>1, <2>2, <2>3, Moves
<1> QED BY <1>7, <1>8 DEF Forgotten

LEMMA RemoveCancelStep ==
  ASSUME IInv, NEW i \in Ids, Remove(i) \/ Cancel(i)
  PROVE  Kept
<1>1. Forgotten(i) /\ worker' = Told(i) /\ UNCHANGED <<source, link, resume>>
  BY DEF Remove, Cancel
<1>2. session' \in {session, [session EXCEPT ![i] = NoSession]}
  BY DEF Remove, Cancel
<1>3. session' \in [Ids -> Session]
  BY <1>2, Blank DEF IInv, TypeOK
<1> QED BY <1>1, <1>3, ForgottenStep DEF Left

(* Again moves two downloads: one goes, and another one comes. *)
LEMMA AgainStep ==
  ASSUME IInv, NEW i \in Ids, NEW j \in Ids, NEW w \in Workers, NEW ws, Left(ws, i), Again(ws, i, j, w),
         UNCHANGED <<source, session, link>>, resume' \subseteq resume
  PROVE  Kept
<1> DEFINE gone == With(i, NoRecord)
           p == [NoRecord EXCEPT !.state = "preparing"]
           m == [NoWorker EXCEPT !.pc = "prepare", !.id = j]
<1>1. /\ ws \in [Workers -> Worker]
      /\ \A v \in Workers : ws[v].pc = "none" => ws[v] = NoWorker
      /\ \A v \in Workers : ws[v].pc # "none" =>
              worker[v].pc # "none" /\ Same(worker[v], ws[v]) /\ ws[v].id = worker[v].id
              /\ ws[v].pc = worker[v].pc /\ ws[v].id \in Ids /\ worker[v] \in Worker
  BY LeftWorkers
<1>3. /\ ws[w].pc = "none" /\ (\A v \in Workers : ws[v].id # j)
      /\ \A k \in Ids : gone[k].state = "absent"
  BY DEF Again, StartOf, Free
<1>4. /\ worker' = [ws EXCEPT ![w] = m] /\ active' = (active \ {i}) \cup {j}
      /\ stage' = [stage EXCEPT ![i] = NoFile] /\ dest' = [dest EXCEPT ![i] = NoFile]
      /\ rec' = [gone EXCEPT ![j] = p] /\ journal' = Journaled(rec') /\ Calm
  BY DEF Again, Begin, Saved
<1>5. p \in Record /\ p.state = "preparing" /\ ~p.staged /\ p.offset = 0
  BY Blank DEF Record, States, NoRecord
<1>6. m \in Worker /\ m.pc = "prepare" /\ m.id = j
  BY Blank DEF Worker, NoWorker
<1> HIDE DEF m, p
<1>7. gone \in [Ids -> Record] /\ gone[i] = NoRecord /\ \A k \in Ids \ {i} : gone[k] = rec[k]
  BY Blank DEF With, IInv, TypeOK
<1> HIDE DEF gone
<1>8. rec' \in [Ids -> Record] /\ rec'[j] = p /\ \A k \in Ids \ {j} : rec'[k] = gone[k]
  BY <1>4, <1>5, <1>7
<1>9. journal' \in [Ids -> Record]
  BY <1>4, <1>8, JournaledType
<1>10. /\ stage' \in [Ids -> File] /\ dest' \in [Ids -> File] /\ stage'[i] = NoFile
       /\ \A k \in Ids \ {i} : stage'[k] = stage[k] /\ dest'[k] = dest[k]
  BY <1>4, EmptyFile DEF IInv, TypeOK
<1>11. worker' \in [Workers -> Worker] /\ worker'[w] = m /\ \A v \in Workers \ {w} : worker'[v] = ws[v]
  BY <1>1, <1>4, <1>6
<1>12. TypeOK'
  <2>1. active' \subseteq Ids /\ resume' \subseteq Ids
    BY <1>4 DEF IInv, TypeOK
  <2>2. events' \in 0 .. MaxEvents /\ unsaved' \in BOOLEAN
    BY <1>4, EventType DEF IInv
  <2> QED BY <1>8, <1>9, <1>10, <1>11, <2>1, <2>2 DEF IInv, TypeOK
<1>13. ASSUME NEW k \in Ids
       PROVE  rec'[k].state \in {"absent", "preparing"} /\ ~rec'[k].staged /\ rec'[k].offset = 0
  <2>1. CASE k = j
    BY <2>1, <1>5, <1>8
  <2>2. CASE k # j /\ k = i
    BY <2>2, <1>7, <1>8, Blank
  <2>3. CASE k # j /\ k # i
    <3>1. rec'[k] = rec[k] /\ rec[k].state = "absent"
      BY <2>3, <1>3, <1>7, <1>8
    <3>2. RecordFits(rec[k], stage[k])
      BY DEF IInv, IdFits
    <3> QED BY <3>1, <3>2 DEF RecordFits
  <2> QED BY <2>1, <2>2, <2>3
<1>14. ASSUME NEW k \in Ids PROVE IdFits(k)'
  <2>1. RecordFits(rec'[k], stage'[k])
    BY <1>13 DEF RecordFits
  <2>2. journal'[k] = IF rec'[k].state = "preparing" THEN NoRecord ELSE rec'[k]
    BY <1>4 DEF Journaled
  <2>3. ~journal'[k].staged /\ journal'[k].state # "completed"
    BY <1>13, <2>2, Blank
  <2>4. FileFits(stage'[k])
    <3>1. CASE k = i
      BY <3>1, <1>10, EmptyFile, SizeNat DEF FileFits
    <3>2. CASE k # i
      BY <3>2, <1>10 DEF IInv, IdFits
    <3> QED BY <3>1, <3>2
  <2> QED BY <2>1, <2>3, <2>4 DEF IdFits, JournalFits
<1>15. ASSUME NEW v \in Workers, worker'[v].pc # "none" PROVE Fits(v)'
  <2>1. CASE v = w
    <3>1. WorkerFits(m, p, stage'[j], dest'[j])
      BY <1>5, <1>6 DEF WorkerFits, StatesAt, Transfers
    <3> QED BY <2>1, <3>1, <1>6, <1>8, <1>11 DEF Fits
  <2>2. CASE v # w
    <3> DEFINE k == worker[v].id
    <3>1. /\ worker'[v] = ws[v] /\ k \in Ids /\ k # j /\ worker'[v].id = k /\ worker[v].pc # "none"
          /\ worker'[v] \in Worker /\ Same(worker[v], worker'[v]) /\ worker[v] \in Worker
      BY <2>2, <1>1, <1>3, <1>11, <1>15
    <3>2. Fits(v)
      BY <3>1 DEF IInv
    <3>3. WorkerFits(worker'[v], rec[k], stage[k], dest[k])
      BY <3>1, <3>2, SameFits DEF Fits
    <3>4. CASE k = i
      <4>1. rec'[k].state = "absent"
        BY <3>1, <3>4, <1>3, <1>7, <1>8
      <4>2. WorkerFits(worker'[v], rec'[k], stage'[k], dest'[k])
        <5> HIDE DEF k
        <5> QED BY <3>1, <3>3, <4>1, <1>15, AbsentFits
      <4> QED BY <3>1, <4>2 DEF Fits
    <3>5. CASE k # i
      <4>1. rec'[k] = rec[k] /\ stage'[k] = stage[k] /\ dest'[k] = dest[k]
        BY <3>1, <3>5, <1>7, <1>8, <1>10
      <4> QED BY <3>1, <3>3, <4>1 DEF Fits
    <3> QED BY <3>4, <3>5
  <2> QED BY <2>1, <2>2
<1>16. Apart'
  <2>2. \A v \in Workers : IF worker'[v].pc = "none" THEN worker'[v] = NoWorker ELSE worker'[v].id \in Ids
    BY <1>1, <1>6, <1>11
  <2>3. \A u, v \in Workers : u # v /\ Working(worker'[u]) /\ Working(worker'[v])
                              => worker'[u].id # worker'[v].id
    BY <1>1, <1>3, <1>6, <1>11 DEF IInv, Apart, Working
  <2> QED BY <2>2, <2>3 DEF Apart
<1>17. WholeStep
  BY <1>13 DEF WholeStep
<1> QED BY <1>12, <1>14, <1>15, <1>16, <1>17 DEF Kept, IInv

LEMMA RedoStep ==
  ASSUME IInv, NEW i \in Ids, NEW w \in Workers, NEW ws, Left(ws, i), Redo(ws, i, w),
         UNCHANGED <<source, session, link>>, resume' \subseteq resume
  PROVE  Kept
<1>1. session' \in [Ids -> Session]
  BY DEF IInv, TypeOK
<1> QED BY <1>1, AgainStep, ForgottenStep DEF Redo

(* Whoever resumes it, nobody works on the download: or it is doubled. *)
LEMMA ResumedStep ==
  ASSUME IInv, NEW i \in Ids, NEW w \in Workers, NEW ws \in {worker, Done(w)}, Resumable(i), Resumed(ws, i, w),
         ~doubled', UNCHANGED <<source, session, link, stage, dest>>, resume' \subseteq resume
  PROVE  Kept
<1> DEFINE ok == [rec[i] EXCEPT !.state = "downloading", !.error = "none", !.byUser = FALSE]
           bad == [ok EXCEPT !.state = "paused"]
           m == [NoWorker EXCEPT !.pc = "open", !.id = i]
<1>1. rec[i].staged /\ rec[i].state # "completed" /\ ws[w].pc = "none" /\ ~AtWork(ws, i)
  BY DEF Resumable, Resumed, Free
<1>2. [ws EXCEPT ![w] = m] = [worker EXCEPT ![w] = m]
  BY DEF Done, IInv, TypeOK
<1>3. \/ Saved(With(i, ok)) /\ active' = active \cup {i} /\ worker' = [worker EXCEPT ![w] = m]
      \/ Unsaved(With(i, bad)) /\ active' = active /\ worker' = ws
  BY <1>2 DEF Resumed, Begin
<1>4. ws = [worker EXCEPT ![w] = NoWorker]
  BY <1>1 DEF Done, IInv, Apart, TypeOK
<1>5. \A v \in Workers \ {w} : worker[v].id = i => ~Working(worker[v])
  <2>1. \A v \in Workers \ {w} : ws[v] = worker[v]
    BY DEF Done, IInv, TypeOK
  <2> QED BY <1>1, <2>1 DEF AtWork, Working
<1>6. rec[i] \in Record
  BY DEF IInv, TypeOK
<1>7. /\ ok \in Record /\ ok.state = "downloading" /\ RecordFits(ok, stage[i])
      /\ JournalFits(journal[i], ok)
      /\ WorkerFits(m, [ok EXCEPT !.state = "downloading"], stage[i], dest[i])
      /\ m \in Worker
  <2>1. ok = [rec[i] EXCEPT !.state = "downloading", !.error = "none", !.byUser = FALSE]
    OBVIOUS
  <2> HIDE DEF ok
  <2> QED BY <1>1, <2>1, ResumedFacts
<1>8. bad \in Record /\ bad.state = "paused" /\ RecordFits(bad, stage[i]) /\ JournalFits(journal[i], bad)
  <2>1. bad = [rec[i] EXCEPT !.state = "paused", !.error = "none", !.byUser = FALSE]
    BY <1>6 DEF Record
  <2> HIDE DEF bad
  <2> QED BY <1>1, <2>1, ResumedFacts
<1>9. [ok EXCEPT !.state = "downloading"] = ok
  BY <1>7 DEF Record
<1>10. m.pc = "open" /\ m.id = i
  BY DEF NoWorker
<1> HIDE DEF ok, bad, m
<1>11. m.pc # "none" /\ m.id = i /\ WorkerFits(m, ok, stage[i], dest[i])
  BY <1>7, <1>9, <1>10
<1>12. CASE Saved(With(i, ok)) /\ active' = active \cup {i} /\ worker' = [worker EXCEPT ![w] = m]
  <2>1. rec' = With(i, ok) /\ journal' = Journaled(rec') /\ (Calm \/ \E x : Event(x)) /\ ok.state # "completed"
    BY <1>7, <1>12, SaveFacts
  <2>2. active' \subseteq Ids
    BY <1>12 DEF IInv, TypeOK
  <2> QED BY <1>5, <1>7, <1>11, <1>12, <2>1, <2>2, BeginMoves
<1>13. CASE Unsaved(With(i, bad)) /\ active' = active /\ worker' = ws
  <2>1. rec' = With(i, bad) /\ journal' = journal /\ (Calm \/ \E x : Event(x)) /\ bad.state # "completed"
    BY <1>8, <1>13, SaveFacts
  <2>2. active' \subseteq Ids /\ worker' = [worker EXCEPT ![w] = NoWorker] /\ NoWorker \in Worker
    BY <1>4, <1>13, Blank DEF IInv, TypeOK
  <2> QED BY <1>5, <1>8, <2>1, <2>2, BeginMoves
<1> QED BY <1>3, <1>12, <1>13

LEMMA ResumesStep ==
  ASSUME IInv, NEW i \in Ids, NEW w \in Workers, NEW ws \in {worker, Done(w)}, Resumes(ws, i, w),
         ~doubled', UNCHANGED <<source, session, link>>, resume' \subseteq resume
  PROVE  Kept
<1>1. Left(ws, i)
  BY DEF Left
<1>2. CASE Resumable(i) /\ Resumed(ws, i, w) /\ UNCHANGED <<stage, dest>>
  BY <1>2, ResumedStep
<1>3. CASE Redo(ws, i, w)
  BY <1>1, <1>3, RedoStep
<1> QED BY <1>2, <1>3 DEF Resumes

(* A goroutine whose Resume is refused ends. *)
LEMMA RefusedStep ==
  ASSUME IInv, NEW w \in Workers, NEW ws \in {worker, Done(w)}, worker' = ws,
         UNCHANGED <<rec, disk, active, source, session, link>>, resume' \subseteq resume, Calm
  PROVE  Kept
<1>1. UNCHANGED <<rec, journal, stage, dest>>
  BY DEF disk
<1>2. CASE ws = worker
  <2>1. TypeOK'
    BY <1>1, <1>2, EventType DEF IInv, TypeOK
  <2> QED BY <1>1, <1>2, <2>1, NothingMoves DEF Same
<1>3. CASE ws = Done(w)
  <2>1. worker' \in [Workers -> Worker] /\ worker'[w] = NoWorker
        /\ \A v \in Workers \ {w} : worker'[v] = worker[v]
    BY <1>3, Blank DEF Done, IInv, TypeOK
  <2>2. TypeOK'
    BY <1>1, <2>1, EventType DEF IInv, TypeOK
  <2>3. Apart'
    BY <2>1, Blank DEF IInv, Apart, Working
  <2>4. \A k \in Ids : IdFits(k)'
    BY <1>1 DEF IInv, IdFits
  <2>5. \A v \in Workers : worker'[v].pc # "none" => Fits(v)'
    BY <1>1, <2>1, Blank DEF IInv, Fits
  <2>6. WholeStep
    BY <1>1 DEF WholeStep
  <2> QED BY <2>2, <2>3, <2>4, <2>5, <2>6 DEF Kept, IInv
<1> QED BY <1>2, <1>3

LEMMA TriesToResumeStep ==
  ASSUME IInv, NEW i \in Ids, NEW w \in Workers, NEW ws \in {worker, Done(w)}, TriesToResume(ws, i, w),
         ~doubled', UNCHANGED <<source, session, link>>, resume' \subseteq resume
  PROVE  Kept
<1>1. CASE Resumes(ws, i, w)
  BY <1>1, ResumesStep
<1>2. CASE worker' = ws /\ UNCHANGED <<rec, disk, active, doubled>> /\ Calm
  BY <1>2, RefusedStep
<1> QED BY <1>1, <1>2 DEF TriesToResume

LEMMA RestartStep ==
  ASSUME IInv, NEW i \in Ids, NEW w \in Workers, Restart(i, w)
  PROVE  Kept
<1>1. /\ Redo(Told(i), i, w) /\ UNCHANGED <<source, session, link>> /\ resume' \subseteq resume
  BY DEF Restart
<1> QED BY <1>1, RedoStep DEF Left

LEMMA ResumeSteps ==
  ASSUME IInv, NEW w \in Workers, ~doubled',
         ResumeAgain(w) \/ \E i \in Ids : Resume(i, w) \/ ResumeNext(i, w)
  PROVE  Kept
<1>1. CASE ResumeAgain(w)
  <2>1. worker[w].id \in Ids
    BY <1>1 DEF ResumeAgain, Works, IInv, Apart
  <2>2. /\ TriesToResume(Done(w), worker[w].id, w) /\ UNCHANGED <<source, session, link>>
        /\ resume' \subseteq resume
    BY <1>1 DEF ResumeAgain
  <2> QED BY <2>1, <2>2, TriesToResumeStep
<1>2. ASSUME NEW i \in Ids, Resume(i, w) PROVE Kept
  <2>1. Resumes(worker, i, w) /\ UNCHANGED <<source, session, link>> /\ resume' \subseteq resume
    BY <1>2 DEF Resume
  <2> QED BY <2>1, ResumesStep
<1>3. ASSUME NEW i \in Ids, ResumeNext(i, w) PROVE Kept
  <2>1. TriesToResume(worker, i, w) /\ UNCHANGED <<source, session, link>> /\ resume' \subseteq resume
    BY <1>3 DEF ResumeNext
  <2> QED BY <2>1, TriesToResumeStep
<1> QED BY <1>1, <1>2, <1>3

LEMMA PauseStep ==
  ASSUME IInv, NEW i \in Ids, Pause(i)
  PROVE  Kept
<1> DEFINE f == stage[i]
           g == dest[i]
           paused == [rec[i] EXCEPT !.byUser = TRUE]
<1>1. Idle /\ resume = {} /\ UNCHANGED <<source, session, link, stage, dest, active, resume>>
  BY DEF Pause, Idle
<1>2. /\ rec[i] \in Record /\ f \in File /\ g \in File /\ RecordFits(rec[i], f) /\ FileFits(f)
      /\ JournalFits(journal[i], rec[i]) /\ With(i, rec[i]) = rec
      /\ stage' = [stage EXCEPT ![i] = f] /\ dest' = [dest EXCEPT ![i] = g]
  BY <1>1 DEF IInv, TypeOK, IdFits, With
<1>3. /\ paused \in Record /\ paused.state = rec[i].state /\ paused.staged = rec[i].staged
      /\ paused.offset = rec[i].offset /\ paused.cid = rec[i].cid
  BY <1>2 DEF Record
<1> HIDE DEF paused, f, g
<1>4. PICK r \in {paused, rec[i]} :
        /\ rec' = With(i, r) /\ (journal' = Journaled(rec') \/ journal' = journal) /\ (Calm \/ \E x : Event(x))
        /\ worker' \in {worker, Told(i)}
  <2>1. CASE SavedIfPossible(With(i, paused)) /\ UNCHANGED worker
    BY <2>1, SaveFacts DEF SavedIfPossible
  <2>2. CASE Saved(With(i, paused)) /\ worker' = Told(i)
    BY <2>2, SaveFacts
  <2>3. CASE Unsaved(rec) /\ UNCHANGED worker
    BY <1>2, <2>3, SaveFacts
  <2> QED BY <2>1, <2>2, <2>3 DEF Pause, paused
<1>5. /\ r \in Record /\ r.state = rec[i].state /\ r.staged = rec[i].staged
      /\ r.offset = rec[i].offset /\ r.cid = rec[i].cid
  BY <1>2, <1>3
<1>6. RecordFits(r, f) /\ JournalFits(journal[i], r)
  BY <1>2, <1>5 DEF RecordFits, JournalFits
<1>7. ASSUME NEW v \in Workers, worker[v].pc # "none", worker[v].id = i
      PROVE  WorkerFits(worker[v], r, f, g)
  <2>1. WorkerFits(worker[v], rec[i], f, g)
    BY <1>7 DEF IInv, Fits, f, g
  <2> QED BY <1>5, <2>1 DEF WorkerFits
<1>8. active' \subseteq Ids /\ session' \in [Ids -> Session] /\ i \notin resume
      /\ (r.state = "completed" => rec[i].state = "completed")
      /\ (journal' = Journaled(rec') \/ (journal' = journal /\ JournalFits(journal[i], r)))
      /\ rec' = With(i, r) /\ (Calm \/ \E x : Event(x)) /\ worker' \in {worker, Told(i)}
      /\ resume' = resume /\ source' = source /\ link' = link /\ f \in File /\ g \in File /\ FileFits(f)
      /\ stage' = [stage EXCEPT ![i] = f] /\ dest' = [dest EXCEPT ![i] = g] /\ r \in Record
  BY <1>1, <1>2, <1>4, <1>5, <1>6 DEF IInv, TypeOK
<1> QED BY <1>6, <1>7, <1>8, UserMoves

LEMMA SaveStep ==
  ASSUME IInv, NEW i \in Ids, NEW w \in Workers, Save(i, w)
  PROVE  Kept
<1> DEFINE r == [rec[i] EXCEPT !.state = "saving", !.error = "none"]
           m == [NoWorker EXCEPT !.pc = "export", !.id = i]
<1>1. /\ Idle /\ resume = {} /\ worker[w].pc = "none" /\ rec[i].state = "ready-to-save"
      /\ rec' = With(i, r) /\ active' = active \cup {i} /\ journal' = journal
      /\ UNCHANGED <<stage, dest, source, session, link, resume>> /\ Calm
      /\ worker' = [worker EXCEPT ![w] = m]
  BY DEF Save, Idle, Free, Begin, disk
<1>2. \A v \in Workers : worker[v].id = i => ~Working(worker[v])
  BY <1>1, NobodyWorks
<1>3. rec[i] \in Record /\ RecordFits(rec[i], stage[i]) /\ JournalFits(journal[i], rec[i])
  BY DEF IInv, IdFits, TypeOK
<1>4. r \in Record /\ r.state = "saving" /\ r.staged = rec[i].staged /\ r.offset = rec[i].offset
  BY <1>3 DEF Record, States
<1>5. m \in Worker /\ m.pc = "export" /\ m.id = i
  BY Blank DEF Worker, NoWorker
<1> HIDE DEF r, m
<1>6. RecordFits(r, stage[i]) /\ JournalFits(journal[i], r)
  BY <1>1, <1>3, <1>4 DEF RecordFits, JournalFits
<1>7. WorkerFits(m, r, stage[i], dest[i])
  BY <1>4, <1>5 DEF WorkerFits, StatesAt, Transfers
<1>8. /\ resume' = resume \ {i} /\ active' \subseteq Ids /\ r.state # "completed" /\ m.pc # "none"
  BY <1>1, <1>4, <1>5 DEF IInv, TypeOK
<1> QED BY <1>1, <1>2, <1>4, <1>5, <1>6, <1>7, <1>8, BeginMoves

LEMMA AttachClientStep ==
  ASSUME IInv, NEW l \in {"up", "other"}, AttachClient(l)
  PROVE  Kept
<1>1. /\ link' = l /\ UNCHANGED <<source, session, rec, disk, active, worker>> /\ (Calm \/ \E e : Event(e))
      /\ resume' = IF l = "up" THEN {i \in Ids : rec[i].state = "paused" /\ ~rec[i].byUser} ELSE {}
  BY DEF AttachClient
<1>2. UNCHANGED <<rec, journal, stage, dest>>
  BY <1>1 DEF disk
<1>3. TypeOK'
  <2>1. link' \in {"none", "up", "broken", "other"} /\ resume' \subseteq Ids
    BY <1>1
  <2> QED BY <1>1, <1>2, <2>1, EventType DEF IInv, TypeOK
<1>5. \A v \in Workers : worker'[v] = worker[v]
  BY <1>1
<1> QED BY <1>2, <1>3, <1>5, NothingMoves DEF Same

LEMMA DetachClientStep ==
  ASSUME IInv, DetachClient
  PROVE  Kept
<1>1. /\ link' = "none" /\ UNCHANGED <<source, session, rec, disk, active, resume>> /\ Calm
      /\ worker' = [w \in Workers |-> IF worker[w].id \in active
                                      THEN [worker[w] EXCEPT !.cancelled = TRUE] ELSE worker[w]]
  BY DEF DetachClient
<1>2. UNCHANGED <<rec, journal, stage, dest>>
  BY <1>1 DEF disk
<1>3. \A v \in Workers : Same(worker[v], worker'[v])
  BY <1>1 DEF Same
<1>4. \A v \in Workers : worker'[v] \in Worker
  BY <1>3, SameFacts DEF IInv, TypeOK
<1>5. worker' \in [Workers -> Worker]
  <2>1. worker' = [w \in Workers |-> worker'[w]]
    BY <1>1
  <2> QED BY <1>4, <2>1
<1>6. TypeOK'
  <2>1. link' \in {"none", "up", "broken", "other"}
    BY <1>1
  <2> QED BY <1>1, <1>2, <1>5, <2>1, EventType DEF IInv, TypeOK
<1>7. \A v \in Workers : worker[v].pc = "none" => worker'[v] = worker[v]
  <2> SUFFICES ASSUME NEW v \in Workers, worker[v].pc = "none" PROVE worker'[v] = worker[v]
    OBVIOUS
  <2>1. worker[v].id = None
    BY Blank DEF IInv, Apart
  <2>2. worker[v].id \notin active
    BY <2>1, Blank DEF IInv, TypeOK
  <2> QED BY <1>1, <2>2
<1>8. resume' \ resume = {}
  BY <1>1
<1> QED BY <1>2, <1>3, <1>6, <1>7, <1>8, NothingMoves
-----------------------------------------------------------------------------
(* The environment. *)

LEMMA EnvironmentStep ==
  ASSUME IInv,
         \/ Break
         \/ \E c \in Contents : ChangeSource(c)
         \/ \E i \in Ids : Expire(i)
         \/ UNCHANGED vars
  PROVE  Kept
<1>1. UNCHANGED <<rec, disk, active, resume, worker>> /\ (Calm \/ \E e : Event(e))
  BY DEF Break, ChangeSource, Expire, vars, Calm
<1>2. source' \in Contents
  BY DEF Break, ChangeSource, Expire, vars, IInv, TypeOK
<1>3. session' \in [Ids -> Session]
  BY Blank DEF Break, ChangeSource, Expire, vars, IInv, TypeOK
<1>4. link' \in {"none", "up", "broken", "other"}
  BY DEF Break, ChangeSource, Expire, vars, IInv, TypeOK
<1>5. UNCHANGED <<rec, journal, stage, dest>>
  BY <1>1 DEF disk
<1>6. TypeOK'
  BY <1>1, <1>2, <1>3, <1>4, <1>5, EventType DEF IInv, TypeOK
<1>7. resume' \ resume = {} /\ \A v \in Workers : worker'[v] = worker[v]
  BY <1>1
<1> QED BY <1>5, <1>6, <1>7, NothingMoves DEF Same

LEMMA EditStep ==
  ASSUME IInv, NEW i \in Ids, Edit(i)
  PROVE  Kept
<1> DEFINE r == rec[i]
           f == stage[i]
           d == [k \in DOMAIN dest[i].data |-> None]
           g == IF dest' = [dest EXCEPT ![i] = NoFile] THEN NoFile ELSE [dest[i] EXCEPT !.data = d]
<1>1. /\ UNCHANGED <<source, session, link, rec, journal, stage, active, resume, worker>> /\ (Calm \/ \E e : Event(e))
      /\ \A v \in Workers : worker[v].id = i => ~worker[v].open /\ worker[v].pc # "copy"
  BY DEF Edit, Works
<1>2. /\ r \in Record /\ f \in File /\ dest[i] \in File /\ RecordFits(r, f) /\ FileFits(f)
      /\ JournalFits(journal[i], r) /\ rec' = With(i, r) /\ stage' = [stage EXCEPT ![i] = f]
  BY <1>1 DEF IInv, TypeOK, IdFits, With
<1>3. d \in Seq(Chunks)
  <2> DEFINE n == Len(dest[i].data)
  <2>1. dest[i].data \in Seq(Chunks)
    BY <1>2 DEF File, Chunks
  <2>2. n \in Nat /\ DOMAIN dest[i].data = 1 .. n
    BY <2>1, LenProperties
  <2>3. d \in [1 .. n -> Chunks]
    BY <2>2 DEF Chunks
  <2> HIDE DEF d, n
  <2> QED BY <2>2, <2>3, SeqDef
<1> HIDE DEF d
<1>4. g \in File /\ dest' = [dest EXCEPT ![i] = g]
  <2>1. [dest[i] EXCEPT !.data = d] \in File
    BY <1>2, <1>3 DEF File, Chunks
  <2>2. \/ dest' = [dest EXCEPT ![i] = NoFile]
        \/ dest' = [dest EXCEPT ![i].data = d]
    BY DEF Edit, d
  <2> QED BY <2>1, <2>2, EmptyFile
<1>5. ASSUME NEW v \in Workers, worker[v].pc # "none", worker[v].id = i
      PROVE  WorkerFits(worker[v], r, f, g)
  <2>1. WorkerFits(worker[v], r, f, dest[i])
    BY <1>5 DEF IInv, Fits
  <2> HIDE DEF g, f, r
  <2> QED BY <1>1, <1>5, <2>1 DEF WorkerFits
<1>6. /\ worker' \in {worker, Told(i)} /\ active' \subseteq Ids /\ session' \in [Ids -> Session]
      /\ resume' = resume /\ source' = source /\ link' = link /\ journal' = journal
  BY <1>1 DEF IInv, TypeOK
<1>7. (r.state = "completed" => rec[i].state = "completed") /\ (Calm \/ \E e : Event(e))
  BY <1>1
<1> HIDE DEF r, f, g
<1> QED BY <1>2, <1>4, <1>5, <1>6, <1>7, UserMoves

(* What a crash leaves of a staged file: the part that was synced at least. *)
LEMMA LeftFacts ==
  ASSUME IInv, NEW i \in Ids, NEW n \in stage[i].synced .. Len(stage[i].data), NEW f,
         f = IF stage[i].there THEN Cut(stage[i], n) ELSE NoFile
  PROVE  /\ f \in File /\ f.there = stage[i].there /\ f.synced = stage[i].synced
         /\ Len(f.data) \in 0 .. Size /\ f.synced <= Len(f.data)
         /\ ~f.there => f.synced = 0 /\ Len(f.data) = 0
<1>1. stage[i] \in File /\ FileFits(stage[i])
  BY DEF IInv, TypeOK, IdFits
<1>2. stage[i].synced \in Nat /\ Len(stage[i].data) \in Nat /\ Len(stage[i].data) <= Size
  <2>1. stage[i].data \in Seq(Chunks)
    BY <1>1 DEF File, Chunks
  <2> QED BY <1>1, <2>1, LenProperties, SizeNat DEF File, FileFits
<1>3. CASE stage[i].there
  <2>1. n \in 0 .. Size /\ stage[i].synced <= n
    BY <1>2, SizeNat
  <2>2. f \in File /\ f.there /\ Len(f.data) = n
          /\ f.synced = (IF stage[i].synced < n THEN stage[i].synced ELSE n)
    BY <1>1, <1>3, <2>1, CutFacts
  <2>3. f.synced = stage[i].synced /\ Len(f.data) \in 0 .. Size /\ f.synced <= Len(f.data)
    BY <1>2, <2>1, <2>2
  <2>4. f.there = stage[i].there
    BY <1>1, <1>3, <2>2 DEF File
  <2> QED BY <2>2, <2>3, <2>4
<1>4. CASE ~stage[i].there
  <2>1. f = NoFile /\ stage[i].synced = 0
    BY <1>1, <1>4 DEF FileFits
  <2>2. f.there = stage[i].there
    BY <1>1, <1>4, <2>1, EmptyFile DEF File
  <2> QED BY <2>1, <2>2, EmptyFile, SizeNat
<1> QED BY <1>3, <1>4

(* A record that is restored says nothing of the staged file but what was *)
(* synced: the journal is behind the record, and the record behind that.  *)
LEMMA RestoredFacts ==
  ASSUME IInv, NEW i \in Ids, NEW f \in File, f.there = stage[i].there, f.synced = stage[i].synced,
         Len(f.data) \in 0 .. Size, f.synced <= Len(f.data), ~f.there => f.synced = 0 /\ Len(f.data) = 0,
         NEW r, r = Restored(i, f), NEW e, e = IF r.staged /\ f.there THEN Cut(f, r.offset) ELSE NoFile
  PROVE  /\ r \in Record /\ e \in File /\ RecordFits(r, e) /\ FileFits(e)
         /\ r.state \notin {"preparing", "ready-to-save", "saving"}
         /\ r.state = "completed" => rec[i].state = "completed"
<1> DEFINE j == journal[i]
           n == Len(f.data)
<1>1. /\ j \in Record /\ rec[i] \in Record /\ stage[i] \in File
      /\ RecordFits(rec[i], stage[i]) /\ JournalFits(j, rec[i]) /\ FileFits(stage[i])
  BY DEF IInv, TypeOK, IdFits
<1>2. j.offset \in 0 .. Size /\ rec[i].offset \in 0 .. Size /\ n \in 0 .. Size /\ Size \in Nat
      /\ f.synced \in 0 .. Size
  BY <1>1, SizeNat DEF Record, File
<1>3. j.staged => j.offset <= f.synced /\ j.offset <= n
  <2> HIDE DEF j, n
  <2>1. j.staged => rec[i].staged /\ j.offset <= rec[i].offset /\ rec[i].offset <= f.synced
    BY <1>1 DEF JournalFits, RecordFits
  <2>2. f.synced <= n
    BY DEF n
  <2> QED BY <1>2, <2>1, <2>2
<1>3a. \A o \in 0 .. Size : e = Cut(f, o) =>
        /\ e \in File /\ e.there /\ Len(e.data) = o
        /\ e.synced = (IF f.synced < o THEN f.synced ELSE o)
  <2> HIDE DEF j, n
  <2> TAKE o \in 0 .. Size
  <2>1. /\ Cut(f, o) \in File /\ Cut(f, o).there
        /\ Len(Cut(f, o).data) = o
        /\ Cut(f, o).synced = (IF f.synced < o THEN f.synced ELSE o)
    BY CutFacts
  <2> QED BY <2>1
<1>4. FileFits(NoFile)
  BY EmptyFile, SizeNat DEF FileFits
<1>5. CASE j.state = "absent" \/ (j.state # "completed" /\ ~j.staged)
  <2>1. r = NoRecord
    <3>1. j.state = "absent" => ~j.staged
      BY <1>1 DEF JournalFits
    <3> QED BY <1>5, <3>1 DEF Restored
  <2> QED BY <1>4, <2>1, Blank, EmptyFile DEF RecordFits
<1>6. CASE j.state = "completed"
  <2>1. r = j /\ rec[i].state = "completed"
    BY <1>1, <1>6 DEF Restored, JournalFits
  <2>2. CASE r.staged /\ f.there
    <3>1. e \in File /\ e.there /\ Len(e.data) = j.offset
            /\ e.synced = (IF f.synced < j.offset THEN f.synced ELSE j.offset)
      <4>1. j.offset \in 0 .. Size /\ e = Cut(f, j.offset)
        BY <1>2, <2>1, <2>2
      <4> HIDE DEF j
      <4> QED BY <4>1, <1>3a
    <3>2. e.synced = j.offset
      BY <1>2, <1>3, <2>1, <2>2, <3>1
    <3>3. RecordFits(r, e) /\ FileFits(e)
      BY <1>2, <1>6, <2>1, <3>1, <3>2 DEF RecordFits, FileFits
    <3> QED BY <1>1, <1>6, <2>1, <3>1, <3>3
  <2>3. CASE ~(r.staged /\ f.there)
    <3>1. e = NoFile /\ (r.staged => j.offset = 0)
      <4>1. r.staged => f.synced = 0
        BY <2>3
      <4> QED BY <1>2, <1>3, <2>1, <2>3, <4>1
    <3>2. RecordFits(r, e)
      BY <1>6, <2>1, <3>1, EmptyFile DEF RecordFits
    <3> QED BY <1>1, <1>4, <1>6, <2>1, <3>1, <3>2, EmptyFile
  <2> QED BY <2>2, <2>3
<1>7. CASE j.state \notin {"absent", "completed"} /\ j.staged /\ ~f.there
  <2>1. r = [j EXCEPT !.state = "failed", !.offset = 0, !.error = "storage"]
    BY <1>7 DEF Restored
  <2>2. r \in Record /\ r.state = "failed" /\ r.offset = 0 /\ e = NoFile
    BY <1>1, <1>7, <2>1, SizeNat DEF Record, States
  <2> QED BY <1>4, <2>2, EmptyFile DEF RecordFits
<1>8. CASE j.state \notin {"absent", "completed"} /\ j.staged /\ f.there
  <2>1. r = [j EXCEPT !.state = "paused", !.offset = IF @ < n THEN @ ELSE n]
    BY <1>8 DEF Restored
  <2>2. (IF j.offset < n THEN j.offset ELSE n) = j.offset
    <3> HIDE DEF j, n
    <3> QED BY <1>2, <1>3, <1>8
  <2>3. r \in Record /\ r.state = "paused" /\ r.offset = j.offset /\ r.staged
    BY <1>1, <1>8, <2>1, <2>2 DEF Record, States
  <2>4. e = Cut(f, j.offset)
    BY <1>8, <2>3
  <2>5. e \in File /\ e.there /\ Len(e.data) = j.offset
          /\ e.synced = (IF f.synced < j.offset THEN f.synced ELSE j.offset)
    <3>1. j.offset \in 0 .. Size /\ e = Cut(f, j.offset)
      BY <1>2, <2>4
    <3> HIDE DEF j
    <3> QED BY <3>1, <1>3a
  <2> HIDE DEF j
  <2>6. e.synced = j.offset
    BY <1>2, <1>3, <1>8, <2>5
  <2>7. RecordFits(r, e) /\ FileFits(e)
    BY <1>2, <2>3, <2>5, <2>6 DEF RecordFits, FileFits
  <2> QED BY <2>3, <2>5, <2>7
<1> QED BY <1>5, <1>6, <1>7, <1>8

LEMMA CrashStep ==
  ASSUME IInv, Crash
  PROVE  Kept
<1>1. /\ Event("crash") /\ link' = "none" /\ active' = {} /\ resume' = {}
      /\ worker' = [w \in Workers |-> NoWorker]
      /\ UNCHANGED <<source, session, dest>>
  BY DEF Crash
<1>2. PICK kept \in [Ids -> 0 .. Size] :
        LET left(i) == IF stage[i].there THEN Cut(stage[i], kept[i]) ELSE NoFile IN
        /\ \A i \in Ids : kept[i] \in stage[i].synced .. Len(stage[i].data)
        /\ rec' = [i \in Ids |-> Restored(i, left(i))]
        /\ journal' = Journaled(rec')
        /\ stage' = [i \in Ids |-> IF rec'[i].staged /\ left(i).there
                                   THEN Cut(left(i), rec'[i].offset) ELSE NoFile]
  BY DEF Crash
<1>3. ASSUME NEW i \in Ids
      PROVE  /\ rec'[i] \in Record /\ stage'[i] \in File /\ RecordFits(rec'[i], stage'[i])
             /\ FileFits(stage'[i])
             /\ rec'[i].state \notin {"preparing", "ready-to-save", "saving"}
             /\ rec'[i].state = "completed" => rec[i].state = "completed"
  <2> DEFINE f == IF stage[i].there THEN Cut(stage[i], kept[i]) ELSE NoFile
  <2>1. /\ rec'[i] = Restored(i, f)
        /\ stage'[i] = IF rec'[i].staged /\ f.there THEN Cut(f, rec'[i].offset) ELSE NoFile
        /\ kept[i] \in stage[i].synced .. Len(stage[i].data)
    BY <1>2
  <2>2. /\ f \in File /\ f.there = stage[i].there /\ f.synced = stage[i].synced
        /\ Len(f.data) \in 0 .. Size /\ f.synced <= Len(f.data)
        /\ ~f.there => f.synced = 0 /\ Len(f.data) = 0
    BY <2>1, LeftFacts
  <2> HIDE DEF f
  <2> QED BY <2>1, <2>2, RestoredFacts
<1>4. rec' \in [Ids -> Record] /\ stage' \in [Ids -> File]
  <2>1. rec' = [i \in Ids |-> rec'[i]] /\ stage' = [i \in Ids |-> stage'[i]]
    BY <1>2
  <2> QED BY <1>3, <2>1
<1>5. journal' \in [Ids -> Record]
  BY <1>2, <1>4, JournaledType
<1>6. TypeOK'
  <2>1. worker' \in [Workers -> Worker]
    BY <1>1, Blank
  <2>2. events' \in 0 .. MaxEvents /\ unsaved' \in BOOLEAN
    BY <1>1, EventType DEF IInv
  <2> QED BY <1>1, <1>4, <1>5, <2>1, <2>2 DEF IInv, TypeOK
<1>7. ASSUME NEW i \in Ids PROVE IdFits(i)'
  <2>1. journal'[i] = rec'[i]
    BY <1>2, <1>3 DEF Journaled
  <2>2. rec'[i].offset \in Nat
    BY <1>3, SizeNat DEF Record
  <2>3. JournalFits(journal'[i], rec'[i])
    BY <1>3, <2>1, <2>2 DEF JournalFits, RecordFits
  <2> QED BY <1>3, <2>3 DEF IdFits
<1>8. \A w \in Workers : worker'[w] = NoWorker
  BY <1>1
<1>9. Apart' /\ \A w \in Workers : worker'[w].pc = "none"
  BY <1>1, <1>8, Blank DEF Apart, Working
<1>10. WholeStep
  BY <1>3 DEF WholeStep
<1> QED BY <1>6, <1>7, <1>9, <1>10 DEF Kept, IInv
-----------------------------------------------------------------------------
LEMMA InitIInv == Init => IInv
<1> SUFFICES ASSUME Init PROVE IInv
  OBVIOUS
<1>1. TypeOK
  <2>1. rec \in [Ids -> Record] /\ journal \in [Ids -> Record] /\ session \in [Ids -> Session]
    BY Blank DEF Init
  <2>2. stage \in [Ids -> File] /\ dest \in [Ids -> File]
    BY EmptyFile DEF Init
  <2>3. worker \in [Workers -> Worker]
    BY Blank DEF Init
  <2>4. source \in Contents /\ active = {} /\ resume = {} /\ events = 0 /\ unsaved = FALSE
          /\ link = "none"
    BY DEF Init
  <2>5. events \in 0 .. MaxEvents
    BY <2>4, BoundsAssumption
  <2> QED BY <2>1, <2>2, <2>3, <2>4, <2>5 DEF TypeOK
<1>2. Apart
  BY Blank DEF Init, Apart, Working
<1>3. ASSUME NEW i \in Ids PROVE IdFits(i)
  <2>1. rec[i] = NoRecord /\ journal[i] = NoRecord /\ stage[i] = NoFile
    BY DEF Init
  <2> QED BY <2>1, Blank, EmptyFile, SizeNat DEF IdFits, RecordFits, JournalFits, FileFits
<1>4. \A w \in Workers : worker[w].pc = "none"
  BY Blank DEF Init
<1> QED BY <1>1, <1>2, <1>3, <1>4 DEF IInv

LEMMA NextKept ==
  ASSUME IInv, [Next]_vars, ~doubled'
  PROVE  Kept
<1>1. ASSUME NEW w \in Workers, Run(w) PROVE Kept
  BY <1>1, OpenStep, FetchStep, ReceiveStep, SyncStep, CheckpointStep, PauseRunStep, ResumeSteps,
     VerifyStep, EndStep DEF Run
<1>2. ASSUME NEW w \in Workers, Prepare(w) \/ Copy(w) \/ Dialogs(w) PROVE Kept
  BY <1>2, PrepareStep, CopyStep, ChooseStep, DeclineStep, ExportDialogStep DEF Dialogs
<1>3. ASSUME User PROVE Kept
  BY <1>3, StartStep, ResumeSteps, SaveStep, RestartStep, PauseStep, RemoveCancelStep DEF User
<1>4. ASSUME Environment PROVE Kept
  BY <1>4, CrashStep, EnvironmentStep, EditStep DEF Environment
<1>5. ASSUME Client PROVE Kept
  BY <1>5, AttachClientStep, DetachClientStep, ResumeSteps DEF Client
<1>6. ASSUME UNCHANGED vars PROVE Kept
  BY <1>6, EnvironmentStep
<1> QED BY <1>1, <1>2, <1>3, <1>4, <1>5, <1>6 DEF Next

(* Once doubled, always: that it is not yet was so before as well. *)
LEMMA StaysDoubled ==
  ASSUME [Next]_vars, doubled
  PROVE  doubled'
<1>1. ASSUME NEW i, NEW w, NEW ws, TriesToResume(ws, i, w) \/ Resumes(ws, i, w) PROVE doubled'
  BY <1>1 DEF TriesToResume, Resumes, Resumed
<1>2. CASE User
  BY <1>1, <1>2 DEF User, Start, Resume, Restart, Save, Pause, Cancel, Remove
<1>3. CASE Client
  BY <1>1, <1>3 DEF Client, AttachClient, DetachClient, ResumeNext
<1>4. CASE Environment
  BY <1>4 DEF Environment, Crash, Break, ChangeSource, Expire, Edit
<1>5. ASSUME NEW w \in Workers, Run(w) \/ Prepare(w) \/ Copy(w) \/ Dialogs(w) PROVE doubled'
  BY <1>1, <1>5 DEF Run, Open, Fetch, Receive, Sync, Checkpoint, PauseRun, ResumeAgain, Verify, End,
                    Prepare, Copy, Dialogs, Choose, Decline, ExportDialog
<1> QED BY <1>2, <1>3, <1>4, <1>5 DEF Next, vars

(* IInv is inductive until a download is doubled. *)
LEMMA Inductive == Spec => [](~doubled => IInv)
<1>1. Init => (~doubled => IInv)
  BY InitIInv
<1>2. (~doubled => IInv) /\ [Next]_vars => (~doubled => IInv)'
  BY NextKept, StaysDoubled DEF Kept
<1> QED BY <1>1, <1>2, PTL DEF Spec

(* The journal never says more of a staged file than what survives a crash *)
(* (the sync before the save in checkpoint, ArtifactDownloads.Checkpoint), *)
(* until a download is resumed while a goroutine works on it: the journal  *)
(* is behind the record, and the record behind the sync.                   *)
THEOREM JournalNeverAhead == Spec => []JournalIsDurable
<1>1. ASSUME ~doubled => IInv PROVE JournalIsDurable
  <2> SUFFICES ASSUME ~doubled, NEW i \in Ids, journal[i].staged PROVE journal[i].offset <= stage[i].synced
    BY DEF JournalIsDurable
  <2> DEFINE a == journal[i].offset
             b == rec[i].offset
             c == stage[i].synced
  <2>1. a <= b /\ b <= c
    BY <1>1 DEF IInv, IdFits, JournalFits, RecordFits
  <2>2. a \in Int /\ b \in Int /\ c \in Int
    BY <1>1, SizeNat DEF IInv, TypeOK, Record, File
  <2> HIDE DEF a, b, c
  <2>3. a <= c
    BY <2>1, <2>2
  <2> QED BY <2>3 DEF a, c
<1> QED BY <1>1, Inductive, PTL

(* A download becomes complete only with a destination that has exactly    *)
(* the content that was announced when it began, whatever was lost, cut or *)
(* fetched again in between (complete, after verify), until a download is  *)
(* resumed while a goroutine works on it.                                  *)
THEOREM OnlyWholeIsCompleted == Spec => CompletedIsWhole
<1>1. ASSUME ~doubled => IInv, [Next]_vars, ~doubled' PROVE WholeStep
  BY <1>1, NextKept, StaysDoubled DEF Kept
<1>2. (~doubled => IInv) /\ [Next]_vars
          => [\A i \in Ids : (~doubled' /\ rec[i].state # "completed" /\ rec'[i].state = "completed")
                => dest'[i].there /\ Whole(dest'[i], rec'[i].cid)]_vars
  BY <1>1 DEF WholeStep
<1> QED BY <1>2, Inductive, PTL DEF Spec, CompletedIsWhole
=============================================================================
