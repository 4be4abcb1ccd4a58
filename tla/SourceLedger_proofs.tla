------------------------ MODULE SourceLedger_proofs -------------------------
(***************************************************************************)
(* Proofs about the accounting of one session file (SourceLedger), for any *)
(* contents, inodes, quanta and bounds: SourceIsSafe always holds, and no  *)
(* step breaks what TrustIsEarned says of it.                              *)
(*                                                                         *)
(* The inductive invariant is SourceIsSafe with TypeOK, written once more  *)
(* as Parts: what the file and the number of its changes say of each part  *)
(* of the state, so that a step is proved by what it does to those parts.  *)
(* The content of a row, of a generation and of what a job has in hand is  *)
(* compared by prefixes: an append continues a checkpoint because both     *)
(* begin the same file.  HonestCoverage rests on SampledIn: what was read  *)
(* under an inode and a time the file still has is how the file begins.    *)
(***************************************************************************)
EXTENDS SourceLedger, TLAPS

(* What IsPrefix says of the cells.                                        *)
LEMMA PrefixFacts ==
  ASSUME NEW S, NEW s \in Seq(S), NEW n \in 0..Len(s)
  PROVE  /\ SubSeq(s, 1, n) \in Seq(S) /\ Len(SubSeq(s, 1, n)) = n
         /\ IsPrefix(SubSeq(s, 1, n), s)
<1>1. /\ SubSeq(s, 1, n) \in Seq(S) /\ Len(SubSeq(s, 1, n)) = n
      /\ \A i \in 1..n : SubSeq(s, 1, n)[i] = s[i]
  OBVIOUS
<1>2. SubSeq(SubSeq(s, 1, n), 1, n) = SubSeq(s, 1, n)
  BY <1>1
<1> QED
  BY <1>1, <1>2 DEF IsPrefix

LEMMA SeqEqual ==
  ASSUME NEW S, NEW s \in Seq(S), NEW t \in Seq(S), Len(s) = Len(t),
         \A i \in 1..Len(s) : s[i] = t[i]
  PROVE  s = t
OBVIOUS

LEMMA PrefixMeans ==
  ASSUME NEW S, NEW s \in Seq(S), NEW t \in Seq(S)
  PROVE  IsPrefix(s, t) <=> Len(s) <= Len(t) /\ \A i \in 1..Len(s) : s[i] = t[i]
<1>1. SubSeq(s, 1, Len(s)) = s
  OBVIOUS
<1>2. CASE Len(s) <= Len(t)
  <2>1. /\ SubSeq(t, 1, Len(s)) \in Seq(S) /\ Len(SubSeq(t, 1, Len(s))) = Len(s)
        /\ \A i \in 1..Len(s) : SubSeq(t, 1, Len(s))[i] = t[i]
    BY <1>2
  <2>2. (\A i \in 1..Len(s) : s[i] = t[i]) => s = SubSeq(t, 1, Len(s))
    BY <2>1, SeqEqual
  <2> QED
    BY <1>1, <1>2, <2>1, <2>2 DEF IsPrefix
<1> QED
  BY <1>2 DEF IsPrefix

LEMMA PrefixSelf ==
  ASSUME NEW S, NEW s \in Seq(S)
  PROVE  IsPrefix(s, s)
BY PrefixMeans

LEMMA PrefixBetween ==
  ASSUME NEW S, NEW a \in Seq(S), NEW b \in Seq(S), NEW c \in Seq(S),
         IsPrefix(a, c), IsPrefix(b, c), Len(a) <= Len(b)
  PROVE  IsPrefix(a, b)
BY PrefixMeans

LEMMA PrefixWhole ==
  ASSUME NEW S, NEW a \in Seq(S), NEW c \in Seq(S), IsPrefix(a, c), Len(a) = Len(c)
  PROVE  a = c
BY PrefixMeans, SeqEqual

(* What an append adds to a prefix.                                        *)
LEMMA PrefixCompleted ==
  ASSUME NEW S, NEW a \in Seq(S), NEW b \in Seq(S), IsPrefix(a, b)
  PROVE  a \o SubSeq(b, Len(a) + 1, Len(b)) = b
<1>1. Len(a) <= Len(b) /\ \A i \in 1..Len(a) : a[i] = b[i]
  BY PrefixMeans
<1>2. PICK rest : rest = SubSeq(b, Len(a) + 1, Len(b))
  OBVIOUS
<1>3. /\ rest \in Seq(S) /\ Len(rest) = Len(b) - Len(a)
      /\ \A i \in 1..(Len(b) - Len(a)) : rest[i] = b[Len(a) + i]
  BY <1>1, <1>2
<1>4. /\ a \o rest \in Seq(S) /\ Len(a \o rest) = Len(b)
      /\ \A i \in 1..Len(b) : (a \o rest)[i] = IF i <= Len(a) THEN a[i] ELSE rest[i - Len(a)]
  BY <1>1, <1>3
<1>5. \A i \in 1..Len(b) : (a \o rest)[i] = b[i]
  <2> SUFFICES ASSUME NEW i \in 1..Len(b) PROVE (a \o rest)[i] = b[i]
    OBVIOUS
  <2>1. (a \o rest)[i] = IF i <= Len(a) THEN a[i] ELSE rest[i - Len(a)]
    BY <1>4
  <2>2. Len(a) \in Nat /\ Len(b) \in Nat
    OBVIOUS
  <2>3. CASE i <= Len(a)
    <3>1. i \in 1..Len(a)
      BY <2>2, <2>3
    <3> QED
      BY <1>1, <2>1, <2>3, <3>1
  <2>4. CASE ~(i <= Len(a))
    <3>1. i - Len(a) \in 1..(Len(b) - Len(a)) /\ Len(a) + (i - Len(a)) = i
      BY <2>2, <2>4
    <3>2. rest[i - Len(a)] = b[Len(a) + (i - Len(a))]
      BY <1>3, <3>1
    <3> QED
      BY <2>1, <2>4, <3>1, <3>2
  <2> QED
    BY <2>3, <2>4
<1> QED
  BY <1>2, <1>4, <1>5, SeqEqual

LEMMA SeqsFacts ==
  /\ \A s \in Seqs : s \in Seq(Cells)
  /\ \A t \in Texts : t \in Seq(Cells) /\ Len(t) \in Nat
  /\ \A t \in Texts, n \in Nat : n <= Len(t) => SubSeq(t, 1, n) \in Seqs
  /\ <<>> \in Seq(Cells)
<1>1. \A t \in Texts : t \in Seq(Cells)
  BY ParameterAssumption
<1>2. \A s \in Seqs : \E t \in Texts : \E n \in 0..Len(t) : s = SubSeq(t, 1, n)
  BY DEF Seqs, Prefixes
<1>3. \A s \in Seqs : s \in Seq(Cells)
  BY <1>1, <1>2, PrefixFacts
<1>4. \A t \in Texts : \A n \in 0..Len(t) : SubSeq(t, 1, n) \in Seqs
  BY DEF Seqs, Prefixes
<1>5. \A t \in Texts : Len(t) \in Nat
  BY <1>1
<1>6. \A t \in Texts, n \in Nat : n <= Len(t) => SubSeq(t, 1, n) \in Seqs
  BY <1>4, <1>5
<1> QED
  BY <1>1, <1>3, <1>5, <1>6

-----------------------------------------------------------------------------
(* The invariant, as what f and n (the file and the number of its changes) *)
(* say of each part of the state.                                          *)
SampledIn(f, n, ino, mtime, text) ==
  /\ mtime <= n
  /\ f # None /\ mtime = f.mtime => ino <= f.ino /\ (ino = f.ino => IsPrefix(text, f.text))

SoundIn(f, n, r) ==
  /\ r \in Rows
  /\ r.records = (IF r.ck = None THEN <<>> ELSE r.ck.text)
  /\ r.ck # None /\ r.error = "none" => SampledIn(f, n, r.ck.ino, r.mtime, r.ck.text)

GenerationIn(g) == g # None => g \in Generations /\ g.events = g.text

SourceIn(f, n, s, g) ==
  s # None /\ g # None /\ s.error = "none" /\ ~s.missing /\ s.ino # None =>
    SampledIn(f, n, s.ino, s.mtime, g.text)

FileIn(f, n) == f # None => f.mtime <= n

EntryIn(f, n, e) == e # None => e.mtime <= n /\ (f # None => e.mtime <= f.mtime)

Kinds == {"full", "append"}
Working == {"open", "seal", "record", "check", "verify", "install"}

(* parsed is the row the job works on.                                     *)
JobIn(f, n, j, parsed) ==
  /\ EntryIn(f, n, j.entry)
  /\ j.at \in Working => j.entry # None /\ parsed # None
  /\ j.who = "slice" => j.before \in Nat
  /\ j.at \in {"open", "seal", "record"} /\ j.ck # None => j.ck = parsed.ck
  /\ j.at \in {"check", "verify", "install"} => j.who = "slice"
  /\ j.at \in {"seal", "record"} => j.result # None
  /\ j.at = "seal" => j.result.kind \in Kinds
  /\ j.at \in {"seal", "record"} /\ j.result.kind = "append" =>
       j.ck # None /\ IsPrefix(j.ck.text, j.result.text)
  /\ j.at \in {"seal", "record"} /\ j.result.kind \in Kinds =>
       SampledIn(f, n, j.result.ino, j.entry.mtime, j.result.text)
  /\ j.at \in {"verify", "install"} =>
       parsed.ck # None /\ parsed.error = "none" /\ Len(parsed.ck.text) = j.entry.size

StagedRow == IF stage = None THEN None ELSE stage.row

RowOK == row # None => SoundIn(file, count.writes, row)
StageOK == stage # None => /\ stage.row # None /\ ~stage.row.missing
                          /\ SoundIn(file, count.writes, stage.row)
GenOK == GenerationIn(gen)
SourceOK == SourceIn(file, count.writes, source, gen)
FileOK == FileIn(file, count.writes)
JobOK == /\ JobIn(file, count.writes, job, IF job.who = "capture" THEN row ELSE StagedRow)
         /\ job.at = "clean" => stage # None

Parts == TypeOK /\ RowOK /\ StageOK /\ GenOK /\ SourceOK /\ FileOK /\ JobOK

LEMMA PartsSuffice == Parts => SourceIsSafe
<1> SUFFICES ASSUME Parts PROVE SourceIsSafe
  OBVIOUS
<1> USE DEF Parts
<1>1. OneContent
  BY DEF OneContent, RowOK, StageOK, GenOK, SoundIn, GenerationIn
<1>2. JobContinues
  BY DEF JobOK, JobIn, StagedRow, JobContinues, StageOK, Working, Kinds
<1>3. SamplesAreTrue
  <2>1. RowIsSampled(row)
    BY DEF RowIsSampled, RowOK, SoundIn, SampledIn, Sampled
  <2>2. stage # None => RowIsSampled(stage.row)
    BY DEF RowIsSampled, StageOK, SoundIn, SampledIn, Sampled
  <2>3. ASSUME source # None, gen # None, source.error = "none", ~source.missing,
               source.ino # None
        PROVE  Sampled(source.ino, source.mtime, gen.text)
    BY <2>3 DEF SourceOK, SourceIn, SampledIn, Sampled
  <2>4. /\ file # None => file.mtime <= count.writes
        /\ job.entry # None => /\ job.entry.mtime <= count.writes
                               /\ file # None => job.entry.mtime <= file.mtime
    BY DEF FileOK, FileIn, JobOK, JobIn, EntryIn
  <2>5. job.at \in {"seal", "record"} /\ job.result.kind \in {"full", "append"} =>
          Sampled(job.result.ino, job.entry.mtime, job.result.text)
    BY DEF JobOK, JobIn, Kinds, SampledIn, Sampled
  <2> QED
    BY <2>1, <2>2, <2>3, <2>4, <2>5 DEF SamplesAreTrue
<1>4. HonestCoverage
  <2> SUFFICES ASSUME file # None, source # None, gen # None,
                      source.error = "none", ~source.missing,
                      source.mtime = file.mtime, source.ino = file.ino
               PROVE  IsPrefix(gen.events, file.text)
    BY DEF HonestCoverage
  <2>1. source.ino # None
    BY NoneAssumption DEF TypeOK, Files
  <2>2. SampledIn(file, count.writes, source.ino, source.mtime, gen.text)
    BY <2>1 DEF SourceOK, SourceIn
  <2> QED
    BY <2>2 DEF SampledIn, GenOK, GenerationIn
<1> QED
  BY <1>1, <1>2, <1>3, <1>4 DEF SourceIsSafe

-----------------------------------------------------------------------------
LEMMA NumberFacts ==
  /\ Times \subseteq Nat /\ Inodes \subseteq Nat
  /\ \A e \in Files \cup Stats : e.mtime \in Nat /\ e.ino \in Nat
  /\ \A r \in Rows \cup Sources : r.mtime \in Nat
  /\ \A c \in Checkpoints \cup Contents : c.ino \in Nat
<1>1. Times \subseteq Nat /\ Inodes \subseteq Nat
  BY ParameterAssumption DEF Times
<1>2. \A e \in Files \cup Stats : e.mtime \in Times /\ e.ino \in Inodes
  BY DEF Files, Stats
<1>3. \A r \in Rows \cup Sources : r.mtime \in Times
  BY DEF Rows, Sources
<1>4. \A c \in Checkpoints \cup Contents : c.ino \in Inodes
  BY DEF Checkpoints, Contents
<1> QED
  BY <1>1, <1>2, <1>3, <1>4

-----------------------------------------------------------------------------
(* Changes of the file.                                                    *)

(* The file is removed, has a new time, or is one that took its time along.*)
Changes(f, n, g) ==
  /\ n \in Nat /\ FileIn(f, n) /\ f \in Files \cup {None} /\ g \in Files \cup {None}
  /\ \/ g = None
     \/ g.mtime = n + 1
     \/ f # None /\ g.mtime = f.mtime /\ g.ino > f.ino

LEMMA SampleSurvives ==
  ASSUME NEW f, NEW n, NEW g, Changes(f, n, g),
         NEW ino \in Nat, NEW mtime \in Nat, NEW text, SampledIn(f, n, ino, mtime, text)
  PROVE  SampledIn(g, n + 1, ino, mtime, text)
<1>1. f # None => f.mtime \in Nat /\ f.mtime <= n /\ f.ino \in Nat
  BY NumberFacts DEF Changes, FileIn
<1>2. g # None => g.mtime \in Nat /\ g.ino \in Nat
  BY NumberFacts DEF Changes
<1> QED
  BY <1>1, <1>2 DEF SampledIn, Changes

LEMMA SoundSurvives ==
  ASSUME NEW f, NEW n, NEW g, Changes(f, n, g), NEW r, SoundIn(f, n, r)
  PROVE  SoundIn(g, n + 1, r)
<1>1. r.ck # None => r.ck.ino \in Nat
  <2>1. r.ck # None => r.ck \in Checkpoints
    BY DEF SoundIn, Rows
  <2> QED
    BY <2>1, NumberFacts
<1>2. r.mtime \in Nat
  BY NumberFacts DEF SoundIn
<1> QED
  BY <1>1, <1>2, SampleSurvives DEF SoundIn

LEMMA FileChanges ==
  ASSUME Parts, Spend("writes", MaxWrites), Changes(file, count.writes, file'),
         UNCHANGED <<ledger, stage, queued, barred, job>>
  PROVE  Parts'
<1> USE DEF Parts
<1>1. /\ count' \in [writes : Times, failures : 0..MaxFailures]
      /\ count'.writes = count.writes + 1
      /\ count.writes \in Nat
  BY ParameterAssumption DEF TypeOK, Spend, Times
<1>2. UNCHANGED <<row, source, gen, past, epoch, pending, stage, queued, barred, job>>
  BY DEF ledger
<1>3. TypeOK'
  BY <1>1, <1>2 DEF TypeOK, Changes
<1>4. RowOK' /\ StageOK' /\ GenOK'
  BY <1>1, <1>2, SoundSurvives DEF RowOK, StageOK, GenOK
<1>5. SourceOK'
  <2> SUFFICES ASSUME source # None, gen # None, source.error = "none",
                      ~source.missing, source.ino # None
               PROVE  SampledIn(file', count'.writes, source.ino, source.mtime, gen.text)
    BY <1>2 DEF SourceOK, SourceIn
  <2>1. SampledIn(file, count.writes, source.ino, source.mtime, gen.text)
    BY DEF SourceOK, SourceIn
  <2>2. source.ino \in Nat /\ source.mtime \in Nat
    <3>1. source \in Sources /\ source.ino \in Inodes
      BY DEF TypeOK, Sources
    <3> QED
      BY <3>1, NumberFacts
  <2> QED
    BY <1>1, <2>1, <2>2, SampleSurvives
<1>6. FileOK'
  BY <1>1, NumberFacts DEF FileOK, FileIn, Changes
<1>7. JobOK'
  <2>1. EntryIn(file, count.writes, job.entry) => EntryIn(file', count'.writes, job.entry)
    <3>1. job.entry # None => job.entry.mtime \in Nat
      BY NumberFacts DEF TypeOK, Jobs
    <3> QED
      BY <1>1, <3>1, NumberFacts DEF EntryIn, Changes, FileIn
  <2>2. ASSUME job.at \in {"seal", "record"}, job.result.kind \in Kinds
        PROVE  SampledIn(file', count'.writes, job.result.ino, job.entry.mtime, job.result.text)
    <3>1. /\ SampledIn(file, count.writes, job.result.ino, job.entry.mtime, job.result.text)
          /\ job.result # None /\ job.entry # None
      BY <2>2 DEF JobOK, JobIn, Working
    <3>2. job.result.ino \in Nat
      <4>1. job.result \in Results
        BY <3>1 DEF TypeOK, Jobs
      <4>2. job.result \in Contents
        BY <2>2, <4>1 DEF Results, Kinds
      <4> QED
        BY <4>2, NumberFacts
    <3>3. job.entry.mtime \in Nat
      BY <3>1, NumberFacts DEF TypeOK, Jobs
    <3> QED
      BY <1>1, <3>1, <3>2, <3>3, SampleSurvives
  <2> QED
    BY <1>2, <2>1, <2>2 DEF JobOK, JobIn, StagedRow
<1> QED
  BY <1>3, <1>4, <1>5, <1>6, <1>7

LEMMA FileKeeps ==
  ASSUME Parts, Create \/ Grow \/ Replace \/ Rewrite \/ Delete
  PROVE  Parts' /\ UNCHANGED <<row, gen, past, pending>>
<1>1. /\ Spend("writes", MaxWrites)
      /\ UNCHANGED <<ledger, stage, queued, barred, job>>
  BY DEF Create, Grow, Replace, Rewrite, Delete, Write
<1>2. count.writes \in Nat /\ count.writes + 1 \in Times
  BY <1>1, ParameterAssumption DEF Parts, TypeOK, Spend, Times
<1>3. Changes(file, count.writes, file')
  <2>1. FileIn(file, count.writes) /\ file \in Files \cup {None}
    BY DEF Parts, FileOK, TypeOK
  <2>2. ASSUME NEW i \in Inodes, NEW t \in Texts, NEW m \in Times, Write(i, t, m)
        PROVE  file' \in Files /\ file'.mtime = m /\ file'.ino = i
    BY <1>2, <2>2 DEF Write, Files
  <2>3. CASE Create
    BY <1>2, <2>1, <2>2, <2>3 DEF Create, Now, Changes
  <2>4. CASE Grow
    BY <1>2, <2>1, <2>2, <2>4 DEF Grow, Now, Changes, Files
  <2>5. CASE Replace
    <3>1. PICK i \in Inodes, t \in Texts :
            Write(i, t, Now) \/ (i > file.ino /\ Write(i, t, file.mtime))
      BY <2>5 DEF Replace
    <3>2. CASE Write(i, t, Now)
      BY <1>2, <2>1, <2>2, <3>2 DEF Now, Changes
    <3>3. CASE i > file.ino /\ Write(i, t, file.mtime)
      <4>1. file # None /\ file.mtime \in Times
        BY <2>1, <2>5 DEF Replace, Files
      <4> QED
        BY <1>2, <2>1, <2>2, <3>3, <4>1 DEF Changes
    <3> QED
      BY <3>1, <3>2, <3>3
  <2>6. CASE Rewrite
    BY <1>2, <2>1, <2>2, <2>6 DEF Rewrite, Now, Changes, Files
  <2>7. CASE Delete
    BY <1>2, <2>1, <2>7 DEF Delete, Changes
  <2> QED
    BY <2>3, <2>4, <2>5, <2>6, <2>7
<1> QED
  BY <1>1, <1>3, FileChanges DEF ledger

-----------------------------------------------------------------------------
(* The operators of captures, slices and synchronizations.                 *)

LEMMA StatFacts ==
  ASSUME Parts, file # None
  PROVE  /\ Stat \in Stats /\ Stat # None
         /\ Stat.mtime = file.mtime /\ Stat.ino = file.ino /\ Stat.size = Len(file.text)
         /\ EntryIn(file, count.writes, Stat)
         /\ <<>> \in Seqs
<1>1. file \in Files /\ file.text \in Seq(Cells) /\ file.text \in Texts
  BY SeqsFacts DEF Parts, TypeOK, Files
<1>2. Len(file.text) \in Nat
  BY <1>1
<1>3. /\ Stat.mtime = file.mtime /\ Stat.ino = file.ino /\ Stat.size = Len(file.text)
      /\ Stat \in Stats
  BY <1>1, <1>2 DEF Stat, Files, Stats
<1>4. file.mtime \in Nat /\ file.mtime <= count.writes
  BY <1>1, NumberFacts DEF Parts, FileOK, FileIn
<1>5. EntryIn(file, count.writes, Stat)
  BY <1>3, <1>4 DEF EntryIn
<1>6. <<>> \in Seqs
  <2>1. PICK z \in Nat : z = 0
    OBVIOUS
  <2>2. SubSeq(file.text, 1, z) \in Seqs
    BY <1>1, <1>2, <2>1, SeqsFacts
  <2>3. SubSeq(file.text, 1, z) = <<>>
    BY <1>1, <2>1
  <2> QED
    BY <2>2, <2>3
<1> QED
  BY <1>3, <1>5, <1>6, NoneAssumption

LEMMA UpsertedSound ==
  ASSUME NEW f, NEW n, NEW r, NEW e \in Stats, <<>> \in Seqs, r # None => SoundIn(f, n, r)
  PROVE  /\ SoundIn(f, n, Upserted(r, e))
         /\ r = None \/ ~r.missing => ~Upserted(r, e).missing
<1>1. e.size \in Nat /\ e.mtime \in Times
  BY DEF Stats
<1>2. CASE r = None
  <2>1. PICK q : q = NewRow(e)
    OBVIOUS
  <2>2. /\ q \in Rows /\ q.ck = None /\ q.records = <<>> /\ ~q.missing
    BY <1>1, <2>1 DEF NewRow, Rows, Errors
  <2> QED
    BY <1>2, <2>1, <2>2 DEF Upserted, SoundIn
<1>3. CASE r # None /\ r.ck = None /\ r.error = "none"
  <2>1. PICK q : q = [r EXCEPT !.size = e.size, !.mtime = e.mtime, !.missing = FALSE]
    OBVIOUS
  <2>2. /\ q \in Rows /\ q.ck = r.ck /\ q.records = r.records /\ ~q.missing
    BY <1>1, <1>3, <2>1 DEF SoundIn, Rows
  <2> QED
    BY <1>3, <2>1, <2>2 DEF Upserted, SoundIn
<1>4. CASE r # None /\ ~(r.ck = None /\ r.error = "none")
  BY <1>4 DEF Upserted
<1> QED
  BY <1>2, <1>3, <1>4

LEMMA ParsedSound ==
  ASSUME NEW f, NEW n, NEW r, SoundIn(f, n, r), NEW e \in Stats, NEW result \in Results,
         result.kind \in Kinds => SampledIn(f, n, result.ino, e.mtime, result.text),
         result.kind = "append" =>
           /\ job.ck # None /\ job.ck = r.ck
           /\ IsPrefix(job.ck.text, result.text)
  PROVE  SoundIn(f, n, Parsed(r, e, result)) /\ ~Parsed(r, e, result).missing
<1>1. e.size \in Nat /\ e.mtime \in Times /\ r \in Rows
  BY DEF Stats, SoundIn
<1>2. CASE result.kind = "error"
  <2>1. PICK q : q = [r EXCEPT !.missing = FALSE, !.error = "other"]
    OBVIOUS
  <2>2. /\ q \in Rows /\ q.ck = r.ck /\ q.records = r.records /\ ~q.missing
        /\ q.error = "other"
    BY <1>1, <2>1 DEF Rows, Errors
  <2> QED
    BY <1>2, <2>1, <2>2 DEF Parsed, SoundIn
<1>3. CASE result.kind = "stale"
  <2>1. PICK q : q = [r EXCEPT !.size = e.size, !.mtime = e.mtime, !.missing = FALSE,
                               !.error = "stale"]
    OBVIOUS
  <2>2. /\ q \in Rows /\ q.ck = r.ck /\ q.records = r.records /\ ~q.missing
        /\ q.error = "stale"
    BY <1>1, <2>1 DEF Rows, Errors
  <2> QED
    BY <1>3, <2>1, <2>2 DEF Parsed, SoundIn
<1>4. CASE result.kind \in Kinds
  <2>1. result \in Contents
    BY <1>4 DEF Results, Kinds
  <2>2. PICK ck : ck = [ino |-> result.ino, text |-> result.text]
    OBVIOUS
  <2>3. ck \in Checkpoints /\ ck.ino = result.ino /\ ck.text = result.text
    BY <2>1, <2>2 DEF Contents, Checkpoints
  <2>4. PICK records : records = IF result.kind = "full" THEN result.text
                                 ELSE r.records \o SubSeq(result.text,
                                        Len(job.ck.text) + 1, Len(result.text))
    OBVIOUS
  <2>5. records = result.text
    <3>1. CASE result.kind = "full"
      BY <2>4, <3>1
    <3>2. CASE result.kind = "append"
      <4>1. /\ r.records = r.ck.text /\ job.ck = r.ck /\ r.ck # None
            /\ IsPrefix(r.ck.text, result.text)
        BY <3>2 DEF SoundIn
      <4>2. r.ck.text \in Seq(Cells) /\ result.text \in Seq(Cells)
        <5>1. r.ck \in Checkpoints
          BY <1>1, <4>1 DEF Rows
        <5> QED
          BY <2>1, <5>1, SeqsFacts DEF Checkpoints, Contents
      <4>3. r.ck.text \o SubSeq(result.text, Len(r.ck.text) + 1, Len(result.text)) = result.text
        BY <4>1, <4>2, PrefixCompleted
      <4> QED
        BY <2>4, <3>2, <4>1, <4>3
    <3> QED
      BY <1>4, <3>1, <3>2 DEF Kinds
  <2>6. PICK q : q = [size |-> e.size, mtime |-> e.mtime, missing |-> FALSE,
                      error |-> "none", ck |-> ck, records |-> records]
    OBVIOUS
  <2>7. q \in Rows
    BY <1>1, <2>1, <2>3, <2>5, <2>6 DEF Rows, Errors, Contents
  <2>8. Parsed(r, e, result) = q
    BY <1>4, <2>2, <2>4, <2>6 DEF Parsed, Kinds
  <2> QED
    BY <1>4, <2>3, <2>5, <2>6, <2>7, <2>8, NoneAssumption DEF SoundIn
<1> QED
  BY <1>2, <1>3, <1>4 DEF Results, Contents, Kinds

LEMMA ReportedSound ==
  ASSUME NEW f, NEW n, NEW r, SoundIn(f, n, r), NEW due \in BOOLEAN
  PROVE  /\ SoundIn(f, n, Reported(r, due))
         /\ due => Reported(r, due).error # "none"
<1>1. CASE due /\ r.error = "none"
  <2>1. PICK q : q = [r EXCEPT !.error = "stale"]
    OBVIOUS
  <2>2. q \in Rows /\ q.ck = r.ck /\ q.records = r.records /\ q.error = "stale"
    BY <2>1 DEF SoundIn, Rows, Errors
  <2> QED
    BY <1>1, <2>1, <2>2 DEF Reported, SoundIn
<1>2. CASE ~(due /\ r.error = "none")
  BY <1>2 DEF Reported
<1> QED
  BY <1>1, <1>2

Synced(r, g) == Observed(r) /\ NeedsSync(r, g)

(* A generation that is synchronized holds the row's content.              *)
LEMMA GenerationSound ==
  ASSUME Parts, NEW r, SoundIn(file, count.writes, r), NEW g, GenerationIn(g),
         Synced(r, g), Verified(r)
  PROVE  /\ Generation(r, g) \in Generations
         /\ Generation(r, g).text = r.ck.text /\ Generation(r, g).events = r.ck.text
         /\ file # None /\ IsPrefix(r.ck.text, file.text)
         /\ ~Replaces(r, g) => g # None /\ IsPrefix(g.events, r.ck.text)
<1>1. r.ck # None /\ r \in Rows /\ r.records = r.ck.text
  BY DEF Synced, NeedsSync, SoundIn
<1>2. r.ck \in Checkpoints /\ r.mtime \in Times
  BY <1>1 DEF Rows
<1>3. r.ck.text \in Seqs /\ r.ck.text \in Seq(Cells)
  BY <1>2, SeqsFacts DEF Checkpoints
<1>4. file # None /\ IsPrefix(r.ck.text, file.text)
  BY DEF Verified, Matches
<1>5. file.text \in Seq(Cells)
  BY <1>4, SeqsFacts DEF Parts, TypeOK, Files
<1>6. ASSUME ~Replaces(r, g)
      PROVE  /\ g # None /\ g.events = g.text /\ IsPrefix(g.text, r.ck.text)
             /\ g.events \o SubSeq(r.records, Len(g.events) + 1, Len(r.records)) = r.ck.text
  <2>1. /\ g # None /\ IsPrefix(g.text, file.text)
        /\ ~(Len(r.ck.text) < Len(g.text)) /\ g.events = g.text
    BY <1>6 DEF Replaces, GenerationIn
  <2>2. g.text \in Seq(Cells)
    BY <2>1, SeqsFacts DEF GenerationIn, Generations
  <2>3. Len(g.text) <= Len(r.ck.text)
    <3>1. Len(g.text) \in Nat /\ Len(r.ck.text) \in Nat
      BY <1>3, <2>2
    <3> QED
      BY <2>1, <3>1
  <2>4. IsPrefix(g.text, r.ck.text)
    BY <1>3, <1>4, <1>5, <2>1, <2>2, <2>3, PrefixBetween
  <2>5. g.text \o SubSeq(r.ck.text, Len(g.text) + 1, Len(r.ck.text)) = r.ck.text
    BY <1>3, <2>2, <2>4, PrefixCompleted
  <2> QED
    BY <1>1, <2>1, <2>4, <2>5
<1>7. PICK events : events = IF Replaces(r, g) THEN r.records
                             ELSE g.events \o SubSeq(r.records, Len(g.events) + 1,
                                                     Len(r.records))
  OBVIOUS
<1>8. events = r.ck.text
  BY <1>1, <1>6, <1>7
<1>9. Generation(r, g) = [text |-> r.ck.text, mtime |-> r.mtime, events |-> events]
  BY <1>7 DEF Generation
<1>10. /\ Generation(r, g) \in Generations
       /\ Generation(r, g).text = r.ck.text /\ Generation(r, g).events = r.ck.text
  BY <1>2, <1>3, <1>8, <1>9 DEF Generations
<1> QED
  BY <1>4, <1>6, <1>10

LEMMA MirrorFacts ==
  ASSUME NEW r \in Rows
  PROVE  /\ Mirror(r) \in Sources
         /\ Mirror(r).error = r.error /\ Mirror(r).missing = r.missing
         /\ Mirror(r).mtime = r.mtime
         /\ Mirror(r).ino = IF r.ck = None THEN None ELSE r.ck.ino
<1>1. r.ck # None => r.ck.ino \in Inodes
  BY DEF Rows, Checkpoints
<1>2. PICK ino : ino = IF r.ck = None THEN None ELSE r.ck.ino
  OBVIOUS
<1>3. ino \in Inodes \cup {None}
  BY <1>1, <1>2
<1>4. Mirror(r) = [ino |-> ino, size |-> r.size, mtime |-> r.mtime,
                   missing |-> r.missing, error |-> r.error]
  BY <1>2 DEF Mirror
<1> QED
  BY <1>2, <1>3, <1>4 DEF Rows, Sources

(* What a committed synchronization leaves.                                *)
LEMMA SynchronizeSound ==
  ASSUME Parts, NEW r, r # None => SoundIn(file, count.writes, r),
         NEW g \in {gen, None}, NEW due \in BOOLEAN, Synchronize(r, g, due)
  PROVE  /\ row' = r /\ pending' = due
         /\ gen' \in Generations \cup {None} /\ GenerationIn(gen')
         /\ past' \subseteq Seqs /\ past \subseteq past'
         /\ source' \in Sources \cup {None}
         /\ SourceIn(file, count.writes, source', gen')
         /\ Synced(r, g) => /\ gen' # None /\ gen'.events = r.ck.text
                            /\ file # None /\ IsPrefix(r.ck.text, file.text)
         /\ ~Synced(r, g) => gen' = g
         /\ gen # None /\ (g = gen \/ Synced(r, g)) =>
              \/ gen' # None /\ IsPrefix(gen.events, gen'.events)
              \/ gen.events \in past'
<1>1. GenerationIn(g) /\ g \in Generations \cup {None} /\ GenerationIn(gen)
  BY DEF Parts, GenOK, GenerationIn, TypeOK
<1>2. /\ row' = r /\ pending' = due
      /\ gen' = IF Synced(r, g) THEN Generation(r, g) ELSE g
      /\ Synced(r, g) => Verified(r)
      /\ past' = past \cup (IF g # gen THEN Superseded(gen) ELSE {})
                      \cup (IF Synced(r, g) /\ Replaces(r, g) THEN Superseded(g) ELSE {})
      /\ source' = IF Observed(r) /\ ~(r.missing /\ gen' = None) THEN Mirror(r)
                   ELSE IF source = None \/ gen' = None THEN None
                   ELSE [source EXCEPT !.missing = TRUE]
  BY DEF Synchronize, Synced
<1>3. Observed(r) => r # None /\ SoundIn(file, count.writes, r) /\ r \in Rows
  BY DEF Observed, SoundIn
<1>4. ASSUME Synced(r, g)
      PROVE  /\ gen' \in Generations /\ gen'.text = r.ck.text /\ gen'.events = r.ck.text
             /\ file # None /\ IsPrefix(r.ck.text, file.text)
             /\ ~Replaces(r, g) => g # None /\ IsPrefix(g.events, r.ck.text)
  BY <1>1, <1>2, <1>3, <1>4, GenerationSound DEF Synced
<1>5. gen' \in Generations \cup {None} /\ GenerationIn(gen')
  BY <1>1, <1>2, <1>4 DEF GenerationIn
<1>6. past' \subseteq Seqs /\ past \subseteq past'
  <2>1. past \subseteq Seqs
    BY DEF Parts, TypeOK
  <2>2. Superseded(gen) \subseteq Seqs /\ Superseded(g) \subseteq Seqs
    BY <1>1 DEF Superseded, GenerationIn, Generations
  <2> QED
    BY <1>2, <2>1, <2>2
<1>7. source' \in Sources \cup {None}
  <2>1. source # None => [source EXCEPT !.missing = TRUE] \in Sources
    BY DEF Parts, TypeOK, Sources
  <2> QED
    BY <1>2, <1>3, <2>1, MirrorFacts
<1>8. SourceIn(file, count.writes, source', gen')
  <2> SUFFICES ASSUME source' # None, gen' # None, source'.error = "none", ~source'.missing,
                      source'.ino # None
               PROVE  SampledIn(file, count.writes, source'.ino, source'.mtime, gen'.text)
    BY DEF SourceIn
  <2>1. source' = Mirror(r) /\ Observed(r)
    <3>1. ~(source # None /\ source' = [source EXCEPT !.missing = TRUE])
      BY DEF Parts, TypeOK, Sources
    <3> QED
      BY <1>2, <3>1
  <2>2. /\ r.ck # None /\ r.error = "none" /\ ~r.missing
        /\ source'.ino = r.ck.ino /\ source'.mtime = r.mtime
    BY <1>3, <2>1, MirrorFacts
  <2>3. gen'.text = r.ck.text
    BY <1>2, <1>4, <2>1, <2>2 DEF Synced, NeedsSync
  <2> QED
    BY <1>3, <2>1, <2>2, <2>3 DEF SoundIn
<1>9. ASSUME gen # None, g = gen \/ Synced(r, g)
      PROVE  \/ gen' # None /\ IsPrefix(gen.events, gen'.events)
             \/ gen.events \in past'
  <2>1. CASE g # gen
    BY <1>2, <1>9, <2>1 DEF Superseded
  <2>2. CASE g = gen /\ ~Synced(r, g)
    <3>1. gen.events \in Seq(Cells)
      BY <1>1, <1>9, SeqsFacts DEF GenerationIn, Generations
    <3> QED
      BY <1>2, <1>9, <2>2, <3>1, PrefixSelf
  <2>3. CASE g = gen /\ Synced(r, g) /\ Replaces(r, g)
    BY <1>2, <1>9, <2>3 DEF Superseded
  <2>4. CASE g = gen /\ Synced(r, g) /\ ~Replaces(r, g)
    BY <1>4, <1>5, <2>4, NoneAssumption
  <2> QED
    BY <1>9, <2>1, <2>2, <2>3, <2>4
<1> QED
  BY <1>2, <1>4, <1>5, <1>6, <1>7, <1>8, <1>9, NoneAssumption

-----------------------------------------------------------------------------
(* The steps.  Trusted is what TrustIsEarned says of one.                  *)
Trusted ==
  /\ past \subseteq past'
  /\ gen # None => \/ gen' # None /\ IsPrefix(gen.events, gen'.events)
                   \/ gen.events \in past'
  /\ gen' # gen => file # None /\ IsPrefix(gen'.events, file.text)
  /\ pending /\ (~pending' \/ gen' # gen) =>
       job.at = "install" /\ stage.live /\ gen'.events = file.text

LEMMA TrustKept ==
  ASSUME Parts, UNCHANGED <<gen, past>>, pending => pending'
  PROVE  Trusted
<1>1. gen # None => gen.events \in Seq(Cells)
  BY SeqsFacts DEF Parts, TypeOK, Generations
<1>2. gen # None => IsPrefix(gen.events, gen.events)
  BY <1>1, PrefixSelf
<1> QED
  BY <1>2 DEF Trusted

LEMMA PartsKept ==
  ASSUME Parts, UNCHANGED file, count'.writes = count.writes
  PROVE  /\ FileOK'
         /\ UNCHANGED row => RowOK'
         /\ UNCHANGED stage => StageOK'
         /\ UNCHANGED gen => GenOK'
         /\ UNCHANGED <<source, gen>> => SourceOK'
BY DEF Parts, FileOK, RowOK, StageOK, GenOK, SourceOK

LEMMA IdleFacts ==
  /\ Idle \in Jobs /\ Idle.at = "idle" /\ Idle.who = "capture"
  /\ \A f, n, parsed : JobIn(f, n, Idle, parsed)
<1>1. Idle \in Jobs /\ Idle.at = "idle" /\ Idle.who = "capture" /\ Idle.entry = None
  BY DEF Idle, Jobs
<1> QED
  BY <1>1 DEF JobIn, EntryIn, Working

LEMMA IdleJob ==
  ASSUME job' = Idle
  PROVE  JobOK' /\ job' \in Jobs
<1>1. \A f, n, parsed : JobIn(f, n, job', parsed)
  BY IdleFacts
<1> QED
  BY <1>1, IdleFacts DEF JobOK

(* An invalidated source is no longer reported as covered.                 *)
LEMMA InvalidateKeeps ==
  ASSUME Parts, Invalidate
  PROVE  Parts' /\ Trusted
<1> USE DEF Parts
<1>1. /\ job.at \in {"idle", "sync"} /\ row # None
      /\ epoch' = epoch + 1 /\ epoch < MaxEpoch /\ pending' = TRUE
      /\ stage' = None /\ barred' = FALSE
      /\ UNCHANGED <<file, gen, past, queued, job, count>>
  BY DEF Invalidate
<1>2. PICK error : error = IF row.error = "other" THEN "other" ELSE "stale"
  OBVIOUS
<1>3. /\ row' = [row EXCEPT !.error = error]
      /\ source' = IF source = None THEN None ELSE [source EXCEPT !.error = error]
  BY <1>2 DEF Invalidate
<1>4. error \in Errors /\ error # "none"
  BY <1>2 DEF Errors
<1>5. /\ row' \in Rows /\ row'.ck = row.ck /\ row'.records = row.records
      /\ row'.error = error
  BY <1>1, <1>3, <1>4 DEF TypeOK, Rows
<1>6. /\ source' \in Sources \cup {None}
      /\ source' # None => source'.error = error
  <2>1. source # None => source \in Sources
    BY DEF TypeOK
  <2>2. CASE source # None
    <3>1. source' = [source EXCEPT !.error = error]
      BY <1>3, <2>2
    <3> QED
      BY <1>4, <2>1, <2>2, <3>1 DEF Sources
  <2>3. CASE source = None
    BY <1>3, <2>3
  <2> QED
    BY <2>2, <2>3
<1>7. TypeOK'
  <2>1. epoch' \in 0..MaxEpoch
    BY <1>1, ParameterAssumption DEF TypeOK
  <2> QED
    BY <1>1, <1>5, <1>6, <2>1 DEF TypeOK
<1>8. RowOK'
  BY <1>1, <1>4, <1>5 DEF RowOK, SoundIn
<1>9. SourceOK' /\ StageOK' /\ FileOK' /\ GenOK'
  BY <1>1, <1>4, <1>6, PartsKept DEF SourceOK, SourceIn, StageOK
<1>10. JobOK'
  BY <1>1 DEF JobOK, JobIn, Working
<1> QED
  BY <1>1, <1>7, <1>8, <1>9, <1>10, TrustKept

LEMMA CrashKeeps ==
  ASSUME Parts, Crash
  PROVE  Parts' /\ Trusted
<1> USE DEF Parts
<1>1. /\ job' = Idle /\ queued' = FALSE /\ barred' = FALSE
      /\ UNCHANGED <<file, row, source, gen, past, epoch, pending, stage>>
  BY DEF Crash, ledger
<1>2. count'.writes = count.writes /\ count' \in [writes : Times, failures : 0..MaxFailures]
  BY ParameterAssumption DEF Crash, Spend, TypeOK
<1>3. TypeOK'
  BY <1>1, <1>2, IdleJob DEF TypeOK
<1> QED
  BY <1>1, <1>2, <1>3, IdleJob, PartsKept, TrustKept

LEMMA GiveUpKeeps ==
  ASSUME Parts, NEW forGood \in BOOLEAN, GiveUp(forGood)
  PROVE  Parts' /\ Trusted
<1> USE DEF Parts
<1>1. /\ job' = Idle /\ queued' = FALSE /\ barred' = forGood
      /\ UNCHANGED <<file, row, source, gen, past, epoch, pending, stage, count>>
  BY DEF GiveUp, ledger
<1>2. TypeOK'
  BY <1>1, IdleJob DEF TypeOK
<1> QED
  BY <1>1, <1>2, IdleJob, PartsKept, TrustKept

(* Only the job changes, to one of the same kind.                          *)
LEMMA JobKeeps ==
  ASSUME Parts, job' \in Jobs, job'.who = job.who, job'.at # "clean",
         JobIn(file, count.writes, job', IF job.who = "capture" THEN row ELSE StagedRow),
         UNCHANGED <<file, ledger, stage, queued, barred>>,
         count'.writes = count.writes, count' \in [writes : Times, failures : 0..MaxFailures]
  PROVE  Parts' /\ Trusted
<1> USE DEF Parts
<1>1. UNCHANGED <<file, row, source, gen, past, epoch, pending, stage, queued, barred>>
  BY DEF ledger
<1>2. TypeOK'
  BY <1>1 DEF TypeOK
<1>3. JobOK'
  BY <1>1 DEF JobOK, StagedRow
<1> QED
  BY <1>1, <1>2, <1>3, PartsKept, TrustKept

LEMMA JobFacts ==
  ASSUME Parts, job.at \in Working
  PROVE  /\ job \in Jobs
         /\ job.entry \in Stats /\ job.entry # None
         /\ EntryIn(file, count.writes, job.entry)
         /\ job.ck # None => job.ck \in Checkpoints
         /\ job.who = "capture" => /\ row # None /\ SoundIn(file, count.writes, row)
                                   /\ job.at \in {"open", "seal", "record"} /\ job.ck # None =>
                                        job.ck = row.ck
         /\ job.who # "capture" =>
              /\ stage \in Stages /\ stage # None /\ stage.row # None /\ ~stage.row.missing
              /\ SoundIn(file, count.writes, stage.row)
              /\ job.at \in {"open", "seal", "record"} /\ job.ck # None =>
                   job.ck = stage.row.ck
         /\ JobIn(file, count.writes, job, IF job.who = "capture" THEN row ELSE StagedRow)
<1>1. JobIn(file, count.writes, job, IF job.who = "capture" THEN row ELSE StagedRow)
  BY DEF Parts, JobOK
<1>2. job \in Jobs /\ job.entry \in Stats /\ job.entry # None
  BY <1>1 DEF Parts, TypeOK, Jobs, JobIn
<1>3. EntryIn(file, count.writes, job.entry) /\ (job.ck # None => job.ck \in Checkpoints)
  BY <1>1, <1>2 DEF JobIn, Jobs
<1>4. job.who = "capture" => /\ row # None /\ SoundIn(file, count.writes, row)
                             /\ job.at \in {"open", "seal", "record"} /\ job.ck # None =>
                                  job.ck = row.ck
  BY <1>1 DEF JobIn, Parts, RowOK
<1>5. job.who # "capture" =>
        /\ stage # None /\ stage.row # None
        /\ job.at \in {"open", "seal", "record"} /\ job.ck # None => job.ck = stage.row.ck
  BY <1>1 DEF JobIn, StagedRow
<1> QED
  BY <1>1, <1>2, <1>3, <1>4, <1>5 DEF Parts, StageOK, TypeOK

LEMMA OpenFailsKeeps ==
  ASSUME Parts, OpenFails
  PROVE  Parts' /\ Trusted
<1>1. /\ job.at = "open" /\ job' = [job EXCEPT !.at = "record", !.result = [kind |-> "error"]]
      /\ UNCHANGED <<file, ledger, stage, queued, barred>>
  BY DEF OpenFails
<1>2. count'.writes = count.writes /\ count' \in [writes : Times, failures : 0..MaxFailures]
  BY ParameterAssumption DEF OpenFails, Spend, Parts, TypeOK
<1>3. PICK result : result = [kind |-> "error"]
  OBVIOUS
<1>4. result \in Results /\ result.kind = "error"
  BY <1>3 DEF Results
<1>5. /\ job' \in Jobs /\ job'.at = "record" /\ job'.who = job.who /\ job'.result = result
      /\ job'.entry = job.entry /\ job'.ck = job.ck /\ job'.before = job.before
  BY <1>1, <1>3, <1>4 DEF Parts, TypeOK, Jobs
<1>6. JobIn(file, count.writes, job', IF job.who = "capture" THEN row ELSE StagedRow)
  BY <1>1, <1>4, <1>5, JobFacts, NoneAssumption DEF JobIn, Working, Kinds, StagedRow
<1> QED
  BY <1>1, <1>2, <1>5, <1>6, JobKeeps

LEMMA OpenKeeps ==
  ASSUME Parts, Open
  PROVE  Parts' /\ Trusted
<1>1. /\ job.at = "open" /\ file # None /\ Len(file.text) >= job.entry.size
      /\ UNCHANGED <<file, ledger, stage, queued, barred, count>>
  BY DEF Open
<1>2. /\ job \in Jobs /\ job.entry \in Stats /\ job.entry # None
      /\ EntryIn(file, count.writes, job.entry)
      /\ job.ck # None => job.ck \in Checkpoints
      /\ JobIn(file, count.writes, job, IF job.who = "capture" THEN row ELSE StagedRow)
  BY <1>1, JobFacts DEF Working
<1>3. count' \in [writes : Times, failures : 0..MaxFailures] /\ count'.writes = count.writes
  BY <1>1 DEF Parts, TypeOK
<1>4. CASE job' = [job EXCEPT !.at = "record", !.result = [kind |-> "stale"]]
  <2>1. PICK result : result = [kind |-> "stale"]
    OBVIOUS
  <2>2. result \in Results /\ result.kind = "stale"
    BY <2>1 DEF Results
  <2>3. /\ job' \in Jobs /\ job'.at = "record" /\ job'.who = job.who /\ job'.result = result
        /\ job'.entry = job.entry /\ job'.ck = job.ck /\ job'.before = job.before
    BY <1>2, <1>4, <2>1, <2>2 DEF Jobs
  <2>4. JobIn(file, count.writes, job', IF job.who = "capture" THEN row ELSE StagedRow)
    BY <1>1, <1>2, <2>2, <2>3, NoneAssumption DEF JobIn, Working, Kinds
  <2> QED
    BY <1>1, <1>3, <2>3, <2>4, JobKeeps
<1>5. CASE ~(job.ck # None /\ ~Matches(job.ck) /\ job.who = "capture")
  <2>1. PICK continued \in BOOLEAN : continued = (job.ck # None /\ Matches(job.ck))
    OBVIOUS
  <2>2. PICK start : start = IF continued THEN Len(job.ck.text) ELSE 0
    OBVIOUS
  <2>3. PICK upto \in 0..Len(file.text) :
          /\ Reaches(file.text, start, job.entry.size, Quantum, upto)
          /\ job' = [job EXCEPT !.at = "seal",
               !.result = [kind |-> IF continued THEN "append" ELSE "full",
                           ino |-> file.ino, text |-> SubSeq(file.text, 1, upto)]]
    BY <1>5, <2>1, <2>2 DEF Open
  <2>4. file.text \in Texts /\ file.text \in Seq(Cells) /\ file.ino \in Inodes
    BY <1>1, SeqsFacts DEF Parts, TypeOK, Files
  <2>5. PICK text : text = SubSeq(file.text, 1, upto)
    OBVIOUS
  <2>6. /\ text \in Seqs /\ text \in Seq(Cells) /\ Len(text) = upto
        /\ IsPrefix(text, file.text)
    BY <2>3, <2>4, <2>5, SeqsFacts, PrefixFacts
  <2>7. continued => /\ job.ck # None /\ IsPrefix(job.ck.text, file.text)
                     /\ job.ck.text \in Seq(Cells)
    BY <1>2, <2>1, SeqsFacts DEF Matches, Checkpoints
  <2>8. continued => IsPrefix(job.ck.text, text)
    <3> SUFFICES ASSUME continued PROVE IsPrefix(job.ck.text, text)
      OBVIOUS
    <3>1. start = Len(job.ck.text) /\ start \in Nat
      BY <2>2, <2>7
    <3>2. upto >= start
      BY <2>3, <3>1 DEF Reaches
    <3> QED
      BY <2>4, <2>6, <2>7, <3>1, <3>2, PrefixBetween
  <2>9. PICK result : result = [kind |-> IF continued THEN "append" ELSE "full",
                                ino |-> file.ino, text |-> text]
    OBVIOUS
  <2>10. /\ result \in Results /\ result.kind \in Kinds /\ result.ino = file.ino
         /\ result.text = text /\ (result.kind = "append" <=> continued)
    BY <2>4, <2>6, <2>9 DEF Results, Contents, Kinds
  <2>11. /\ job' \in Jobs /\ job'.at = "seal" /\ job'.who = job.who /\ job'.result = result
         /\ job'.entry = job.entry /\ job'.ck = job.ck /\ job'.before = job.before
    BY <1>2, <2>3, <2>5, <2>9, <2>10 DEF Jobs
  <2>12. SampledIn(file, count.writes, result.ino, job.entry.mtime, text)
    <3>1. file.ino \in Nat
      BY <2>4, NumberFacts
    <3> QED
      BY <1>2, <2>6, <2>10, <3>1 DEF SampledIn, EntryIn
  <2>13. JobIn(file, count.writes, job', IF job.who = "capture" THEN row ELSE StagedRow)
    BY <1>1, <1>2, <2>7, <2>8, <2>10, <2>11, <2>12, NoneAssumption DEF JobIn, Working
  <2> QED
    BY <1>1, <1>3, <2>11, <2>13, JobKeeps
<1> QED
  BY <1>4, <1>5 DEF Open

LEMMA SealKeeps ==
  ASSUME Parts, Seal
  PROVE  Parts' /\ Trusted
<1>1. job.at = "seal" /\ UNCHANGED <<file, ledger, stage, queued, barred, count>>
  BY DEF Seal
<1>2. /\ job \in Jobs
      /\ JobIn(file, count.writes, job, IF job.who = "capture" THEN row ELSE StagedRow)
  BY <1>1, JobFacts DEF Working
<1>3. count' \in [writes : Times, failures : 0..MaxFailures] /\ count'.writes = count.writes
  BY <1>1 DEF Parts, TypeOK
<1>4. CASE job' = [job EXCEPT !.at = "record"]
  <2>1. /\ job' \in Jobs /\ job'.at = "record" /\ job'.who = job.who
        /\ job'.result = job.result /\ job'.entry = job.entry /\ job'.ck = job.ck /\ job'.before = job.before
    BY <1>2, <1>4 DEF Jobs
  <2>2. JobIn(file, count.writes, job', IF job.who = "capture" THEN row ELSE StagedRow)
    BY <1>1, <1>2, <2>1 DEF JobIn, Working
  <2> QED
    BY <1>1, <1>3, <2>1, <2>2, JobKeeps
<1>5. CASE job' = [job EXCEPT !.at = "open", !.result = None]
  <2>1. /\ job' \in Jobs /\ job'.at = "open" /\ job'.who = job.who
        /\ job'.entry = job.entry /\ job'.ck = job.ck /\ job'.before = job.before
    BY <1>2, <1>5 DEF Jobs
  <2>2. JobIn(file, count.writes, job', IF job.who = "capture" THEN row ELSE StagedRow)
    BY <1>1, <1>2, <2>1 DEF JobIn, Working
  <2> QED
    BY <1>1, <1>3, <2>1, <2>2, JobKeeps
<1>6. CASE job' = [job EXCEPT !.at = "record", !.result = [kind |-> "error"]]
  <2>1. PICK result : result = [kind |-> "error"]
    OBVIOUS
  <2>2. result \in Results /\ result.kind = "error"
    BY <2>1 DEF Results
  <2>3. /\ job' \in Jobs /\ job'.at = "record" /\ job'.who = job.who /\ job'.result = result
        /\ job'.entry = job.entry /\ job'.ck = job.ck /\ job'.before = job.before
    BY <1>2, <1>6, <2>1, <2>2 DEF Jobs
  <2>4. JobIn(file, count.writes, job', IF job.who = "capture" THEN row ELSE StagedRow)
    BY <1>1, <1>2, <2>2, <2>3, NoneAssumption DEF JobIn, Working, Kinds
  <2> QED
    BY <1>1, <1>3, <2>3, <2>4, JobKeeps
<1> QED
  BY <1>4, <1>5, <1>6 DEF Seal

LEMMA BeginCaptureKeeps ==
  ASSUME Parts, BeginCapture
  PROVE  Parts' /\ Trusted
<1> USE DEF Parts
<1>1. /\ job.at = "idle"
      /\ UNCHANGED <<file, source, gen, past, epoch, pending, stage, queued, barred, count>>
  BY DEF BeginCapture
<1>2. PICK e : e = Stat
  OBVIOUS
<1>3. PICK r : r = IF e # None THEN Upserted(row, e)
                   ELSE IF row = None THEN None ELSE [row EXCEPT !.missing = TRUE]
  OBVIOUS
<1>4. PICK at, ck, result :
        /\ row' = r
        /\ job' = [Idle EXCEPT !.at = at, !.entry = e, !.ck = ck, !.result = result]
        /\ at \in {"sync", "open", "record"}
        /\ at = "open" => e # None /\ ck \in {None, r.ck}
        /\ at # "open" => ck = None
        /\ at = "record" => e # None /\ result = [kind |-> "stale"]
        /\ at # "record" => result = None
  <2>1. /\ row' = r
        /\ \/ job' = [Idle EXCEPT !.at = "sync", !.entry = e, !.ck = None, !.result = None]
           \/ /\ e # None
              /\ \/ job' = [Idle EXCEPT !.at = "open", !.entry = e, !.ck = None,
                                        !.result = None]
                 \/ job' = [Idle EXCEPT !.at = "open", !.entry = e, !.ck = r.ck,
                                        !.result = None]
                 \/ job' = [Idle EXCEPT !.at = "record", !.entry = e, !.ck = None,
                                        !.result = [kind |-> "stale"]]
    BY <1>2, <1>3 DEF BeginCapture
  <2> QED
    BY <2>1
<1>5. e # None => file # None
  BY <1>2 DEF Stat
<1>6. e # None => e \in Stats /\ <<>> \in Seqs /\ EntryIn(file, count.writes, e)
  BY <1>2, <1>5, StatFacts
<1>7. r # None => SoundIn(file, count.writes, r)
  <2>1. CASE e # None
    BY <1>3, <1>6, <2>1, UpsertedSound DEF RowOK
  <2>2. CASE e = None /\ row # None
    <3>1. r = [row EXCEPT !.missing = TRUE] /\ SoundIn(file, count.writes, row)
      BY <1>3, <2>2 DEF RowOK
    <3>2. r \in Rows /\ r.ck = row.ck /\ r.records = row.records /\ r.error = row.error
          /\ r.mtime = row.mtime
      BY <3>1 DEF SoundIn, Rows
    <3> QED
      BY <3>1, <3>2 DEF SoundIn
  <2> QED
    BY <1>3, <2>1, <2>2
<1>8. e # None => r # None
  BY <1>3, <1>6, UpsertedSound, NoneAssumption DEF RowOK, SoundIn
<1>9. RowOK'
  BY <1>1, <1>4, <1>7 DEF RowOK
<1>10. r # None => r \in Rows /\ r.ck \in Checkpoints \cup {None}
  BY <1>7 DEF SoundIn, Rows
<1>11. result \in Results \cup {None} /\ (at = "record" => result # None /\ result.kind = "stale")
  BY <1>4, NoneAssumption DEF Results
<1>12. ck \in Checkpoints \cup {None} /\ e \in Stats \cup {None}
  BY <1>4, <1>6, <1>8, <1>10
<1>13. /\ job' \in Jobs /\ job'.at = at /\ job'.entry = e /\ job'.ck = ck
       /\ job'.result = result /\ job'.who = "capture"
  BY <1>4, <1>11, <1>12 DEF Idle, Jobs
<1>14. EntryIn(file, count.writes, e)
  BY <1>6 DEF EntryIn
<1>15. JobIn(file, count.writes, job', r)
  BY <1>4, <1>8, <1>11, <1>13, <1>14 DEF JobIn, Working, Kinds
<1>16. JobOK'
  BY <1>1, <1>4, <1>13, <1>15 DEF JobOK
<1>17. TypeOK'
  BY <1>1, <1>4, <1>10, <1>13 DEF TypeOK
<1> QED
  BY <1>1, <1>9, <1>16, <1>17, PartsKept, TrustKept

(* A parse result is committed: the row is that of the content parsed.     *)
LEMMA RecordKeeps ==
  ASSUME Parts, Record
  PROVE  Parts' /\ Trusted
<1> USE DEF Parts
<1>1. /\ job.at = "record" /\ job.who = "capture"
      /\ row' = Parsed(row, job.entry, job.result)
      /\ job' = [job EXCEPT !.at = "sync"]
      /\ UNCHANGED <<file, source, gen, past, epoch, pending, queued, count>>
  BY DEF Record
<1>2. /\ job \in Jobs /\ job.entry \in Stats /\ EntryIn(file, count.writes, job.entry)
      /\ row # None /\ SoundIn(file, count.writes, row)
      /\ job.ck # None => job.ck = row.ck
      /\ JobIn(file, count.writes, job, row)
  BY <1>1, JobFacts DEF Working
<1>3. job.result \in Results
  BY <1>1, <1>2 DEF JobIn, Jobs
<1>4. SoundIn(file, count.writes, row')
  <2>1. job.result.kind \in Kinds =>
          SampledIn(file, count.writes, job.result.ino, job.entry.mtime, job.result.text)
    BY <1>1, <1>2 DEF JobIn
  <2>2. job.result.kind = "append" =>
          job.ck # None /\ job.ck = row.ck /\ IsPrefix(job.ck.text, job.result.text)
    BY <1>1, <1>2 DEF JobIn
  <2> QED
    BY <1>1, <1>2, <1>3, <2>1, <2>2, ParsedSound
<1>5. /\ stage' \in Stages \cup {None}
      /\ stage' # None => stage # None /\ stage'.row = stage.row
  <2>1. \/ stage' = stage
        \/ stage # None /\ stage' = [stage EXCEPT !.live = FALSE]
    BY DEF Record
  <2> QED
    BY <2>1, NoneAssumption DEF TypeOK, Stages
<1>6. StageOK'
  BY <1>1, <1>5 DEF StageOK
<1>7. /\ job' \in Jobs /\ job'.at = "sync" /\ job'.entry = job.entry
      /\ job'.who = "capture"
  BY <1>1, <1>2 DEF Jobs
<1>8. \A parsed : JobIn(file, count.writes, job', parsed)
  BY <1>2, <1>7 DEF JobIn, Working
<1>9. JobOK'
  BY <1>1, <1>7, <1>8 DEF JobOK
<1>10. barred' \in BOOLEAN
  BY DEF Record, TypeOK
<1>11. row' \in Rows
  BY <1>4 DEF SoundIn
<1>12. TypeOK'
  BY <1>1, <1>5, <1>7, <1>10, <1>11 DEF TypeOK
<1>13. RowOK'
  BY <1>1, <1>4 DEF RowOK
<1> QED
  BY <1>1, <1>6, <1>9, <1>12, <1>13, PartsKept, TrustKept

(* The capture's end: nothing is synchronized while a repair is pending.   *)
LEMMA SyncKeeps ==
  ASSUME Parts, Sync
  PROVE  Parts' /\ Trusted
<1> USE DEF Parts
<1>1. job' = Idle /\ UNCHANGED <<file, epoch, stage, count>>
  BY DEF Sync
<1>2. PICK r : r = IF row = None THEN None ELSE Reported(row, pending)
  OBVIOUS
<1>3. CASE UNCHANGED <<ledger, queued, barred>>
  <2>1. UNCHANGED <<row, source, gen, past, pending, queued, barred>>
    BY <1>3 DEF ledger
  <2>2. TypeOK'
    BY <1>1, <2>1, IdleJob DEF TypeOK
  <2> QED
    BY <1>1, <2>1, <2>2, IdleJob, PartsKept, TrustKept
<1>4. CASE Synchronize(r, gen, pending)
  <2>1. r # None => SoundIn(file, count.writes, r)
    BY <1>2, ReportedSound DEF RowOK, TypeOK
  <2>2. pending => ~Synced(r, gen)
    <3>1. r # None => r = Reported(row, pending) /\ row # None
      BY <1>2
    <3>2. pending /\ r # None => r.error # "none"
      BY <3>1, ReportedSound DEF RowOK, TypeOK
    <3> QED
      BY <3>2 DEF Synced, Observed, NeedsSync
  <2>3. pending \in BOOLEAN
    BY DEF TypeOK
  <2>4. /\ row' = r /\ pending' = pending
        /\ gen' \in Generations \cup {None} /\ GenerationIn(gen')
        /\ past' \subseteq Seqs /\ past \subseteq past'
        /\ source' \in Sources \cup {None}
        /\ SourceIn(file, count.writes, source', gen')
        /\ Synced(r, gen) => /\ gen' # None /\ gen'.events = r.ck.text
                             /\ file # None /\ IsPrefix(r.ck.text, file.text)
        /\ ~Synced(r, gen) => gen' = gen
        /\ gen # None => \/ gen' # None /\ IsPrefix(gen.events, gen'.events)
                         \/ gen.events \in past'
    BY <1>4, <2>1, <2>3, SynchronizeSound
  <2>5. r \in Rows \cup {None}
    BY <2>1 DEF SoundIn
  <2>6. queued' \in BOOLEAN /\ barred' \in BOOLEAN
    BY <1>2 DEF Sync, TypeOK, Stale, ledger
  <2>7. TypeOK'
    BY <1>1, <2>4, <2>5, <2>6, IdleJob DEF TypeOK
  <2>8. RowOK' /\ GenOK' /\ SourceOK'
    BY <1>1, <2>1, <2>4 DEF RowOK, GenOK, SourceOK
  <2>9. Trusted
    BY <2>2, <2>4 DEF Trusted
  <2> QED
    BY <1>1, <2>7, <2>8, <2>9, IdleJob, PartsKept
<1> QED
  BY <1>2, <1>3, <1>4 DEF Sync

-----------------------------------------------------------------------------
(* The slices: only the staging database and the job change.               *)
LEMMA StagedKeeps ==
  ASSUME Parts, stage' \in Stages, stage'.row # None, ~stage'.row.missing,
         SoundIn(file, count.writes, stage'.row), stage' # None,
         job' \in Jobs, job'.who = "slice" \/ job' = Idle, job'.at # "clean",
         JobIn(file, count.writes, job', stage'.row),
         queued' \in BOOLEAN, barred' \in BOOLEAN,
         UNCHANGED <<file, ledger, count>>
  PROVE  Parts' /\ Trusted
<1> USE DEF Parts
<1>1. UNCHANGED <<file, row, source, gen, past, epoch, pending, count>>
  BY DEF ledger
<1>2. TypeOK'
  BY <1>1 DEF TypeOK
<1>3. JobOK'
  <2>1. CASE job' = Idle
    BY <2>1, IdleJob
  <2>2. CASE job'.who = "slice"
    BY <1>1, <2>2 DEF JobOK, StagedRow
  <2> QED
    BY <2>1, <2>2
<1>4. StageOK'
  BY <1>1 DEF StageOK
<1> QED
  BY <1>1, <1>2, <1>3, <1>4, PartsKept, TrustKept

LEMMA BoundFacts ==
  ASSUME Parts
  PROVE  /\ Bound.live \in BOOLEAN /\ Bound.header \in Cells \cup {None}
         /\ Bound = [live |-> Bound.live, header |-> Bound.header, row |-> Bound.row]
         /\ Bound.row = StagedRow
<1> USE DEF Parts
<1>1. CASE stage = None
  BY <1>1 DEF Bound, StagedRow
<1>2. CASE stage # None /\ Bound = stage
  BY <1>2 DEF StagedRow, TypeOK, Stages
<1>3. CASE stage # None /\ Bound # stage
  <2>1. /\ stage.row.ck # None /\ stage.row.ck.text # <<>>
        /\ Bound = [stage EXCEPT !.header = stage.row.ck.text[1]]
    BY <1>3 DEF Bound
  <2>2. stage.row \in Rows /\ stage \in Stages
    BY <1>3 DEF StageOK, SoundIn, TypeOK
  <2>3. stage.row.ck \in Checkpoints
    BY <2>1, <2>2 DEF Rows
  <2>4. stage.row.ck.text \in Seq(Cells)
    BY <2>3, SeqsFacts DEF Checkpoints
  <2>5. PICK header : header = stage.row.ck.text[1]
    OBVIOUS
  <2>6. header \in Cells
    BY <2>1, <2>4, <2>5
  <2>7. Bound = [stage EXCEPT !.header = header]
    BY <2>1, <2>5
  <2> QED
    BY <1>3, <2>2, <2>6, <2>7 DEF StagedRow, Stages
<1> QED
  BY <1>1, <1>2, <1>3

LEMMA BeginSliceKeeps ==
  ASSUME Parts, BeginSlice
  PROVE  Parts' /\ Trusted
<1>1. CASE \E forGood \in BOOLEAN : GiveUp(forGood)
  BY <1>1, GiveUpKeeps
<1>2. CASE ~\E forGood \in BOOLEAN : GiveUp(forGood)
  <2>1. PICK e : e = Stat
    OBVIOUS
  <2>2. PICK r : r = Upserted(Bound.row, e)
    OBVIOUS
  <2>3. /\ file # None
        /\ stage' = [Bound EXCEPT !.row = r]
        /\ job' = [Idle EXCEPT !.who = "slice", !.entry = e,
             !.at = IF Reusable(r, e) THEN "check" ELSE "open",
             !.ck = IF Eligible(r, e) THEN r.ck ELSE None,
             !.before = IF r.ck = None THEN 0 ELSE Len(r.ck.text)]
        /\ UNCHANGED <<file, ledger, queued, barred, count>>
    BY <1>2, <2>1, <2>2 DEF BeginSlice
  <2>4. e \in Stats /\ e # None /\ EntryIn(file, count.writes, e) /\ <<>> \in Seqs
    BY <2>1, <2>3, StatFacts
  <2>5. Bound.row # None => SoundIn(file, count.writes, Bound.row) /\ ~Bound.row.missing
    BY BoundFacts DEF Parts, StageOK, StagedRow
  <2>6. SoundIn(file, count.writes, r) /\ ~r.missing /\ r \in Rows /\ r # None
    <3>1. SoundIn(file, count.writes, r) /\ ~r.missing
      BY <2>2, <2>4, <2>5, UpsertedSound
    <3> QED
      BY <3>1, NoneAssumption DEF SoundIn
  <2>7. stage' \in Stages /\ stage'.row = r
    <3>1. stage' = [live |-> Bound.live, header |-> Bound.header, row |-> r]
      BY <2>3, BoundFacts
    <3> QED
      BY <2>6, <3>1, BoundFacts DEF Stages
  <2>8. PICK at, ck, before :
          /\ at = IF Reusable(r, e) THEN "check" ELSE "open"
          /\ ck = IF Eligible(r, e) THEN r.ck ELSE None
          /\ before = IF r.ck = None THEN 0 ELSE Len(r.ck.text)
    OBVIOUS
  <2>9. r.ck \in Checkpoints \cup {None}
    BY <2>6 DEF Rows
  <2>10. at \in {"check", "open"} /\ ck \in Checkpoints \cup {None} /\ before \in Nat
    <3>1. r.ck # None => r.ck.text \in Seq(Cells)
      BY <2>9, SeqsFacts DEF Checkpoints
    <3>2. r.ck # None => Len(r.ck.text) \in Nat
      BY <3>1
    <3> QED
      BY <2>8, <2>9, <3>2
  <2>11. /\ job' \in Jobs /\ job'.at = at /\ job'.who = "slice" /\ job'.entry = e
         /\ job'.ck = ck /\ job'.before = before
    BY <2>3, <2>4, <2>8, <2>10 DEF Idle, Jobs
  <2>12. JobIn(file, count.writes, job', r)
    BY <2>4, <2>6, <2>8, <2>10, <2>11 DEF JobIn, Working
  <2>13. queued' \in BOOLEAN /\ barred' \in BOOLEAN
    BY <2>3 DEF Parts, TypeOK
  <2> QED
    BY <2>3, <2>6, <2>7, <2>10, <2>11, <2>12, <2>13, NoneAssumption, StagedKeeps
<1> QED
  BY <1>1, <1>2

LEMMA RecordStagedKeeps ==
  ASSUME Parts, RecordStaged
  PROVE  Parts' /\ Trusted
<1>1. /\ job.at = "record" /\ job.who = "slice"
      /\ stage' = [stage EXCEPT !.row = Parsed(@, job.entry, job.result)]
      /\ job' = [job EXCEPT !.at = "check"]
      /\ UNCHANGED <<file, ledger, queued, barred, count>>
  BY DEF RecordStaged
<1>2. /\ job \in Jobs /\ job.entry \in Stats /\ job.entry # None
      /\ EntryIn(file, count.writes, job.entry)
      /\ stage \in Stages /\ stage # None /\ stage.row # None
      /\ SoundIn(file, count.writes, stage.row)
      /\ job.ck # None => job.ck = stage.row.ck
      /\ JobIn(file, count.writes, job, StagedRow)
  BY <1>1, JobFacts DEF Working
<1>3. job.result \in Results
  BY <1>1, <1>2 DEF JobIn, Jobs
<1>4. PICK r : r = Parsed(stage.row, job.entry, job.result)
  OBVIOUS
<1>5. SoundIn(file, count.writes, r) /\ ~r.missing
  <2>1. job.result.kind \in Kinds =>
          SampledIn(file, count.writes, job.result.ino, job.entry.mtime, job.result.text)
    BY <1>1, <1>2 DEF JobIn
  <2>2. job.result.kind = "append" =>
          job.ck # None /\ job.ck = stage.row.ck /\ IsPrefix(job.ck.text, job.result.text)
    BY <1>1, <1>2 DEF JobIn
  <2> QED
    BY <1>2, <1>3, <1>4, <2>1, <2>2, ParsedSound
<1>6. r \in Rows /\ r # None
  BY <1>5, NoneAssumption DEF SoundIn
<1>7. stage' \in Stages /\ stage'.row = r
  <2>1. stage' = [stage EXCEPT !.row = r]
    BY <1>1, <1>4
  <2> QED
    BY <1>2, <1>6, <2>1 DEF Stages
<1>8. /\ job' \in Jobs /\ job'.at = "check" /\ job'.who = "slice"
      /\ job'.entry = job.entry /\ job'.before = job.before
  BY <1>1, <1>2 DEF Jobs
<1>9. JobIn(file, count.writes, job', r)
  BY <1>1, <1>2, <1>6, <1>8 DEF JobIn, Working
<1>10. queued' \in BOOLEAN /\ barred' \in BOOLEAN
  BY <1>1 DEF Parts, TypeOK
<1> QED
  BY <1>1, <1>5, <1>6, <1>7, <1>8, <1>9, <1>10, NoneAssumption, StagedKeeps

LEMMA CheckKeeps ==
  ASSUME Parts, Check
  PROVE  Parts' /\ Trusted
<1>1. CASE \E forGood \in BOOLEAN : GiveUp(forGood)
  BY <1>1, GiveUpKeeps
<1>2. CASE ~\E forGood \in BOOLEAN : GiveUp(forGood)
  <2>1. job.at = "check"
    BY DEF Check
  <2>2. /\ job \in Jobs /\ job.entry \in Stats /\ job.entry # None
        /\ EntryIn(file, count.writes, job.entry)
        /\ JobIn(file, count.writes, job, IF job.who = "capture" THEN row ELSE StagedRow)
    BY <2>1, JobFacts DEF Working
  <2>3. job.who = "slice"
    BY <2>1, <2>2 DEF JobIn
  <2>4. /\ stage \in Stages /\ stage # None /\ stage.row # None /\ ~stage.row.missing
        /\ SoundIn(file, count.writes, stage.row)
    BY <2>1, <2>3, JobFacts DEF Working
  <2>5. PICK header : header = stage.row.ck.text[1]
    OBVIOUS
  <2>6. /\ stage.row.ck # None /\ stage.row.error = "none" /\ stage.row.ck.text # <<>>
        /\ stage' = [stage EXCEPT !.header = header]
        /\ \/ job' = Idle /\ queued' = FALSE /\ barred' = TRUE
           \/ /\ job' = [job EXCEPT !.at = "verify"]
              /\ Len(stage.row.ck.text) = job.entry.size
              /\ UNCHANGED <<queued, barred>>
           \/ /\ job' = Idle /\ queued' = (Len(stage.row.ck.text) > job.before)
              /\ UNCHANGED barred
        /\ UNCHANGED <<file, ledger, count>>
    BY <1>2, <2>5 DEF Check
  <2>7. header \in Cells
    <3>1. stage.row.ck \in Checkpoints
      BY <2>4, <2>6 DEF SoundIn, Rows
    <3>2. stage.row.ck.text \in Seq(Cells)
      BY <3>1, SeqsFacts DEF Checkpoints
    <3> QED
      BY <2>5, <2>6, <3>2
  <2>8. stage' \in Stages /\ stage'.row = stage.row /\ stage' # None
    BY <2>4, <2>6, <2>7, NoneAssumption DEF Stages
  <2>9. /\ job' \in Jobs /\ (job'.who = "slice" \/ job' = Idle) /\ job'.at # "clean"
        /\ JobIn(file, count.writes, job', stage.row)
    <3>1. CASE job' = Idle
      BY <3>1, IdleFacts
    <3>2. CASE job' # Idle
      <4>1. /\ job' = [job EXCEPT !.at = "verify"]
            /\ Len(stage.row.ck.text) = job.entry.size
        BY <2>6, <3>2
      <4>2. /\ job' \in Jobs /\ job'.at = "verify" /\ job'.who = "slice"
            /\ job'.entry = job.entry /\ job'.before = job.before
        BY <2>2, <2>3, <4>1 DEF Jobs
      <4> QED
        BY <2>2, <2>4, <2>6, <4>1, <4>2 DEF JobIn, Working
    <3> QED
      BY <3>1, <3>2
  <2>10. queued' \in BOOLEAN /\ barred' \in BOOLEAN
    <3>1. job.before \in Nat /\ job.entry.size \in Nat
      BY <2>2, <2>3 DEF JobIn, Stats
    <3>2. (Len(stage.row.ck.text) > job.before) \in BOOLEAN
      <4>1. stage.row.ck \in Checkpoints
        BY <2>4, <2>6 DEF SoundIn, Rows
      <4>2. stage.row.ck.text \in Seq(Cells)
        BY <4>1, SeqsFacts DEF Checkpoints
      <4> QED
        BY <3>1, <4>2
    <3> QED
      BY <2>6, <3>2 DEF Parts, TypeOK
  <2> QED
    BY <2>4, <2>6, <2>8, <2>9, <2>10, StagedKeeps
<1> QED
  BY <1>1, <1>2

(* The snapshot taken for the commit is of the size and time checked.      *)
LEMMA VerifyKeeps ==
  ASSUME Parts, Verify
  PROVE  Parts' /\ Trusted
<1>1. CASE \E forGood \in BOOLEAN : GiveUp(forGood)
  BY <1>1, GiveUpKeeps
<1>2. CASE ~\E forGood \in BOOLEAN : GiveUp(forGood)
  <2>1. /\ job.at = "verify" /\ Unchanged
        /\ job' = [job EXCEPT !.at = "install", !.entry = Stat]
        /\ UNCHANGED <<file, ledger, stage, queued, barred, count>>
    BY <1>2 DEF Verify
  <2>2. /\ job \in Jobs /\ job.entry \in Stats
        /\ JobIn(file, count.writes, job, IF job.who = "capture" THEN row ELSE StagedRow)
    BY <2>1, JobFacts DEF Working
  <2>3. /\ file # None /\ Stat \in Stats /\ Stat # None
        /\ EntryIn(file, count.writes, Stat)
    BY <2>1, StatFacts DEF Unchanged
  <2>4. Stat.size = job.entry.size
    <3>1. [Stat EXCEPT !.ctime = 0].size = [job.entry EXCEPT !.ctime = 0].size
      BY <2>1 DEF Unchanged
    <3>2. \A q \in Stats : [q EXCEPT !.ctime = 0].size = q.size
      BY DEF Stats
    <3> QED
      BY <2>2, <2>3, <3>1, <3>2
  <2>5. /\ job' \in Jobs /\ job'.at = "install" /\ job'.who = job.who /\ job'.entry = Stat
        /\ job'.before = job.before
    BY <2>1, <2>2, <2>3 DEF Jobs
  <2>6. JobIn(file, count.writes, job', IF job.who = "capture" THEN row ELSE StagedRow)
    BY <2>1, <2>2, <2>3, <2>4, <2>5 DEF JobIn, Working
  <2>7. count' \in [writes : Times, failures : 0..MaxFailures] /\ count'.writes = count.writes
    BY <2>1 DEF Parts, TypeOK
  <2> QED
    BY <2>1, <2>5, <2>6, <2>7, JobKeeps
<1> QED
  BY <1>1, <1>2

(* The commit of a rebuild: what was staged is the whole file.             *)
LEMMA InstallKeeps ==
  ASSUME Parts, Install
  PROVE  Parts' /\ Trusted
<1> USE DEF Parts
<1>1. /\ job.at = "install" /\ stage.live /\ Stat = job.entry
      /\ Synchronize(stage.row, None, FALSE)
      /\ stage' = [stage EXCEPT !.live = FALSE]
      /\ job' = [Idle EXCEPT !.at = "clean"]
      /\ queued' = FALSE /\ barred' = FALSE
      /\ UNCHANGED <<file, epoch, count>>
  BY DEF Install, Authorized
<1>2. /\ job \in Jobs /\ job.entry # None
      /\ JobIn(file, count.writes, job, IF job.who = "capture" THEN row ELSE StagedRow)
  BY <1>1, JobFacts DEF Working
<1>3. job.who = "slice"
  BY <1>1, <1>2 DEF JobIn
<1>4. /\ stage \in Stages /\ stage # None /\ stage.row # None /\ ~stage.row.missing
      /\ SoundIn(file, count.writes, stage.row)
  BY <1>1, <1>3, JobFacts DEF Working
<1>5. PICK r : r = stage.row
  OBVIOUS
<1>6. /\ r.ck # None /\ r.error = "none" /\ ~r.missing /\ r # None /\ r \in Rows
      /\ Len(r.ck.text) = job.entry.size
  BY <1>1, <1>2, <1>3, <1>4, <1>5 DEF JobIn, StagedRow, SoundIn
<1>7. Synced(r, None)
  BY <1>6 DEF Synced, Observed, NeedsSync
<1>8. /\ row' = r /\ pending' = FALSE
      /\ gen' \in Generations \cup {None} /\ GenerationIn(gen')
      /\ past' \subseteq Seqs /\ past \subseteq past'
      /\ source' \in Sources \cup {None}
      /\ SourceIn(file, count.writes, source', gen')
      /\ gen' # None /\ gen'.events = r.ck.text
      /\ file # None /\ IsPrefix(r.ck.text, file.text)
      /\ gen # None => \/ gen' # None /\ IsPrefix(gen.events, gen'.events)
                       \/ gen.events \in past'
  <2>1. r # None => SoundIn(file, count.writes, r)
    BY <1>4, <1>5
  <2> HIDE DEF Parts
  <2> QED
    BY <1>1, <1>5, <1>7, <2>1, SynchronizeSound
<1>9. r.ck.text = file.text
  <2>1. Len(r.ck.text) = Len(file.text)
    BY <1>1, <1>6, <1>8, StatFacts
  <2>2. r.ck \in Checkpoints /\ file.text \in Seq(Cells)
    BY <1>6, <1>8, SeqsFacts DEF Rows, TypeOK, Files
  <2>3. r.ck.text \in Seq(Cells)
    BY <2>2, SeqsFacts DEF Checkpoints
  <2> QED
    BY <1>8, <2>1, <2>2, <2>3, PrefixWhole
<1>10. Trusted
  BY <1>1, <1>8, <1>9 DEF Trusted
<1>11. stage' \in Stages /\ stage'.row = r /\ stage' # None
  BY <1>1, <1>4, <1>5, NoneAssumption DEF Stages
<1>12. /\ job' \in Jobs /\ job'.at = "clean" /\ job'.entry = None
       /\ job'.who = "capture"
  BY <1>1 DEF Idle, Jobs
<1>13. JobOK'
  <2>1. \A parsed : JobIn(file, count.writes, job', parsed)
    BY <1>12 DEF JobIn, EntryIn, Working
  <2> QED
    BY <1>1, <1>11, <2>1 DEF JobOK
<1>14. TypeOK'
  BY <1>1, <1>6, <1>8, <1>11, <1>12 DEF TypeOK
<1>15. RowOK' /\ StageOK' /\ GenOK' /\ SourceOK'
  BY <1>1, <1>4, <1>5, <1>8, <1>11 DEF RowOK, StageOK, GenOK, SourceOK
<1> QED
  BY <1>1, <1>10, <1>13, <1>14, <1>15, PartsKept

LEMMA CleanKeeps ==
  ASSUME Parts, Clean
  PROVE  Parts' /\ Trusted
<1> USE DEF Parts
<1>1. /\ stage' = None /\ job' = Idle
      /\ UNCHANGED <<file, row, source, gen, past, epoch, pending, queued, barred, count>>
  BY DEF Clean, ledger
<1>2. TypeOK' /\ StageOK'
  BY <1>1, IdleJob DEF TypeOK, StageOK
<1> QED
  BY <1>1, <1>2, IdleJob, PartsKept, TrustKept

LEMMA StutterKeeps ==
  ASSUME Parts, UNCHANGED vars
  PROVE  Parts' /\ Trusted
<1>1. UNCHANGED <<file, row, source, gen, past, epoch, pending, stage, queued, barred, job, count>>
  BY DEF vars, ledger
<1>2. TypeOK' /\ JobOK' /\ StageOK'
  BY <1>1 DEF Parts, TypeOK, JobOK, StagedRow, StageOK
<1> QED
  BY <1>1, <1>2, PartsKept, TrustKept DEF Parts

-----------------------------------------------------------------------------
LEMMA PartsAtFirst == Init => Parts
<1> SUFFICES ASSUME Init PROVE Parts
  OBVIOUS
<1>1. count \in [writes : Times, failures : 0..MaxFailures]
  <2>1. 0 \in Times /\ 0 \in 0..MaxFailures
    BY ParameterAssumption DEF Times
  <2> QED
    BY <2>1 DEF Init
<1>2. job \in Jobs
  BY IdleFacts DEF Init
<1>3. TypeOK
  <2>1. epoch \in 0..MaxEpoch
    BY ParameterAssumption DEF Init
  <2>2. past \subseteq Seqs
    BY DEF Init
  <2>3. pending \in BOOLEAN /\ queued \in BOOLEAN /\ barred \in BOOLEAN
    BY DEF Init
  <2>4. /\ file \in Files \cup {None} /\ row \in Rows \cup {None}
        /\ source \in Sources \cup {None} /\ gen \in Generations \cup {None}
        /\ stage \in Stages \cup {None}
    BY DEF Init
  <2> QED
    BY <1>1, <1>2, <2>1, <2>2, <2>3, <2>4 DEF TypeOK
<1>4. JobOK
  BY IdleFacts DEF Init, JobOK
<1> QED
  BY <1>3, <1>4 DEF Init, Parts, RowOK, StageOK, GenOK, GenerationIn, SourceOK, SourceIn,
                    FileOK, FileIn

LEMMA StepsKeep ==
  ASSUME Parts, [Next]_vars
  PROVE  Parts' /\ Trusted
<1>1. CASE Create \/ Grow \/ Replace \/ Rewrite \/ Delete
  <2>1. Parts' /\ UNCHANGED <<row, gen, past, pending>>
    BY <1>1, FileKeeps
  <2> QED
    BY <2>1, TrustKept
<1>2. CASE Invalidate
  BY <1>2, InvalidateKeeps
<1>3. CASE Crash
  BY <1>3, CrashKeeps
<1>4. CASE BeginCapture
  BY <1>4, BeginCaptureKeeps
<1>5. CASE BeginSlice
  BY <1>5, BeginSliceKeeps
<1>6. CASE Open \/ OpenFails
  BY <1>6, OpenKeeps, OpenFailsKeeps
<1>7. CASE Seal
  BY <1>7, SealKeeps
<1>8. CASE Record \/ RecordStaged
  BY <1>8, RecordKeeps, RecordStagedKeeps
<1>9. CASE Sync
  BY <1>9, SyncKeeps
<1>10. CASE Check
  BY <1>10, CheckKeeps
<1>11. CASE Verify
  BY <1>11, VerifyKeeps
<1>12. CASE Install
  BY <1>12, InstallKeeps
<1>13. CASE InstallRefused
  BY <1>13, GiveUpKeeps DEF InstallRefused
<1>14. CASE Clean
  BY <1>14, CleanKeeps
<1>15. CASE UNCHANGED vars
  BY <1>15, StutterKeeps
<1> QED
  BY <1>1, <1>2, <1>3, <1>4, <1>5, <1>6, <1>7, <1>8, <1>9, <1>10, <1>11, <1>12, <1>13,
     <1>14, <1>15 DEF Next, Environment, Step

-----------------------------------------------------------------------------
(* Whatever is written to the file, and however captures, slices of a      *)
(* rebuild, invalidations and crashes follow one another, parser rows,     *)
(* staged rows and trusted events hold exactly what their checkpoints      *)
(* cover, and a source shown as captured was captured from the file.       *)
THEOREM SourceSafe == Spec => []SourceIsSafe
<1>1. Parts /\ [Next]_vars => Parts'
  BY StepsKeep
<1> QED
  BY <1>1, PartsAtFirst, PartsSuffice, PTL DEF Spec

(* Trusted events are only extended or superseded, become trusted only     *)
(* when they begin the file, and a pending repair ends with a rebuild of   *)
(* the whole file.                                                         *)
THEOREM TrustEarned == Spec => TrustIsEarned
<1>1. Parts /\ [Next]_vars => Parts' /\ Trusted
  BY StepsKeep
<1>2. Trusted => /\ past \subseteq past'
                 /\ gen # None => \/ gen' # None /\ IsPrefix(gen.events, gen'.events)
                                  \/ gen.events \in past'
  BY DEF Trusted
<1>3. Trusted => (gen' # gen => file # None /\ IsPrefix(gen'.events, file.text))
  BY DEF Trusted
<1>4. Trusted => (pending /\ (~pending' \/ gen' # gen) =>
                    /\ job.at = "install" /\ stage.live
                    /\ gen'.events = file.text)
  BY DEF Trusted
<1>5. Spec => [][Trusted]_vars
  BY <1>1, PartsAtFirst, PTL DEF Spec
<1>6. Spec => TrustedNeverLost
  BY <1>2, <1>5, PTL DEF TrustedNeverLost
<1>7. Spec => PromotedIsReal
  BY <1>3, <1>5, PTL DEF PromotedIsReal
<1>8. Spec => PendingIsRepaired
  BY <1>4, <1>5, PTL DEF PendingIsRepaired
<1> QED
  BY <1>6, <1>7, <1>8 DEF TrustIsEarned
=============================================================================
