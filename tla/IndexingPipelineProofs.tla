---------------------- MODULE IndexingPipelineProofs ----------------------
(***************************************************************************)
(* Proofs about IndexingPipeline, for any number of runs and documents,    *)
(* sections of any number and length, every configuration a chunker can be *)
(* built with (any integers, the overlap below the window size), and every *)
(* fault.                                                                  *)
(***************************************************************************)
EXTENDS IndexingPipeline, TLAPS

\* The chunker's configuration is usable, and with windows of some characters its cursor
\* never leaves the naturals.
TypedAndUsable ==
  /\ IndexingTypeOK
  /\ Usable(config)
  /\ config.max_chars > 0 => \A r \in Runs : cursor[r] >= 0

LEMMA ConfigFacts ==
  ASSUME TypedAndUsable
  PROVE  /\ config.max_chars \in Int /\ config.overlap_chars \in Int
         /\ config.min_chunk_chars \in Int
         /\ config.overlap_chars < config.max_chars
         /\ Sensible => config.overlap_chars >= 0 /\ config.max_chars > 0
BY ConfigsAssumption DEF TypedAndUsable, IndexingTypeOK, Usable, Sensible

LEMMA SectionFacts ==
  ASSUME TypedAndUsable, NEW r \in Runs
  PROVE  /\ content[r] \in Seq(Nat)
         /\ section[r] <= Len(content[r]) => Length(r) \in Nat
<1>1. content[r] \in Contents \union {<<>>}
  BY DEF TypedAndUsable, IndexingTypeOK
<1>2. content[r] \in Seq(Nat)
  <2>1. <<>> \in Seq(Nat)
    OBVIOUS
  <2> QED
    BY <1>1, <2>1, ContentsAssumption
<1>3. section[r] \in Nat /\ section[r] >= 1
  BY DEF TypedAndUsable, IndexingTypeOK
<1> QED
  BY <1>2, <1>3 DEF Length

LEMMA PlaceFacts ==
  ASSUME NEW k \in Int, NEW n \in Nat
  PROVE  Place(k, n) \in Nat /\ (k \in 0 .. n => Place(k, n) = k)
BY DEF Place

\* The window at the cursor is a slice of the section, whatever the sizes.
LEMMA SliceFacts ==
  ASSUME TypedAndUsable, NEW r \in Runs, section[r] <= Len(content[r])
  PROVE  End(r) \in Int /\ From(r) \in Nat /\ To(r) \in Nat
<1>1. cursor[r] \in Int /\ config.max_chars \in Int /\ Length(r) \in Nat
  BY ConfigFacts, SectionFacts DEF TypedAndUsable, IndexingTypeOK
<1>2. End(r) \in Int
  BY <1>1 DEF End
<1>3. Place(cursor[r], Length(r)) \in Nat /\ Place(End(r), Length(r)) \in Nat
  BY <1>1, <1>2, PlaceFacts
<1> QED
  BY <1>2, <1>3 DEF From, To

\* What _split_text yields and where it goes next, for the section at the cursor, when
\* its windows have characters.
LEMMA EndFacts ==
  ASSUME TypedAndUsable, NEW r \in Runs, section[r] <= Len(content[r]),
         config.max_chars > 0, cursor[r] < Length(r)
  PROVE  /\ End(r) \in Nat /\ End(r) <= Length(r) /\ cursor[r] < End(r)
         /\ End(r) # Length(r) => End(r) = cursor[r] + config.max_chars
         /\ cursor[r] + config.max_chars < Length(r) => End(r) # Length(r)
         /\ From(r) = cursor[r] /\ To(r) = End(r)
         /\ (TooShort(r) /\ End(r) # Length(r)) => ~ Sensible
<1>1. cursor[r] \in Nat /\ config.max_chars \in Nat /\ Length(r) \in Nat
      /\ config.min_chunk_chars \in Int
  BY ConfigFacts, SectionFacts DEF TypedAndUsable, IndexingTypeOK
<1>2. /\ End(r) \in Nat /\ End(r) <= Length(r) /\ cursor[r] < End(r)
      /\ End(r) # Length(r) => End(r) = cursor[r] + config.max_chars
      /\ cursor[r] + config.max_chars < Length(r) => End(r) # Length(r)
  BY <1>1 DEF End
<1>3. From(r) = cursor[r] /\ Place(End(r), Length(r)) = End(r)
  <2>1. cursor[r] \in 0 .. Length(r) /\ End(r) \in 0 .. Length(r)
    BY <1>1, <1>2
  <2>2. Place(cursor[r], Length(r)) = cursor[r]
    BY <1>1, <2>1 DEF Place
  <2>3. Place(End(r), Length(r)) = End(r)
    BY <1>1, <2>1 DEF Place
  <2> QED
    BY <2>2, <2>3 DEF From
<1>4. To(r) = End(r)
  BY <1>1, <1>2, <1>3 DEF To
<1> QED
  BY <1>1, <1>2, <1>3, <1>4 DEF TooShort, Sensible

LEMMA RecordsTyped ==
  ASSUME IndexingTypeOK, NEW r \in Runs, at[r] \in Active
  PROVE  RecordsOf(r) \subseteq Record
<1>1. document[r] \in Documents /\ chunks[r] \in Seq(Window)
  BY DEF IndexingTypeOK
<1>2. \A k \in 1 .. Len(chunks[r]) : chunks[r][k] \in Window /\ k - 1 \in Nat
  BY <1>1
<1> QED
  BY <1>1, <1>2 DEF RecordsOf, Record

LEMMA YieldTyped ==
  ASSUME IndexingTypeOK, NEW r \in Runs, NEW from \in Nat, NEW to \in Nat, Yield(r, from, to)
  PROVE  chunks' \in [Runs -> Seq(Window)]
<1> DEFINE w == [section |-> section[r], from |-> from, to |-> to]
<1>1. w \in Window /\ chunks[r] \in Seq(Window) /\ chunks \in [Runs -> Seq(Window)]
  BY DEF IndexingTypeOK, Window
<1> HIDE DEF w
<1>2. Append(chunks[r], w) \in Seq(Window)
  BY <1>1
<1>3. chunks' = [chunks EXCEPT ![r] = Append(chunks[r], w)]
  BY DEF Yield, w
<1> QED
  BY <1>1, <1>2, <1>3

LEMMA NextSectionTyped ==
  ASSUME IndexingTypeOK, NEW r \in Runs, NextSection(r)
  PROVE  /\ section' \in [Runs -> Nat \ {0}]
         /\ cursor' \in [Runs -> Int]
         /\ cursor'[r] = 0 /\ \A q \in Runs \ {r} : cursor'[q] = cursor[q]
<1>1. section[r] + 1 \in Nat \ {0}
  BY DEF IndexingTypeOK
<1> QED
  BY <1>1 DEF IndexingTypeOK, NextSection

LEMMA UpsertTyped ==
  ASSUME NEW S \in SUBSET Record, NEW T \in SUBSET Record
  PROVE  Upsert(S, T) \in SUBSET Record
BY DEF Upsert

-----------------------------------------------------------------------------
LEMMA TypeInit == Init => TypedAndUsable
BY DEF Init, TypedAndUsable, IndexingTypeOK, Active

\* One step of a run keeps every type.
LEMMA TypeStep == TypedAndUsable /\ [Next]_vars => TypedAndUsable'
<1> SUFFICES ASSUME TypedAndUsable, [Next]_vars PROVE TypedAndUsable'
  OBVIOUS
<1> USE DEF TypedAndUsable, IndexingTypeOK, Active, run, loop, stores, history, Goto, SetStatus, Usable
<1>0. config.max_chars \in Int /\ config.overlap_chars \in Int
  BY ConfigFacts
<1>1. ASSUME NEW r \in Runs, NEW d \in Documents, NEW c \in Contents, CreateRun(r, d, c)
      PROVE TypedAndUsable'
  BY <1>1 DEF CreateRun
<1>2. ASSUME NEW r \in Runs, CreateRunRaises(r) PROVE TypedAndUsable'
  BY <1>2 DEF CreateRunRaises
<1>3. ASSUME NEW r \in Runs, MarkProcessing(r) PROVE TypedAndUsable'
  BY <1>3 DEF MarkProcessing
<1>4. ASSUME NEW r \in Runs, MarkProcessingRaises(r) PROVE TypedAndUsable'
  BY <1>4 DEF MarkProcessingRaises
<1>5. ASSUME NEW r \in Runs, ChunkWhole(r) \/ ChunkLeave(r) PROVE TypedAndUsable'
  <2>1. Length(r) \in Nat
    BY <1>5, SectionFacts DEF ChunkWhole, ChunkLeave, InSection
  <2>2. /\ section' \in [Runs -> Nat \ {0}]
        /\ cursor' \in [Runs -> Int]
        /\ cursor'[r] = 0 /\ \A q \in Runs \ {r} : cursor'[q] = cursor[q]
    BY <1>5, NextSectionTyped DEF ChunkWhole, ChunkLeave
  <2>3. ASSUME config.max_chars > 0, NEW q \in Runs PROVE cursor'[q] >= 0
    <3>1. CASE q = r
      BY <2>2, <3>1
    <3>2. CASE q # r
      BY <2>2, <2>3, <3>2
    <3> QED
      BY <3>1, <3>2
  <2>4. chunks' \in [Runs -> Seq(Window)]
    <3>1. CASE ChunkWhole(r)
      BY <3>1, <2>1, YieldTyped DEF ChunkWhole
    <3>2. CASE ChunkLeave(r)
      BY <3>2 DEF ChunkLeave
    <3> QED
      BY <1>5, <3>1, <3>2
  <2> QED
    BY <1>5, <2>2, <2>3, <2>4 DEF ChunkWhole, ChunkLeave
<1>6. ASSUME NEW r \in Runs, ChunkWindow(r) PROVE TypedAndUsable'
  <2>1. /\ section[r] <= Len(content[r]) /\ cursor[r] < Length(r) /\ cursor[r] \in Int
        /\ UNCHANGED config
    BY <1>6 DEF ChunkWindow, InLoop, InSection
  <2>2. End(r) \in Int /\ From(r) \in Nat /\ To(r) \in Nat
    BY <2>1, SliceFacts
  <2>3. /\ section' \in [Runs -> Nat \ {0}]
        /\ cursor' \in [Runs -> Int]
        /\ \A q \in Runs \ {r} : cursor'[q] = cursor[q]
        /\ config.max_chars > 0 => cursor'[r] >= 0
    <3>1. CASE End(r) = Length(r)
      BY <1>6, <3>1, NextSectionTyped DEF ChunkWindow, Advance
    <3>2. CASE End(r) # Length(r)
      <4>1. End(r) - config.overlap_chars \in Int
        BY <1>0, <2>2
      <4>2. ASSUME config.max_chars > 0 PROVE End(r) - config.overlap_chars >= 0
        <5>1. End(r) = cursor[r] + config.max_chars /\ cursor[r] >= 0
          BY <2>1, <3>2, <4>2, EndFacts
        <5> QED
          BY <1>0, <2>1, <5>1
      <4>3. /\ cursor' = [cursor EXCEPT ![r] = End(r) - config.overlap_chars]
            /\ UNCHANGED section
        BY <1>6, <3>2 DEF ChunkWindow, Advance
      <4> QED
        BY <4>1, <4>2, <4>3
    <3> QED
      BY <3>1, <3>2
  <2>4. chunks' \in [Runs -> Seq(Window)]
    BY <1>6, <2>2, YieldTyped DEF ChunkWindow
  <2>5. config.max_chars > 0 => \A q \in Runs : cursor'[q] >= 0
    BY <2>3
  <2> QED
    BY <1>6, <2>3, <2>4, <2>5 DEF ChunkWindow
<1>7. ASSUME NEW r \in Runs, ChunkSkip(r) PROVE TypedAndUsable'
  <2>1. section[r] <= Len(content[r]) /\ cursor[r] < Length(r)
    BY <1>7 DEF ChunkSkip, InLoop, InSection
  <2>2. End(r) \in Int /\ (config.max_chars > 0 => End(r) \in Nat)
    BY <2>1, SliceFacts, EndFacts
  <2>3. cursor' = [cursor EXCEPT ![r] = End(r)] /\ UNCHANGED config
    BY <1>7 DEF ChunkSkip
  <2>4. cursor' \in [Runs -> Int] /\ (config.max_chars > 0 => \A q \in Runs : cursor'[q] >= 0)
    BY <2>2, <2>3
  <2> QED
    BY <1>7, <2>4 DEF ChunkSkip
<1>8. ASSUME NEW r \in Runs, ChunkDone(r) PROVE TypedAndUsable'
  BY <1>8 DEF ChunkDone
<1>9. ASSUME NEW r \in Runs, Embed(r) \/ EmbedRaises(r) PROVE TypedAndUsable'
  BY <1>9 DEF Embed, EmbedRaises
<1>10. ASSUME NEW r \in Runs, WriteVectors(r) \/ WriteVectorsRaises(r) PROVE TypedAndUsable'
  <2>1. at[r] \in Active
    BY <1>10 DEF WriteVectors, WriteVectorsRaises
  <2>2. Upsert(points, RecordsOf(r)) \in SUBSET Record
    BY <2>1, RecordsTyped, UpsertTyped
  <2> QED
    BY <1>10, <2>2 DEF WriteVectors, WriteVectorsRaises
<1>11. ASSUME NEW r \in Runs, PersistChunks(r) \/ PersistChunksRaises(r) PROVE TypedAndUsable'
  <2>1. at[r] \in Active
    BY <1>11 DEF PersistChunks, PersistChunksRaises
  <2>2. Upsert(rows, RecordsOf(r)) \in SUBSET Record
    BY <2>1, RecordsTyped, UpsertTyped
  <2> QED
    BY <1>11, <2>2 DEF PersistChunks, PersistChunksRaises
<1>12. ASSUME NEW r \in Runs, MarkIndexed(r) \/ MarkIndexedRaises(r) PROVE TypedAndUsable'
  BY <1>12 DEF MarkIndexed, MarkIndexedRaises
<1>13. ASSUME NEW r \in Runs, MarkFailed(r) \/ MarkFailedRaises(r) PROVE TypedAndUsable'
  BY <1>13 DEF MarkFailed, MarkFailedRaises
<1>14. CASE UNCHANGED vars
  BY <1>14 DEF vars
<1> QED
  BY <1>1, <1>2, <1>3, <1>4, <1>5, <1>6, <1>7, <1>8, <1>9, <1>10, <1>11, <1>12, <1>13, <1>14
  DEF Next, Step, ChunkStep, StoreStep, StatusStep

LEMMA TypedAlways == Spec => []TypedAndUsable
<1> QED
  BY TypeInit, TypeStep, PTL DEF Spec

\* Every run's row, locals and records have their types, and what the chunker yields is a
\* slice of its section.  (IndexingPipeline.index_document, DocumentChunker._split_text)
THEOREM IndexingTyping == Spec => []IndexingTypeOK
<1>1. TypedAndUsable => IndexingTypeOK
  BY DEF TypedAndUsable
<1> QED
  BY <1>1, TypedAlways, PTL

-----------------------------------------------------------------------------
(* The windows *)

\* Before the chunker runs it has done nothing.
Untouched ==
  \A r \in Runs : at[r] \in {"start", "mark_processing"} =>
    section[r] = 1 /\ cursor[r] = 0 /\ chunks[r] = <<>>

\* All the text before the cursor is covered already.
Behind ==
  \A r \in Runs : (Sensible /\ section[r] <= Len(content[r])) =>
    \A p \in 0 .. cursor[r] - 1 : Covered(r, section[r], p)

\* The last chunk of a run, if the section goes on, ends the overlap after the cursor.
Newest(r) == chunks[r][Len(chunks[r])]

AtCursor ==
  \A r \in Runs : (Sensible /\ chunks[r] # <<>>) =>
    /\ \A k \in 1 .. Len(chunks[r]) : chunks[r][k].section <= section[r]
    /\ (section[r] <= Len(content[r]) /\ Newest(r).section = section[r]) =>
         /\ cursor[r] = Newest(r).to - config.overlap_chars
         /\ Newest(r).from < cursor[r]
         /\ Newest(r).to = Newest(r).from + config.max_chars
         /\ Newest(r).to < Length(r)

Windows ==
  TypedAndUsable /\ Untouched /\ Behind /\ EverySectionCovered /\ AtCursor /\ WindowsOverlap

LEMMA WindowsInit == Init => Windows
<1> SUFFICES ASSUME Init PROVE Windows
  OBVIOUS
<1>1. TypedAndUsable
  BY TypeInit
<1> QED
  BY <1>1 DEF Init, Windows, Untouched, Behind, EverySectionCovered, AtCursor, WindowsOverlap

\* A step that leaves the chunkers alone leaves their invariant alone.
LEMMA WindowsUntouched ==
  ASSUME Windows, TypedAndUsable', UNCHANGED <<config, content, section, cursor, chunks>>,
         \A r \in Runs : at'[r] \in {"start", "mark_processing"} =>
                         at[r] \in {"start", "mark_processing"}
  PROVE  Windows'
<1>1. Untouched' /\ AtCursor' /\ WindowsOverlap'
  BY DEF Windows, Untouched, AtCursor, Newest, Length, Sensible, WindowsOverlap
<1>2. Behind' /\ EverySectionCovered'
  BY DEF Windows, Behind, EverySectionCovered, Covered, Sensible
<1> QED
  BY <1>1, <1>2 DEF Windows

\* A run that begins has nothing behind its cursor.
LEMMA WindowsBegin ==
  ASSUME Windows, TypedAndUsable', NEW r \in Runs, NEW d \in Documents, NEW c \in Contents,
         CreateRun(r, d, c)
  PROVE  Windows'
<1>1. /\ UNCHANGED <<config, section, cursor, chunks>>
      /\ section[r] = 1 /\ cursor[r] = 0 /\ chunks[r] = <<>>
      /\ \A q \in Runs \ {r} : content'[q] = content[q] /\ at'[q] = at[q]
  BY DEF CreateRun, Goto, loop, Windows, Untouched, TypedAndUsable, IndexingTypeOK
<1>2. Untouched'
  BY <1>1 DEF Windows, Untouched
<1>3. Behind' /\ EverySectionCovered'
  BY <1>1 DEF Windows, Behind, EverySectionCovered, Covered, Sensible
<1>4. AtCursor'
  BY <1>1 DEF Windows, AtCursor, Newest, Length, Sensible
<1>5. WindowsOverlap'
  BY <1>1 DEF Windows, WindowsOverlap, Sensible
<1> QED
  BY <1>2, <1>3, <1>4, <1>5 DEF Windows

\* What a sequence of chunks has covered stays covered as it grows.
CoveredIn(C, i, p) ==
  \E k \in 1 .. Len(C) : C[k].section = i /\ C[k].from <= p /\ p < C[k].to

LEMMA AppendFacts ==
  ASSUME NEW C \in Seq(Window), NEW w
  PROVE  /\ Len(Append(C, w)) = Len(C) + 1
         /\ \A k \in 1 .. Len(C) : Append(C, w)[k] = C[k]
         /\ Append(C, w)[Len(C) + 1] = w
         /\ Len(C) \in Nat
OBVIOUS

LEMMA CoveredStays ==
  ASSUME NEW C \in Seq(Window), NEW w
  PROVE  /\ \A i, p : CoveredIn(C, i, p) => CoveredIn(Append(C, w), i, p)
         /\ \A p : w.from <= p /\ p < w.to => CoveredIn(Append(C, w), w.section, p)
BY AppendFacts DEF CoveredIn

LEMMA LastOf ==
  ASSUME NEW C \in Seq(Window), C # <<>>
  PROVE  Len(C) \in 1 .. Len(C) /\ C[Len(C)] \in Window
<1>1. Len(C) # 0
  OBVIOUS
<1> QED
  BY <1>1

-----------------------------------------------------------------------------
LEMMA StepOfOne ==
  ASSUME Windows, NEW r \in Runs,
         ChunkWhole(r) \/ ChunkWindow(r) \/ ChunkSkip(r) \/ ChunkLeave(r)
  PROVE  /\ at[r] = "chunk" /\ UNCHANGED <<config, at, content>>
         /\ \A q \in Runs \ {r} :
              section'[q] = section[q] /\ cursor'[q] = cursor[q] /\ chunks'[q] = chunks[q]
BY DEF Windows, TypedAndUsable, IndexingTypeOK, ChunkWhole, ChunkWindow, ChunkSkip, ChunkLeave,
       InLoop, InSection, run, NextSection, Advance, Yield

\* A section that fits, or that the cursor has passed: one chunk or none, and the next
\* section.
LEMMA WholeKeeps ==
  ASSUME Windows, TypedAndUsable', NEW r \in Runs, ChunkWhole(r) \/ ChunkLeave(r)
  PROVE  Windows'
<1> DEFINE w == [section |-> section[r], from |-> 0, to |-> Length(r)]
<1>1. /\ UNCHANGED <<config, at, content>>
      /\ \A q \in Runs \ {r} :
           section'[q] = section[q] /\ cursor'[q] = cursor[q] /\ chunks'[q] = chunks[q]
      /\ at[r] = "chunk"
  BY StepOfOne
<1>2. /\ section'[r] = section[r] + 1 /\ cursor'[r] = 0
      /\ section[r] <= Len(content[r]) /\ cursor[r] \in Int
      /\ Length(r) <= config.max_chars \/ (ChunkLeave(r) /\ cursor[r] >= Length(r))
      /\ section[r] \in Nat \ {0} /\ chunks[r] \in Seq(Window)
  BY DEF ChunkWhole, ChunkLeave, InSection, NextSection, Windows, TypedAndUsable, IndexingTypeOK
<1>3. Length(r) \in Nat /\ content[r][section[r]] = Length(r)
  BY <1>2, SectionFacts DEF Length, Windows
<1>4. /\ chunks'[r] = chunks[r] \/ chunks'[r] = Append(chunks[r], w)
      /\ ChunkWhole(r) /\ Length(r) > 0 /\ Length(r) >= config.min_chunk_chars =>
           chunks'[r] = Append(chunks[r], w)
  <2>1. CASE ChunkWhole(r)
    BY <2>1 DEF ChunkWhole, Yield, Windows, TypedAndUsable, IndexingTypeOK
  <2>2. CASE ~ ChunkWhole(r)
    BY <2>2 DEF ChunkLeave
  <2> QED
    BY <2>1, <2>2
<1>5. /\ \A i, p : CoveredIn(chunks[r], i, p) => CoveredIn(chunks'[r], i, p)
      /\ Sensible /\ Length(r) >= config.min_chunk_chars =>
           \A p \in 0 .. Length(r) - 1 : CoveredIn(chunks'[r], section[r], p)
  <2>1. \A i, p : CoveredIn(chunks[r], i, p) => CoveredIn(chunks'[r], i, p)
    <3> HIDE DEF w
    <3> QED
      BY <1>2, <1>4, CoveredStays
  <2>2. ASSUME Sensible, Length(r) >= config.min_chunk_chars, NEW p \in 0 .. Length(r) - 1
        PROVE  CoveredIn(chunks'[r], section[r], p)
    <3>1. CASE ChunkWhole(r)
      <4>1. w.section = section[r] /\ w.from = 0 /\ w.to = Length(r)
        OBVIOUS
      <4> HIDE DEF w
      <4>2. chunks'[r] = Append(chunks[r], w)
        BY <1>3, <1>4, <2>2, <3>1
      <4>3. \A x : w.from <= x /\ x < w.to => CoveredIn(chunks'[r], w.section, x)
        BY <1>2, <4>2, CoveredStays
      <4> QED
        BY <1>3, <2>2, <4>1, <4>3
    <3>2. CASE ~ ChunkWhole(r)
      <4>1. cursor[r] >= Length(r)
        BY <3>2 DEF ChunkLeave
      <4>2. p \in 0 .. cursor[r] - 1
        BY <1>2, <1>3, <2>2, <4>1
      <4>3. CoveredIn(chunks[r], section[r], p)
        BY <1>2, <2>2, <4>2 DEF Windows, Behind, Covered, CoveredIn
      <4> QED
        BY <2>1, <4>3
    <3> QED
      BY <3>1, <3>2
  <2> QED
    BY <2>1, <2>2
<1>6. Untouched'
  BY <1>1 DEF Windows, Untouched
<1>7. Behind'
  <2> SUFFICES ASSUME NEW q \in Runs, Sensible, section'[q] <= Len(content[q]),
                      NEW p \in 0 .. cursor'[q] - 1
               PROVE  CoveredIn(chunks'[q], section'[q], p)
    BY <1>1 DEF Behind, Sensible, Covered, CoveredIn
  <2>1. q # r
    BY <1>2
  <2> QED
    BY <1>1, <2>1 DEF Windows, Behind, Covered, CoveredIn
<1>8. EverySectionCovered'
  <2> SUFFICES ASSUME NEW q \in Runs, Sensible, NEW i \in 1 .. section'[q] - 1,
                      NEW p \in 0 .. content[q][i] - 1, content[q][i] >= config.min_chunk_chars
               PROVE  CoveredIn(chunks'[q], i, p)
    BY <1>1 DEF EverySectionCovered, Sensible, Covered, CoveredIn
  <2>1. CASE q # r
    BY <1>1, <2>1 DEF Windows, EverySectionCovered, Covered, CoveredIn
  <2>2. CASE q = r /\ i # section[r]
    <3>1. i \in 1 .. section[r] - 1
      BY <1>2, <2>2
    <3>2. CoveredIn(chunks[r], i, p)
      BY <2>2, <3>1 DEF Windows, EverySectionCovered, Covered, CoveredIn
    <3> QED
      BY <1>5, <2>2, <3>2
  <2>3. CASE q = r /\ i = section[r]
    BY <1>3, <1>5, <2>3
  <2> QED
    BY <2>1, <2>2, <2>3
<1>9. ASSUME Sensible, chunks[r] # <<>> PROVE Newest(r).section # section[r]
  <2> SUFFICES ASSUME Newest(r).section = section[r] PROVE FALSE
    OBVIOUS
  <2>1. /\ Newest(r).to = Newest(r).from + config.max_chars /\ Newest(r).to < Length(r)
        /\ cursor[r] = Newest(r).to - config.overlap_chars
    BY <1>2, <1>9 DEF Windows, AtCursor
  <2>2. Newest(r) \in Window
    BY <1>2, <1>9, LastOf DEF Newest
  <2>3. config.overlap_chars \in Int /\ config.overlap_chars >= 0 /\ config.max_chars \in Int
    BY <1>9, ConfigFacts DEF Windows
  <2> USE <2>3
  <2> QED
    BY <1>2, <1>3, <2>1, <2>2, ConfigFacts DEF Windows, Window
<1>10. \A q \in Runs \ {r} : Newest(q)' = Newest(q) /\ Length(q)' = Length(q)
  BY <1>1 DEF Newest, Length
<1>11. Sensible' = Sensible
  BY <1>1 DEF Sensible
<1>12. \A k \in 1 .. Len(chunks[r]) : Sensible => chunks[r][k].section <= section[r]
  <2> SUFFICES ASSUME NEW k \in 1 .. Len(chunks[r]), Sensible
               PROVE  chunks[r][k].section <= section[r]
    OBVIOUS
  <2>1. chunks[r] # <<>>
    BY <1>2
  <2> QED
    BY <2>1 DEF Windows, AtCursor
<1>13. ASSUME NEW k \in 1 .. Len(chunks'[r]), Sensible PROVE chunks'[r][k].section <= section[r]
  <2>1. w.section = section[r] /\ (chunks'[r] = chunks[r] \/ chunks'[r] = Append(chunks[r], w))
    BY <1>4
  <2> HIDE DEF w
  <2>2. CASE k \in 1 .. Len(chunks[r])
    <3>1. chunks'[r][k] = chunks[r][k]
      <4>1. CASE chunks'[r] = chunks[r]
        BY <4>1
      <4>2. CASE chunks'[r] = Append(chunks[r], w)
        BY <1>2, <2>2, <4>2, AppendFacts
      <4> QED
        BY <2>1, <4>1, <4>2
    <3> QED
      BY <1>12, <1>13, <2>2, <3>1
  <2>3. CASE k \notin 1 .. Len(chunks[r])
    <3>1. chunks'[r] = Append(chunks[r], w) /\ k = Len(chunks[r]) + 1
      BY <1>2, <1>13, <2>1, <2>3, AppendFacts
    <3>2. chunks'[r][k] = w
      BY <1>2, <3>1, AppendFacts
    <3> QED
      BY <1>2, <2>1, <3>2
  <2> QED
    BY <2>2, <2>3
<1>14. AtCursor'
  <2>1. ASSUME Sensible, chunks'[r] # <<>> PROVE Newest(r)'.section # section'[r]
    <3>1. chunks'[r] \in Seq(Window)
      BY DEF TypedAndUsable, IndexingTypeOK
    <3>2. Len(chunks'[r]) \in 1 .. Len(chunks'[r])
      BY <2>1, <3>1, LastOf
    <3>3. Newest(r)'.section <= section[r] /\ Newest(r)' \in Window
      BY <1>13, <2>1, <3>1, <3>2 DEF Newest
    <3> QED
      BY <1>2, <3>3 DEF Window
  <2>2. ASSUME Sensible, NEW k \in 1 .. Len(chunks'[r]) PROVE chunks'[r][k].section <= section'[r]
    <3>1. chunks'[r][k] \in Window
      BY DEF TypedAndUsable, IndexingTypeOK
    <3> QED
      BY <1>2, <1>13, <2>2, <3>1 DEF Window
  <2> QED
    BY <1>1, <1>10, <1>11, <2>1, <2>2 DEF Windows, AtCursor
<1>15. WindowsOverlap'
  <2>1. ASSUME Sensible, NEW k \in 1 .. Len(chunks'[r]) - 1,
               chunks'[r][k].section = chunks'[r][k + 1].section
        PROVE  /\ chunks'[r][k + 1].from = chunks'[r][k].to - config.overlap_chars
               /\ chunks'[r][k].from < chunks'[r][k + 1].from
               /\ chunks'[r][k].to < chunks'[r][k + 1].to
    <3>1. CASE k + 1 <= Len(chunks[r])
      <4>0. chunks'[r] = chunks[r] \/ chunks'[r] = Append(chunks[r], w)
        BY <1>4
      <4> HIDE DEF w
      <4>1. chunks'[r][k] = chunks[r][k] /\ chunks'[r][k + 1] = chunks[r][k + 1]
        <5>1. Len(chunks[r]) \in Nat /\ k \in 1 .. Len(chunks[r]) /\ k + 1 \in 1 .. Len(chunks[r])
          BY <1>2, <3>1
        <5>2. CASE chunks'[r] = chunks[r]
          BY <5>2
        <5>3. CASE chunks'[r] = Append(chunks[r], w)
          BY <1>2, <5>1, <5>3, AppendFacts
        <5> QED
          BY <4>0, <5>2, <5>3
      <4>2. k \in 1 .. Len(chunks[r]) - 1
        BY <1>2, <3>1
      <4> QED
        BY <2>1, <4>1, <4>2 DEF Windows, WindowsOverlap
    <3>2. CASE ~ (k + 1 <= Len(chunks[r]))
      <4>1. k = Len(chunks[r]) /\ chunks[r] # <<>>
            /\ chunks'[r][k] = Newest(r) /\ chunks'[r][k + 1] = w
        <5> HIDE DEF w
        <5>1. chunks'[r] = Append(chunks[r], w)
          BY <1>2, <1>4, <3>2
        <5>2. Len(chunks[r]) \in Nat /\ k = Len(chunks[r]) /\ k >= 1
          BY <1>2, <3>2, <5>1, AppendFacts
        <5> QED
          BY <1>2, <5>1, <5>2, AppendFacts DEF Newest
      <4> QED
        BY <1>9, <2>1, <4>1
    <3> QED
      BY <3>1, <3>2
  <2>2. ASSUME Sensible, NEW q \in Runs, q # r, NEW k \in 1 .. Len(chunks'[q]) - 1,
               chunks'[q][k].section = chunks'[q][k + 1].section
        PROVE  /\ chunks'[q][k + 1].from = chunks'[q][k].to - config.overlap_chars
               /\ chunks'[q][k].from < chunks'[q][k + 1].from
               /\ chunks'[q][k].to < chunks'[q][k + 1].to
    <3>1. chunks'[q] = chunks[q]
      BY <1>1, <2>2
    <3> QED
      BY <2>2, <3>1 DEF Windows, WindowsOverlap
  <2> SUFFICES ASSUME NEW q \in Runs, Sensible, NEW k \in 1 .. Len(chunks'[q]) - 1,
                      chunks'[q][k].section = chunks'[q][k + 1].section
               PROVE  /\ chunks'[q][k + 1].from = chunks'[q][k].to - config.overlap_chars
                      /\ chunks'[q][k].from < chunks'[q][k + 1].from
                      /\ chunks'[q][k].to < chunks'[q][k + 1].to
    BY <1>1, <1>11 DEF WindowsOverlap
  <2> QED
    BY <2>1, <2>2
<1> QED
  BY <1>6, <1>7, <1>8, <1>14, <1>15 DEF Windows

\* A window of a longer section: it starts at the cursor, so that no text before its end
\* is left out, and the cursor stops short of its end by the overlap.
LEMMA WindowKeeps ==
  ASSUME Windows, TypedAndUsable', NEW r \in Runs, ChunkWindow(r), Sensible
  PROVE  Windows'
<1> DEFINE w == [section |-> section[r], from |-> From(r), to |-> To(r)]
<1>1. /\ UNCHANGED <<config, at, content>>
      /\ \A q \in Runs \ {r} :
           section'[q] = section[q] /\ cursor'[q] = cursor[q] /\ chunks'[q] = chunks[q]
      /\ at[r] = "chunk"
  BY StepOfOne
<1>2. /\ section[r] <= Len(content[r]) /\ Length(r) > config.max_chars /\ cursor[r] < Length(r)
      /\ section[r] \in Nat \ {0} /\ cursor[r] \in Nat /\ config.max_chars > 0
      /\ chunks[r] \in Seq(Window) /\ chunks'[r] \in Seq(Window)
  <2>1. config.max_chars > 0 /\ TypedAndUsable
    BY ConfigFacts DEF Windows
  <2> QED
    BY <2>1 DEF ChunkWindow, InLoop, InSection, TypedAndUsable, IndexingTypeOK
<1>3. /\ Length(r) \in Nat /\ content[r][section[r]] = Length(r)
      /\ End(r) \in Nat /\ End(r) <= Length(r)
      /\ End(r) # Length(r) => End(r) = cursor[r] + config.max_chars
      /\ cursor[r] + config.max_chars < Length(r) => End(r) # Length(r)
      /\ From(r) = cursor[r] /\ To(r) = End(r)
  BY <1>2, SectionFacts, EndFacts DEF Length, Windows
<1>4. chunks'[r] = Append(chunks[r], w)
  BY DEF ChunkWindow, Yield, Windows, TypedAndUsable, IndexingTypeOK
<1>5. /\ End(r) = Length(r) => section'[r] = section[r] + 1 /\ cursor'[r] = 0
      /\ End(r) # Length(r) =>
           section'[r] = section[r] /\ cursor'[r] = End(r) - config.overlap_chars
  BY DEF ChunkWindow, Advance, NextSection, Windows, TypedAndUsable, IndexingTypeOK
<1>6. w.section = section[r] /\ w.from = cursor[r] /\ w.to = End(r)
  BY <1>3
<1>7. /\ config.max_chars \in Int /\ config.overlap_chars \in Nat
      /\ config.overlap_chars < config.max_chars
  BY ConfigFacts DEF Windows
<1>8. Sensible' = Sensible
  BY <1>1 DEF Sensible
<1>9. \A q \in Runs \ {r} : Newest(q)' = Newest(q) /\ Length(q)' = Length(q)
  BY <1>1 DEF Newest, Length
<1> HIDE DEF w
<1>10. /\ Len(chunks[r]) \in Nat /\ Len(chunks'[r]) = Len(chunks[r]) + 1
       /\ \A k \in 1 .. Len(chunks[r]) : chunks'[r][k] = chunks[r][k]
       /\ chunks'[r][Len(chunks[r]) + 1] = w
  BY <1>2, <1>4, AppendFacts
<1>11. Newest(r)' = w
  BY <1>10 DEF Newest
<1>12. ASSUME Sensible, NEW p \in Nat, p < End(r) PROVE CoveredIn(chunks'[r], section[r], p)
  <2>1. CASE p < cursor[r]
    <3>1. p \in 0 .. cursor[r] - 1
      BY <1>2, <1>12, <2>1
    <3>2. CoveredIn(chunks[r], section[r], p)
      BY <1>2, <1>12, <3>1 DEF Windows, Behind, Covered, CoveredIn
    <3> QED
      BY <1>2, <1>4, <3>2, CoveredStays
  <2>2. CASE ~ (p < cursor[r])
    <3>1. w.from <= p /\ p < w.to
      BY <1>2, <1>6, <1>12, <2>2
    <3>2. CoveredIn(Append(chunks[r], w), w.section, p)
      BY <1>2, <3>1, CoveredStays
    <3> QED
      BY <1>4, <1>6, <3>2
  <2> QED
    BY <2>1, <2>2
<1>13. Untouched'
  BY <1>1 DEF Windows, Untouched
<1>14. Behind'
  <2> SUFFICES ASSUME NEW q \in Runs, Sensible, section'[q] <= Len(content[q]),
                      NEW p \in 0 .. cursor'[q] - 1
               PROVE  CoveredIn(chunks'[q], section'[q], p)
    BY <1>1 DEF Behind, Sensible, Covered, CoveredIn
  <2>1. CASE q # r
    BY <1>1, <2>1 DEF Windows, Behind, Covered, CoveredIn
  <2>2. CASE q = r
    <3>1. CASE End(r) = Length(r)
      BY <1>5, <2>2, <3>1
    <3>2. CASE End(r) # Length(r)
      <4>1. p \in Nat /\ p < End(r) /\ section'[r] = section[r]
        BY <1>3, <1>5, <1>7, <2>2, <3>2
      <4>2. CoveredIn(chunks'[r], section[r], p)
        BY <1>12, <4>1
      <4> QED
        BY <2>2, <4>1, <4>2
    <3> QED
      BY <3>1, <3>2
  <2> QED
    BY <2>1, <2>2
<1>15. EverySectionCovered'
  <2> SUFFICES ASSUME NEW q \in Runs, Sensible, NEW i \in 1 .. section'[q] - 1,
                      NEW p \in 0 .. content[q][i] - 1, content[q][i] >= config.min_chunk_chars
               PROVE  CoveredIn(chunks'[q], i, p)
    BY <1>1 DEF EverySectionCovered, Sensible, Covered, CoveredIn
  <2>1. CASE q # r
    BY <1>1, <2>1 DEF Windows, EverySectionCovered, Covered, CoveredIn
  <2>2. CASE q = r /\ i < section[r]
    <3>1. i \in 1 .. section[r] - 1
      BY <1>2, <2>2
    <3>2. CoveredIn(chunks[r], i, p)
      BY <2>2, <3>1 DEF Windows, EverySectionCovered, Covered, CoveredIn
    <3> QED
      BY <1>2, <1>4, <2>2, <3>2, CoveredStays
  <2>3. CASE q = r /\ ~ (i < section[r])
    <3>1. i = section[r] /\ End(r) = Length(r)
      BY <1>2, <1>5, <2>3
    <3>2. p \in Nat /\ p < End(r)
      BY <1>3, <2>3, <3>1
    <3> QED
      BY <1>12, <2>3, <3>1, <3>2
  <2> QED
    BY <2>1, <2>2, <2>3
<1>16. ASSUME Sensible, chunks[r] # <<>>, Newest(r).section = section[r]
       PROVE  /\ w.from = Newest(r).to - config.overlap_chars
              /\ Newest(r).from < w.from /\ Newest(r).to < w.to
  <2>1. /\ cursor[r] = Newest(r).to - config.overlap_chars
        /\ Newest(r).from < cursor[r]
        /\ Newest(r).to = Newest(r).from + config.max_chars
        /\ Newest(r).to < Length(r)
    BY <1>2, <1>16 DEF Windows, AtCursor
  <2>2. Newest(r).from \in Nat /\ Newest(r).to \in Nat
    BY <1>2, <1>16, LastOf DEF Newest, Window
  <2> QED
    BY <1>2, <1>3, <1>6, <1>7, <2>1, <2>2
<1>17. AtCursor'
  <2>1. ASSUME Sensible, NEW k \in 1 .. Len(chunks'[r]) PROVE chunks'[r][k].section <= section'[r]
    <3>1. section[r] <= section'[r] /\ section'[r] \in Nat
      BY <1>2, <1>5
    <3>2. CASE k \in 1 .. Len(chunks[r])
      <4>1. chunks[r][k].section <= section[r] /\ chunks[r][k] \in Window
        BY <1>2, <2>1, <3>2 DEF Windows, AtCursor
      <4> QED
        <5>1. chunks'[r][k] = chunks[r][k] /\ chunks[r][k].section \in Nat
          BY <1>10, <3>2, <4>1 DEF Window
        <5> QED
          BY <1>2, <3>1, <4>1, <5>1
    <3>3. CASE k \notin 1 .. Len(chunks[r])
      <4>1. chunks'[r][k] = w
        BY <1>10, <3>3
      <4> QED
        BY <1>6, <3>1, <4>1
    <3> QED
      BY <3>2, <3>3
  <2>2. ASSUME Newest(r)'.section = section'[r]
        PROVE  /\ cursor'[r] = w.to - config.overlap_chars
               /\ w.from < cursor'[r]
               /\ w.to = w.from + config.max_chars
               /\ w.to < Length(r)
    <3>1. End(r) # Length(r)
      BY <1>2, <1>5, <1>6, <1>11, <2>2
    <3> QED
      BY <1>2, <1>3, <1>5, <1>6, <1>7, <3>1
  <2>3. section'[r] = section[r] => Length(r)' = Length(r)
    BY <1>1 DEF Length
  <2>4. Newest(r)'.section = section'[r] => section'[r] = section[r]
    BY <1>6, <1>11
  <2> QED
    BY <1>1, <1>8, <1>9, <1>11, <2>1, <2>2, <2>3, <2>4 DEF Windows, AtCursor
<1>18. WindowsOverlap'
  <2>1. ASSUME Sensible, NEW k \in 1 .. Len(chunks'[r]) - 1,
               chunks'[r][k].section = chunks'[r][k + 1].section
        PROVE  /\ chunks'[r][k + 1].from = chunks'[r][k].to - config.overlap_chars
               /\ chunks'[r][k].from < chunks'[r][k + 1].from
               /\ chunks'[r][k].to < chunks'[r][k + 1].to
    <3>1. CASE k + 1 <= Len(chunks[r])
      <4>1. k \in 1 .. Len(chunks[r]) - 1
            /\ chunks'[r][k] = chunks[r][k] /\ chunks'[r][k + 1] = chunks[r][k + 1]
        BY <1>10, <3>1
      <4> QED
        BY <2>1, <4>1 DEF Windows, WindowsOverlap
    <3>2. CASE ~ (k + 1 <= Len(chunks[r]))
      <4>1. k = Len(chunks[r]) /\ k \in 1 .. Len(chunks[r])
        BY <1>10, <3>2
      <4>2. chunks[r] # <<>> /\ chunks'[r][k] = Newest(r) /\ chunks'[r][k + 1] = w
        BY <1>2, <1>10, <4>1 DEF Newest
      <4> QED
        BY <1>6, <1>16, <2>1, <4>2
    <3> QED
      BY <3>1, <3>2
  <2> QED
    BY <1>1, <1>8, <2>1 DEF Windows, WindowsOverlap
<1> QED
  BY <1>13, <1>14, <1>15, <1>17, <1>18 DEF Windows

\* Nothing is claimed of windows that leave text out.
LEMMA OthersKeep ==
  ASSUME Windows, TypedAndUsable', NEW r \in Runs, ChunkWindow(r) \/ ChunkSkip(r), ~ Sensible
  PROVE  Windows'
<1>1. UNCHANGED <<config, at, content>> /\ at[r] = "chunk"
      /\ \A q \in Runs \ {r} :
           section'[q] = section[q] /\ cursor'[q] = cursor[q] /\ chunks'[q] = chunks[q]
  BY StepOfOne
<1>2. ~ Sensible'
  BY <1>1 DEF Sensible
<1>3. Untouched'
  BY <1>1 DEF Windows, Untouched
<1> QED
  BY <1>2, <1>3 DEF Windows, Behind, EverySectionCovered, AtCursor, WindowsOverlap

\* A window is dropped only when the chunker is told to keep nothing so short.
LEMMA SkipsForReason ==
  ASSUME Windows, NEW r \in Runs, ChunkSkip(r)
  PROVE  ~ Sensible
<1>1. /\ section[r] <= Len(content[r]) /\ cursor[r] < Length(r)
      /\ TooShort(r) /\ End(r) # Length(r)
  BY DEF ChunkSkip, InLoop, InSection, TooShort
<1> QED
  BY <1>1, ConfigFacts, EndFacts DEF Windows

LEMMA WindowsStep == Windows /\ [Next]_vars => Windows'
<1> SUFFICES ASSUME Windows, [Next]_vars PROVE Windows'
  OBVIOUS
<1>1. TypedAndUsable'
  BY TypeStep DEF Windows
<1>2. ASSUME NEW r \in Runs, NEW d \in Documents, NEW c \in Contents, CreateRun(r, d, c)
      PROVE  Windows'
  BY <1>1, <1>2, WindowsBegin
<1>3. ASSUME NEW r \in Runs, ChunkWhole(r) \/ ChunkLeave(r) PROVE Windows'
  BY <1>1, <1>3, WholeKeeps
<1>4. ASSUME NEW r \in Runs, ChunkWindow(r) PROVE Windows'
  BY <1>1, <1>4, WindowKeeps, OthersKeep
<1>5. ASSUME NEW r \in Runs, ChunkSkip(r) PROVE Windows'
  BY <1>1, <1>5, SkipsForReason, OthersKeep
<1>6. ASSUME NEW r \in Runs,
             CreateRunRaises(r) \/ ChunkDone(r) \/ StoreStep(r) \/ StatusStep(r)
      PROVE  Windows'
  <2>1. /\ UNCHANGED <<config, content, section, cursor, chunks>>
        /\ \A q \in Runs : at'[q] \in {"start", "mark_processing"} =>
                            at[q] \in {"start", "mark_processing"}
    BY <1>6 DEF CreateRunRaises, ChunkDone, StoreStep, StatusStep, Embed, EmbedRaises,
         WriteVectors, WriteVectorsRaises, PersistChunks, PersistChunksRaises, MarkProcessing,
         MarkProcessingRaises, MarkIndexed, MarkIndexedRaises, MarkFailed, MarkFailedRaises,
         Goto, run, loop, Windows, TypedAndUsable, IndexingTypeOK
  <2> QED
    BY <1>1, <2>1, WindowsUntouched
<1>7. CASE UNCHANGED vars
  BY <1>1, <1>7, WindowsUntouched DEF vars, run, loop
<1> QED
  BY <1>2, <1>3, <1>4, <1>5, <1>6, <1>7 DEF Next, Step, ChunkStep

\* No text is lost between the windows of a section, whatever the sizes, as long as the
\* overlap is not below zero nor the minimum above the window, and however many runs chunk
\* at once.  (DocumentChunker._split_text)
THEOREM IndexingCoverage == Spec => []EverySectionCovered
<1>1. Windows => EverySectionCovered
  BY DEF Windows
<1> QED
  BY <1>1, WindowsInit, WindowsStep, PTL DEF Spec

\* Windows that follow one another share exactly the overlap, and each goes beyond the one
\* before it, under the same condition.  (DocumentChunker._split_text)
THEOREM IndexingOverlap == Spec => []WindowsOverlap
<1>1. Windows => WindowsOverlap
  BY DEF Windows
<1> QED
  BY <1>1, WindowsInit, WindowsStep, PTL DEF Spec

\* Nor does the chunker go past its document's end.
InText ==
  \A r \in Runs : at[r] = "chunk" => section[r] <= Len(content[r]) + 1

Chunking == Windows /\ InText

LEMMA ChunkingStep == Chunking /\ [Next]_vars => Chunking'
<1> SUFFICES ASSUME Chunking, [Next]_vars PROVE InText'
  BY WindowsStep DEF Chunking
<1> USE DEF Chunking, InText, run, loop, Goto, SetStatus
<1>1. TypedAndUsable /\ Untouched
  BY DEF Windows
<1>2. /\ at \in [Runs -> Active \union {"start", "ended"}] /\ section \in [Runs -> Nat \ {0}]
        /\ content \in [Runs -> Contents \union {<<>>}]
      /\ \A r \in Runs : Len(content[r]) \in Nat
  BY <1>1, SectionFacts DEF TypedAndUsable, IndexingTypeOK
<1>3. ASSUME NEW r \in Runs, NEW d \in Documents, NEW c \in Contents, CreateRun(r, d, c)
      PROVE  InText'
  BY <1>2, <1>3 DEF CreateRun
<1>4. ASSUME NEW r \in Runs, MarkProcessing(r) PROVE InText'
  BY <1>1, <1>2, <1>4 DEF MarkProcessing, Untouched
<1>5. ASSUME NEW r \in Runs, ChunkWhole(r) \/ ChunkLeave(r) \/ ChunkWindow(r) PROVE InText'
  BY <1>2, <1>5 DEF ChunkWhole, ChunkLeave, ChunkWindow, InLoop, InSection, Advance, NextSection
<1>6. ASSUME NEW r \in Runs, ChunkSkip(r) PROVE InText'
  BY <1>2, <1>6 DEF ChunkSkip
<1>7. ASSUME NEW r \in Runs,
             \/ CreateRunRaises(r) \/ MarkProcessingRaises(r) \/ ChunkDone(r) \/ StoreStep(r)
             \/ MarkIndexed(r) \/ MarkIndexedRaises(r) \/ MarkFailed(r) \/ MarkFailedRaises(r)
      PROVE  InText'
  BY <1>2, <1>7 DEF CreateRunRaises, MarkProcessingRaises, ChunkDone, StoreStep, Embed, EmbedRaises,
       WriteVectors, WriteVectorsRaises, PersistChunks, PersistChunksRaises, MarkIndexed,
       MarkIndexedRaises, MarkFailed, MarkFailedRaises
<1>8. CASE UNCHANGED vars
  BY <1>8 DEF vars
<1> QED
  BY <1>3, <1>4, <1>5, <1>6, <1>7, <1>8 DEF Next, Step, ChunkStep, StatusStep

\* Each step of a run's chunker whose windows have characters brings it closer to the end
\* of its document, whatever the overlap and the minimum: what remains of RunsEnd is that a
\* finite text ends and the scheduler is fair.  (DocumentChunker.chunk, _split_text)
THEOREM IndexingChunkerAdvances == Spec => ChunkerAdvances
<1> DEFINE Advances ==
      \A r \in Runs : config.max_chars > 0 /\ at[r] = "chunk" =>
        \/ UNCHANGED <<at[r], section[r], cursor[r], chunks[r]>>
        \/ at'[r] = "embed" /\ section[r] = Len(content[r]) + 1
        \/ section'[r] = section[r] + 1 /\ section[r] <= Len(content[r])
        \/ /\ section'[r] = section[r]
           /\ cursor[r] < cursor'[r] /\ cursor[r] < Length(r)
<1>1. Init => Chunking
  BY WindowsInit DEF Init, Chunking, InText
<1>2. Chunking /\ [Next]_vars => [Advances]_vars
  <2> SUFFICES ASSUME Chunking, [Next]_vars, NEW r \in Runs, config.max_chars > 0, at[r] = "chunk"
               PROVE  \/ UNCHANGED <<at[r], section[r], cursor[r], chunks[r]>>
                      \/ at'[r] = "embed" /\ section[r] = Len(content[r]) + 1
                      \/ section'[r] = section[r] + 1 /\ section[r] <= Len(content[r])
                      \/ /\ section'[r] = section[r]
                         /\ cursor[r] < cursor'[r] /\ cursor[r] < Length(r)
    OBVIOUS
  <2>1. /\ TypedAndUsable /\ IndexingTypeOK
        /\ section[r] <= Len(content[r]) + 1 /\ section[r] \in Nat /\ Len(content[r]) \in Nat
    BY SectionFacts DEF Chunking, Windows, InText, TypedAndUsable, IndexingTypeOK
  <2>2. ChunkDone(r) => at'[r] = "embed" /\ section[r] = Len(content[r]) + 1
    BY <2>1 DEF ChunkDone, Goto, IndexingTypeOK
  <2>3. ChunkWhole(r) \/ ChunkLeave(r) =>
          section'[r] = section[r] + 1 /\ section[r] <= Len(content[r])
    BY <2>1 DEF ChunkWhole, ChunkLeave, InSection, NextSection, IndexingTypeOK
  <2>4. CASE ChunkWindow(r) \/ ChunkSkip(r)
    <3>1. section[r] <= Len(content[r]) /\ cursor[r] < Length(r)
      BY <2>4 DEF ChunkWindow, ChunkSkip, InLoop, InSection
    <3>2. /\ End(r) \in Nat /\ cursor[r] < End(r)
          /\ End(r) # Length(r) => End(r) = cursor[r] + config.max_chars
          /\ cursor[r] \in Int
      BY <2>1, <3>1, EndFacts DEF IndexingTypeOK
    <3>3. CASE End(r) = Length(r)
      BY <2>1, <2>4, <3>1, <3>3 DEF ChunkWindow, ChunkSkip, TooShort, Advance, NextSection,
           IndexingTypeOK
    <3>4. CASE End(r) # Length(r)
      <4>1. /\ section'[r] = section[r]
            /\ cursor'[r] \in {End(r), End(r) - config.overlap_chars}
        BY <2>1, <2>4, <3>4 DEF ChunkWindow, ChunkSkip, Advance, IndexingTypeOK
      <4> QED
        BY <2>1, <3>1, <3>2, <3>4, <4>1, ConfigFacts
    <3> QED
      BY <3>3, <3>4
  <2>5. ASSUME NEW q \in Runs, q # r,
               (\E d \in Documents, c \in Contents : CreateRun(q, d, c)) \/ CreateRunRaises(q) \/ Step(q)
        PROVE  UNCHANGED <<at[r], section[r], cursor[r], chunks[r]>>
    <3> USE <2>1, <2>5 DEF IndexingTypeOK, Goto, loop, run
    <3>1. at'[r] = at[r]
      BY DEF CreateRun, CreateRunRaises, Step, ChunkStep, StoreStep, StatusStep, MarkProcessing,
           MarkProcessingRaises, ChunkWhole, ChunkWindow, ChunkSkip, ChunkLeave, ChunkDone, Embed, EmbedRaises,
           WriteVectors, WriteVectorsRaises, PersistChunks, PersistChunksRaises, MarkIndexed,
           MarkIndexedRaises, MarkFailed, MarkFailedRaises
    <3>2. \/ UNCHANGED loop
          \/ ChunkWhole(q) \/ ChunkWindow(q) \/ ChunkSkip(q) \/ ChunkLeave(q)
      BY DEF CreateRun, CreateRunRaises, Step, ChunkStep, StoreStep, StatusStep, MarkProcessing,
           MarkProcessingRaises, ChunkDone, Embed, EmbedRaises,
           WriteVectors, WriteVectorsRaises, PersistChunks, PersistChunksRaises, MarkIndexed,
           MarkIndexedRaises, MarkFailed, MarkFailedRaises
    <3>3. ChunkWhole(q) \/ ChunkWindow(q) \/ ChunkSkip(q) \/ ChunkLeave(q) =>
            UNCHANGED <<section[r], cursor[r], chunks[r]>>
      BY DEF ChunkWhole, ChunkWindow, ChunkSkip, ChunkLeave, Advance, NextSection, Yield
    <3> QED
      BY <3>1, <3>2, <3>3
  <2>6. Step(r) => ChunkStep(r)
    BY DEF Step, StoreStep, StatusStep, MarkProcessing, MarkProcessingRaises, Embed, EmbedRaises,
         WriteVectors, WriteVectorsRaises, PersistChunks, PersistChunksRaises, MarkIndexed,
         MarkIndexedRaises, MarkFailed, MarkFailedRaises
  <2>7. ~ CreateRunRaises(r) /\ \A d \in Documents, c \in Contents : ~ CreateRun(r, d, c)
    BY DEF CreateRun, CreateRunRaises
  <2>8. UNCHANGED vars => UNCHANGED <<at[r], section[r], cursor[r], chunks[r]>>
    BY DEF vars, loop
  <2> QED
    BY <2>2, <2>3, <2>4, <2>5, <2>6, <2>7, <2>8 DEF Next, ChunkStep
<1> QED
  BY <1>1, <1>2, ChunkingStep, PTL DEF Spec, ChunkerAdvances

-----------------------------------------------------------------------------
(* The stores *)

\* What the status row says at each call, and the document a run is known by.
StatusAt ==
  \A r \in Runs :
    /\ at[r] = "start" => status[r] = "no_run" /\ document[r] = NoDocument
    /\ at[r] = "mark_processing" => status[r] = "pending"
    /\ at[r] \in {"chunk", "embed", "write_vectors", "persist_chunks", "mark_indexed"} =>
         status[r] = "processing"
    /\ at[r] = "mark_failed" => status[r] \in {"processing", "indexed"}
    /\ status[r] = "indexed" => document[r] \in Documents

\* While no two runs of a document have overlapped, the run at work is its last.
LastIsActive ==
  \A q \in Runs : (at[q] \in Active /\ document[q] \notin overlapped) => last[document[q]] = q

Statuses == TypedAndUsable /\ StatusAt /\ LastIsActive

LEMMA StatusesInit == Init => Statuses
BY TypeInit DEF Init, Statuses, StatusAt, LastIsActive, Active

LEMMA StatusesStep == Statuses /\ [Next]_vars => Statuses'
<1> SUFFICES ASSUME Statuses, [Next]_vars PROVE Statuses'
  OBVIOUS
<1>1. TypedAndUsable'
  BY TypeStep DEF Statuses
<1> USE DEF Statuses, StatusAt, LastIsActive, TypedAndUsable, IndexingTypeOK, Active, Goto, SetStatus,
            run, loop, stores, history
<1>2. ASSUME NEW r \in Runs, NEW d \in Documents, NEW c \in Contents, CreateRun(r, d, c)
      PROVE  (StatusAt /\ LastIsActive)'
  <2>1. StatusAt'
    BY <1>2 DEF CreateRun
  <2>2. ASSUME NEW q \in Runs, at'[q] \in Active, document'[q] \notin overlapped'
        PROVE  last'[document'[q]] = q
    <3>1. CASE q = r
      BY <1>2, <2>2, <3>1 DEF CreateRun
    <3>2. CASE q # r
      <4>1. at[q] \in Active /\ document'[q] = document[q] /\ document[q] \in Documents
        BY <1>2, <2>2, <3>2 DEF CreateRun
      <4>2. document[q] # d
        BY <1>2, <2>2, <4>1 DEF CreateRun, Running
      <4> QED
        BY <1>2, <2>2, <4>1, <4>2 DEF CreateRun
    <3> QED
      BY <3>1, <3>2
  <2> QED
    BY <2>1, <2>2
<1>3. ASSUME NEW r \in Runs, CreateRunRaises(r) PROVE (StatusAt /\ LastIsActive)'
  BY <1>3, RunsAssumption DEF CreateRunRaises
<1>4. ASSUME NEW r \in Runs, ChunkStep(r) PROVE (StatusAt /\ LastIsActive)'
  BY <1>4 DEF ChunkStep, ChunkWhole, ChunkWindow, ChunkSkip, ChunkLeave, ChunkDone
<1>5. ASSUME NEW r \in Runs, StoreStep(r) PROVE (StatusAt /\ LastIsActive)'
  BY <1>5 DEF StoreStep, Embed, EmbedRaises, WriteVectors, WriteVectorsRaises, PersistChunks,
              PersistChunksRaises
<1>6. ASSUME NEW r \in Runs, MarkProcessing(r) \/ MarkProcessingRaises(r)
      PROVE  (StatusAt /\ LastIsActive)'
  <2>1. StatusAt'
    BY <1>6 DEF MarkProcessing, MarkProcessingRaises
  <2>2. LastIsActive'
    BY <1>6 DEF MarkProcessing, MarkProcessingRaises
  <2> QED
    BY <2>1, <2>2
<1>7. ASSUME NEW r \in Runs, MarkIndexed(r) \/ MarkIndexedRaises(r)
      PROVE  (StatusAt /\ LastIsActive)'
  BY <1>7 DEF MarkIndexed, MarkIndexedRaises
<1>8. ASSUME NEW r \in Runs, MarkFailed(r) \/ MarkFailedRaises(r)
      PROVE  (StatusAt /\ LastIsActive)'
  <2>1. /\ at[r] = "mark_failed" /\ at'[r] = "ended" /\ UNCHANGED <<document, last, overlapped>>
        /\ status'[r] \in {status[r], "failed"}
        /\ \A q \in Runs \ {r} : at'[q] = at[q] /\ status'[q] = status[q]
    BY <1>8 DEF MarkFailed, MarkFailedRaises
  <2>2. StatusAt'
    BY <2>1
  <2> QED
    BY <2>1, <2>2
<1>9. CASE UNCHANGED vars
  BY <1>9 DEF vars
<1> QED
  BY <1>1, <1>2, <1>3, <1>4, <1>5, <1>6, <1>7, <1>8, <1>9 DEF Next, Step, StatusStep

LEMMA StatusesAlways == Spec => []Statuses
<1> QED
  BY StatusesInit, StatusesStep, PTL DEF Spec

\* A status only moves on, for every number of runs and every fault.
\* (IndexingPersistence.update_status)
THEOREM IndexingStatusMovesOn == Spec => StatusMovesOn
<1> DEFINE Moves(r) ==
      status'[r] # status[r] =>
        <<status[r], status'[r]>> \in
          {<<"no_run", "pending">>, <<"pending", "processing">>, <<"processing", "indexed">>,
           <<"processing", "failed">>, <<"indexed", "failed">>}
<1>1. ASSUME Statuses, [Next]_vars, NEW q \in Runs, status'[q] # status[q] PROVE Moves(q)
  <2> USE DEF Statuses, StatusAt, TypedAndUsable, IndexingTypeOK, SetStatus
  <2>1. ASSUME NEW r \in Runs, NEW d \in Documents, NEW c \in Contents, CreateRun(r, d, c)
        PROVE  Moves(q)
    <3>1. status[q] = "no_run" /\ status'[q] = "pending"
      BY <1>1, <2>1 DEF CreateRun
    <3> QED
      BY <3>1
  <2>2. ASSUME NEW r \in Runs, CreateRunRaises(r) PROVE Moves(q)
    <3>1. status[q] = "no_run" /\ status'[q] = "pending"
      BY <1>1, <2>2 DEF CreateRunRaises
    <3> QED
      BY <3>1
  <2>3. ASSUME NEW r \in Runs, ChunkStep(r) \/ StoreStep(r) PROVE Moves(q)
    BY <1>1, <2>3 DEF ChunkStep, ChunkWhole, ChunkWindow, ChunkSkip, ChunkLeave, ChunkDone, StoreStep, Embed,
       EmbedRaises, WriteVectors, WriteVectorsRaises, PersistChunks, PersistChunksRaises
  <2>4. ASSUME NEW r \in Runs, MarkProcessing(r) \/ MarkProcessingRaises(r) PROVE Moves(q)
    <3>1. status[q] = "pending" /\ status'[q] = "processing"
      BY <1>1, <2>4 DEF MarkProcessing, MarkProcessingRaises
    <3> QED
      BY <3>1
  <2>5. ASSUME NEW r \in Runs, MarkIndexed(r) \/ MarkIndexedRaises(r) PROVE Moves(q)
    <3>1. status[q] = "processing" /\ status'[q] = "indexed"
      BY <1>1, <2>5 DEF MarkIndexed, MarkIndexedRaises
    <3> QED
      BY <3>1
  <2>6. ASSUME NEW r \in Runs, MarkFailed(r) \/ MarkFailedRaises(r) PROVE Moves(q)
    <3>1. status[q] \in {"processing", "indexed"} /\ status'[q] = "failed"
      BY <1>1, <2>6 DEF MarkFailed, MarkFailedRaises
    <3> QED
      BY <3>1
  <2>7. CASE UNCHANGED vars
    BY <1>1, <2>7 DEF vars
  <2> QED
    BY <1>1, <2>1, <2>2, <2>3, <2>4, <2>5, <2>6, <2>7 DEF Next, Step, StatusStep
<1>2. Statuses /\ [Next]_vars =>
        [\A r \in Runs : Moves(r)]_vars
  BY <1>1
<1> QED
  BY <1>2, StatusesAlways, PTL DEF Spec, StatusMovesOn

\* A run that has written a store finds its chunks there, while it is its document's last
\* and has overlapped no other.
Alone(q) == document[q] \in Documents /\ last[document[q]] = q /\ document[q] \notin overlapped

Written ==
  \A q \in Runs : Alone(q) =>
    /\ (at[q] \in {"persist_chunks", "mark_indexed"} \/ status[q] = "indexed") => Holds(points, q)
    /\ (at[q] = "mark_indexed" \/ status[q] = "indexed") => Holds(rows, q)

Kept == Statuses /\ Written

\* A write replaces records of the writer's document only, and leaves its own in place.
LEMMA UpsertFacts ==
  ASSUME NEW S, NEW r \in Runs
  PROVE  /\ Holds(Upsert(S, RecordsOf(r)), r)
         /\ \A q \in Runs : (document[q] # document[r] /\ Holds(S, q)) =>
              Holds(Upsert(S, RecordsOf(r)), q)
<1>1. Holds(Upsert(S, RecordsOf(r)), r)
  BY DEF Holds, Upsert
<1>2. ASSUME NEW q \in Runs, document[q] # document[r], Holds(S, q), NEW x \in RecordsOf(q)
      PROVE  x \in Upsert(S, RecordsOf(r))
  <2>1. x.document = document[q] /\ \A y \in RecordsOf(r) : y.document = document[r]
    BY DEF RecordsOf
  <2>2. x \in S
    BY <1>2 DEF Holds
  <2> QED
    BY <1>2, <2>1, <2>2 DEF Upsert, SameId
<1> QED
  BY <1>1, <1>2 DEF Holds

\* Of two runs of one document that are both alone at it, one is not at work.
LEMMA Excluded ==
  ASSUME Statuses, NEW r \in Runs, at[r] \in Active, NEW q \in Runs, Alone(q), q # r
  PROVE  document[q] # document[r]
BY DEF Statuses, LastIsActive, Alone

LEMMA KeptInit == Init => Kept
BY StatusesInit DEF Init, Kept, Written

\* A step that writes no store, and brings no run past a write it has not made.
LEMMA KeptUntouched ==
  ASSUME Kept, UNCHANGED <<points, rows>>,
         \A q \in Runs : Alone(q)' =>
           /\ Alone(q)
           /\ \/ RecordsOf(q)' = RecordsOf(q)
              \/ at'[q] \in {"mark_processing", "chunk"} /\ status'[q] # "indexed"
           /\ at'[q] \in {"persist_chunks", "mark_indexed"} => at[q] = at'[q]
           /\ status'[q] = "indexed" => status[q] = "indexed" \/ at[q] = "mark_indexed"
  PROVE  Written'
BY DEF Kept, Written, Holds

LEMMA KeptStep == Kept /\ [Next]_vars => Kept'
<1> SUFFICES ASSUME Kept, [Next]_vars PROVE Kept'
  OBVIOUS
<1>1. Statuses /\ Statuses'
  BY StatusesStep DEF Kept
<1>2. TypedAndUsable /\ TypedAndUsable'
  BY <1>1 DEF Statuses
<1> USE DEF Goto, SetStatus, run, loop, stores, history
<1>3. ASSUME NEW r \in Runs, NEW d \in Documents, NEW c \in Contents, CreateRun(r, d, c)
      PROVE  Written'
  <2>1. UNCHANGED <<points, rows>>
    BY <1>3 DEF CreateRun
  <2>2. ASSUME NEW q \in Runs, Alone(q)', q # r
        PROVE  /\ Alone(q) /\ RecordsOf(q)' = RecordsOf(q)
               /\ at'[q] = at[q] /\ status'[q] = status[q]
    <3>1. at'[q] = at[q] /\ status'[q] = status[q] /\ document'[q] = document[q] /\ UNCHANGED chunks
      BY <1>2, <1>3, <2>2 DEF CreateRun, TypedAndUsable, IndexingTypeOK
    <3>2. Alone(q)
      BY <1>2, <1>3, <2>2, <3>1 DEF CreateRun, Alone, TypedAndUsable, IndexingTypeOK
    <3> QED
      BY <3>1, <3>2 DEF RecordsOf
  <2>3. at'[r] = "mark_processing" /\ status'[r] # "indexed"
    BY <1>2, <1>3 DEF CreateRun, TypedAndUsable, IndexingTypeOK
  <2>4. \A q \in Runs : Alone(q)' =>
          ((at'[q] \in {"persist_chunks", "mark_indexed"} \/ status'[q] = "indexed") =>
               /\ Alone(q) /\ RecordsOf(q)' = RecordsOf(q)
               /\ at'[q] = at[q] /\ status'[q] = status[q])
    BY <2>2, <2>3
  <2> QED
    BY <2>1, <2>4 DEF Kept, Written, Holds
<1>4. ASSUME NEW r \in Runs, CreateRunRaises(r) \/ StatusStep(r) \/ Embed(r) \/ EmbedRaises(r)
                               \/ ChunkDone(r) \/ PersistChunksRaises(r)
      PROVE  Written'
  <2>1. UNCHANGED <<points, rows, document, chunks, last, overlapped>>
    BY <1>4 DEF CreateRunRaises, StatusStep, Embed, EmbedRaises, ChunkDone, PersistChunksRaises,
         MarkProcessing, MarkProcessingRaises, MarkIndexed, MarkIndexedRaises, MarkFailed,
         MarkFailedRaises
  <2>2. \A q \in Runs : /\ at'[q] \in {"persist_chunks", "mark_indexed"} => at[q] = at'[q]
                        /\ status'[q] = "indexed" => status[q] = "indexed" \/ at[q] = "mark_indexed"
    <3> USE DEF TypedAndUsable, IndexingTypeOK
    <3>1. CASE CreateRunRaises(r) \/ Embed(r) \/ EmbedRaises(r) \/ ChunkDone(r)
                 \/ PersistChunksRaises(r)
      BY <1>2, <3>1 DEF CreateRunRaises, Embed, EmbedRaises, ChunkDone, PersistChunksRaises
    <3>2. CASE MarkProcessing(r) \/ MarkProcessingRaises(r)
      BY <1>2, <3>2 DEF MarkProcessing, MarkProcessingRaises
    <3>3. CASE MarkIndexed(r) \/ MarkIndexedRaises(r)
      BY <1>2, <3>3 DEF MarkIndexed, MarkIndexedRaises
    <3>4. CASE MarkFailed(r) \/ MarkFailedRaises(r)
      BY <1>2, <3>4 DEF MarkFailed, MarkFailedRaises
    <3> QED
      BY <1>4, <3>1, <3>2, <3>3, <3>4 DEF StatusStep
  <2>3. \A q \in Runs : RecordsOf(q)' = RecordsOf(q) /\ (Alone(q)' => Alone(q))
    BY <2>1 DEF RecordsOf, Alone
  <2> QED
    BY <2>1, <2>2, <2>3, KeptUntouched
<1>5. ASSUME NEW r \in Runs, ChunkWhole(r) \/ ChunkWindow(r) \/ ChunkSkip(r) \/ ChunkLeave(r)
      PROVE  Written'
  <2>1. UNCHANGED <<points, rows, document, status, at, last, overlapped>> /\ at[r] = "chunk"
    BY <1>5 DEF ChunkWhole, ChunkWindow, ChunkSkip, ChunkLeave, InLoop, InSection
  <2>2. \A q \in Runs \ {r} : chunks'[q] = chunks[q]
    BY <1>2, <1>5 DEF ChunkWhole, ChunkWindow, ChunkSkip, ChunkLeave, Yield, TypedAndUsable, IndexingTypeOK
  <2>3. \A q \in Runs \ {r} : RecordsOf(q)' = RecordsOf(q)
    BY <2>1, <2>2 DEF RecordsOf
  <2>4. status[r] # "indexed"
    BY <1>1, <2>1 DEF Statuses, StatusAt
  <2>5. \A q \in Runs : Alone(q)' => Alone(q)
    BY <2>1 DEF Alone
  <2> QED
    BY <2>1, <2>3, <2>4, <2>5, KeptUntouched
<1>6. ASSUME NEW r \in Runs, WriteVectors(r) \/ WriteVectorsRaises(r)
      PROVE  Written'
  <2>1. /\ UNCHANGED <<rows, document, chunks, status, last, overlapped>>
        /\ at[r] = "write_vectors" /\ at[r] \in Active
        /\ points' = points \/ points' = Upsert(points, RecordsOf(r))
        /\ at'[r] = "persist_chunks" => points' = Upsert(points, RecordsOf(r))
        /\ at'[r] # "mark_indexed" /\ \A q \in Runs \ {r} : at'[q] = at[q]
    BY <1>2, <1>6 DEF WriteVectors, WriteVectorsRaises, TypedAndUsable, IndexingTypeOK, Active
  <2>2. \A q \in Runs : RecordsOf(q)' = RecordsOf(q) /\ (Alone(q)' => Alone(q))
    BY <2>1 DEF RecordsOf, Alone
  <2>3. status[r] # "indexed"
    BY <1>1, <2>1 DEF Statuses, StatusAt
  <2>4. ASSUME NEW q \in Runs, Alone(q), q # r PROVE Holds(points, q) => Holds(points', q)
    BY <1>1, <2>1, <2>4, Excluded, UpsertFacts DEF Holds
  <2>5. at'[r] = "persist_chunks" => Holds(points', r)
    BY <2>1, UpsertFacts
  <2> QED
    BY <2>1, <2>2, <2>3, <2>4, <2>5 DEF Kept, Written, Holds
<1>7. ASSUME NEW r \in Runs, PersistChunks(r)
      PROVE  Written'
  <2>1. /\ UNCHANGED <<points, document, chunks, status, last, overlapped>>
        /\ at[r] = "persist_chunks" /\ at[r] \in Active
        /\ rows' = Upsert(rows, RecordsOf(r))
        /\ \A q \in Runs \ {r} : at'[q] = at[q]
    BY <1>2, <1>7 DEF PersistChunks, TypedAndUsable, IndexingTypeOK, Active
  <2>2. \A q \in Runs : RecordsOf(q)' = RecordsOf(q) /\ (Alone(q)' => Alone(q))
    BY <2>1 DEF RecordsOf, Alone
  <2>3. ASSUME NEW q \in Runs, Alone(q), q # r PROVE Holds(rows, q) => Holds(rows', q)
    BY <1>1, <2>1, <2>3, Excluded, UpsertFacts
  <2>4. Holds(rows', r)
    BY <2>1, UpsertFacts
  <2> QED
    BY <2>1, <2>2, <2>3, <2>4 DEF Kept, Written, Holds
<1>8. CASE UNCHANGED vars
  <2>1. UNCHANGED <<points, rows, document, chunks, at, status, last, overlapped>>
    BY <1>8 DEF vars
  <2>2. \A q \in Runs : RecordsOf(q)' = RecordsOf(q) /\ (Alone(q)' => Alone(q))
    BY <2>1 DEF RecordsOf, Alone
  <2> QED
    BY <1>1, <2>1, <2>2, KeptUntouched DEF Kept
<1> QED
  BY <1>1, <1>3, <1>4, <1>5, <1>6, <1>7, <1>8 DEF Kept, Next, Step, ChunkStep, StoreStep

LEMMA KeptAlways == Spec => []Kept
<1> QED
  BY KeptInit, KeptStep, PTL DEF Spec

\* A run marked indexed is complete in both stores, for every order in which runs of any
\* number of documents interleave and every fault.  (IndexingPipeline.index_document)
THEOREM IndexingInBoth == Spec => []IndexedInBoth
<1>1. Kept => IndexedInBoth
  BY DEF Kept, Statuses, StatusAt, Written, Alone, IndexedInBoth
<1> QED
  BY <1>1, KeptAlways, PTL

-----------------------------------------------------------------------------
(* The two stores *)

\* A run that has not failed so far, and one that has ended well.
Well(q) ==
  \/ at[q] \in Active \ {"mark_failed"}
  \/ status[q] = "indexed"

AllWell(d) ==
  d \notin overlapped /\ \A q \in Runs : document[q] = d => Well(q)

Between(q) == at[q] = "persist_chunks"

\* The stores agree but for what a run between its two writes has still to write.
InStep ==
  \A d \in Documents : AllWell(d) =>
    /\ \A q \in Runs : (document[q] = d /\ Between(q)) =>
         Of(points, d) = Of(Upsert(rows, RecordsOf(q)), d)
    /\ (\A q \in Runs : document[q] = d => ~ Between(q)) => Of(points, d) = Of(rows, d)

Abreast == Statuses /\ InStep

\* Upserting acts on each document's records alone.
LEMMA UpsertOf ==
  ASSUME NEW S, NEW T, NEW r \in Runs, NEW d
  PROVE  /\ document[r] # d => Of(Upsert(S, RecordsOf(r)), d) = Of(S, d)
         /\ Of(S, d) = Of(T, d) =>
              Of(Upsert(S, RecordsOf(r)), d) = Of(Upsert(T, RecordsOf(r)), d)
<1>1. \A y \in RecordsOf(r) : y.document = document[r]
  BY DEF RecordsOf
<1>2. ASSUME document[r] # d PROVE Of(Upsert(S, RecordsOf(r)), d) = Of(S, d)
  BY <1>1, <1>2 DEF Of, Upsert, SameId
<1>3. ASSUME Of(S, d) = Of(T, d)
      PROVE  Of(Upsert(S, RecordsOf(r)), d) = Of(Upsert(T, RecordsOf(r)), d)
  <2>1. \A x : x \in S /\ x.document = d <=> x \in T /\ x.document = d
    BY <1>3 DEF Of
  <2> QED
    BY <2>1 DEF Of, Upsert
<1> QED
  BY <1>2, <1>3

\* While runs of a document have not overlapped, one of them at most is at work.
LEMMA OneAtWork ==
  ASSUME Statuses, NEW r \in Runs, at[r] \in Active, NEW q \in Runs, at[q] \in Active,
         document[q] = document[r], document[r] \notin overlapped
  PROVE  q = r
BY DEF Statuses, LastIsActive

LEMMA AbreastInit == Init => Abreast
BY StatusesInit DEF Init, Abreast, InStep, Of, Between

\* A step that writes no store, mends no run and takes none to or past its second write.
LEMMA AbreastUntouched ==
  ASSUME Abreast, UNCHANGED <<points, rows>>,
         \A d \in Documents : AllWell(d)' =>
           /\ AllWell(d)
           /\ \A q \in Runs :
                /\ (document[q] = d /\ Between(q)) => (document'[q] = d /\ Between(q)')
                /\ (document'[q] = d /\ Between(q)') =>
                     (document[q] = d /\ Between(q) /\ RecordsOf(q)' = RecordsOf(q))
  PROVE  InStep'
<1> SUFFICES ASSUME NEW d \in Documents, AllWell(d)'
             PROVE  /\ \A q \in Runs : (document'[q] = d /\ Between(q)') =>
                         Of(points, d) = Of(Upsert(rows, RecordsOf(q)'), d)
                    /\ (\A q \in Runs : document'[q] = d => ~ Between(q)') =>
                         Of(points, d) = Of(rows, d)
  BY DEF InStep, Of, Upsert
<1>1. AllWell(d)
  OBVIOUS
<1> QED
  BY <1>1 DEF Abreast, InStep

LEMMA AbreastStep == Abreast /\ [Next]_vars => Abreast'
<1> SUFFICES ASSUME Abreast, [Next]_vars PROVE Abreast'
  OBVIOUS
<1>1. Statuses /\ Statuses'
  BY StatusesStep DEF Abreast
<1>2. TypedAndUsable /\ TypedAndUsable'
  BY <1>1 DEF Statuses
<1> USE DEF Goto, SetStatus, run, loop, stores, history
<1>3. ASSUME NEW r \in Runs, NEW d \in Documents, NEW c \in Contents, CreateRun(r, d, c)
      PROVE  InStep'
  <2>1. /\ UNCHANGED <<points, rows, chunks>> /\ at[r] = "start" /\ at'[r] = "mark_processing"
        /\ document[r] = NoDocument /\ overlapped \subseteq overlapped'
        /\ \A q \in Runs \ {r} :
             document'[q] = document[q] /\ at'[q] = at[q] /\ status'[q] = status[q]
    BY <1>1, <1>2, <1>3 DEF CreateRun, Statuses, StatusAt, TypedAndUsable, IndexingTypeOK
  <2>2. \A e \in Documents : AllWell(e)' => AllWell(e)
    BY <2>1, RunsAssumption DEF AllWell, Well
  <2>3. \A q \in Runs : q # r => RecordsOf(q)' = RecordsOf(q)
    BY <2>1 DEF RecordsOf
  <2> QED
    BY <2>1, <2>2, <2>3, AbreastUntouched DEF Between
<1>4. ASSUME NEW r \in Runs, CreateRunRaises(r) \/ ChunkStep(r) \/ Embed(r) \/ EmbedRaises(r)
                               \/ StatusStep(r)
      PROVE  InStep'
  <2>1. /\ UNCHANGED <<points, rows, document, overlapped>>
        /\ \A q \in Runs \ {r} : at'[q] = at[q] /\ status'[q] = status[q]
        /\ ~ Between(r) /\ ~ Between(r)'
    <3> USE DEF Between, TypedAndUsable, IndexingTypeOK
    <3>1. CASE CreateRunRaises(r) \/ Embed(r) \/ EmbedRaises(r)
      BY <1>2, <3>1 DEF CreateRunRaises, Embed, EmbedRaises
    <3>2. CASE ChunkStep(r)
      BY <1>2, <3>2 DEF ChunkStep, ChunkWhole, ChunkWindow, ChunkSkip, ChunkLeave, ChunkDone, InLoop, InSection
    <3>3. CASE StatusStep(r)
      BY <1>2, <3>3 DEF StatusStep, MarkProcessing, MarkProcessingRaises, MarkIndexed,
           MarkIndexedRaises, MarkFailed, MarkFailedRaises
    <3> QED
      BY <1>4, <3>1, <3>2, <3>3
  <2>2. Well(r)' => (Well(r) \/ document[r] \notin Documents)
    <3> USE DEF Well, Active, Statuses, StatusAt, TypedAndUsable, IndexingTypeOK
    <3>1. CASE CreateRunRaises(r)
      BY <1>1, <1>2, <3>1, RunsAssumption DEF CreateRunRaises
    <3>2. CASE ChunkStep(r)
      BY <1>2, <3>2 DEF ChunkStep, ChunkWhole, ChunkWindow, ChunkSkip, ChunkLeave, ChunkDone, InLoop, InSection
    <3>3. CASE Embed(r) \/ EmbedRaises(r) \/ MarkProcessing(r) \/ MarkProcessingRaises(r)
      BY <1>1, <1>2, <3>3 DEF Embed, EmbedRaises, MarkProcessing, MarkProcessingRaises
    <3>4. CASE MarkIndexed(r) \/ MarkIndexedRaises(r)
      BY <1>2, <3>4 DEF MarkIndexed, MarkIndexedRaises
    <3>5. CASE MarkFailed(r) \/ MarkFailedRaises(r)
      BY <1>1, <1>2, <3>5 DEF MarkFailed, MarkFailedRaises
    <3> QED
      BY <1>4, <3>1, <3>2, <3>3, <3>4, <3>5 DEF StatusStep
  <2>3. \A d \in Documents : AllWell(d)' => AllWell(d)
    BY <2>1, <2>2 DEF AllWell, Well
  <2>4. \A q \in Runs \ {r} : chunks'[q] = chunks[q]
    BY <1>2, <1>4 DEF CreateRunRaises, ChunkStep, ChunkWhole, ChunkWindow, ChunkSkip, ChunkLeave, ChunkDone,
         Yield, StatusStep, Embed, EmbedRaises, MarkProcessing, MarkProcessingRaises, MarkIndexed,
         MarkIndexedRaises, MarkFailed, MarkFailedRaises, TypedAndUsable, IndexingTypeOK
  <2>5. \A q \in Runs : q # r => RecordsOf(q)' = RecordsOf(q)
    BY <2>1, <2>4 DEF RecordsOf
  <2> QED
    BY <2>1, <2>3, <2>5, AbreastUntouched DEF Between
<1>5. ASSUME NEW r \in Runs,
             WriteVectors(r) \/ WriteVectorsRaises(r) \/ PersistChunks(r) \/ PersistChunksRaises(r)
      PROVE  InStep'
  <2>1. /\ UNCHANGED <<document, chunks, status, overlapped>> /\ at[r] \in Active
        /\ status[r] = "processing" /\ at[r] # "mark_failed"
        /\ points' = points \/ points' = Upsert(points, RecordsOf(r))
        /\ rows' = rows \/ rows' = Upsert(rows, RecordsOf(r))
        /\ \A q \in Runs \ {r} : at'[q] = at[q]
    BY <1>1, <1>2, <1>5 DEF WriteVectors, WriteVectorsRaises, PersistChunks, PersistChunksRaises,
         Active, Statuses, StatusAt, TypedAndUsable, IndexingTypeOK
  <2>2. \A q \in Runs : RecordsOf(q)' = RecordsOf(q)
    BY <2>1 DEF RecordsOf
  <2>3. \A d \in Documents : AllWell(d)' => AllWell(d)
    BY <2>1 DEF AllWell, Well
  <2> SUFFICES ASSUME NEW d \in Documents, AllWell(d), AllWell(d)'
               PROVE  /\ \A q \in Runs : (document[q] = d /\ Between(q)') =>
                           Of(points', d) = Of(Upsert(rows', RecordsOf(q)), d)
                      /\ (\A q \in Runs : document[q] = d => ~ Between(q)') =>
                           Of(points', d) = Of(rows', d)
    BY <2>1, <2>2, <2>3 DEF InStep, Of, Upsert
  <2>4. /\ \A q \in Runs : (document[q] = d /\ Between(q)) =>
              Of(points, d) = Of(Upsert(rows, RecordsOf(q)), d)
        /\ (\A q \in Runs : document[q] = d => ~ Between(q)) => Of(points, d) = Of(rows, d)
    BY DEF Abreast, InStep
  <2>5. CASE document[r] # d
    <3>1. Of(points', d) = Of(points, d) /\ Of(rows', d) = Of(rows, d)
      BY <2>1, <2>5, UpsertOf
    <3>2. \A q \in Runs : document[q] = d => (Between(q)' <=> Between(q))
      BY <2>1, <2>5 DEF Between
    <3> QED
      BY <2>4, <3>1, <3>2, UpsertOf
  <2>6. CASE document[r] = d
    <3>1. \A q \in Runs : (q # r /\ document[q] = d) => ~ Between(q) /\ ~ Between(q)'
      <4>1. ASSUME NEW q \in Runs, q # r, document[q] = d PROVE at[q] \notin Active
        BY <1>1, <2>1, <2>6, <4>1, OneAtWork DEF AllWell
      <4> QED
        BY <2>1, <4>1 DEF Between, Active
    <3>2. Well(r)'
      BY <2>1, <2>6 DEF AllWell
    <3>3. CASE WriteVectors(r)
      <4>1. ~ Between(r) /\ UNCHANGED rows /\ points' = Upsert(points, RecordsOf(r)) /\ Between(r)'
        BY <1>2, <3>3 DEF WriteVectors, Between, TypedAndUsable, IndexingTypeOK
      <4>2. Of(points', d) = Of(Upsert(rows', RecordsOf(r)), d)
        BY <2>4, <3>1, <4>1, UpsertOf
      <4> QED
        BY <2>6, <3>1, <4>1, <4>2
    <3>4. CASE PersistChunks(r)
      <4>1. Between(r) /\ UNCHANGED points /\ rows' = Upsert(rows, RecordsOf(r)) /\ ~ Between(r)'
        BY <1>2, <3>4 DEF PersistChunks, Between, TypedAndUsable, IndexingTypeOK
      <4> QED
        BY <2>4, <2>6, <3>1, <4>1
    <3>5. CASE WriteVectorsRaises(r) \/ PersistChunksRaises(r)
      BY <1>2, <2>1, <3>2, <3>5 DEF WriteVectorsRaises, PersistChunksRaises, Well, TypedAndUsable,
           IndexingTypeOK
    <3> QED
      BY <1>5, <3>3, <3>4, <3>5
  <2> QED
    BY <2>5, <2>6
<1>6. CASE UNCHANGED vars
  <2>1. UNCHANGED <<points, rows, document, at, status, overlapped>>
        /\ \A q \in Runs : RecordsOf(q)' = RecordsOf(q)
    BY <1>6 DEF vars, RecordsOf
  <2>2. \A d \in Documents : AllWell(d)' => AllWell(d)
    BY <2>1 DEF AllWell, Well
  <2>3. \A q \in Runs : document'[q] = document[q] /\ (Between(q)' <=> Between(q))
    BY <2>1 DEF Between
  <2> QED
    BY <1>1, <2>1, <2>2, <2>3, AbreastUntouched DEF Abreast
<1> QED
  BY <1>1, <1>3, <1>4, <1>5, <1>6 DEF Abreast, Next, Step, StoreStep

LEMMA AbreastAlways == Spec => []Abreast
<1> QED
  BY AbreastInit, AbreastStep, PTL DEF Spec

\* The vector store and the table hold the same chunks of a document whose runs have all
\* ended well, for every number of runs, whatever they wrote.  (IndexingPipeline.index_document)
THEOREM IndexingStoresAgree == Spec => []StoresAgree
<1>1. Abreast => StoresAgree
  BY DEF Abreast, Statuses, InStep, AllWell, Well, Between, StoresAgree
<1> QED
  BY <1>1, AbreastAlways, PTL
=============================================================================
