-------------------------- MODULE TrackTransferProofs --------------------------
(***************************************************************************)
(* What TrackTransfer keeps for every size of file, every listing and any  *)
(* number of attempts.  PartAligned and PublishedWhole are not inductive:  *)
(* an append is right because the offset asked for is the length of the    *)
(* .part file (Offsets), and that is so because a transfer leaves no final *)
(* file beside it (FinalAway); a recorded file is whole because its length *)
(* is the recorded one (Recorded).  HonestServerSuffices needs to know the *)
(* offset and the end of every body while nothing went wrong (HonestInv).  *)
(***************************************************************************)
EXTENDS TrackTransfer, SequenceTheorems, TLAPS

\* Tags are off, or the listing always tells the true size: otherwise a short
\* body of a file without a listed size is published, tagged and later continued
\* after its tags.
TagsHarmless == TagLength = 0 \/ Sizes = {SourceSize}

Beginning(c) == Len(c) <= SourceSize /\ Intact(c)

Contained ==
  /\ Beginning(part)
  /\ Beginning(final) \/ (Sizes = {SourceSize} /\ Whole(final))

FinalAway == phase \notin {"idle", "published"} => final = <<>>

Offsets ==
  /\ phase \in {"asking", "backoff"} /\ existing_size # 0 => existing_size = Len(part)
  /\ phase = "writing" => pos = Len(part)

Published ==
  phase = "published" =>
    /\ part = <<>>
    /\ Beginning(final)
    /\ size > 0 => Len(final) = size

Recorded == status = "completed" => phase = "idle" /\ total <= Len(final)

Listed ==
  /\ status # "none" => size \in Sizes
  /\ phase # "idle" => status \in {"queued", "downloading"}
  /\ phase = "backoff" => attempt < RetryCount
  /\ phase \in {"idle", "trim"} => attempt = 0 /\ pos = 0 /\ end = 0
  /\ phase \in {"asking", "writing", "published"} => attempt > 0

TransferInv ==
  /\ TransferTypeOK
  /\ Contained
  /\ FinalAway
  /\ Offsets
  /\ Published
  /\ Recorded
  /\ Listed

-----------------------------------------------------------------------------
(* Byte sequences.                                                          *)

\* A file that is not there is a beginning of the source.
LEMMA EmptyBegins == <<>> \in Contents /\ Len(<<>>) = 0 /\ Beginning(<<>>)
BY TransferAssumption DEF TransferAssumption, Contents, Beginning, Intact

\* So is what earlier downloads left.
LEMMA PrefixBegins ==
  ASSUME NEW n \in 0..SourceSize
  PROVE  Prefix(n) \in Contents /\ Beginning(Prefix(n))
BY TransferAssumption DEF TransferAssumption, Contents, Beginning, Intact, Prefix

\* The next byte of the source at the end of a beginning.
LEMMA AppendBegins ==
  ASSUME NEW c \in Contents, Beginning(c), Len(c) < SourceSize
  PROVE  /\ Append(c, Len(c) + 1) \in Contents
         /\ Len(Append(c, Len(c) + 1)) = Len(c) + 1
         /\ Beginning(Append(c, Len(c) + 1))
BY TransferAssumption DEF TransferAssumption, Contents, Beginning, Intact

\* A beginning that is cut short.
LEMMA CutBegins ==
  ASSUME NEW c \in Contents, Beginning(c), NEW n \in 0..Len(c)
  PROVE  /\ SubSeq(c, 1, n) \in Contents
         /\ Len(SubSeq(c, 1, n)) = n
         /\ Beginning(SubSeq(c, 1, n))
<1>1. c \in Seq(0..SourceSize)
  BY DEF Contents
<1>2. n \in Nat /\ n <= Len(c)
  BY <1>1
<1>3. ASSUME NEW i \in 1..n PROVE c[i] \in 0..SourceSize
  <2>1. i \in 1..Len(c)
    BY <1>1, <1>2
  <2>. QED
    BY <1>1, <2>1, ElementOfSeq
<1>4. /\ SubSeq(c, 1, n) \in Seq(0..SourceSize)
      /\ Len(SubSeq(c, 1, n)) = IF 1 <= n THEN n - 1 + 1 ELSE 0
      /\ \A i \in 1..(n - 1 + 1) : SubSeq(c, 1, n)[i] = c[1 + i - 1]
  <2>1. 1 \in Int /\ n \in Int
    BY <1>2
  <2>. QED
    BY <1>3, <2>1, SubSeqProperties
<1>5. /\ Len(SubSeq(c, 1, n)) = n
      /\ \A i \in 1..n : SubSeq(c, 1, n)[i] = c[i]
  BY <1>2, <1>4
<1>. QED
  BY <1>1, <1>2, <1>4, <1>5, TransferAssumption
  DEF TransferAssumption, Contents, Beginning, Intact

\* Tags lengthen a file and leave its bytes.
LEMMA TagsAppend ==
  ASSUME NEW c \in Contents
  PROVE  /\ Tagged(c) \in Contents
         /\ Len(Tagged(c)) = Len(c) + TagLength
         /\ \A i \in 1..Len(c) : Tagged(c)[i] = c[i]
<1> DEFINE tags == [i \in 1..TagLength |-> 0]
<1>1. tags \in Seq(0..SourceSize) /\ Len(tags) = TagLength
  BY TransferAssumption DEF TransferAssumption
<1> HIDE DEF tags
<1>2. c \in Seq(0..SourceSize)
  BY DEF Contents
<1>3. /\ c \o tags \in Seq(0..SourceSize)
      /\ Len(c \o tags) = Len(c) + Len(tags)
      /\ \A i \in 1..Len(c) : (c \o tags)[i] = c[i]
  BY <1>1, <1>2, ConcatProperties
<1>. QED
  BY <1>1, <1>3 DEF Tagged, Contents, tags

\* Without tags a beginning stays one, and a whole file always stays whole.
LEMMA TagsKeep ==
  ASSUME NEW c \in Contents
  PROVE  /\ Beginning(c) /\ TagLength = 0 => Beginning(Tagged(c))
         /\ Whole(c) => Whole(Tagged(c))
<1>1. CASE TagLength = 0
  BY <1>1, TagsAppend DEF Beginning, Whole, Intact, Contents
<1>2. ASSUME Whole(c) PROVE Whole(Tagged(c))
  <2>1. Len(Tagged(c)) >= SourceSize
    BY <1>2, TagsAppend, TransferAssumption DEF Whole, TransferAssumption, Contents
  <2>2. ASSUME NEW i \in DOMAIN Tagged(c), i <= SourceSize PROVE Tagged(c)[i] = i
    <3>1. i \in 1..Len(Tagged(c))
      BY TagsAppend DEF Contents
    <3>2. i \in 1..Len(c)
      BY <1>2, <2>2, <3>1, TransferAssumption DEF Whole, TransferAssumption, Contents
    <3>. QED
      BY <1>2, <2>2, <3>2, TagsAppend DEF Whole, Intact, Contents
  <2>. QED
    BY <2>1, <2>2 DEF Whole, Intact
<1>. QED
  BY <1>1, <1>2

-----------------------------------------------------------------------------
(* The invariant, action by action.                                         *)

\* What earlier downloads leave satisfies the invariant.
LEMMA InitInv == Init => TransferInv
<1> SUFFICES ASSUME Init PROVE TransferInv
  OBVIOUS
<1>1. final \in Contents /\ Beginning(final) /\ part \in Contents /\ Beginning(part)
  BY PrefixBegins DEF Init
<1>2. RetryCount \in Nat \ {0} /\ SourceSize \in Nat
  BY TransferAssumption DEF TransferAssumption
<1>3. /\ status = "none" /\ total = 0 /\ size = 0
      /\ phase = "idle" /\ attempt = 0 /\ existing_size = 0 /\ pos = 0 /\ end = 0
      /\ smooth = FALSE
  BY DEF Init
<1>4. TransferTypeOK
  <2>1. pos \in 0..end /\ end \in 0..SourceSize /\ attempt \in 0..RetryCount
    BY <1>2, <1>3
  <2>2. total \in Nat /\ size \in Sizes \union {0} /\ existing_size \in Nat
    BY <1>3
  <2>3. status \in Statuses /\ phase \in Phases /\ smooth \in BOOLEAN
    BY <1>3 DEF Statuses, Phases
  <2>. QED
    BY <1>1, <2>1, <2>2, <2>3 DEF TransferTypeOK
<1>5. Contained
  BY <1>1 DEF Contained
<1>6. FinalAway /\ Offsets /\ Published /\ Recorded /\ Listed
  BY <1>3 DEF FinalAway, Offsets, Published, Recorded, Listed
<1>. QED
  BY <1>4, <1>5, <1>6 DEF TransferInv

\* The file as what it is: lengths, and a file beyond the source is a whole one.
LEMMA Lengths ==
  ASSUME TransferInv
  PROVE  /\ Len(final) \in Nat /\ Len(part) \in Nat
         /\ Len(part) <= SourceSize
         /\ SourceSize \in Nat \ {0} /\ RetryCount \in Nat \ {0}
         /\ Sizes \subseteq Nat
         /\ size \in Nat
         /\ Beginning(final) => Len(final) <= SourceSize
         /\ ~Beginning(final) => Sizes = {SourceSize} /\ Len(final) >= SourceSize
BY TransferAssumption DEF TransferAssumption, TransferInv, TransferTypeOK, Contents,
   Contained, Beginning, Whole

\* A new listing changes no file.
LEMMA QueueInv ==
  ASSUME TransferInv, NEW listed \in Sizes, Queue(listed)
  PROVE  TransferInv'
<1>. USE Lengths DEF Queue, TransferInv, fileVars, transferVars
<1>1. TransferTypeOK'
  BY DEF TransferTypeOK, Statuses
<1>2. Contained'
  BY DEF Contained
<1>3. FinalAway' /\ Offsets' /\ Published' /\ Recorded' /\ Listed'
  BY DEF FinalAway, Offsets, Published, Recorded, Listed
<1>. QED
  BY <1>1, <1>2, <1>3

\* resume_job renames a partial file and records what is there.
LEMMA ResumeInv ==
  ASSUME TransferInv, NEW listed \in Sizes, Resume(listed)
  PROVE  TransferInv'
<1>1. /\ phase = "idle" /\ status # "none" /\ size' = listed /\ smooth' = FALSE
      /\ UNCHANGED transferVars
  BY DEF Resume
<1>2. Expected(listed) \in Nat
  BY Lengths DEF Expected, TransferInv, TransferTypeOK
<1>3. PICK expected \in Nat :
        \/ /\ Sound(expected)
           /\ part' = <<>> /\ UNCHANGED <<final, rowVars>>
        \/ /\ status' = "failed" /\ total' = expected
           /\ UNCHANGED fileVars
        \/ /\ Len(final) = expected
           /\ status' = "completed" /\ total' = expected
           /\ part' = <<>> /\ UNCHANGED final
        \/ /\ expected > 0 /\ Len(part) = expected /\ Len(final) <= expected
           /\ final' = part /\ part' = <<>>
           /\ \/ status' = "completed" /\ total' = expected
              \/ UNCHANGED rowVars
        \/ /\ status' = "queued" /\ total' = expected
           /\ UNCHANGED fileVars
  <2>. WITNESS Expected(listed) \in Nat
  <2>. QED
    BY Lengths, <1>2 DEF Resume, Judged, Oversized
<1>. USE <1>1, EmptyBegins, Lengths DEF TransferInv, fileVars, rowVars, transferVars
<1>4. TransferTypeOK'
  BY <1>3 DEF TransferTypeOK, Statuses
<1>5. Contained'
  BY <1>3 DEF Contained
<1>6. FinalAway' /\ Offsets' /\ Published' /\ Listed'
  BY <1>3 DEF FinalAway, Offsets, Published, Listed
<1>7. Recorded'
  <2> SUFFICES ASSUME status' = "completed" PROVE total' <= Len(final)'
    BY DEF Recorded
  <2>1. CASE UNCHANGED <<final, rowVars>>
    BY <2>1 DEF Recorded
  <2>2. CASE total' = expected /\ Len(final') = expected
    BY <2>2
  <2>3. CASE expected > 0 /\ Len(part) = expected /\ Len(final) <= expected
             /\ final' = part /\ UNCHANGED rowVars
    <3>1. total <= Len(final) /\ total \in Nat
      BY <2>3 DEF Recorded, TransferTypeOK
    <3>. QED
      BY <2>3, <3>1
  <2>. QED
    BY <1>3, <2>1, <2>2, <2>3
<1>. QED
  BY <1>4, <1>5, <1>6, <1>7
\* A file that is there is recorded, its .part file goes.
LEMMA AlreadyThereInv == TransferInv /\ AlreadyThere => TransferInv'
<1> SUFFICES ASSUME TransferInv, AlreadyThere PROVE TransferInv'
  OBVIOUS
<1>. USE EmptyBegins, Lengths DEF AlreadyThere, TransferInv, fileVars, rowVars, transferVars
<1>1. TransferTypeOK'
  BY DEF TransferTypeOK, Statuses, Phases
<1>2. Contained'
  BY DEF Contained
<1>3. FinalAway' /\ Offsets' /\ Published' /\ Recorded' /\ Listed'
  BY DEF FinalAway, Offsets, Published, Recorded, Listed
<1>. QED
  BY <1>1, <1>2, <1>3

\* Only a beginning of the source becomes the .part file: a file that is longer
\* than the listed size, tagged ones among them, is dropped.
LEMMA BeginInv ==
  ASSUME TransferInv, TagsHarmless, Begin
  PROVE  TransferInv'
<1>1. part' \in Contents /\ Beginning(part') /\ final' = <<>>
  <2>1. CASE (size = 0 \/ Len(final) < size) /\ Len(part) < Len(final)
    <3>1. Beginning(final)
      BY <2>1, Lengths DEF Begin, TransferInv, Listed
    <3>. QED
      BY <2>1, <3>1 DEF Begin, Incomplete, TransferInv, TransferTypeOK
  <2>2. CASE ~((size = 0 \/ Len(final) < size) /\ Len(part) < Len(final))
    BY <2>2 DEF Begin, Incomplete, TransferInv, TransferTypeOK, Contained
  <2>. QED
    BY <2>1, <2>2
<1>. USE <1>1, EmptyBegins, Lengths DEF Begin, TransferInv, rowVars
<1>2. TransferTypeOK'
  BY DEF TransferTypeOK, Phases
<1>3. Contained'
  BY DEF Contained
<1>4. FinalAway' /\ Offsets' /\ Published' /\ Recorded' /\ Listed'
  BY DEF FinalAway, Offsets, Published, Recorded, Listed
<1>. QED
  BY <1>2, <1>3, <1>4

\* The first offset is the length of the .part file, or nothing is asked for.
LEMMA TrimInv == TransferInv /\ Trim => TransferInv'
<1> SUFFICES ASSUME TransferInv, Trim PROVE TransferInv'
  OBVIOUS
<1>1. final = <<>> /\ final' = <<>> /\ size' = size
  BY DEF Trim, TransferInv, FinalAway
<1>2. part' \in {<<>>, part}
  BY DEF Trim
<1>3. part' \in Contents /\ Beginning(part') /\ Len(part') \in Nat
  BY <1>2, EmptyBegins, Lengths DEF TransferInv, TransferTypeOK, Contained
<1>4. existing_size' \in Nat /\ (existing_size' # 0 => existing_size' = Len(part'))
  BY <1>1, <1>3, EmptyBegins DEF Trim, local_partial_size, Usable
<1>. USE <1>1, <1>3, <1>4, Lengths DEF Trim, StartsAttempt, TransferInv
<1>5. TransferTypeOK'
  BY DEF TransferTypeOK, Statuses, Phases
<1>6. Contained'
  BY EmptyBegins DEF Contained
<1>7. FinalAway' /\ Offsets' /\ Published' /\ Recorded' /\ Listed'
  BY DEF FinalAway, Offsets, Published, Recorded, Listed
<1>. QED
  BY <1>5, <1>6, <1>7

\* An error of the OS leaves the files.
LEMMA LocalErrorInv == TransferInv /\ LocalError => TransferInv'
<1> SUFFICES ASSUME TransferInv, LocalError PROVE TransferInv'
  OBVIOUS
<1>. USE EmptyBegins, Lengths DEF LocalError, TransferInv, fileVars, rowVars, transferVars
<1>1. TransferTypeOK'
  BY DEF TransferTypeOK, Statuses, Phases
<1>2. Contained'
  BY DEF Contained
<1>3. FinalAway' /\ Offsets' /\ Published' /\ Recorded' /\ Listed'
  BY DEF FinalAway, Offsets, Published, Recorded, Listed
<1>. QED
  BY <1>1, <1>2, <1>3

\* The next attempt asks for the offset the last one left.
LEMMA AgainInv == TransferInv /\ Again => TransferInv'
<1> SUFFICES ASSUME TransferInv, Again PROVE TransferInv'
  OBVIOUS
<1>. USE EmptyBegins, Lengths DEF Again, TransferInv, fileVars, rowVars, transferVars, StartsAttempt, NextAttempt
<1>0. attempt \in Nat /\ attempt' \in 0..RetryCount /\ attempt' > 0
  BY DEF TransferTypeOK, Listed
<1>1. TransferTypeOK'
  BY <1>0 DEF TransferTypeOK, Statuses, Phases
<1>2. Contained'
  BY DEF Contained
<1>3. FinalAway' /\ Offsets' /\ Published' /\ Recorded' /\ Listed'
  BY <1>0 DEF FinalAway, Offsets, Published, Recorded, Listed
<1>. QED
  BY <1>1, <1>2, <1>3

\* A stop leaves the files.
LEMMA StopInv == TransferInv /\ Stop => TransferInv'
<1> SUFFICES ASSUME TransferInv, Stop PROVE TransferInv'
  OBVIOUS
<1>. USE EmptyBegins, Lengths DEF Stop, TransferInv, fileVars, rowVars, transferVars, AtRest
<1>1. TransferTypeOK'
  <2>1. pos' \in 0..end' /\ end' \in 0..SourceSize /\ attempt' \in 0..RetryCount
    OBVIOUS
  <2>2. total' \in Nat /\ existing_size' \in Nat /\ size' \in Sizes \union {0}
    BY DEF TransferTypeOK
  <2>3. status' \in Statuses /\ phase' \in Phases /\ smooth' \in BOOLEAN
    BY DEF Statuses, Phases
  <2>. QED
    BY <2>1, <2>2, <2>3 DEF TransferTypeOK
<1>2. Contained'
  BY DEF Contained
<1>3. FinalAway' /\ Offsets' /\ Published' /\ Recorded' /\ Listed'
  BY DEF FinalAway, Offsets, Published, Recorded, Listed
<1>. QED
  BY <1>1, <1>2, <1>3

\* The end of an attempt, whatever beginning of the source it leaves: the offset
\* of the next one is again the length of the .part file.
LEMMA FailInv ==
  ASSUME TransferInv, phase \in {"asking", "writing"}, smooth' \in BOOLEAN,
         NEW p \in Contents, Beginning(p), AttemptFails(p, <<>>)
  PROVE  TransferInv'
<1> DEFINE actual == local_partial_size(p, <<>>)
<1>1. actual \in Nat /\ (actual # 0 => actual = Len(p))
  BY EmptyBegins DEF local_partial_size, Usable, Contents
<1>2. part' = p /\ final' = <<>> /\ size' = size
  BY DEF AttemptFails
<1>3. \/ /\ LastAttempt /\ AtRest
         /\ status' \in {"paused", "failed"} /\ total' = size
      \/ /\ ~LastAttempt /\ phase' = "backoff" /\ existing_size' = actual
         /\ pos' = 0 /\ end' = 0
         /\ attempt' = attempt /\ status' = status /\ total' = total
  BY DEF AttemptFails, rowVars
<1> HIDE DEF actual
<1>. USE EmptyBegins, Lengths, <1>1, <1>2, <1>3 DEF TransferInv
<1>4. TransferTypeOK'
  <2>1. pos' \in 0..end' /\ end' \in 0..SourceSize /\ attempt' \in 0..RetryCount
    BY DEF AtRest, TransferTypeOK
  <2>2. total' \in Nat /\ existing_size' \in Nat /\ size' \in Sizes \union {0}
    BY DEF AtRest, TransferTypeOK
  <2>3. status' \in Statuses /\ phase' \in Phases
    BY DEF AtRest, TransferTypeOK, Statuses, Phases
  <2>. QED
    BY <2>1, <2>2, <2>3 DEF TransferTypeOK
<1>5. Contained'
  BY DEF Contained
<1>6. FinalAway' /\ Offsets' /\ Published' /\ Recorded'
  BY DEF AtRest, FinalAway, Offsets, Published, Recorded, Listed
<1>7. Listed'
  <2>1. ~LastAttempt => attempt < RetryCount
    BY DEF LastAttempt, TransferTypeOK
  <2>. QED
    BY <2>1 DEF AtRest, Listed
<1>. QED
  BY <1>4, <1>5, <1>6, <1>7

\* A reset leaves nothing.
LEMMA ResetInv ==
  ASSUME TransferInv, phase = "asking", smooth' \in BOOLEAN, Reset
  PROVE  TransferInv'
<1>1. final = <<>>
  BY DEF TransferInv, FinalAway
<1>2. CASE LastAttempt
  <2>1. AttemptFails(<<>>, <<>>)
    BY <1>1, <1>2 DEF Reset
  <2>. QED
    BY <2>1, FailInv, EmptyBegins
<1>3. CASE ~LastAttempt
  <2>1. /\ part' = <<>> /\ final' = <<>> /\ phase' = "backoff" /\ existing_size' = 0
        /\ UNCHANGED <<rowVars, size, attempt, pos, end>>
    BY <1>1, <1>3 DEF Reset, OffsetAfterReset
  <2>2. attempt < RetryCount
    BY <1>3, Lengths DEF LastAttempt, TransferInv, TransferTypeOK
  <2>. USE <2>1, <2>2, EmptyBegins DEF TransferInv, rowVars
  <2>3. TransferTypeOK'
    BY DEF TransferTypeOK, Phases
  <2>4. Contained'
    BY DEF Contained
  <2>5. FinalAway' /\ Offsets' /\ Published' /\ Recorded' /\ Listed'
    BY DEF FinalAway, Offsets, Published, Recorded, Listed
  <2>. QED
    BY <2>3, <2>4, <2>5
<1>. QED
  BY <1>2, <1>3

\* A .part file of the listed size becomes the file.
LEMMA PublishInv ==
  ASSUME TransferInv, phase \in {"asking", "writing"}, smooth' \in BOOLEAN,
         size > 0 => Len(part) = size, Publish(part)
  PROVE  TransferInv'
<1>. USE EmptyBegins, Lengths DEF Publish, TransferInv, rowVars
<1>1. TransferTypeOK'
  BY DEF TransferTypeOK, Phases
<1>2. Contained'
  BY DEF Contained
<1>3. FinalAway' /\ Offsets' /\ Published' /\ Recorded' /\ Listed'
  BY DEF Contained, FinalAway, Offsets, Published, Recorded, Listed
<1>. QED
  BY <1>1, <1>2, <1>3

\* A body that is written starts where the opened .part file ends.
LEMMA ReceivesInv ==
  ASSUME TransferInv, phase = "asking", smooth' \in BOOLEAN,
         NEW first \in 0..SourceSize, NEW last \in first..SourceSize,
         NEW offset \in {0, existing_size}, first = offset,
         Receives(offset, first, last)
  PROVE  TransferInv'
<1>1. part' \in Contents /\ Beginning(part') /\ Len(part') = first
  BY EmptyBegins, Lengths DEF Receives, Opened, TransferInv, TransferTypeOK, Contained, Offsets
<1>. USE <1>1, EmptyBegins, Lengths DEF Receives, TransferInv, rowVars
<1>2. TransferTypeOK'
  BY DEF TransferTypeOK, Phases
<1>3. Contained'
  BY DEF Contained
<1>4. FinalAway' /\ Offsets' /\ Published' /\ Recorded' /\ Listed'
  BY DEF FinalAway, Offsets, Published, Recorded, Listed
<1>. QED
  BY <1>2, <1>3, <1>4

\* Every response.
LEMMA AnswerInv == TransferInv /\ Answer => TransferInv'
<1> SUFFICES ASSUME TransferInv, Answer PROVE TransferInv'
  OBVIOUS
<1>0. /\ final = <<>> \/ phase \in {"idle", "published"}
      /\ part \in Contents /\ Beginning(part)
      /\ smooth \in BOOLEAN /\ SourceSize \in Nat
      /\ Len(part) \in Nat /\ existing_size \in Nat
  BY Lengths DEF TransferInv, FinalAway, TransferTypeOK, Contained
<1>1. CASE AnswerError
  BY <1>0, <1>1, FailInv DEF AnswerError
<1>2. CASE AnswerUnsatisfiable
  <2>1. phase = "asking" /\ final = <<>> /\ smooth' \in BOOLEAN
    BY <1>0, <1>2 DEF AnswerUnsatisfiable
  <2>2. CASE size > 0 /\ local_partial_size(part, final) = size
    <3>1. Len(part) = size
      BY <1>0, <2>1, <2>2, EmptyBegins, Lengths DEF local_partial_size, Usable
    <3>. QED
      BY <1>2, <2>1, <2>2, <3>1, PublishInv DEF AnswerUnsatisfiable
  <2>3. CASE ~(size > 0 /\ local_partial_size(part, final) = size)
    BY <1>2, <2>1, <2>3, ResetInv DEF AnswerUnsatisfiable
  <2>. QED
    BY <2>2, <2>3
<1>3. ASSUME NEW last \in 0..SourceSize, AnswerWhole(last) PROVE TransferInv'
  <2>1. phase = "asking" /\ smooth' \in BOOLEAN /\ Receives(0, 0, last)
    BY <1>0, <1>3 DEF AnswerWhole
  <2>. QED
    BY <1>0, <2>1, ReceivesInv
<1>4. ASSUME NEW start \in 0..(SourceSize - 1), NEW whole \in Sizes \union {0, SourceSize},
             NEW sound \in BOOLEAN, NEW last \in (start + 1)..SourceSize,
             AnswerRange(start, last, whole, sound)
      PROVE  TransferInv'
  <2>1. phase = "asking" /\ smooth' \in BOOLEAN
    BY <1>0, <1>4 DEF AnswerRange
  <2>2. CASE Appendable(start, whole, sound)
    <3>1. start = existing_size /\ start \in 0..SourceSize /\ last \in start..SourceSize
      BY <1>0, <2>2 DEF Appendable
    <3>2. Receives(existing_size, start, last)
      BY <1>4, <2>2 DEF AnswerRange
    <3>. QED
      BY <2>1, <3>1, <3>2, ReceivesInv
  <2>3. CASE ~Appendable(start, whole, sound)
    BY <1>4, <2>1, <2>3, ResetInv DEF AnswerRange
  <2>. QED
    BY <2>2, <2>3
<1>. QED
  BY <1>1, <1>2, <1>3, <1>4 DEF Answer

\* The next byte goes to the end of the .part file.
LEMMA ReceiveByteInv == TransferInv /\ ReceiveByte => TransferInv'
<1> SUFFICES ASSUME TransferInv, ReceiveByte PROVE TransferInv'
  OBVIOUS
<1>1. /\ pos = Len(part) /\ pos < end /\ end <= SourceSize
      /\ pos \in Nat /\ end \in Nat
  BY Lengths DEF ReceiveByte, TransferInv, TransferTypeOK, Offsets
<1>2. part' \in Contents /\ Beginning(part') /\ Len(part') = pos'
  BY <1>1, AppendBegins, Lengths DEF ReceiveByte, TransferInv, TransferTypeOK, Contained
<1>. USE <1>1, <1>2, Lengths DEF ReceiveByte, TransferInv, rowVars
<1>3. TransferTypeOK'
  BY DEF TransferTypeOK
<1>4. Contained'
  BY DEF Contained
<1>5. FinalAway' /\ Offsets' /\ Published' /\ Recorded' /\ Listed'
  BY DEF FinalAway, Offsets, Published, Recorded, Listed
<1>. QED
  BY <1>3, <1>4, <1>5

\* The end of the body, in order or not.
LEMMA BodyInv == TransferInv /\ (EndOfBody \/ Break) => TransferInv'
<1> SUFFICES ASSUME TransferInv, EndOfBody \/ Break PROVE TransferInv'
  OBVIOUS
<1>1. /\ phase = "writing" /\ final = <<>> /\ smooth' \in BOOLEAN
      /\ part \in Contents /\ Beginning(part)
  BY DEF EndOfBody, Break, TransferInv, TransferTypeOK, FinalAway, Contained
<1>2. CASE EndOfBody /\ FullyReceived
  BY <1>1, <1>2, PublishInv DEF EndOfBody, FullyReceived
<1>3. CASE ~(EndOfBody /\ FullyReceived)
  <2>1. AttemptFails(part, <<>>)
    BY <1>1, <1>3 DEF EndOfBody, Break
  <2>. QED
    BY <1>1, <2>1, FailInv
<1>. QED
  BY <1>2, <1>3

\* Tags after publication: with harmless tags the file is still the source's
\* beginning, or the whole of it.
LEMMA TaggedContained ==
  ASSUME TransferInv, TagsHarmless, phase = "published", final' \in {final, Tagged(final)}
  PROVE  /\ final' \in Contents
         /\ Len(final) \in Nat /\ Len(final') \in Nat /\ Len(final) <= Len(final')
         /\ Beginning(final') \/ (Sizes = {SourceSize} /\ Whole(final'))
<1>1. final \in Contents /\ Beginning(final) /\ Len(final) \in Nat
  BY Lengths DEF TransferInv, TransferTypeOK, Published
<1>2. CASE final' = final
  BY <1>1, <1>2
<1>3. CASE final' = Tagged(final)
  <2>1. /\ final' \in Contents /\ Len(final') \in Nat /\ Len(final) <= Len(final')
    BY <1>1, <1>3, TagsAppend, TransferAssumption DEF TransferAssumption
  <2>2. CASE TagLength = 0
    BY <1>1, <1>3, <2>1, <2>2, TagsKeep
  <2>3. CASE Sizes = {SourceSize}
    <3>1. size = SourceSize /\ SourceSize > 0
      BY <2>3, Lengths DEF TransferInv, Listed
    <3>2. Whole(final)
      BY <1>1, <3>1, Lengths DEF TransferInv, Published, Whole, Beginning
    <3>. QED
      BY <1>1, <1>3, <2>1, <2>3, <3>2, TagsKeep
  <2>. QED
    BY <2>2, <2>3 DEF TagsHarmless
<1>. QED
  BY <1>2, <1>3

\* The row follows the file it is about.
LEMMA RecordInv ==
  ASSUME TransferInv, TagsHarmless, Record
  PROVE  TransferInv'
<1>1. /\ final' \in Contents
      /\ Len(final) \in Nat /\ Len(final') \in Nat /\ Len(final) <= Len(final')
      /\ Beginning(final') \/ (Sizes = {SourceSize} /\ Whole(final'))
  BY TaggedContained DEF Record
<1>2. total' \in Nat /\ total' <= Len(final')
  BY <1>1, Lengths DEF Record, TransferInv, Published
<1>3. /\ phase = "published" /\ phase' = "idle" /\ attempt' = 0 /\ existing_size' = 0
      /\ pos' = 0 /\ end' = 0 /\ status' = "completed"
      /\ UNCHANGED <<part, size, smooth>>
  BY DEF Record, AtRest
<1>. USE <1>1, <1>2, <1>3, Lengths DEF TransferInv
<1>4. TransferTypeOK'
  <2>1. pos' \in 0..end' /\ end' \in 0..SourceSize /\ attempt' \in 0..RetryCount
    OBVIOUS
  <2>. QED
    BY <2>1 DEF TransferTypeOK, Statuses, Phases
<1>5. Contained'
  BY DEF Contained
<1>6. FinalAway' /\ Offsets' /\ Published' /\ Recorded' /\ Listed'
  BY DEF FinalAway, Offsets, Published, Recorded, Listed
<1>. QED
  BY <1>4, <1>5, <1>6

\* A crash cuts the .part file or leaves a file without its row.
LEMMA CrashInv ==
  ASSUME TransferInv, TagsHarmless, Crash
  PROVE  TransferInv'
<1>1. /\ final' \in Contents
      /\ Beginning(final') \/ (Sizes = {SourceSize} /\ Whole(final'))
  <2>1. CASE phase = "published"
    <3>1. final' \in {final, Tagged(final)}
      BY <2>1 DEF Crash
    <3>. QED
      BY <2>1, <3>1, TaggedContained
  <2>2. CASE phase # "published"
    <3>1. final' = final
      BY <2>2 DEF Crash
    <3>. QED
      BY <3>1 DEF TransferInv, TransferTypeOK, Contained
  <2>. QED
    BY <2>1, <2>2
<1>2. part' \in Contents /\ Beginning(part')
  <2>1. part \in Contents /\ Beginning(part)
    BY DEF TransferInv, TransferTypeOK, Contained
  <2>2. part' = part \/ \E n \in 0..Len(part) : part' = SubSeq(part, 1, n)
    BY DEF Crash
  <2>. QED
    BY <2>1, <2>2, CutBegins
<1>3. /\ phase # "idle" /\ phase' = "idle" /\ attempt' = 0 /\ existing_size' = 0
      /\ pos' = 0 /\ end' = 0 /\ smooth' = FALSE
      /\ UNCHANGED <<rowVars, size>>
  BY DEF Crash, AtRest
<1>. USE <1>1, <1>2, <1>3, Lengths DEF TransferInv, rowVars
<1>4. TransferTypeOK'
  <2>1. pos' \in 0..end' /\ end' \in 0..SourceSize /\ attempt' \in 0..RetryCount
    OBVIOUS
  <2>. QED
    BY <2>1 DEF TransferTypeOK, Statuses, Phases
<1>5. Contained'
  BY DEF Contained
<1>6. FinalAway' /\ Offsets' /\ Published' /\ Recorded' /\ Listed'
  BY DEF FinalAway, Offsets, Published, Recorded, Listed
<1>. QED
  BY <1>4, <1>5, <1>6

\* The invariant is inductive.
LEMMA StepInv ==
  ASSUME TransferInv, TagsHarmless, [Next]_vars
  PROVE  TransferInv'
<1>1. CASE \E listed \in Sizes : Queue(listed) \/ Resume(listed)
  BY <1>1, QueueInv, ResumeInv
<1>2. CASE AlreadyThere \/ Begin
  BY <1>2, AlreadyThereInv, BeginInv
<1>3. CASE Trim \/ LocalError \/ Answer \/ Again \/ Stop
  BY <1>3, TrimInv, LocalErrorInv, AnswerInv, AgainInv, StopInv
<1>4. CASE ReceiveByte \/ EndOfBody \/ Break
  BY <1>4, ReceiveByteInv, BodyInv
<1>5. CASE Record \/ Crash
  BY <1>5, RecordInv, CrashInv
<1>6. CASE UNCHANGED vars
  BY <1>6 DEF vars, fileVars, rowVars, transferVars, TransferInv, TransferTypeOK, Contained,
     FinalAway, Offsets, Published, Recorded, Listed
<1>. QED
  BY <1>1, <1>2, <1>3, <1>4, <1>5, <1>6 DEF Next, Work

-----------------------------------------------------------------------------
(* The theorems.                                                            *)

\* Every .part file is a beginning of the source, in every behaviour.
THEOREM Aligned == TagsHarmless /\ Spec => []PartAligned
<1> SUFFICES ASSUME TagsHarmless PROVE Spec => []PartAligned
  OBVIOUS
<1>1. TransferInv /\ [Next]_vars => TransferInv'
  BY StepInv
<1>2. TransferInv => PartAligned
  BY DEF TransferInv, Contained, Beginning, PartAligned
<1>. QED
  BY InitInv, <1>1, <1>2, PTL DEF Spec

\* A recorded file of the source's size has the source's bytes.
LEMMA InvWhole == TransferInv => PublishedWhole
<1> SUFFICES ASSUME TransferInv, status = "completed", total = SourceSize
             PROVE  Whole(final)
  BY DEF PublishedWhole
<1>1. Len(final) >= SourceSize
  BY Lengths DEF TransferInv, Recorded
<1>2. Intact(final)
  BY DEF TransferInv, Contained, Beginning, Whole
<1>. QED
  BY <1>1, <1>2 DEF Whole

\* A file recorded complete is the source, in every behaviour.
THEOREM RecordedWhole == TagsHarmless /\ Spec => []PublishedWhole
<1> SUFFICES ASSUME TagsHarmless PROVE Spec => []PublishedWhole
  OBVIOUS
<1>1. TransferInv /\ [Next]_vars => TransferInv'
  BY StepInv
<1>. QED
  BY InitInv, InvWhole, <1>1, PTL DEF Spec

\* The types, of every size of file and any number of attempts.
THEOREM TransferTypeCorrect == TagsHarmless /\ Spec => []TransferTypeOK
<1> SUFFICES ASSUME TagsHarmless PROVE Spec => []TransferTypeOK
  OBVIOUS
<1>1. TransferInv /\ [Next]_vars => TransferInv'
  BY StepInv
<1>2. TransferInv => TransferTypeOK
  BY DEF TransferInv
<1>. QED
  BY InitInv, <1>1, <1>2, PTL DEF Spec

-----------------------------------------------------------------------------
(* An honest server suffices.                                               *)

\* What is so at each position while nothing has gone wrong: an offset that the
\* server refuses is asked for once, and the body that comes ends the source.
HonestInv ==
  smooth /\ size \in {0, SourceSize} /\ RetryCount > 1 =>
    /\ phase = "idle" => status = "completed" /\ Whole(final)
    /\ phase = "asking" => attempt = 1 \/ existing_size = 0
    /\ phase = "backoff" => existing_size = 0
    /\ phase = "writing" => end = SourceSize
    /\ phase = "published" => Whole(final)

\* A beginning as long as the source is the source.
LEMMA FullIsWhole ==
  ASSUME NEW c, Beginning(c), Len(c) = SourceSize
  PROVE  Whole(c)
BY TransferAssumption DEF TransferAssumption, Beginning, Whole

\* The answers of an honest server: 416 at the end of the source, once; else the
\* rest of the source.
LEMMA HonestAnswer == TransferInv /\ HonestInv /\ Answer => HonestInv'
<1> SUFFICES ASSUME TransferInv, HonestInv, Answer,
                    smooth', size' \in {0, SourceSize}, RetryCount > 1
             PROVE  /\ phase' = "idle" => (status = "completed" /\ Whole(final))'
                    /\ phase' = "asking" => attempt' = 1 \/ existing_size' = 0
                    /\ phase' = "backoff" => existing_size' = 0
                    /\ phase' = "writing" => end' = SourceSize
                    /\ phase' = "published" => Whole(final)'
  BY DEF HonestInv
<1>0. phase = "asking"
  BY DEF Answer, AnswerError, AnswerUnsatisfiable, AnswerWhole, AnswerRange
<1>1. /\ final = <<>> /\ part \in Contents /\ Beginning(part)
      /\ existing_size \in Nat /\ attempt \in Nat
  BY <1>0 DEF TransferInv, TransferTypeOK, FinalAway, Contained
<1>2. CASE AnswerError
  BY <1>2 DEF AnswerError
<1>3. CASE AnswerUnsatisfiable
  <2>1. smooth /\ existing_size >= SourceSize /\ SourceSize \in Nat \ {0}
    BY <1>3, TransferAssumption DEF TransferAssumption, AnswerUnsatisfiable
  <2>2. size' = size
    BY <1>3 DEF AnswerUnsatisfiable, Publish, Reset, AttemptFails
  <2>3. attempt = 1
    BY <1>0, <1>1, <2>1, <2>2 DEF HonestInv
  <2>4. Len(part) = SourceSize
    BY <1>0, <1>1, <2>1, Lengths DEF TransferInv, Offsets, Beginning
  <2>5. CASE size = SourceSize
    <3>1. local_partial_size(part, final) = size
      BY <2>1, <2>4, <2>5 DEF local_partial_size, Usable
    <3>2. Publish(part)
      BY <1>3, <2>1, <2>5, <3>1 DEF AnswerUnsatisfiable
    <3>3. Whole(part)
      BY <1>1, <2>4, FullIsWhole
    <3>. QED
      BY <3>2, <3>3 DEF Publish, Whole, Intact
  <2>6. CASE size = 0
    <3>1. Reset
      BY <1>3, <2>6 DEF AnswerUnsatisfiable
    <3>2. ~LastAttempt
      BY <2>3, TransferAssumption DEF TransferAssumption, LastAttempt
    <3>. QED
      BY <3>1, <3>2 DEF Reset, OffsetAfterReset
  <2>. QED
    BY <2>2, <2>5, <2>6
<1>4. ASSUME NEW last \in 0..SourceSize, AnswerWhole(last)
      PROVE  phase' = "writing" /\ end' = SourceSize
  BY <1>4 DEF AnswerWhole, Receives
<1>5. ASSUME NEW start \in 0..(SourceSize - 1), NEW whole \in Sizes \union {0, SourceSize},
             NEW sound \in BOOLEAN, NEW last \in (start + 1)..SourceSize,
             AnswerRange(start, last, whole, sound)
      PROVE  phase' = "writing" /\ end' = SourceSize
  <2>1. /\ sound /\ start = existing_size
        /\ last = SourceSize /\ whole \in {0, SourceSize}
    BY <1>5 DEF AnswerRange
  <2>2. size' = size
    BY <1>5 DEF AnswerRange, Receives, Reset, AttemptFails
  <2>3. Appendable(start, whole, sound)
    BY <2>1, <2>2 DEF Appendable
  <2>. QED
    BY <1>5, <2>1, <2>3 DEF AnswerRange, Receives
<1>. QED
  BY <1>2, <1>3, <1>4, <1>5 DEF Answer

\* A body that ends the source completes the .part file.
LEMMA HonestBody == TransferInv /\ HonestInv /\ EndOfBody => HonestInv'
<1> SUFFICES ASSUME TransferInv, HonestInv, EndOfBody,
                    smooth', size' \in {0, SourceSize}, RetryCount > 1
             PROVE  phase' = "published" /\ Whole(final)'
  BY DEF HonestInv
<1>1. /\ phase = "writing" /\ pos = end /\ smooth /\ size' = size
      /\ part \in Contents /\ Beginning(part)
  BY DEF EndOfBody, Publish, AttemptFails, TransferInv, TransferTypeOK, Contained
<1>2. Len(part) = SourceSize
  BY <1>1 DEF HonestInv, TransferInv, Offsets
<1>3. Publish(part)
  BY <1>1, <1>2 DEF EndOfBody, FullyReceived
<1>. QED
  BY <1>1, <1>2, <1>3, FullIsWhole DEF Publish, Whole, Intact

\* Tags leave a whole file whole.
LEMMA HonestRecord == TransferInv /\ HonestInv /\ Record => HonestInv'
<1> SUFFICES ASSUME TransferInv, HonestInv, Record,
                    smooth', size' \in {0, SourceSize}, RetryCount > 1
             PROVE  phase' = "idle" /\ status' = "completed" /\ Whole(final)'
  BY DEF HonestInv
<1>1. Whole(final) /\ final \in Contents
  BY DEF Record, HonestInv, TransferInv, TransferTypeOK
<1>2. Whole(final')
  BY <1>1, TagsKeep DEF Record
<1>. QED
  BY <1>2 DEF Record, AtRest, Whole, Intact

\* No other step begins a transfer that has gone wrong already.
LEMMA HonestStep ==
  ASSUME TransferInv, HonestInv, [Next]_vars
  PROVE  HonestInv'
<1>1. CASE \E listed \in Sizes : Queue(listed) \/ Resume(listed)
  BY <1>1 DEF HonestInv, Queue, Resume
<1>2. CASE AlreadyThere
  <2>1. /\ phase' = "idle" /\ status' = "completed" /\ UNCHANGED <<final, size>>
        /\ size > 0 /\ Len(final) = size
    BY <1>2 DEF AlreadyThere, TransferInv, Listed, transferVars
  <2>2. size = SourceSize => Whole(final)
    BY <2>1, FullIsWhole DEF TransferInv, Contained
  <2>. QED
    BY <2>1, <2>2 DEF HonestInv, Whole, Intact
<1>3. CASE Begin \/ Trim
  BY <1>3 DEF HonestInv, Begin, Trim, StartsAttempt
<1>4. CASE LocalError \/ Break \/ Stop \/ Crash
  BY <1>4 DEF HonestInv, LocalError, Break, Stop, Crash
<1>5. CASE Again
  BY <1>5 DEF HonestInv, Again, StartsAttempt
<1>6. CASE ReceiveByte
  BY <1>6 DEF HonestInv, ReceiveByte
<1>7. CASE UNCHANGED vars
  BY <1>7 DEF vars, fileVars, rowVars, transferVars, HonestInv, Whole, Intact
<1>. QED
  BY <1>1, <1>2, <1>3, <1>4, <1>5, <1>6, <1>7, HonestAnswer, HonestBody, HonestRecord
  DEF Next, Work

\* One transfer with an honest server ends with the whole file, whatever earlier
\* transfers left and at whatever byte they stopped.
THEOREM HonestSuffices == TagsHarmless /\ Spec => []HonestServerSuffices
<1> SUFFICES ASSUME TagsHarmless PROVE Spec => []HonestServerSuffices
  OBVIOUS
<1>1. Init => HonestInv
  BY DEF Init, HonestInv
<1>2. TransferInv /\ [Next]_vars => TransferInv'
  BY StepInv
<1>3. TransferInv /\ HonestInv /\ [Next]_vars => HonestInv'
  BY HonestStep
<1>4. HonestInv => HonestServerSuffices
  BY DEF HonestInv, HonestServerSuffices
<1>. QED
  BY InitInv, <1>1, <1>2, <1>3, <1>4, PTL DEF Spec

-----------------------------------------------------------------------------
(* The refinement.                                                          *)

\* The bytes held, for files as the invariant has them.
LEMMA HeldValue ==
  ASSUME NEW p \in Contents, NEW f \in Contents,
         Beginning(p), Beginning(f) \/ Whole(f)
  PROVE  /\ HeldIn(p, f) \in 0..SourceSize
         /\ Len(p) >= SourceSize \/ Len(f) >= SourceSize => HeldIn(p, f) = SourceSize
<1>1. Len(p) \in Nat /\ Len(f) \in Nat /\ SourceSize \in Nat
  BY TransferAssumption DEF TransferAssumption, Contents
<1>2. Intact(p) /\ Intact(f)
  BY DEF Beginning, Whole
<1>. QED
  BY <1>1, <1>2 DEF HeldIn, Least

\* So before a step, and so after it.
LEMMA HeldBefore ==
  TransferInv =>
    /\ Held \in 0..SourceSize
    /\ Len(part) >= SourceSize \/ Len(final) >= SourceSize => Held = SourceSize
BY HeldValue DEF TransferInv, TransferTypeOK, Contained, Held

LEMMA HeldAfter ==
  TransferInv' =>
    /\ Held' \in 0..SourceSize
    /\ Len(part)' >= SourceSize \/ Len(final)' >= SourceSize => Held' = SourceSize
BY HeldValue DEF TransferInv, TransferTypeOK, Contained, Held

\* A file reported complete is held entirely.
LEMMA CompleteLength == TransferInv /\ Complete => Len(final) >= SourceSize
BY Lengths DEF TransferInv, Recorded, Complete

\* Only these steps change what is reported.
LEMMA ReportingSteps ==
  ASSUME TransferInv, [Next]_vars, Complete' # Complete
  PROVE  \/ \E listed \in Sizes : Queue(listed) \/ Resume(listed)
         \/ AlreadyThere \/ Record
<1>1. phase # "idle" => status # "completed"
  BY DEF TransferInv, Recorded
<1>2. CASE Begin \/ Trim \/ LocalError \/ Again \/ ReceiveByte \/ UNCHANGED vars
  BY <1>1, <1>2 DEF Begin, Trim, LocalError, Again, ReceiveByte, StartsAttempt, vars,
     rowVars, Complete
<1>3. CASE Stop \/ Crash
  BY <1>1, <1>3 DEF Stop, Crash, rowVars, Complete
<1>4. ASSUME NEW p, NEW f, AttemptFails(p, f), phase # "idle" PROVE FALSE
  <2>1. status' \in {"paused", "failed"} \/ status' = status
    BY <1>4 DEF AttemptFails, rowVars
  <2>. QED
    BY <1>1, <1>4, <2>1 DEF Complete
<1>5. CASE AnswerError \/ EndOfBody \/ Break
  <2>1. phase # "idle"
    BY <1>5 DEF AnswerError, EndOfBody, Break
  <2>2. AttemptFails(part, final) \/ Publish(part)
    BY <1>5 DEF AnswerError, EndOfBody, Break
  <2>. QED
    BY <1>1, <1>4, <2>1, <2>2 DEF Publish, rowVars, Complete
<1>6. ASSUME Reset, phase # "idle" PROVE FALSE
  BY <1>1, <1>4, <1>6 DEF Reset, rowVars, Complete
<1>7. CASE AnswerUnsatisfiable
  BY <1>1, <1>6, <1>7 DEF AnswerUnsatisfiable, Publish, rowVars, Complete
<1>8. ASSUME NEW last \in 0..SourceSize, AnswerWhole(last) PROVE FALSE
  BY <1>1, <1>8 DEF AnswerWhole, Receives, rowVars, Complete
<1>9. ASSUME NEW start, NEW last, NEW whole, NEW sound, AnswerRange(start, last, whole, sound)
      PROVE  FALSE
  BY <1>1, <1>6, <1>9 DEF AnswerRange, Receives, rowVars, Complete
<1>. QED
  BY <1>2, <1>3, <1>5, <1>7, <1>8, <1>9 DEF Next, Work, Answer

\* They change it only over the whole source, and lose none of it.
LEMMA ReportedWhole ==
  ASSUME TransferInv, TransferInv', TagsHarmless, [Next]_vars, Complete' # Complete
  PROVE  Held = SourceSize /\ Held' = SourceSize
<1>. USE HeldBefore, HeldAfter, Lengths
<1>0. SourceSize \in Nat \ {0}
  OBVIOUS
<1>1. ASSUME NEW listed \in Sizes, Queue(listed) PROVE Held = SourceSize /\ Held' = SourceSize
  <2>1. UNCHANGED <<final, part>> /\ (Complete' => Len(final) = SourceSize)
    BY <1>1 DEF Queue, fileVars, Complete
  <2>. QED
    BY <2>1, CompleteLength DEF Complete
<1>2. ASSUME NEW listed \in Sizes, Resume(listed) PROVE Held = SourceSize /\ Held' = SourceSize
  <2>1. PICK expected :
          \/ UNCHANGED <<status, total>>
          \/ UNCHANGED <<final, part>> /\ status' # "completed"
          \/ Len(final) = expected /\ total' = expected /\ UNCHANGED final
          \/ /\ Len(part) = expected /\ total' = expected
             /\ expected > 0 /\ ~(Len(final) > expected) /\ final' = part
    <3>. WITNESS Expected(listed)
    <3>. QED
      BY <1>2 DEF Resume, Judged, Oversized, rowVars, fileVars
  <2>2. ~UNCHANGED <<status, total>>
    BY DEF Complete
  <2>3. CASE UNCHANGED <<final, part>> /\ status' # "completed"
    BY <2>3, CompleteLength DEF Complete
  <2>4. CASE Len(final) = expected /\ total' = expected /\ UNCHANGED final
    BY <2>4, CompleteLength DEF Complete
  <2>5. CASE /\ Len(part) = expected /\ total' = expected
             /\ expected > 0 /\ ~(Len(final) > expected) /\ final' = part
    BY <2>5, CompleteLength DEF Complete
  <2>. QED
    BY <2>1, <2>2, <2>3, <2>4, <2>5
<1>3. ASSUME AlreadyThere PROVE Held = SourceSize /\ Held' = SourceSize
  <2>1. UNCHANGED final /\ total' = Len(final)
    BY <1>3 DEF AlreadyThere
  <2>. QED
    BY <2>1, CompleteLength DEF Complete
<1>4. ASSUME Record PROVE Held = SourceSize /\ Held' = SourceSize
  <2>1. Complete' /\ total' = SourceSize
    BY <1>4 DEF TransferInv, Recorded, Record, Complete
  <2>2. Len(final)' >= SourceSize
    BY <2>1 DEF TransferInv, Recorded, Complete, TransferTypeOK, Contents
  <2>3. Len(final) >= SourceSize
    <3>1. CASE size > 0
      BY <1>4, <2>1, <3>1 DEF Record, TransferInv, Published
    <3>2. CASE size = 0
      <4>1. TagLength = 0
        BY <1>4, <3>2 DEF TagsHarmless, TransferInv, Listed, Record
      <4>2. Len(final') = Len(final)
        BY <1>4, <4>1, TagsAppend DEF Record, TransferInv, TransferTypeOK
      <4>. QED
        BY <1>4, <2>1, <3>2, <4>2 DEF Record
    <3>. QED
      BY <3>1, <3>2
  <2>. QED
    BY <2>2, <2>3
<1>. QED
  BY ReportingSteps, <1>1, <1>2, <1>3, <1>4

\* Every step of a transfer is a step of the abstract download or none.
LEMMA StepRefines ==
  ASSUME TransferInv, TransferInv', TagsHarmless, [Next]_vars
  PROVE  [Verified!Next]_<<Held, Complete>>
<1>1. Held \in 0..SourceSize /\ Held' \in 0..SourceSize /\ SourceSize \in Nat
  BY HeldBefore, HeldAfter, Lengths
<1>2. Complete \in BOOLEAN /\ Complete' \in BOOLEAN
  BY DEF Complete
<1>3. CASE Complete' # Complete
  <2>1. Held = SourceSize /\ Held' = SourceSize
    BY <1>3, ReportedWhole
  <2>. QED
    BY <1>2, <1>3, <2>1 DEF Verified!Next, Verified!Report, Verified!Withdraw
<1>4. CASE Complete' = Complete
  <2>1. CASE Complete
    <3>1. Held = SourceSize
      BY <2>1, CompleteLength, HeldBefore
    <3>2. Held' = SourceSize
      <4>1. status' = "completed" /\ total' = SourceSize
        BY <1>4, <2>1 DEF Complete
      <4>2. Len(final)' >= SourceSize
        BY <4>1, Lengths DEF TransferInv, Recorded, TransferTypeOK, Contents
      <4>. QED
        BY <4>2, HeldAfter
    <3>. QED
      BY <1>4, <3>1, <3>2
  <2>2. CASE ~Complete /\ Held' > Held
    BY <1>1, <1>4, <2>2 DEF Verified!Next, Verified!Gain
  <2>3. CASE ~Complete /\ Held' < Held
    BY <1>1, <1>4, <2>3 DEF Verified!Next, Verified!GiveUp
  <2>4. CASE Held' = Held
    BY <1>4, <2>4
  <2>. QED
    BY <1>1, <2>1, <2>2, <2>3, <2>4
<1>. QED
  BY <1>3, <1>4

\* download_file, its retries, its interruptions and the judgements of resume and
\* of queueing implement the abstract download of a file.
THEOREM Refinement == TagsHarmless /\ Spec => ImplementsVerifiedFile
<1> SUFFICES ASSUME TagsHarmless PROVE Spec => ImplementsVerifiedFile
  OBVIOUS
<1>1. Init => Verified!Init
  BY InitInv, HeldBefore DEF Init, Verified!Init, Complete
<1>2. TransferInv /\ [Next]_vars => TransferInv'
  BY StepInv
<1>3. TransferInv /\ TransferInv' /\ [Next]_vars => [Verified!Next]_<<Held, Complete>>
  BY StepRefines
<1>. QED
  BY InitInv, <1>1, <1>2, <1>3, PTL DEF Spec, ImplementsVerifiedFile, Verified!Spec
===============================================================================
